-------------------------------- MODULE Group --------------------------------
(***************************************************************************)
(* A group of animations (src/animationgroup.c) under the timer and the    *)
(* API.  A pass updates the group, the group updates its children, all of  *)
(* them if it is parallel, the first that is not over if it is sequential, *)
(* and each update of a child calls the application back twice: in         *)
(* setProperty, and in finished_cb if the child has come to its end.  The  *)
(* scan of the children goes on afterwards with what it knew before.       *)
(*                                                                         *)
(* The clock goes on during a pass: the group starts a child with the time *)
(* it reads then (eff_time()) and updates it with the time the pass began. *)
(*                                                                         *)
(* The children are animations, not groups, and run forward.  Of the group *)
(* itself only state and loopcount matter: its own currenttime decides     *)
(* nothing but its curloopchanged_cb, and is left out.                     *)
(***************************************************************************)
EXTENDS Animation, Sequences

CONSTANTS
    Kinds,          \* kinds of groups the application creates
    Durations,      \* durations of the children
    Loopcounts,     \* loop counts the application sets for the group
    MainCalls,      \* calls made from the main loop
    CallbackCalls,  \* calls made from callbacks, for each kind of group
    MaxKids,        \* bound on the number of children
    MaxCalls,       \* bound on the calls the application makes after adding them
    MaxLag,         \* bound: the timer fires at least every MaxLag ticks
    MaxDrift,       \* bound: ticks that a pass may last
    MaxRounds       \* bound: rounds that the observer counts

Calls == {"AddToGroup", "AsyncRun", "Stop", "Pause", "Resume", "SetLoopcount", "StopKid"}

ASSUME KindsAssumption == Kinds \subseteq {"PARALLEL", "SEQUENTIAL"} /\ Kinds # {}
ASSUME ChildrenAssumption ==
    /\ Durations \subseteq Nat \ {0}
    /\ \E longest \in Durations : \A d \in Durations : d <= longest
    /\ Loopcounts \subseteq (Nat \ {0}) \cup {INFINITE}
ASSUME CallsAssumption ==
    /\ MainCalls \subseteq Calls
    /\ CallbackCalls \in [Kinds -> SUBSET Calls]
ASSUME BoundsAssumption ==
    /\ MaxKids \in Nat /\ MaxCalls \in Nat
    /\ MaxLag \in Nat \ {0}
    /\ MaxDrift \in 0..MaxLag
    /\ MaxRounds \in Nat \ {0, 1}
    /\ \A n \in Loopcounts : n < MaxRounds

VARIABLES
    kind,    \* EffAnimation.animationtype of the group
    grp,     \* the group, as an animation
    kids,    \* EffAnimationGroup.animation_list
    listed,  \* the group is on the schedular's list
    lag,     \* ticks since the last pass read the clock
    pc,      \* "idle", "scan" between two children, or in the callbacks of
             \* one: "show" (setProperty) and "report" (finished_cb)
    pos,     \* the child that the scan has come to
    found,   \* find_running_one
    total,   \* total_time of the child that is updated
    calls,   \* number of calls the application has made
    seen     \* history: what an observer of the group's run knows

vars == <<kind, grp, kids, listed, lag, pc, pos, found, total, calls, seen>>

Kids == DOMAIN kids
Over(a) == a.state \in {"STOPPED", "REMOVE"}
Active(a) == a.state \in {"READY", "RUNNING"}
-----------------------------------------------------------------------------
(***************************************************************************)
(* The observer has a stopwatch for every child, which shows how long the  *)
(* child has been RUNNING since it last began (up to Horizon), and knows   *)
(* how often it ended since the group was run.  "repeated": begun by the   *)
(* repetition of a parallel group, not by setstart.  "asked" is the loop   *)
(* count that was set for this run; "even": it was, and nothing but time   *)
(* has ended or begun anything since.                                      *)
(***************************************************************************)
MaxDuration == CHOOSE d \in Durations : \A e \in Durations : e <= d
Horizon == MaxDuration + MaxLag
UpTo(n, bound) == IF n > bound THEN bound ELSE n

NewKid == [elapsed |-> 0, repeated |-> FALSE, ended |-> 0]

(* What the observer knows of a child that was a and is b now; what no     *)
(* property asks for any more is forgotten.                                *)
KidSeen(k, a, b) ==
    LET begins == a.state = "STOPPED" /\ b.state # "STOPPED"
    IN  [elapsed |-> IF begins \/ Over(b) THEN 0 ELSE k.elapsed,
         repeated |-> ~Over(b) /\ (IF begins THEN b.state = "RUNNING" ELSE k.repeated),
         ended |-> IF ~Over(a) /\ Over(b) THEN UpTo(k.ended + 1, MaxRounds) ELSE k.ended]

(* A tick of the stopwatch. *)
Watched(k, a) == [k EXCEPT !.elapsed = IF a.state = "RUNNING" THEN UpTo(@ + 1, Horizon) ELSE @]

KidsSeen(newkids) == [i \in Kids |-> KidSeen(seen.kids[i], kids[i], newkids[i])]

(* The children become newkids; the observer's run is still even, or not.  *)
KidsBecome(newkids, even) ==
    /\ kids' = newkids
    /\ seen' = IF seen.even /\ even
               THEN [seen EXCEPT !.kids = KidsSeen(newkids)]
               ELSE [seen EXCEPT !.even = FALSE,
                                 !.kids = [i \in Kids |-> [KidsSeen(newkids)[i] EXCEPT !.ended = 0]]]
-----------------------------------------------------------------------------
(* mGEffAnimationCreateGroup *)
Init ==
    /\ kind \in Kinds
    /\ grp = Fresh(1, 0)
    /\ kids = << >>
    /\ listed = FALSE
    /\ lag = 0
    /\ pc = "idle" /\ pos = 1 /\ found = FALSE /\ total = 0
    /\ calls = 0
    /\ seen = [kids |-> << >>, asked |-> 1, even |-> TRUE]

InCallback == pc \in {"show", "report"}

Enabled(call) ==
    /\ \/ pc = "idle" /\ call \in MainCalls
       \/ InCallback /\ call \in CallbackCalls[kind]
    /\ IF call = "AddToGroup" THEN UNCHANGED calls ELSE calls < MaxCalls /\ calls' = calls + 1
    /\ UNCHANGED <<kind, lag, pc, pos, found, total>>

(* The child is appended, and started. *)
AddToGroup ==
    /\ Enabled("AddToGroup")
    /\ Len(kids) < MaxKids
    /\ \E d \in Durations : kids' = Append(kids, Start(Fresh(d, 0)))
    /\ seen' = [seen EXCEPT !.kids = Append(@, NewKid), !.even = @ /\ Over(grp)]
    /\ UNCHANGED <<grp, listed>>

(* effanimation_recursion: the children first, then the group. *)
AsyncRun ==
    /\ Enabled("AsyncRun")
    /\ grp' = Start(grp)
    /\ kids' = [i \in Kids |-> Start(kids[i])]
    /\ listed' = TRUE
    /\ LET now == KidsSeen([i \in Kids |-> Start(kids[i])])
       IN  seen' = IF Over(grp)
                   THEN [seen EXCEPT !.kids = [i \in Kids |-> [now[i] EXCEPT !.ended = 0]],
                                     !.even = /\ pc = "idle"
                                              /\ seen.asked = grp.loopcount
                                              /\ \A i \in Kids : ~kids[i].state = "RUNNING"]
                   ELSE [seen EXCEPT !.kids = now, !.even = FALSE]

(* Stop is the one call that does nothing to the children. *)
StopCall ==
    /\ Enabled("Stop")
    /\ grp' = Stop(grp)
    /\ UNCHANGED <<kids, listed, seen>>

Pause ==
    /\ Enabled("Pause")
    /\ grp.state # "PAUSED"
    /\ grp' = Paused(grp)
    /\ KidsBecome([i \in Kids |-> Paused(kids[i])], TRUE)
    /\ UNCHANGED listed

ResumeCall ==
    /\ Enabled("Resume")
    /\ grp.state = "PAUSED"
    /\ grp' = Resume(grp)
    /\ KidsBecome([i \in Kids |-> Resume(kids[i])], TRUE)
    /\ UNCHANGED listed

SetLoopcount ==
    /\ Enabled("SetLoopcount")
    /\ \E n \in Loopcounts :
          /\ grp' = [grp EXCEPT !.loopcount = n]
          /\ seen' = [seen EXCEPT !.asked = n, !.even = @ /\ Over(grp)]
    /\ UNCHANGED <<kids, listed>>

(* mGEffAnimationStop of a child. *)
StopKid ==
    /\ Enabled("StopKid")
    /\ \E i \in Kids : KidsBecome([kids EXCEPT ![i] = Stop(@)], FALSE)
    /\ UNCHANGED <<grp, listed>>

UserCall ==
    \/ AddToGroup \/ AsyncRun \/ StopCall \/ Pause \/ ResumeCall \/ SetLoopcount \/ StopKid

-----------------------------------------------------------------------------
(***************************************************************************)
(* A pass that finds the group READY or RUNNING.  setstart of a parallel   *)
(* group starts the children that are READY, with the time of the pass.    *)
(***************************************************************************)
BeginScan ==
    /\ pc' = "scan" /\ lag' = 0
    /\ UNCHANGED <<kind, listed, pos, found, total, calls>>

(* The update returns; its locals are gone. *)
ScanReturns == pc' = "idle" /\ pos' = 1 /\ found' = FALSE /\ total' = 0

PassRunning ==
    /\ pc = "idle" /\ listed /\ grp.state = "RUNNING"
    /\ BeginScan
    /\ UNCHANGED <<grp, kids, seen>>

PassReady ==
    /\ pc = "idle" /\ listed /\ grp.state = "READY"
    /\ BeginScan
    /\ grp' = SetStart(grp, 0)
    /\ KidsBecome(IF kind = "PARALLEL" THEN [i \in Kids |-> SetStart(kids[i], 0)] ELSE kids, TRUE)

(* Mutated: the group stays listed. *)
PassStopped_Keeps ==
    /\ pc = "idle" /\ listed /\ Over(grp)
    /\ UNCHANGED <<kind, grp, kids, listed, lag, pc, pos, found, total, calls, seen>>

PassStopped ==
    /\ pc = "idle" /\ listed /\ Over(grp)
    /\ listed' = FALSE
    /\ UNCHANGED <<kind, grp, kids, lag, pc, pos, found, total, calls, seen>>

(* Mutated: a sequential group goes through its children from the last. *)
IsNext_Backward(i) ==
    i >= pos /\ Active(kids[i]) /\ \A j \in Kids : j > i => ~Active(kids[j])

(* The next child that the scan does something with. *)
IsNext(i) == i >= pos /\ Active(kids[i]) /\ \A j \in Kids : j \in pos..(i - 1) => ~Active(kids[j])

(***************************************************************************)
(* A child is started with the time it is now, if it is READY, and updated *)
(* with the time it was when the pass began.                               *)
(***************************************************************************)
UpdateKid ==
    /\ pc = "scan"
    /\ \E i \in Kids :
          /\ IsNext(i)
          /\ LET b == Advance(SetStart(kids[i], 0), -lag)
             IN  /\ KidsBecome([kids EXCEPT ![i] = b], TRUE)
                 /\ total' = TotalTime(b)
          /\ pos' = i
    /\ pc' = "show"
    /\ UNCHANGED <<kind, grp, listed, lag, found, calls>>

(* Back from the child: a parallel group goes on to the next one. *)
GoOn(kid) ==
    IF kind = "PARALLEL"
    THEN pc' = "scan" /\ pos' = pos + 1 /\ found' = (found \/ kid.state = "RUNNING") /\ total' = 0
    ELSE ScanReturns

KidUpdated ==
    /\ pc = "show"
    /\ LET b == EndUpdate(kids[pos], total)
       IN  /\ KidsBecome([kids EXCEPT ![pos] = b], TRUE)
           /\ IF b.state # kids[pos].state
              THEN pc' = "report" /\ UNCHANGED <<pos, found, total>>
              ELSE GoOn(b)
    /\ UNCHANGED <<kind, grp, listed, lag, calls>>

KidReported ==
    /\ pc = "report"
    /\ GoOn(kids[pos])
    /\ UNCHANGED <<kind, grp, kids, listed, lag, calls, seen>>

(***************************************************************************)
(* The scan comes to its end.  If no child runs any more this was a loop   *)
(* of the group, the last one or not.                                      *)
(***************************************************************************)
(* Mutated: off by one, the last loop is not run. *)
CountDown_Early(a) ==
    LET b == [a EXCEPT !.loopcount = IF @ > 0 THEN @ - 1 ELSE @]
    IN  IF b.loopcount \in {0, 1} THEN SetState(b, "STOPPED") ELSE b

CountDown(a) ==
    LET b == [a EXCEPT !.loopcount = IF @ > 0 THEN @ - 1 ELSE @]
    IN  IF b.loopcount = 0 THEN SetState(b, "STOPPED") ELSE b

Repeated(a) ==
    IF kind = "PARALLEL" THEN SetState(Restart(a), "RUNNING") ELSE Restart(a)

(* Mutated: only RUNNING children are looked for. *)
ScanOver_Running == pc = "scan" /\ \A i \in Kids : i >= pos => kids[i].state # "RUNNING"
ScanOver == pc = "scan" /\ \A i \in Kids : i >= pos => ~Active(kids[i])

EndScan ==
    /\ ScanOver
    /\ IF found
       THEN UNCHANGED <<grp, kids, seen>>
       ELSE /\ grp' = CountDown(grp)
            /\ KidsBecome(IF grp'.loopcount = 0 THEN kids ELSE [i \in Kids |-> Repeated(kids[i])], TRUE)
    /\ ScanReturns
    /\ UNCHANGED <<kind, listed, lag, calls>>

Pass ==
    \/ PassRunning \/ PassReady \/ PassStopped
    \/ UpdateKid \/ KidUpdated \/ KidReported \/ EndScan

(* The clock (eff_time, external). *)
Older(a) == [a EXCEPT !.lasttime = IF @ > -Horizon THEN @ - 1 ELSE @]

Tick ==
    /\ listed
    /\ lag < (IF pc = "idle" THEN MaxLag ELSE MaxDrift)
    /\ lag' = lag + 1
    /\ kids' = [i \in Kids |-> Older(kids[i])]
    /\ seen' = [seen EXCEPT !.kids = [i \in Kids |-> Watched(seen.kids[i], kids[i])]]
    /\ UNCHANGED <<kind, grp, listed, pc, pos, found, total, calls>>

Next == UserCall \/ Pass \/ Tick

(* The clock ticks, the timer fires, callbacks return. *)
Spec == Init /\ [][Next]_vars /\ WF_vars(Pass) /\ WF_vars(Tick)
-----------------------------------------------------------------------------
TypeOK ==
    /\ kind \in Kinds
    /\ grp \in AnimationType
    /\ kids \in Seq(AnimationType)
    /\ Len(kids) <= MaxKids
    /\ listed \in BOOLEAN /\ found \in BOOLEAN
    /\ calls \in 0..MaxCalls
    /\ lag \in 0..MaxLag
    /\ pc \in {"idle", "scan", "show", "report"}
    /\ pos \in 1..(MaxKids + 1)
    /\ pc \in {"show", "report"} => pos \in Kids
    /\ total \in Nat
    /\ seen.kids \in [Kids -> [elapsed: 0..Horizon, repeated: BOOLEAN, ended: 0..MaxRounds]]
    /\ seen.asked \in Int /\ seen.even \in BOOLEAN

(***************************************************************************)
(* A sequential group runs its children one at a time and in their order,  *)
(* whatever is stopped, paused, resumed, run again or added meanwhile:     *)
(* before a child that has begun, every child is over.                     *)
(***************************************************************************)
InOrder ==
    kind = "SEQUENTIAL" =>
        \A i, j \in Kids :
            (i < j /\ kids[j].state \in {"RUNNING", "PAUSED"}) => Over(kids[i])

(***************************************************************************)
(* A child never is further on its time line than the time it has been     *)
(* RUNNING: neither the time it waited for its turn nor a pause of the     *)
(* group is charged to it.  (Repetitions of a parallel group are left to   *)
(* KidsTakeTheirTime.)                                                     *)
(***************************************************************************)
KidsNotAhead ==
    \A i \in Kids :
        (~Over(kids[i]) /\ ~seen.kids[i].repeated)
           => kids[i].currenttime <= seen.kids[i].elapsed

(***************************************************************************)
(* A group ends by itself only when all its children have come to their    *)
(* end.                                                                    *)
(***************************************************************************)
EndsWithKids ==
    [][(EndScan /\ ~Over(grp) /\ Over(grp)') => \A i \in Kids : Over(kids[i])]_vars

(***************************************************************************)
(* When an undisturbed group ends, each child has run as often as the loop *)
(* count says; an endless group does not end.                              *)
(***************************************************************************)
EveryRound ==
    [][(EndScan /\ ~Over(grp) /\ Over(grp)' /\ seen.even)
         => \A i \in Kids : seen.kids[i].ended = seen.asked]_vars

(***************************************************************************)
(* A group with finitely many loops that is not paused ends and leaves the *)
(* schedular's list.                                                       *)
(***************************************************************************)
GroupEnds == listed ~> (~listed \/ grp.state = "PAUSED" \/ grp.loopcount = INFINITE)

(***************************************************************************)
(* A child of an undisturbed group takes at least its duration (the test   *)
(* test_animation_group_finished measures it).                             *)
(***************************************************************************)
KidsTakeTheirTime ==
    [][\A i \in Kids :
          (KidUpdated /\ seen.even /\ ~Over(kids[i]) /\ Over(kids[i]'))
             => seen.kids[i].elapsed >= kids[i].duration]_vars
=============================================================================
