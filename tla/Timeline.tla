------------------------------ MODULE Timeline ------------------------------
(***************************************************************************)
(* The time line of one animation that is not a group: the application     *)
(* runs, stops, pauses, resumes and reconfigures it through the API of     *)
(* src/animation.c while the timer of src/schedular.c keeps updating it.   *)
(*                                                                         *)
(* An update is not atomic.  __mgeffanimation_setcurrenttime computes the  *)
(* time and the total time, hands control to the application (setProperty  *)
(* and curloopchanged_cb), and only then decides with the values it        *)
(* remembers whether the animation is over.  The application may call the  *)
(* API in between; pc says whether control is there.                       *)
(*                                                                         *)
(* Time is counted from the present: the clock always reads 0, and a tick  *)
(* makes every stored timestamp older by one.                              *)
(***************************************************************************)
EXTENDS Animation, FiniteSets

CONSTANTS
    Durations,      \* durations the application sets
    Loopcounts,     \* loop counts the application sets (INFINITE included or not)
    Turns,          \* directions the application sets
    Keepalive,      \* values of keepalive the application sets
    MainCalls,      \* calls made from the main loop
    CallbackCalls,  \* calls made from the callbacks of an update
    MaxLag,         \* bound: the timer fires at least every MaxLag ticks
    MaxTime         \* bound: an endless animation is followed up to this time

Calls == {"AsyncRun", "Stop", "Pause", "Resume",
          "SetDirection", "SetLoopcount", "SetDuration", "SetKeepalive"}

ASSUME DurationsAssumption == Durations \subseteq Nat \ {0} /\ Durations # {}
ASSUME LoopcountsAssumption ==
    /\ Loopcounts \subseteq (Nat \ {0}) \cup {INFINITE}
    /\ Loopcounts # {}
ASSUME ChoicesAssumption ==
    /\ Turns \subseteq Directions
    /\ Keepalive \subseteq BOOLEAN
    /\ MainCalls \subseteq Calls
    /\ CallbackCalls \subseteq Calls
ASSUME BoundsAssumption == MaxLag \in Nat \ {0} /\ MaxTime \in Nat

VARIABLES
    anim,     \* the animation
    place,    \* "unlisted", "listed" by the schedular, or "freed"
    pc,       \* "idle", or "callback" inside an update
    local,    \* local variables of the update: oldloop, total_time, time
    quiet,    \* the application makes no more calls
    seen      \* history: what an observer of the current run knows

vars == <<anim, place, pc, local, quiet, seen>>

(***************************************************************************)
(* The observer's stopwatch counts the ticks of the current run in which   *)
(* the animation was RUNNING (up to Horizon).  "exact" is lost when the    *)
(* run is paused or restarted before its end, "even" when a property that  *)
(* the time line depends on is changed, and the stopwatch is of no use any *)
(* more; "loopcbs" counts the calls of curloopchanged_cb while "firstrun". *)
(***************************************************************************)
Horizon == MaxTime + MaxLag
Saturate(n) == IF n > Horizon THEN Horizon ELSE n

NewRun(first) ==
    [elapsed |-> 0, exact |-> TRUE, even |-> TRUE, loopcbs |-> 0, firstrun |-> first]

NoLocal == [oldloop |-> 0, total |-> 0, time |-> 0]

Over(a) == a.state \in {"STOPPED", "REMOVE"}
-----------------------------------------------------------------------------
Init ==
    /\ \E d \in Durations, n \in Loopcounts, k \in Keepalive :
          anim = [Fresh(d, 0) EXCEPT !.loopcount = n, !.keepalive = k]
    /\ place = "unlisted"
    /\ pc = "idle"
    /\ local = NoLocal
    /\ quiet = FALSE
    /\ seen = NewRun(TRUE)

(***************************************************************************)
(* The calls of the application.  Each is the whole API function: the test *)
(* it begins with, and the internal function it applies.                   *)
(***************************************************************************)
Enabled(call) ==
    /\ ~quiet
    /\ place # "freed"
    /\ call \in (IF pc = "idle" THEN MainCalls ELSE CallbackCalls)
    /\ UNCHANGED <<pc, local, quiet>>

Disturb(exact, even) ==
    seen' = [seen EXCEPT !.exact = @ /\ exact,
                         !.even = @ /\ even,
                         !.elapsed = IF even THEN @ ELSE 0]

AsyncRun ==
    /\ Enabled("AsyncRun")
    /\ anim' = Start(anim)
    /\ place' = "listed"
    /\ IF Over(anim)
       THEN seen' = NewRun(place = "unlisted" /\ anim.currentloop = 0 /\ anim.direction = "FORWARD")
       ELSE Disturb(anim.state = "READY", TRUE)

StopCall ==
    /\ Enabled("Stop")
    /\ anim' = Stop(anim)
    /\ UNCHANGED <<place, seen>>

Pause ==
    /\ Enabled("Pause")
    /\ anim.state # "PAUSED"
    /\ anim' = Paused(anim)
    /\ UNCHANGED place
    /\ Disturb(anim.state # "RUNNING", TRUE)

ResumeCall ==
    /\ Enabled("Resume")
    /\ anim' = Resume(anim)
    /\ UNCHANGED <<place, seen>>

SetDirection ==
    /\ Enabled("SetDirection")
    /\ \E d \in Turns \ {anim.direction} :
          /\ anim' = [anim EXCEPT !.direction = d]
          /\ seen' = [seen EXCEPT !.even = @ /\ Over(anim),
                                  !.elapsed = IF Over(anim) THEN @ ELSE 0,
                                  !.firstrun = @ /\ place = "unlisted"]
    /\ UNCHANGED place

SetLoopcount ==
    /\ Enabled("SetLoopcount")
    /\ \E n \in Loopcounts : anim' = [anim EXCEPT !.loopcount = n]
    /\ UNCHANGED place
    /\ Disturb(TRUE, Over(anim))

SetDuration ==
    /\ Enabled("SetDuration")
    /\ \E d \in Durations : anim' = [anim EXCEPT !.duration = d]
    /\ UNCHANGED place
    /\ Disturb(TRUE, Over(anim))

SetKeepalive ==
    /\ Enabled("SetKeepalive")
    /\ \E k \in Keepalive : anim' = [anim EXCEPT !.keepalive = k]
    /\ UNCHANGED <<place, seen>>

UserCall ==
    \/ AsyncRun \/ StopCall \/ Pause \/ ResumeCall
    \/ SetDirection \/ SetLoopcount \/ SetDuration \/ SetKeepalive

(* The application leaves the animation alone from here on. *)
LeaveAlone ==
    /\ ~quiet
    /\ quiet' = TRUE
    /\ UNCHANGED <<anim, place, pc, local, seen>>

(***************************************************************************)
(* A pass of the timer over the list that contains this animation:         *)
(* __mgeffschedular_one_step, by the state it finds.  A PAUSED animation   *)
(* is skipped.                                                             *)
(***************************************************************************)
BeginUpdate(a) ==
    LET b == Advance(a, 0)
    IN  /\ b.currenttime \in -MaxTime..MaxTime
        /\ anim' = b
        /\ pc' = "callback"
        /\ local' = [oldloop |-> a.currentloop, total |-> TotalTime(b), time |-> ShownTime(b)]
        /\ UNCHANGED <<place, quiet, seen>>

PassRunning == pc = "idle" /\ place = "listed" /\ anim.state = "RUNNING" /\ BeginUpdate(anim)
PassReady   == pc = "idle" /\ place = "listed" /\ anim.state = "READY" /\ BeginUpdate(SetStart(anim, 0))

FinishUpdate ==
    /\ pc = "callback"
    /\ pc' = "idle"
    /\ anim' = EndUpdate(anim, local.total)
    /\ seen' = [seen EXCEPT !.loopcbs =
                    IF seen.firstrun /\ LoopChanged(anim, local.oldloop) THEN Saturate(@ + 1) ELSE @]
    /\ local' = NoLocal
    /\ UNCHANGED <<place, quiet>>

PassStopped ==
    /\ pc = "idle" /\ place = "listed" /\ anim.state = "STOPPED"
    /\ place' = "unlisted"
    /\ UNCHANGED <<anim, pc, local, quiet, seen>>

PassRemove ==
    /\ pc = "idle" /\ place = "listed" /\ anim.state = "REMOVE"
    /\ place' = "freed"
    /\ UNCHANGED <<anim, pc, local, quiet, seen>>

Pass == PassRunning \/ PassReady \/ FinishUpdate \/ PassStopped \/ PassRemove

(***************************************************************************)
(* The clock (eff_time, external) goes on, also while a callback runs: the *)
(* pass has read it before.  A timestamp older than MaxLag is not          *)
(* distinguished from one that is MaxLag old.                              *)
(***************************************************************************)
Tick ==
    /\ place = "listed"
    /\ anim.state = "RUNNING" => anim.lasttime > -MaxLag
    /\ anim' = [anim EXCEPT !.lasttime = IF @ > -MaxLag THEN @ - 1 ELSE @]
    /\ seen' = [seen EXCEPT !.elapsed = IF anim.state = "RUNNING" /\ seen.even THEN Saturate(@ + 1) ELSE @]
    /\ UNCHANGED <<place, pc, local, quiet>>

Next == UserCall \/ LeaveAlone \/ Pass \/ Tick

(* The clock ticks, the timer fires (external: MiniGUI's 20 ms timer), and *)
(* callbacks return.  Nothing is assumed of the application.               *)
Fairness == WF_vars(Tick) /\ WF_vars(Pass)

Spec == Init /\ [][Next]_vars /\ Fairness
-----------------------------------------------------------------------------
TypeOK ==
    /\ anim \in AnimationType
    /\ place \in {"unlisted", "listed", "freed"}
    /\ pc \in {"idle", "callback"}
    /\ local \in [oldloop: Int, total: Int, time: Int]
    /\ quiet \in BOOLEAN
    /\ seen \in [elapsed: 0..Horizon, exact: BOOLEAN, even: BOOLEAN,
                 loopcbs: 0..Horizon, firstrun: BOOLEAN]

(* How far the animation has come from the end it started at. *)
Progress == IF anim.direction = "FORWARD" THEN anim.currenttime
            ELSE TotalTime(anim) - anim.currenttime

(***************************************************************************)
(* The time handed to updateValue lies within one duration, so that        *)
(* progress is in [0, 1] and the value handed to setProperty is between    *)
(* startvalue and endvalue (mgeff-animation.h:188).  It must survive every *)
(* reconfiguration of a running animation.                                 *)
(***************************************************************************)
ShownInRange ==
    [][(pc = "idle" /\ pc' = "callback") => local'.time \in 0..anim'.duration]_vars

(***************************************************************************)
(* Updates neither lose nor invent time: while an undisturbed run is going *)
(* on, its progress is exactly the time it has been running, less what has *)
(* passed since the last update (setstart, getdelta and the clamp).        *)
(***************************************************************************)
NoDrift ==
    (pc = "idle" /\ anim.state = "RUNNING" /\ seen.exact /\ seen.even /\ anim.loopcount # INFINITE)
       => Progress = seen.elapsed + anim.lasttime

(***************************************************************************)
(* Pausing, resuming and re-running never make an animation jump ahead:    *)
(* its progress is never more than the time it was RUNNING.  The time      *)
(* between pause and resume must not be charged (setstart refreshes        *)
(* lasttime on every way from READY to RUNNING).                           *)
(***************************************************************************)
NeverAhead ==
    (seen.even /\ ~Over(anim) /\ anim.loopcount # INFINITE) => Progress <= seen.elapsed

(***************************************************************************)
(* Over the first run, curloopchanged_cb is called once per loop, so that  *)
(* the number of calls always is the current loop (the test                *)
(* test_animation_loopcount counts them).                                  *)
(***************************************************************************)
LoopCallbacksMatch ==
    (pc = "idle" /\ seen.firstrun /\ seen.even /\ anim.direction = "FORWARD")
       => seen.loopcbs = anim.currentloop

(***************************************************************************)
(* finished_cb is called at most once in a run, whoever ends it and        *)
(* whenever: the end of the time line, Stop from the main loop or Stop     *)
(* from a callback of the very update that reaches the end.                *)
(***************************************************************************)
FinishedOnce == anim.finished <= 1

(***************************************************************************)
(* An animation that is not kept alive is freed by the schedular only      *)
(* after its finished_cb has been called, and called once.                 *)
(***************************************************************************)
FreedAfterFinish ==
    [][(place # "freed" /\ place' = "freed") => anim.finished = 1]_vars

(***************************************************************************)
(* When an update (and not Stop) ends an undisturbed run, the last value   *)
(* shown was the one at the far end: nothing finishes early or without     *)
(* showing its end value.                                                  *)
(***************************************************************************)
FarEnd == IF anim.direction = "FORWARD" THEN anim.duration ELSE 0

EndsAtFarEnd ==
    [][(FinishUpdate /\ seen.even /\ ~Over(anim) /\ Over(anim)') => local.time = FarEnd]_vars

(***************************************************************************)
(* An animation with finitely many loops that is started and then left     *)
(* alone comes to its end and leaves the schedular's list, which is what   *)
(* mGEffAnimationWait and mGEffAnimationSyncRun wait for.                  *)
(***************************************************************************)
LeftAloneEnds ==
    (quiet /\ place = "listed" /\ anim.state # "PAUSED") ~> (place # "listed")
=============================================================================
