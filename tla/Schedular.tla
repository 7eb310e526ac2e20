----------------------------- MODULE Schedular -----------------------------
(***************************************************************************)
(* The schedular of src/schedular.c and the calls of src/animation.c that  *)
(* use it, down to every point at which control leaves the library.        *)
(*                                                                         *)
(* mGEff is single threaded, and re-entrant: a pass of the timer over the  *)
(* schedular's list calls back the application (statechanged_cb,           *)
(* setProperty, finished_cb), which may call the API again, which may call *)
(* back again, all while the pass stands in the middle of the list with    *)
(* the address of the next node in a local variable.  The C call stack is  *)
(* therefore part of the state: stack holds one frame for each function    *)
(* that has called out and will go on when the callee returns.             *)
(*                                                                         *)
(* Animations that are not groups; progress is the part of currenttime     *)
(* that matters here: how many of Length steps of its time line a run has  *)
(* made (module Timeline has the arithmetic).                              *)
(***************************************************************************)
EXTENDS Integers, SequencesExt

CONSTANTS
    Animations,   \* the animations the application has created
    ListHead,     \* the head of the schedular's list
    Keepalive,    \* values of keepalive the application sets
    CallsIn,      \* what the application calls in which context
    OwnCallsIn,   \* what a callback calls for the animation it is called for
    Careful,      \* the rules below that the application follows
    Length,       \* steps of a time line
    MaxCalls,     \* bound on the calls the application makes
    MaxDepth      \* bound on the depth at which it makes them

Calls == {"AsyncRun", "SyncRun", "Wait", "Stop", "Pause", "Resume",
          "SetKeepalive", "Delete"}

(* Where the application has control: in its main loop or a message handler*)
(* called by mGEffAnimationWait, or in one of the callbacks.               *)
Contexts == {"main", "changing", "update", "finished"}

(***************************************************************************)
(* Rules no comment states; the code tests for none of them.               *)
(*   stop_once   an animation that is not kept alive is not stopped again  *)
(*               while it waits to be freed, nor in a callback of its own  *)
(*               update, which may go on to end it                         *)
(*   one_change  statechanged_cb does not stop, pause or resume the        *)
(*               animation it is called for                                *)
(***************************************************************************)
Rules == {"stop_once", "one_change"}

States == {"STOPPED", "PAUSED", "RUNNING", "READY", "REMOVE"}

ASSUME HeadAssumption == ListHead \notin Animations
ASSUME KeepaliveAssumption == Keepalive \subseteq BOOLEAN
ASSUME CallsInAssumption ==
    /\ CallsIn \in [Contexts -> SUBSET Calls]
    /\ OwnCallsIn \in [Contexts \ {"main"} -> SUBSET Calls]
ASSUME CarefulAssumption == Careful \subseteq Rules
ASSUME BoundsAssumption == Length \in Nat \ {0} /\ MaxCalls \in Nat /\ MaxDepth \in Nat

VARIABLES
    heap,       \* "live" or "freed"
    state,      \* EffAnimation.state
    keepalive,  \* EffAnimation.keepalive
    progress,   \* EffAnimation.currenttime, in steps of the time line
    list,       \* EffSchedular.animation_list
    stack,      \* the functions of the library that are active
    calls,      \* number of calls the application has made
    owed        \* history: 1 if a run was asked for and its end not reported,
                \* less 1 for each report of an end that nobody waits for

vars == <<heap, state, keepalive, progress, list, stack, calls, owed>>

Nodes == Animations \cup {ListHead}
-----------------------------------------------------------------------------
(***************************************************************************)
(* Frames.  "at" says which function it is and where it goes on:           *)
(*   changing   __mgeffanimation_setstate, in statechanged_cb              *)
(*   finished   __mgeffanimation_setstate, in finished_cb                  *)
(*   visit, started, update, next                                          *)
(*              __mgeffschedular_one_step at node a, with the successor it *)
(*              remembers in nxt and the flag found: about to look at a;   *)
(*              back from setstart; in the callbacks of setcurrenttime;    *)
(*              done with a                                                *)
(*   asyncadd   mGEffAnimationAsyncRun, the animation started              *)
(*   syncadd    mGEffAnimationSyncRun, the animation started               *)
(*   syncloop   __mgeffschedular_sync_run, between two passes              *)
(*   waiting    mGEffAnimationWait, in GetMessage or DispatchMessage       *)
(***************************************************************************)
PassAts == {"visit", "started", "update", "next"}
Ats == PassAts \cup {"changing", "finished", "asyncadd", "syncadd", "syncloop", "waiting"}

(* Only a pass that is about to end stands at the head of the list. *)
FrameType ==
    {f \in [at: Ats, a: Nodes, new: States, nxt: Nodes, found: BOOLEAN] :
        f.a = ListHead => f.at = "visit"}

Frame(at, a) == [at |-> at, a |-> a, new |-> "STOPPED", nxt |-> ListHead, found |-> FALSE]
Changing(a, new) == [Frame("changing", a) EXCEPT !.new = new]

IsPass(frame) == frame.at \in PassAts

Active(at, a) == \E i \in 1..Len(stack) : stack[i].at = at /\ stack[i].a = a

Top == stack[Len(stack)]
TopIs(at) == stack # << >> /\ Top.at = at
GoOn(frame) == [stack EXCEPT ![Len(stack)] = frame]
GoOnAt(at) == GoOn([Top EXCEPT !.at = at])

Listed(a) == \E i \in 1..Len(list) : list[i] = a
IndexOf(a) == CHOOSE i \in 1..Len(list) : list[i] = a
First == IF list = << >> THEN ListHead ELSE list[1]
Successor(a) == IF IndexOf(a) = Len(list) THEN ListHead ELSE list[IndexOf(a) + 1]

Without(a) == IF Listed(a) THEN RemoveAt(list, IndexOf(a)) ELSE list
With(a)    == IF Listed(a) THEN list ELSE Append(list, a)

(* A pass starts at the first node. *)
PassFrame ==
    [Frame("visit", First) EXCEPT !.nxt = IF list = << >> THEN ListHead ELSE Successor(First)]

(* Mutated: a state that is set already is changed to again. *)
SetState_Always(s, a, new) ==
    /\ stack' = Append(s, Changing(a, new))
    /\ progress' = IF state[a] = "STOPPED" /\ new \in {"READY", "RUNNING"}
                   THEN [progress EXCEPT ![a] = 0] ELSE progress

(***************************************************************************)
(* __mgeffanimation_setstate(a, new), called by the function whose frames  *)
(* s ends with: nothing if it is the state already, else the time line is  *)
(* set back if a run begins, and statechanged_cb is called, the state      *)
(* still being the old one.                                                *)
(***************************************************************************)
SetState(s, a, new) ==
    /\ stack' = IF state[a] = new THEN s ELSE Append(s, Changing(a, new))
    /\ progress' = IF state[a] = "STOPPED" /\ new \in {"READY", "RUNNING"}
                   THEN [progress EXCEPT ![a] = 0] ELSE progress

(* Mutated: the variant under "#if 0", only a running animation finishes. *)
Reports_Running(a, new) == new = "STOPPED" /\ state[a] = "RUNNING"
Reports(a, new) == new = "STOPPED"

(* statechanged_cb returns. *)
StateChanged ==
    /\ TopIs("changing")
    /\ LET a == Top.a
           new == Top.new
           asked == /\ new = "READY"
                    /\ Len(stack) > 1
                    /\ stack[Len(stack) - 1].at \in {"asyncadd", "syncadd"}
       IN  /\ state' = [state EXCEPT ![a] =
                 IF new = "STOPPED" /\ ~keepalive[a] THEN "REMOVE" ELSE new]
           /\ stack' = IF Reports(a, new) THEN GoOnAt("finished") ELSE Front(stack)
           /\ owed' = [owed EXCEPT ![a] =
                 IF asked THEN 1 ELSE IF Reports(a, new) THEN @ - 1 ELSE @]
    /\ UNCHANGED <<heap, keepalive, progress, list, calls>>

(* finished_cb returns. *)
Finished ==
    /\ TopIs("finished")
    /\ stack' = Front(stack)
    /\ UNCHANGED <<heap, state, keepalive, progress, list, calls, owed>>
-----------------------------------------------------------------------------
(***************************************************************************)
(* __mgeffschedular_one_step: one action per case of its switch.           *)
(***************************************************************************)
(* The animation that sync_run, which called this pass, wants. *)
Wanted == IF Len(stack) > 1 /\ stack[Len(stack) - 1].at = "syncloop"
          THEN stack[Len(stack) - 1].a ELSE ListHead

Visit(s) ==
    /\ TopIs("visit")
    /\ Top.a # ListHead
    /\ heap[Top.a] = "live"
    /\ state[Top.a] = s

VisitedAt(at) == GoOn([Top EXCEPT !.at = at, !.found = @ \/ Top.a = Wanted])

Updated_Unclamped(a, steps) == progress' = [progress EXCEPT ![a] = @ + steps]  \* mutated
Updated(a, steps) ==
    progress' = [progress EXCEPT ![a] = IF @ + steps > Length THEN Length ELSE @ + steps]

VisitRunning ==
    /\ Visit("RUNNING")
    /\ \E steps \in 0..(Length + 1) : Updated(Top.a, steps)
    /\ stack' = VisitedAt("update")
    /\ UNCHANGED <<heap, state, keepalive, list, calls, owed>>

VisitReady ==
    /\ Visit("READY")
    /\ SetState(VisitedAt("started"), Top.a, "RUNNING")
    /\ UNCHANGED <<heap, state, keepalive, list, calls, owed>>

(* Back from setstart: no time has passed since lasttime. *)
Started ==
    /\ TopIs("started")
    /\ stack' = GoOnAt(IF state[Top.a] = "RUNNING" THEN "update" ELSE "next")
    /\ UNCHANGED <<heap, state, keepalive, progress, list, calls, owed>>

(* Mutated: the animation is used again after it is stopped. *)
UpdateDone_UsesLater ==
    /\ TopIs("update")
    /\ IF progress[Top.a] = Length /\ state[Top.a] # "STOPPED"
       THEN SetState(stack, Top.a, "STOPPED")
       ELSE stack' = GoOnAt("next") /\ UNCHANGED progress
    /\ UNCHANGED <<heap, state, keepalive, list, calls, owed>>

(* The callbacks of setcurrenttime return. *)
UpdateDone ==
    /\ TopIs("update")
    /\ IF progress[Top.a] = Length
       THEN SetState(GoOnAt("next"), Top.a, "STOPPED")
       ELSE stack' = GoOnAt("next") /\ UNCHANGED progress
    /\ UNCHANGED <<heap, state, keepalive, list, calls, owed>>

(* Mutated: what does not run is not listed. *)
VisitPaused_Unlinks ==
    /\ Visit("PAUSED")
    /\ list' = Without(Top.a)
    /\ stack' = VisitedAt("next")
    /\ UNCHANGED <<heap, state, keepalive, progress, calls, owed>>

VisitPaused ==
    /\ Visit("PAUSED")
    /\ stack' = VisitedAt("next")
    /\ UNCHANGED <<heap, state, keepalive, progress, list, calls, owed>>

(* Mutated: a stopped animation stays listed. *)
VisitStopped_Keeps ==
    /\ Visit("STOPPED")
    /\ stack' = VisitedAt("next")
    /\ UNCHANGED <<heap, state, keepalive, progress, list, calls, owed>>

VisitStopped ==
    /\ Visit("STOPPED")
    /\ list' = Without(Top.a)
    /\ stack' = VisitedAt("next")
    /\ UNCHANGED <<heap, state, keepalive, progress, calls, owed>>

(* Mutated: mGEffAnimationDelete is not called. *)
VisitRemove_Leaks ==
    /\ Visit("REMOVE")
    /\ list' = Without(Top.a)
    /\ stack' = VisitedAt("next")
    /\ UNCHANGED <<heap, state, keepalive, progress, calls, owed>>

(* list_del and mGEffAnimationDelete. *)
VisitRemove ==
    /\ Visit("REMOVE")
    /\ list' = Without(Top.a)
    /\ heap' = [heap EXCEPT ![Top.a] = "freed"]
    /\ owed' = [owed EXCEPT ![Top.a] = 0]
    /\ stack' = VisitedAt("next")
    /\ UNCHANGED <<state, keepalive, progress, calls>>

(* On to the node remembered in nxt; its successor is read from it. *)
NextNode ==
    /\ TopIs("next")
    /\ \/ Top.nxt = ListHead
       \/ Listed(Top.nxt) /\ heap[Top.nxt] = "live"
    /\ stack' = GoOn([Top EXCEPT !.at = "visit",
                                 !.a = Top.nxt,
                                 !.nxt = IF Top.nxt = ListHead THEN ListHead
                                         ELSE Successor(Top.nxt)])
    /\ UNCHANGED <<heap, state, keepalive, progress, list, calls, owed>>

(* The end of a pass; sync_run goes on only if the pass found its animation. *)
PassEnd ==
    /\ TopIs("visit")
    /\ Top.a = ListHead
    /\ stack' = IF Len(stack) > 1 /\ stack[Len(stack) - 1].at = "syncloop" /\ ~Top.found
                THEN Front(Front(stack))
                ELSE Front(stack)
    /\ UNCHANGED <<heap, state, keepalive, progress, list, calls, owed>>
-----------------------------------------------------------------------------
(* The rest of AsyncRun, SyncRun and Wait after what they called returns. *)
AsyncAdd ==
    /\ TopIs("asyncadd")
    /\ list' = With(Top.a)
    /\ stack' = Front(stack)
    /\ UNCHANGED <<heap, state, keepalive, progress, calls, owed>>

SyncAdd ==
    /\ TopIs("syncadd")
    /\ list' = With(Top.a)
    /\ stack' = IF state[Top.a] = "READY" THEN GoOnAt("syncloop") ELSE Front(stack)
    /\ UNCHANGED <<heap, state, keepalive, progress, calls, owed>>

SyncPass ==
    /\ TopIs("syncloop")
    /\ stack' = Append(stack, PassFrame)
    /\ UNCHANGED <<heap, state, keepalive, progress, list, calls, owed>>

WaitOver ==
    /\ TopIs("waiting")
    /\ ~Listed(Top.a)
    /\ stack' = Front(stack)
    /\ UNCHANGED <<heap, state, keepalive, progress, list, calls, owed>>

(* What the library does when it has control or a callback gives it back. *)
Library ==
    \/ StateChanged \/ Finished
    \/ VisitRunning \/ VisitReady \/ Started \/ UpdateDone
    \/ VisitPaused \/ VisitStopped \/ VisitRemove \/ NextNode \/ PassEnd
    \/ AsyncAdd \/ SyncAdd \/ SyncPass \/ WaitOver
-----------------------------------------------------------------------------
(***************************************************************************)
(* The application.  It has control when the stack is empty, in a message  *)
(* handler while Wait dispatches messages, and in the callbacks.           *)
(***************************************************************************)
InContext(c) ==
    IF c = "main"
    THEN stack = << >> \/ (TopIs("waiting") /\ Listed(Top.a))
    ELSE TopIs(c)

Call(name, a) ==
    /\ calls < MaxCalls
    /\ Len(stack) < MaxDepth
    /\ \E c \in Contexts :
          /\ InContext(c)
          /\ \/ name \in CallsIn[c]
             \/ c # "main" /\ name \in OwnCallsIn[c] /\ Top.a = a
    /\ heap[a] = "live"
    /\ calls' = calls + 1

Follows(rule) == rule \in Careful

(* Stopping and changing a as the rules allow. *)
StopsOnce(a) ==
    Follows("stop_once") => state[a] # "REMOVE" /\ (Active("update", a) => keepalive[a])

OneChange(a) == Follows("one_change") => ~Active("changing", a)

AsyncRun(a) ==
    /\ Call("AsyncRun", a)
    /\ SetState(Append(stack, Frame("asyncadd", a)), a, "READY")
    /\ UNCHANGED <<heap, state, keepalive, list, owed>>

SyncRun(a) ==
    /\ Call("SyncRun", a)
    /\ SetState(Append(stack, Frame("syncadd", a)), a, "READY")
    /\ UNCHANGED <<heap, state, keepalive, list, owed>>

Wait(a) ==
    /\ Call("Wait", a)
    /\ stack' = Append(stack, Frame("waiting", a))
    /\ UNCHANGED <<heap, state, keepalive, progress, list, owed>>

(* Mutated: the variant under "#if 0", removed from the list at once. *)
Stop_Unlinks(a) ==
    /\ Call("Stop", a)
    /\ StopsOnce(a) /\ OneChange(a)
    /\ state[a] # "STOPPED"
    /\ SetState(stack, a, "STOPPED")
    /\ list' = Without(a)
    /\ UNCHANGED <<heap, state, keepalive, owed>>

Stop(a) ==
    /\ Call("Stop", a)
    /\ StopsOnce(a) /\ OneChange(a)
    /\ state[a] # "STOPPED"
    /\ SetState(stack, a, "STOPPED")
    /\ UNCHANGED <<heap, state, keepalive, list, owed>>

Pause(a) ==
    /\ Call("Pause", a)
    /\ OneChange(a)
    /\ state[a] = "RUNNING"
    /\ SetState(stack, a, "PAUSED")
    /\ UNCHANGED <<heap, state, keepalive, list, owed>>

Resume(a) ==
    /\ Call("Resume", a)
    /\ OneChange(a)
    /\ state[a] = "PAUSED"
    /\ SetState(stack, a, "READY")
    /\ UNCHANGED <<heap, state, keepalive, list, owed>>

(* Not turned off while a is being stopped: that is what stop_once is for. *)
SetKeepalive(a) ==
    /\ Call("SetKeepalive", a)
    /\ \E k \in Keepalive :
          /\ Follows("stop_once") => k \/ ~Active("changing", a)
          /\ keepalive' = [keepalive EXCEPT ![a] = k]
    /\ UNCHANGED <<heap, state, progress, list, stack, owed>>

(* Mutated: the node is not taken off the list. *)
Delete_Linked(a) ==
    /\ Call("Delete", a)
    /\ heap' = [heap EXCEPT ![a] = "freed"]
    /\ owed' = [owed EXCEPT ![a] = 0]
    /\ UNCHANGED <<state, keepalive, progress, list, stack>>

(* An animation that is not kept alive is left on the list: "there is auto *)
(* delete in another place" (animation.c:600).                             *)
Delete(a) ==
    /\ Call("Delete", a)
    /\ heap' = [heap EXCEPT ![a] = "freed"]
    /\ list' = IF keepalive[a] THEN Without(a) ELSE list
    /\ owed' = [owed EXCEPT ![a] = 0]
    /\ UNCHANGED <<state, keepalive, progress, stack>>

Application ==
    \E a \in Animations :
        \/ AsyncRun(a) \/ SyncRun(a) \/ Wait(a) \/ Stop(a)
        \/ Pause(a) \/ Resume(a) \/ SetKeepalive(a) \/ Delete(a)

(* The timer fires while the main loop or Wait dispatches messages. *)
Timer ==
    /\ InContext("main")
    /\ list # << >>
    /\ stack' = Append(stack, PassFrame)
    /\ UNCHANGED <<heap, state, keepalive, progress, list, calls, owed>>
-----------------------------------------------------------------------------
Init ==
    /\ heap = [a \in Animations |-> "live"]
    /\ state = [a \in Animations |-> "STOPPED"]
    /\ keepalive \in [Animations -> Keepalive]
    /\ progress = [a \in Animations |-> 0]
    /\ list = << >>
    /\ stack = << >>
    /\ calls = 0
    /\ owed = [a \in Animations |-> 0]

Next == Library \/ Application \/ Timer

(***************************************************************************)
(* Callbacks return and the library goes on; the timer fires; and the      *)
(* clock goes on, so that not all of infinitely many updates of a running  *)
(* animation come without any time having passed.                          *)
(***************************************************************************)
TimePasses(a) ==
    /\ VisitRunning
    /\ Top.a = a
    /\ progress'[a] > progress[a]

Fairness ==
    /\ WF_vars(Library)
    /\ WF_vars(Timer)
    /\ \A a \in Animations : SF_vars(TimePasses(a))

Spec == Init /\ [][Next]_vars
FairSpec == Spec /\ Fairness
-----------------------------------------------------------------------------
TypeOK ==
    /\ heap \in [Animations -> {"live", "freed"}]
    /\ state \in [Animations -> States]
    /\ keepalive \in [Animations -> BOOLEAN]
    /\ progress \in [Animations -> 0..Length]
    /\ list \in Seq(Animations)
    /\ stack \in Seq(FrameType)
    /\ calls \in 0..MaxCalls
    /\ owed \in [Animations -> Int]

(***************************************************************************)
(* The node a pass remembers to visit next is still on the list when it    *)
(* gets there, whatever the callbacks in between did                       *)
(* ("list_for_each_safe").                                                 *)
(***************************************************************************)
CursorSafe ==
    \A i \in 1..Len(stack) :
        IsPass(stack[i]) => stack[i].nxt = ListHead \/ Listed(stack[i].nxt)

(* The list holds no animation twice and none that has been freed.         *)
ListSafe ==
    /\ \A i, j \in 1..Len(list) : list[i] = list[j] => i = j
    /\ \A i \in 1..Len(list) : heap[list[i]] = "live"

(***************************************************************************)
(* No active function goes on to use an animation that a callback has      *)
(* freed: setstate writes the state after statechanged_cb, setcurrenttime  *)
(* the frame counter after setProperty, AsyncRun links the animation in.   *)
(***************************************************************************)
Uses(f) ==
    IF f.at \in {"changing", "started", "update", "asyncadd", "syncadd", "visit"}
    THEN {f.a} \ {ListHead} ELSE {}

NoUseAfterFree ==
    \A i \in 1..Len(stack) : \A a \in Uses(stack[i]) : heap[a] = "live"

(***************************************************************************)
(* An animation in the middle of a run, or one that waits for being freed, *)
(* is on the list, or AsyncRun or SyncRun is about to put it there:        *)
(* otherwise no pass would ever update or free it again, it would never    *)
(* finish, and Wait would return at once.                                  *)
(***************************************************************************)
Enlisting(a) ==
    \E i \in 1..Len(stack) : stack[i].at \in {"asyncadd", "syncadd"} /\ stack[i].a = a

ActiveListed ==
    \A a \in Animations :
        (heap[a] = "live" /\ state[a] \in {"READY", "RUNNING", "PAUSED", "REMOVE"})
           => Listed(a) \/ Enlisting(a)

(* What one animation looks like from outside. *)
Phase(a) ==
    IF heap[a] = "freed" THEN "gone"
    ELSE CASE state[a] \in {"STOPPED", "REMOVE"} -> "over"
           [] state[a] = "PAUSED" -> "held"
           [] OTHER -> "going"

Promise == INSTANCE Lifecycle WITH phase <- [a \in Animations |-> Phase(a)]

(***************************************************************************)
(* The animations keep the promise of Lifecycle: each runs only when asked *)
(* to, and every run is reported finished exactly once (setstate, called   *)
(* by setcurrenttime, Stop and the callbacks of both): a report nobody     *)
(* waits for makes owed negative, which no step of Lifecycle does.  Under  *)
(* the rules stop_once and one_change; TLC refutes it without either.      *)
(***************************************************************************)
KeepsPromise == Promise!Spec

(***************************************************************************)
(* The calls that block return.  mGEffAnimationSyncRun does although its   *)
(* animation is updated by nothing but the passes the call makes itself,   *)
(* and mGEffAnimationWait for an animation on the list or not, even if a   *)
(* callback frees it or runs it again.                                     *)
(***************************************************************************)
BlockingCallsReturn ==
    \A a \in Animations, at \in {"syncloop", "waiting"} : Active(at, a) ~> ~Active(at, a)

(***************************************************************************)
(* The end of a run is reported: whoever asks for one hears of its end,    *)
(* unless the application frees the animation.                             *)
(***************************************************************************)
Reported == \A a \in Animations : owed[a] > 0 ~> owed[a] <= 0

(***************************************************************************)
(* An animation that is not kept alive is freed after it ends, or run      *)
(* again before the pass gets to it.                                       *)
(***************************************************************************)
RemoveFreed ==
    \A a \in Animations :
        state[a] = "REMOVE" ~> (heap[a] = "freed" \/ state[a] # "REMOVE")
=============================================================================
