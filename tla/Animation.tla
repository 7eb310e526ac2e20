------------------------------ MODULE Animation ------------------------------
(***************************************************************************)
(* The animation object of src/animation.c and the internal functions that *)
(* change it, as operators on a record: an operator takes the animation as *)
(* it is and returns the animation as the C function leaves it.  The fields*)
(* have the names of the members of struct _EffAnimation.                  *)
(*                                                                         *)
(* Data that no property distinguishes is left out: the values that are    *)
(* interpolated, the target, the curve, the frame counter.  "finished"     *)
(* counts the calls of finished_cb in the current run (setstate calls it   *)
(* for every transition to STOPPED); it is the only field that the C       *)
(* struct does not have.                                                   *)
(*                                                                         *)
(* Times are integers of any unit.  The code only ever subtracts two       *)
(* timestamps, so a module that uses this one is free to choose its epoch. *)
(***************************************************************************)
EXTENDS Integers

(* enum EffState and enum EffDirection. *)
States == {"STOPPED", "PAUSED", "RUNNING", "READY", "REMOVE"}
Directions == {"FORWARD", "BACKWARD"}

INFINITE == -1

(* finished counts 0, 1, Many. *)
Many == 2

(***************************************************************************)
(* The integer division and remainder of C truncate towards zero; those of *)
(* TLA+ round down.                                                        *)
(***************************************************************************)
CDiv(x, d) == IF x >= 0 THEN x \div d ELSE -((-x) \div d)
CMod(x, d) == x - d * CDiv(x, d)

AnimationType ==
    [state: States, direction: Directions, keepalive: BOOLEAN,
     duration: Nat \ {0}, loopcount: Int,
     currenttime: Int, currentloop: Int, lasttime: Int, finished: 0..Many]

(* A freshly created animation: __mgeffanimation_init, then keepalive = 1. *)
Fresh(duration, now) ==
    [state |-> "STOPPED", direction |-> "FORWARD", keepalive |-> TRUE,
     duration |-> duration, loopcount |-> 1,
     currenttime |-> 0, currentloop |-> 0, lasttime |-> now, finished |-> 0]

TotalTime(a) == a.duration * a.loopcount

-----------------------------------------------------------------------------
(***************************************************************************)
(* __mgeffanimation_setstate.  A run that starts from STOPPED starts at    *)
(* the near end of the time line; a run that starts from any other state   *)
(* (PAUSED, RUNNING or REMOVE) goes on from where it was.  An animation    *)
(* that is told to stop ends in REMOVE when it is not kept alive.          *)
(***************************************************************************)
StartTime(a) == IF a.direction = "FORWARD" THEN 0 ELSE TotalTime(a)

Ended(a) == [a EXCEPT !.state = IF a.keepalive THEN "STOPPED" ELSE "REMOVE",
                      !.finished = IF @ = Many THEN Many ELSE @ + 1]

Begun(a, state) ==
    CASE a.state = "STOPPED" ->
            [a EXCEPT !.state = state, !.currenttime = StartTime(a), !.finished = 0]
      [] a.state = "REMOVE" -> [a EXCEPT !.state = state, !.finished = 0]
      [] OTHER -> [a EXCEPT !.state = state]

(* Mutated: no test for the state it already has; REMOVE unreported. *)
SetState_Again(a, state) ==
    IF state = "STOPPED" THEN Ended(a) ELSE Begun(a, state)
SetState_SilentRemove(a, state) ==
    CASE a.state = state -> a
      [] a.state # state /\ state = "STOPPED" ->
            IF a.keepalive THEN Ended(a) ELSE [a EXCEPT !.state = "REMOVE"]
      [] OTHER -> Begun(a, state)

SetState(a, state) ==
    CASE a.state = state -> a
      [] a.state # state /\ state = "STOPPED" -> Ended(a)
      [] OTHER -> Begun(a, state)

(* __mgeffanimation_start, _paused and _resume; the state tests of the    *)
(* public Pause, Resume and Stop guard their callers.                      *)
Start(a)  == SetState(a, "READY")
Paused(a) == IF a.state = "RUNNING" THEN SetState(a, "PAUSED") ELSE a
Resume_Running(a) == IF a.state = "PAUSED" THEN SetState(a, "RUNNING") ELSE a  \* mutated
Resume(a) == IF a.state = "PAUSED" THEN SetState(a, "READY") ELSE a
Stop(a)   == IF a.state = "STOPPED" THEN a ELSE SetState(a, "STOPPED")

(* __mgeffanimation_restart of an animation that is not a group. *)
Restart(a) == IF a.state = "RUNNING" THEN a ELSE Start(a)

(* __mgeffanimation_setstart of an animation that is not a parallel group. *)
SetStart(a, time) ==
    IF a.state = "READY"
    THEN SetState([a EXCEPT !.lasttime = time], "RUNNING")
    ELSE a

-----------------------------------------------------------------------------
(***************************************************************************)
(* __mgeffanimation_setcurrenttime, in the three parts its callbacks       *)
(* divide it into.  Advance is what happens before updateValue is called,  *)
(* ShownTime is the argument of updateValue, AtEnd the test that follows   *)
(* the callbacks.  AtEnd takes the total time as an argument because the   *)
(* code computes it before the callbacks and uses it after them.           *)
(***************************************************************************)
Delta(a, time) ==
    IF a.direction = "FORWARD" THEN time - a.lasttime ELSE a.lasttime - time

(* Mutated: without the clamp at 0; without the one at the total time.     *)
Clamp_NoLower(a, t) ==
    IF a.direction = "FORWARD" /\ t > TotalTime(a) THEN TotalTime(a) ELSE t
Clamp_NoUpper(a, t) ==
    IF a.direction = "BACKWARD" /\ t < 0 THEN 0 ELSE t

Clamp(a, t) ==
    CASE a.loopcount # INFINITE /\ a.direction = "FORWARD" /\ t > TotalTime(a) -> TotalTime(a)
      [] a.loopcount # INFINITE /\ a.direction = "BACKWARD" /\ t < 0 -> 0
      [] OTHER -> t

(* Mutated: the timestamp is not moved along. *)
Advance_StaleTimestamp(a, time) ==
    LET t == Clamp(a, a.currenttime + Delta(a, time))
    IN  [a EXCEPT !.currenttime = t, !.currentloop = CDiv(t, a.duration)]

Advance(a, time) ==
    LET t == Clamp(a, a.currenttime + Delta(a, time))
    IN  [a EXCEPT !.currenttime = t,
                  !.currentloop = CDiv(t, a.duration),
                  !.lasttime = time]

ShownTime(a) ==
    IF a.currenttime # 0 /\ CMod(a.currenttime, a.duration) = 0
    THEN a.duration
    ELSE CMod(a.currenttime, a.duration)

LoopChanged_Always(a, oldloop) == TRUE  \* mutated
LoopChanged(a, oldloop) == a.currentloop # oldloop

AtEnd_EitherEnd(a, total) == a.currenttime \in {0, total}  \* mutated
AtEnd(a, total) ==
    \/ a.direction = "FORWARD"  /\ a.currenttime = total
    \/ a.direction = "BACKWARD" /\ a.currenttime = 0

EndUpdate(a, total) == IF AtEnd(a, total) THEN SetState(a, "STOPPED") ELSE a
=============================================================================
