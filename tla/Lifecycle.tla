----------------------------- MODULE Lifecycle -----------------------------
(***************************************************************************)
(* What the API promises about the lives of animations, whatever list,     *)
(* timer, call stack or callback is involved in keeping the promise:       *)
(*                                                                         *)
(*   - an animation moves only in runs that the application asked for;     *)
(*   - a run ends exactly once, and its end is reported (finished_cb);     *)
(*   - between two runs it does not move;                                  *)
(*   - what is done to one animation does nothing to another.              *)
(***************************************************************************)
EXTENDS Integers

CONSTANT Animations

VARIABLES
    phase,    \* "over" (also: not run yet), "going", "held" (paused), "gone"
    owed      \* ends still to be reported: 1 if a run was asked for and its
              \* end has not been reported, else 0

vars == <<phase, owed>>

Init ==
    /\ phase = [a \in Animations |-> "over"]
    /\ owed = [a \in Animations |-> 0]

Becomes(a, p) == phase' = [phase EXCEPT ![a] = p]

(* AsyncRun and SyncRun: a new run, or the one it is in, held or not. *)
Ask(a) ==
    /\ phase[a] # "gone"
    /\ Becomes(a, "going")
    /\ owed' = [owed EXCEPT ![a] = 1]

Hold(a) ==
    /\ phase[a] = "going"
    /\ Becomes(a, "held")
    /\ UNCHANGED owed

Release(a) ==
    /\ phase[a] = "held"
    /\ Becomes(a, "going")
    /\ UNCHANGED owed

(* The end of a run, by Stop or at the end of the time line. *)
Report(a) ==
    /\ phase[a] \in {"going", "held"}
    /\ owed[a] = 1
    /\ Becomes(a, "over")
    /\ owed' = [owed EXCEPT ![a] = @ - 1]

Discard(a) ==
    /\ phase[a] # "gone"
    /\ Becomes(a, "gone")
    /\ owed' = [owed EXCEPT ![a] = 0]

Next == \E a \in Animations : Ask(a) \/ Hold(a) \/ Release(a) \/ Report(a) \/ Discard(a)

Spec == Init /\ [][Next]_vars
=============================================================================
