------------------------------ MODULE MCGroup ------------------------------
(* Model values of Group for TLC. *)
EXTENDS Group

(* A callback that pauses a parallel group, or runs it again, leaves the   *)
(* rest of the scan with children in different states (README).            *)
SafeCallbacks ==
    [k \in Kinds |-> IF k = "SEQUENTIAL" THEN {"AsyncRun", "Stop", "Pause", "StopKid"} ELSE {"Stop", "StopKid"}]
NoCallbacks == [k \in Kinds |-> {}]
=============================================================================
