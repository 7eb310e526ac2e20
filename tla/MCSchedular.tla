---------------------------- MODULE MCSchedular ----------------------------
(* Model values of Schedular for TLC. *)
EXTENDS Schedular, TLC

(* Main calls in the main loop, changing in statechanged_cb, others in the *)
(* other callbacks.                                                        *)
CallsMade(main, changing, others) ==
    [c \in Contexts |-> CASE c = "main" -> main
                          [] c = "changing" -> changing
                          [] OTHER -> others]

None == [c \in Contexts \ {"main"} |-> {}]

(* reentrant: anything but Delete and a nested SyncRun or Wait; the rules  *)
(* of Careful restrict it further.                                         *)
Plain == {"AsyncRun", "Stop", "Pause", "Resume", "SetKeepalive"}
ReentrantCalls == CallsMade(Plain \cup {"SyncRun", "Wait"}, Plain, Plain)

(* delete: Delete in the main loop, and in finished_cb of the animation.   *)
DeleteCalls == CallsMade({"AsyncRun", "SyncRun", "Wait", "Stop", "Delete"}, {}, {"AsyncRun"})
OwnDelete == [c \in Contexts \ {"main"} |-> IF c = "finished" THEN {"Delete"} ELSE {}]

(* returns: nothing that holds an animation up. *)
RunCalls == CallsMade({"AsyncRun", "SyncRun", "Wait", "Stop"}, {}, {"AsyncRun", "Stop"})

ForeignDelete == CallsMade({"AsyncRun"}, {}, {"Delete"})

Symmetry == Permutations(Animations)
=============================================================================
