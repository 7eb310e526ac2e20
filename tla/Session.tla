------------------------------ MODULE Session ------------------------------
(***************************************************************************)
(* What mGEffInit and mGEffDeinit promise together: as long as every       *)
(* client gives back only the reference it took, the library is up exactly *)
(* while somebody holds one.  A stray mGEffDeinit, one that no mGEffInit   *)
(* belongs to, voids the promise for good, except that mGEffInit always    *)
(* leaves the library up.                                                  *)
(***************************************************************************)
CONSTANT Clients    \* parts of the application that use the library

VARIABLES
    holders,    \* clients that hold a reference
    trusted,    \* no stray mGEffDeinit so far
    up          \* the default schedular exists

Init ==
    /\ holders = {}
    /\ trusted = TRUE
    /\ up = FALSE

Acquire(c) ==
    /\ c \notin holders
    /\ holders' = holders \cup {c}
    /\ up' = TRUE
    /\ UNCHANGED trusted

Release(c) ==
    /\ c \in holders
    /\ holders' = holders \ {c}
    /\ up' \in BOOLEAN
    /\ trusted => up' = (holders' # {})
    /\ UNCHANGED trusted

Stray ==
    /\ trusted' = FALSE
    /\ up' \in BOOLEAN
    /\ UNCHANGED holders

Next ==
    \/ \E c \in Clients : Acquire(c) \/ Release(c)
    \/ Stray

Spec == Init /\ [][Next]_<<holders, trusted, up>>
=============================================================================
