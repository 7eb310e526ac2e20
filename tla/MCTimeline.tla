----------------------------- MODULE MCTimeline -----------------------------
(* Model values of Timeline for TLC. *)
EXTENDS Timeline

MCInfinite == {INFINITE}
=============================================================================
