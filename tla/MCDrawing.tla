----------------------------- MODULE MCDrawing -----------------------------
(* The instance of Drawing: an even and an odd square, and a size that is  *)
(* no square, where a piece of centersplit may be a pixel wide and 0 high. *)
EXTENDS Drawing

MCSizes == {<<4, 4>>, <<5, 5>>, <<6, 4>>}
=============================================================================
