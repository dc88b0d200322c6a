------------------------------- MODULE MCVector -------------------------------
(* Two vectors of initial capacity 2 that double twice within MaxLen.      *)
EXTENDS Vector

=============================================================================
