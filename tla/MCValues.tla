------------------------------- MODULE MCValues -------------------------------
(***************************************************************************)
(* Expressions over all values of two-bit chars, three-bit shorts,         *)
(* four-bit ints and five-bit longs.                                       *)
(***************************************************************************)
EXTENDS Values
=============================================================================
