------------------------------ MODULE MCGenStack ------------------------------
(* Two frame sizes, one of each parity modulo 16; calls below, at and      *)
(* above the six register arguments; a call as an argument of a call as an *)
(* operand.                                                                *)
EXTENDS GenStack

MCStackSizes == {0, 8}
MCArities    == {0, 1, 6, 7, 8}
=============================================================================
