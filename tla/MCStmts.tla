-------------------------------- MODULE MCStmts -------------------------------
EXTENDS Stmts

Grammar(kinds, nodes, items) == [kinds |-> kinds, nodes |-> nodes, items |-> items]

(* Loops nested in each other with every way out of them. *)
LoopKinds == {"expr", "comp", "if", "while", "do", "for", "forever", "break", "continue", "return"}

(* Jumps between labels, into and out of loops and both arms of an if. *)
GotoKinds == {"expr", "comp", "ifelse", "forever", "label", "goto", "return"}

(* Switches in switches and in loops, their cases inside other statements. *)
SwitchKinds == {"expr", "comp", "while", "switch", "case", "default", "break", "continue"}

MCGrammars == {Grammar(LoopKinds, 6, 2), Grammar(GotoKinds, 6, 2), Grammar(SwitchKinds, 8, 3)}
=============================================================================
