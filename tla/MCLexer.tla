------------------------------- MODULE MCLexer -------------------------------
(***************************************************************************)
(* All files of some length over small alphabets, each of characters that  *)
(* meet in the lexer.                                                      *)
(***************************************************************************)
EXTENDS LexerC

UpTo(alphabet, n) == UNION {[1 .. k -> alphabet] : k \in 0 .. n}

Enclosed(alphabet, n, before, after) == {before \o s \o after : s \in UpTo(alphabet, n)}

Comments  == UpTo({"/", "*", NL, " ", "a"}, 6)
Splicing  == UpTo({"\\", NL, "a", "1", "\""}, 6)
LineEnds  == UpTo({"\\", NL, "a", "CR", " "}, 6)
Constants == UpTo({"'", "\\", "n", NL, "\""}, 6)
Operators == Enclosed({"-", ">", "<", "=", "&"}, 4, << >>, <<NL>>)
             \cup Enclosed({"+", "!", "|", "*", "%", "="}, 3, << >>, <<NL>>)
             \cup Enclosed({".", ",", "#", "@", "1"}, 4, << >>, <<NL>>)
Words     == Enclosed({"i", "f", "d", "o", "_"}, 3, << >>, <<NL>>)
             \cup Enclosed({"a", "_", "1", " ", "TAB"}, 4, << >>, <<NL>>)
Literals  == Enclosed({"\"", "\\", "t", "0", "1", "BYTE", "/"}, 4, <<"\"">>, <<"\"", NL>>)
Numerals  == Enclosed({"0", "1", "8", "x", "u", "l", "L", "f"}, 4, << >>, <<NL>>)

Small == Comments \cup Splicing \cup LineEnds \cup Constants \cup Operators \cup Words \cup Literals
         \cup Numerals
=============================================================================
