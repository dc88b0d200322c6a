--------------------------------- MODULE MCCpp --------------------------------
EXTENDS CppC

MCIdents == {"O", "A", "F", "G"}

MCTokens == MCIdents \cup {"x", "p", "__VA_ARGS__", "(", ")", ",", "sp", "nl"}

Object(name, replace) ==
  [name |-> name, type |-> "object", params |-> << >>, ellipsis |-> FALSE, replace |-> replace]

Function(name, params, ellipsis, replace) ==
  [name |-> name, type |-> "function", params |-> params, ellipsis |-> ellipsis,
   replace |-> replace]

Define(def) == [kind |-> "define", def |-> def]
TextLine(ts) == [kind |-> "text", text |-> ts]
Include     == [kind |-> "include"]

(* Macros that name themselves, each other, their parameters and, at the   *)
(* end of a replacement, a function-like macro.                            *)
Tables ==
  { <<Object("O", <<"x", "O">>), Object("A", <<"O", "x">>)>>,
    <<Object("O", <<"A", "x">>), Object("A", <<"x", "O">>)>>,
    <<Function("F", <<"p">>, FALSE, <<"p", "O", "p">>), Object("O", <<"F", "(", "x", ")">>)>>,
    <<Function("F", <<"p">>, FALSE, <<"p", "F", "(", "p", ")">>), Object("O", <<"F">>)>>,
    <<Function("F", << >>, FALSE, <<"x", "F">>), Function("G", <<"p">>, FALSE, <<"p", "(", ")">>)>>,
    <<Function("G", <<"p">>, TRUE, <<"F", "(", "__VA_ARGS__", ")", "p">>),
      Function("F", <<"x", "p">>, FALSE, <<"p", "x">>)>>,
    <<Function("G", << >>, TRUE, <<"x", "__VA_ARGS__">>),
      Function("F", <<"p">>, FALSE, <<"G", "(", "p", ",", "p", ")">>)>> }

(* The texts of up to n tokens whose parentheses match. *)
Open(ts, k) ==
  Cardinality({j \in 1 .. k : ts[j] = "("}) - Cardinality({j \in 1 .. k : ts[j] = ")"})

Matched(ts) == Open(ts, Len(ts)) = 0 /\ \A k \in DOMAIN ts : Open(ts, k) >= 0

Texts(alphabet, n) == {ts \in UNION {[1 .. k -> alphabet] : k \in 1 .. n} : Matched(ts)}

Words == {"O", "F", "G", "x", "(", ")", ","}

(* A call of a macro, with up to n tokens between its parentheses.         *)
Calls(n) == {<<m, "(">> \o ts \o <<")">> : m \in {"F", "G"}, ts \in Texts(Words, n)}

(* Texts with white space, for macros with parameters.                     *)
Spaced == Texts({"F", "x", "(", ")", "sp"}, 5)

(* Two definitions and a text; or texts around a header, which defines one *)
(* of the macros and uses both in texts of its own.                        *)
Program(t, ts, us) ==
  IF us = << >>
  THEN [main |-> <<Define(t[1]), Define(t[2]), TextLine(ts)>>, header |-> << >>]
  ELSE [main |-> <<Define(t[1]), TextLine(ts), Include, TextLine(ts), TextLine(us)>>,
        header |-> <<TextLine(us), Define(t[2]), TextLine(ts)>>]

Parameterless(t) == \E i \in {1, 2} : t[i].type = "function" /\ t[i].params = << >>

HasSpace(ts) == \E i \in DOMAIN ts : ts[i] = "sp"

MCPrograms ==
  LET texts == Texts(Words, 4) \cup Calls(3) \cup Spaced
      tails == {<< >>, <<"O">>, <<"F", "(", "O", ")">>}
  IN  {Program(p[1], p[2], p[3])
         : p \in {q \in Tables \X texts \X tails
                    : /\ q[3] # << >> => Len(q[2]) <= 3
                      /\ HasSpace(q[2]) => ~Parameterless(q[1])}}
=============================================================================
