-------------------------------- MODULE CMacros -------------------------------
(***************************************************************************)
(* Macro replacement as C11 6.10.3 defines it: the arguments of a macro    *)
(* are completely replaced before they are substituted, the result is      *)
(* rescanned together with the rest of the text, and a token found while   *)
(* its own macro is replaced is never replaced again.  The last is told by *)
(* a set of macros each token carries.                                     *)
(*                                                                         *)
(* Replacing also gives the marks of a text: what it asks for that cpp.c   *)
(* leaves out or that C leaves undefined.                                  *)
(*   "ill"     an invocation without its parenthesis or with the wrong     *)
(*             number of arguments                                         *)
(*   "empty"   an argument of no tokens, or only white space               *)
(*   "space"   white space between a macro and its parenthesis, or between *)
(*             the parentheses of one that has no parameters               *)
(*   "nested"  an argument in which the macro itself is replaced           *)
(*   "rest"    an invocation part of which stands after the replacement    *)
(*             the name of the macro came from                             *)
(***************************************************************************)
EXTENDS Integers, Sequences, FiniteSets, SequencesExt

Plain(ts) == [k \in DOMAIN ts |-> [t |-> ts[k], hidden |-> {}]]

Bare(ts) == [k \in DOMAIN ts |-> ts[k].t]

Blank == {"sp", "nl"}

Solid(ts) == SelectSeq(ts, LAMBDA t : t \notin Blank)

Hide(ts, hs) == [k \in DOMAIN ts |-> [ts[k] EXCEPT !.hidden = @ \cup hs]]

(* The first token from k on that is not white space. *)
NextSolid(ts, k) ==
  LET solid == {j \in k .. Len(ts) : ts[j].t \notin Blank}
  IN  IF solid = {} THEN Len(ts) + 1 ELSE CHOOSE j \in solid : \A i \in solid : j <= i

Depth(ts, open, k) ==
  Cardinality({j \in open .. k : ts[j].t = "("}) - Cardinality({j \in open .. k : ts[j].t = ")"})

(* The parenthesis that closes the one at open, or 0. *)
Closing(ts, open) ==
  LET ends == {k \in open .. Len(ts) : Depth(ts, open, k) = 0}
  IN  IF ends = {} THEN 0 ELSE CHOOSE k \in ends : \A j \in ends : k <= j

(* What stands between the commas of an invocation. *)
Pieces(ts, open, close) ==
  LET commas == {k \in open + 1 .. close - 1 : ts[k].t = "," /\ Depth(ts, open, k) = 1}
      border == SetToSortSeq(commas \cup {open, close}, <)
  IN  [i \in 1 .. Len(border) - 1 |-> SubSeq(ts, border[i] + 1, border[i + 1] - 1)]

(* The arguments: the pieces from the number of parameters on are one.     *)
Arguments(macro, ts, open, close) ==
  LET pieces == Pieces(ts, open, close)
      named  == Len(macro.params)
      Joined == FlattenSeq([i \in 1 .. Len(pieces) - named |->
                  (IF i = 1 THEN << >> ELSE <<[t |-> ",", hidden |-> {}]>>) \o pieces[named + i]])
  IN  IF macro.ellipsis /\ Len(pieces) > named THEN Append(SubSeq(pieces, 1, named), Joined)
      ELSE IF named = 0 /\ ~macro.ellipsis /\ Len(pieces) = 1 /\ Solid(Bare(pieces[1])) = << >> THEN << >>
      ELSE pieces

ParamsOf(macro) == macro.params \o (IF macro.ellipsis THEN <<"__VA_ARGS__">> ELSE << >>)

RECURSIVE Replaced(_, _)

Substitute(macro, full) ==
  LET at(x) == {i \in 1 .. Len(full) : ParamsOf(macro)[i] = x}
  IN  FlattenSeq([j \in DOMAIN macro.replace |->
        IF at(macro.replace[j]) = {} THEN Plain(<<macro.replace[j]>>)
        ELSE full[CHOOSE i \in at(macro.replace[j]) : TRUE].out])

(* An invocation from the head of ts to the parenthesis at close: full are *)
(* its arguments replaced, within the same replaced while the macro is.    *)
Invocation(ts, open, close, macro, args, full, within) ==
  LET asked == [empty  |-> \E i \in DOMAIN args : Solid(Bare(args[i])) = << >>,
                space  |-> open > 2 \/ (args = << >> /\ close > open + 1),
                nested |-> \E i \in DOMAIN args : Bare(full[i].out) # Bare(within[i].out),
                rest   |-> \E k \in 2 .. close : Head(ts).hidden \ ts[k].hidden # {}]
  IN  [out   |-> << >>,
       next  |-> Hide(Substitute(macro, full), (Head(ts).hidden \cap ts[close].hidden) \cup {macro.name})
                   \o SubSeq(ts, close + 1, Len(ts)),
       marks |-> {m \in DOMAIN asked : asked[m]} \cup UNION {full[i].marks : i \in DOMAIN args}]

Keep(ts, marks) == [out |-> <<Head(ts)>>, next |-> Tail(ts), marks |-> marks]

(* What looks like an invocation, with these arguments.                    *)
Called(ts, open, close, macro, args, macros) ==
  IF close = 0 \/ Len(args) # Len(ParamsOf(macro)) THEN Keep(ts, {"ill"})
  ELSE Invocation(ts, open, close, macro, args,
                  [i \in DOMAIN args |-> Replaced(args[i], macros)],
                  [i \in DOMAIN args |-> Replaced(Hide(args[i], {macro.name}), macros)])

CalledAt(ts, open, close, macro, macros) ==
  Called(ts, open, close, macro, Arguments(macro, ts, open, close), macros)

(* One step through a text: what is final at its head, and what to go on   *)
(* with.                                                                   *)
Scan(ts, open, macros) ==
  LET t == Head(ts).t
  IN  IF t \notin DOMAIN macros \/ t \in Head(ts).hidden THEN Keep(ts, {})
      ELSE IF macros[t].type = "object"
        THEN [out |-> << >>, marks |-> {},
              next |-> Hide(Plain(macros[t].replace), Head(ts).hidden \cup {t}) \o Tail(ts)]
      ELSE IF open > Len(ts) \/ ts[open].t # "(" THEN Keep(ts, {})
      ELSE CalledAt(ts, open, Closing(ts, open), macros[t], macros)

Before(step, rest) == [out |-> step.out \o rest.out, marks |-> step.marks \cup rest.marks]

GoOn(step, macros) == Before(step, Replaced(step.next, macros))

Replaced(ts, macros) ==
  IF ts = << >> THEN [out |-> << >>, marks |-> {}]
  ELSE GoOn(Scan(ts, NextSolid(ts, 2), macros), macros)
=============================================================================
