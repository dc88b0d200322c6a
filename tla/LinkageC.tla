------------------------------- MODULE LinkageC -------------------------------
(***************************************************************************)
(* Scopes, linkage and definitions of identifiers as C11 6.2.1, 6.2.2 and  *)
(* 6.9.2 have them, told from the text alone.                              *)
(***************************************************************************)
EXTENDS Linkage

(* How many scopes are open before an item, and how many where it declares.*)
Level ==
  LET L[i \in 1 .. Len(text) + 1] ==
        IF i = 1 THEN 1
        ELSE CASE text[i - 1].do \in {"define", "begin"} -> L[i - 1] + 1
               [] text[i - 1].do = "end"                 -> L[i - 1] - 1
               [] OTHER                                  -> L[i - 1]
  IN  L

Declarations == {i \in DOMAIN text : text[i].do \in {"declare", "define", "param"}}

(* What is written: the symbol without what sema.c puts there. *)
Of(i) == symbols[text[i].symbol]

Later(set) == CHOOSE i \in set : \A j \in set : j <= i

(* The declaration of x that is seen at an item: of those whose scope is   *)
(* open the innermost, and of these the last.                              *)
Seen(level, x, i) ==
  LET open == {d \in Declarations : /\ d < i /\ text[d].identifier = x
                                    /\ \A k \in d + 1 .. i : level[k] >= level[d]}
      innermost == {d \in open : \A e \in open : level[e] <= level[d]}
  IN  IF open = {} THEN 0 ELSE Later(innermost)

SameScope(level, d, e) == d < e /\ level[d] = level[e] /\ \A k \in d + 1 .. e : level[k] >= level[d]

(* 6.2.2, paragraphs 3 to 6. *)
Linkages(level) ==
  LET L[d \in DOMAIN text] ==
        LET s       == Of(d)
            prior   == Seen(level, s.identifier, d)
            AsPrior == IF prior = 0 \/ L[prior] = "none" THEN "external" ELSE L[prior]
        IN  IF d \notin Declarations THEN "none"
            ELSE CASE s.storage = "static"                        -> IF level[d] = 1 THEN "internal" ELSE "none"
                   [] s.storage = "extern"                        -> AsPrior
                   [] s.storage = "" /\ s.kind = "function"       -> AsPrior
                   [] s.storage = "" /\ s.kind = "object"         -> IF level[d] = 1 THEN "external" ELSE "none"
  IN  L

-----------------------------------------------------------------------------
(* The meaning of the text: level, linkage, and the declaration each use   *)
(* is of.                                                                  *)
Meanings ==
  {[level |-> l, linkage |-> Linkages(l), seen |-> [i \in DOMAIN text |-> Seen(l, text[i].identifier, i)]] : l \in {Level}}

WithLinkage(m, x) == {d \in Declarations : text[d].identifier = x /\ m.linkage[d] # "none"}

Names == {text[d].identifier : d \in Declarations}

(* Definitions, and the declarations that become one if there is no other. *)
Definitions(m, x) == {d \in WithLinkage(m, x) : text[d].do = "define" \/ (m.level[d] = 1 /\ Of(d).init)}
Tentative(m, x)   == {d \in WithLinkage(m, x) : m.level[d] = 1 /\ Of(d).kind = "object" /\ Of(d).storage # "extern" /\ ~Of(d).init}

Uses == {i \in DOMAIN text : text[i].do \in {"use", "call"}}

(* C gives the text no meaning, or demands that it be rejected.            *)
Ill(m) ==
  \/ \E d, e \in Declarations :
       /\ text[d].identifier = text[e].identifier
       /\ \/ SameScope(m.level, d, e) /\ (m.linkage[d] = "none" \/ m.linkage[e] = "none" \/ Of(d).kind # Of(e).kind)
          \/ m.linkage[d] # "none" /\ m.linkage[e] # "none" /\ (Of(d).kind # Of(e).kind \/ m.linkage[d] # m.linkage[e])
  \/ \E d \in Declarations :
       /\ m.level[d] > 1 /\ text[d].do = "declare"
       /\ \/ Of(d).storage = "extern" /\ Of(d).init
          \/ Of(d).storage = "static" /\ Of(d).kind = "function"
  \/ \E x \in Names : Cardinality(Definitions(m, x)) > 1
  \/ \E i \in Uses :
       \/ m.seen[i] = 0
       \/ text[i].do = "call" /\ Of(m.seen[i]).kind = "object"
       \/ /\ m.linkage[m.seen[i]] = "internal" /\ Of(m.seen[i]).kind = "function"
          /\ Definitions(m, text[i].identifier) = {}

(* Where the compiler is known to differ: it takes no declaration, not     *)
(* even a tentative definition, after a definition in the same scope, no   *)
(* extern or static in blocks, and no extern with a value for a            *)
(* definition; a function is internal only if its definition says so; the  *)
(* value of a function that a block declares is an offset in the frame.    *)
Known(m) ==
  \/ \E d, e \in Declarations :
       /\ text[d].identifier = text[e].identifier /\ SameScope(m.level, d, e)
       /\ d \in Definitions(m, text[d].identifier) \cup Tentative(m, text[d].identifier)
  \/ \E d \in Declarations : m.level[d] > 1 /\ Of(d).storage # ""
  \/ \E d \in Declarations : Of(d).storage = "extern" /\ Of(d).init
  \/ \E d \in Declarations : text[d].do = "define" /\ m.linkage[d] = "internal" /\ Of(d).storage # "static"
  \/ \E i \in Uses : text[i].do = "use" /\ m.seen[i] # 0 /\ m.level[m.seen[i]] > 1 /\ Of(m.seen[i]).kind = "function"

Lines(do, x) == {k \in DOMAIN out : out[k].do = do /\ out[k].identifier = x}

(* One label for what the unit defines, with its value, and .global if     *)
(* other units may use it.                                                 *)
DefinedAs(m, x) ==
  LET defined == Definitions(m, x) \cup Tentative(m, x)
      what    == IF Definitions(m, x) = {} THEN "zero"
                 ELSE IF \E d \in Definitions(m, x) : text[d].do = "define" THEN "code" ELSE "value"
  IN  /\ IF defined = {} THEN Lines("label", x) = {}
         ELSE \E k \in DOMAIN out : Lines("label", x) = {k} /\ out[k].what = what
      /\ Lines("global", x) # {} <=> \E d \in defined : m.linkage[d] = "external"

(* An operand names what has linkage, and is the place of a local: two of  *)
(* one function have the same place if and only if they are the same.      *)
UsedAs(m) ==
  \A k \in {k \in DOMAIN out : out[k].do = "use"} :
    LET i == out[k].what.item
        d == m.seen[i]
    IN  out[k].identifier = IF m.linkage[d] = "none" THEN "" ELSE text[d].identifier

Functions(i) == {f \in DOMAIN text : f < i /\ text[f].do = "define"}

LocalsApart(m) ==
  \A j, k \in {k \in DOMAIN out : out[k].do = "use" /\ out[k].identifier = ""} :
    Functions(out[j].what.item) = Functions(out[k].what.item) =>
      (out[j].what.offset = out[k].what.offset <=> m.seen[out[j].what.item] = m.seen[out[k].what.item])

(* A function's name that is not called is a value in C; gen.c takes it    *)
(* only as the operand of &.                                               *)
LoadsFunction(m) == \E i \in Uses : text[i].do = "use" /\ m.seen[i] # 0 /\ Of(m.seen[i]).kind = "function"

(* What the assembler and the linker are given says of every identifier    *)
(* what C does: each function and object of the unit has its label once,   *)
(* with its own value, known to other units if and only if it has external *)
(* linkage, and each use reaches the declaration that C's scopes make      *)
(* visible; a unit with a second definition is stopped, and none that C    *)
(* accepts, but for the value of a function (parse.c put_symbol, sema.c    *)
(* put_variable, gen.c gen_decl_global, gen_func, gen_lvalue, gen_load).   *)
NamesLinked ==
  phase \in {"done", "error", "crash", "assertion"} =>
    \A m \in Meanings :
      /\ ~Ill(m) /\ ~Known(m) =>
           \/ phase = "done" /\ (\A x \in Names : DefinedAs(m, x)) /\ UsedAs(m) /\ LocalsApart(m)
           \/ phase = "assertion" /\ LoadsFunction(m)
      /\ phase = "done" =>
           \A x \in Names : Cardinality({d \in Definitions(m, x) : text[d].do = "define" \/ Of(d).storage # "extern"}) < 2
=============================================================================
