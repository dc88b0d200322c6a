------------------------------- MODULE ParserC --------------------------------
(***************************************************************************)
(* What parse.c is to do: give each sentence of C the tree the grammar     *)
(* gives it, stop where no sentence goes on, and take each identifier for  *)
(* what the scope rules of C make of it.                                   *)
(***************************************************************************)
EXTENDS Parser, CGrammar

(* The grammar is followed where the identifiers of the input keep the     *)
(* meaning they have at its start.                                         *)
Compared == {i \in Inputs : i.symbol # "any"}

Scope(i, sy_type) ==
  {s.identifier : s \in {s \in UNION {i.scopes[k] : k \in DOMAIN i.scopes} : s.sy_type = sy_type}}

Context(i) == [tokens    |-> i.tokens,
               variables |-> i.tokens \cap (Identifiers \ (Scope(i, "type") \cup Scope(i, "const"))),
               typedefs  |-> i.tokens \cap Scope(i, "type"),
               constants |-> i.tokens \cap Scope(i, "const")]

(* The sentences of an input and their trees, by length, and the           *)
(* beginnings of its sentences.                                            *)
Starts(sentences, i) ==
  {SubSeq(Append(s.tokens, i.end), 1, IF k <= Len(s.tokens) THEN k ELSE Len(s.tokens) + 1) :
     s \in UNION ToSet(sentences), k \in 0 .. i.max + 1}

LanguageOf(i, grammar) ==
  LET sentences == Sentences(grammar, i.symbol, Context(i), i.max)
  IN  [input |-> i, sentences |-> sentences, starts |-> Starts(sentences, i)]

Languages == {LanguageOf(i, g) : i \in Compared, g \in {Grammar}}

Language == CHOOSE l \in Languages : l.input = input

(* Around[i]: the brackets open after token i. *)
Around ==
  LET A[i \in 0 .. Len(tokens)] ==
        IF i = 0 THEN << >>
        ELSE LET before == A[i - 1]
             IN  CASE tokens[i] \in {"(", "[", "{"} -> Append(before, i)
                   [] tokens[i] \in {")", "]", "}"} /\ before # << >> -> Front(before)
                   [] OTHER -> before
  IN  A

(* The first token from i on where the bracket o is no longer open. *)
FirstOf(set) == IF set = {} THEN Len(tokens) + 1 ELSE CHOOSE i \in set : \A j \in set : i <= j

Closed(o, around) == FirstOf({i \in o + 1 .. Len(tokens) : o \notin ToSet(around[i])})

Is(i, token) == i \in DOMAIN tokens /\ tokens[i] = token

(* The error is of another kind: a second typedef, or a name that the      *)
(* scope has for something else.                                           *)
Constraint == phase = "error" /\ Head(todo).do \in {"checktypedef", "put", "putfunc"}

NotASentence == SubSeq(tokens, 1, pos) \notin Language.starts

(* The operand of a unary operator begins with a cast, `- (T) x'.          *)
CastOperand ==
  Is(pos - 1, "(") /\ pos > 2 /\ tokens[pos - 2] \in {"&", "*", "+", "-", "~", "!"}

(* The operand of sizeof goes on after its parenthesis, `sizeof (x) [0]'.  *)
SizeofGoesOn ==
  \E k \in DOMAIN tokens : Is(k, "sizeof") /\ Is(k + 1, "(") /\ Closed(k + 1, Around) = pos - 1

(* A typedef name is declared again, `int T = ...': parse.c takes it for one *)
(* more specifier.                                                         *)
TypedefAgain ==
  /\ names # << >> /\ Last(names).sy_type = "type" /\ Last(names).at = pos - 1
  /\ pos > 2 /\ tokens[pos - 2] \in StorageClasses \cup BasicTypes \cup Scope(input, "type") \cup {"}"}

(* Specifiers are missing, or a macro of stdarg.h stands for a variable:   *)
(* sema.c rejects it.                                                      *)
LeftToSema == ToSet(out) \cap (Builtins \cup {"NO_SPECIFIERS"}) # {}

(* For a sentence of C the parser builds the tree the grammar of C gives   *)
(* it: precedence, association, what a cast, a sizeof or an else applies   *)
(* to, which declarator an array or a pointer belongs to.  At an error, no *)
(* sentence begins with the tokens up to it, but for two forms of operand  *)
(* and one of declarator that parse.c leaves out.                          *)
ParsesC ==
  input \in Compared =>
    /\ phase = "done" /\ ~LeftToSema =>
         LET n == Len(tokens) - 1
         IN  n >= 1 /\ Part(Front(tokens), out) \in Language.sentences[n]
    /\ phase = "error" /\ ~Constraint => CastOperand \/ SizeofGoesOn \/ TypedefAgain \/ NotASentence

-----------------------------------------------------------------------------
(* The scope of a declaration, told from the brackets around it: it is in  *)
(* the innermost block, list of parameters or header of a for around it    *)
(* (the enumerators between the brackets of an enum are not apart from     *)
(* what is around it).  The scope of a block ends with it; that of the     *)
(* parameters next to the name of a function and that of a for, with the   *)
(* body that follows if there is one.                                      *)
ScopeEnd(at, around) ==
  LET open  == {o \in ToSet(around[at]) : Is(o, "(") \/ (Is(o, "{") /\ ~Is(o - 1, "enum"))}
      o     == CHOOSE i \in open : \A j \in open : j <= i
      c     == Closed(o, around)
      level == Len(around[o]) - 1
      \* after the brackets of the declarator that follow
      after == FirstOf({i \in c + 1 .. Len(tokens) :
                          Len(around[i - 1]) = level /\ tokens[i] \notin {"(", "["}})
  IN  CASE open = {} -> Len(tokens) + 1
        [] open # {} /\ Is(o - 1, "for") ->
             IF Is(c + 1, "{") THEN Closed(c + 1, around)
             ELSE FirstOf({i \in c + 1 .. Len(tokens) : tokens[i] = ";" /\ Len(around[i]) = level})
        [] open # {} /\ Is(o, "(") /\ o > 1 /\ tokens[o - 1] \in Identifiers /\ Is(after, "{") ->
             Closed(after, around)
        [] OTHER -> c

Uses  == {n \in ToSet(names) : n.kind = "use"}
Decls == {n \in ToSet(names) : n.kind = "decl"}

(* The initializer of a variable, where the parser does not know it yet.   *)
InItsInitializer(u) ==
  \/ \E d \in Decls : d.identifier = u.identifier /\ d.sy_type # "const" /\ d.to < u.at /\ u.at < d.at
  \/ \E i \in DOMAIN symbols : symbols[i].identifier = u.identifier /\ symbols[i].sy_type # "const"

(* What the identifier at a token stands for: the declaration before it    *)
(* with the innermost scope.                                               *)
Meaning(u, around) ==
  LET visible == {d \in Decls : /\ d.identifier = u.identifier
                                /\ d.at <= u.at /\ u.at < ScopeEnd(d.to, around)}
      inner   == {d \in visible : \A e \in visible : ScopeEnd(d.to, around) <= ScopeEnd(e.to, around)}
      latest  == CHOOSE d \in inner : \A e \in inner : e.to <= d.to
      outside == lookup_symbol(u.identifier, input.scopes)
  IN  IF visible = {} THEN <<outside.sy_type, outside.at>> ELSE <<latest.sy_type, latest.to>>

(* Each identifier in an expression or among specifiers is taken for the   *)
(* typedef, enumeration constant or variable that the scope rules of C     *)
(* make of it, whatever blocks, parameters and for statements began or     *)
(* ended before it; and no scope has an identifier for two of these.       *)
NamesBound ==
  phase \in {"done", "error"} =>
    LET around == Around
    IN  /\ \A u \in Uses : ~InItsInitializer(u) => <<u.sy_type, u.to>> = Meaning(u, around)
        /\ phase = "done" =>
             \A d, e \in Decls :
               d.identifier = e.identifier /\ ScopeEnd(d.to, around) = ScopeEnd(e.to, around)
                 => d.sy_type = e.sy_type
=============================================================================
