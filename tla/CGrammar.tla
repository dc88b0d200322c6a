------------------------------- MODULE CGrammar -------------------------------
(***************************************************************************)
(* The part of the grammar of C11 that the compiler takes, as productions, *)
(* and the sentences they derive.  This is what parse.c is to recognise;   *)
(* it knows nothing of how parse.c goes about it.                          *)
(*                                                                         *)
(* A production has the node of the tree it makes, if any: a sentence is   *)
(* derived together with its tree in postfix, each node after its parts.   *)
(* "no;" and "no)" are the tokens after an expression that is left out.     *)
(***************************************************************************)
EXTENDS Integers, Sequences, FiniteSets, SequencesExt

LOCAL P(left, right, node) == [left |-> left, right |-> right, node |-> node]

LOCAL Binary(left, operand, nodes) ==
  {P(left, <<operand>>, "")} \cup {P(left, <<left, t, operand>>, nodes[t]) : t \in DOMAIN nodes}

(* With or without the part in the middle. *)
LOCAL Optional(left, before, part, after, node) ==
  {P(left, before \o part \o after, node), P(left, before \o after, node)}

Expressions ==
  { P("primary", <<"variable">>, ""), P("primary", <<"constant">>, ""), P("primary", <<"(", "expression", ")">>, ""),
    P("primary", <<"__builtin_va_start", "(", "assignment", ",", "identifier", ")">>, "VA_START"),
    P("primary", <<"__builtin_va_arg", "(", "assignment", ",", "type-name", ")">>, "VA_ARG"),
    P("primary", <<"__builtin_va_end", "(", "assignment", ")">>, "VA_END"),
    P("postfix", <<"primary">>, ""),
    P("postfix", <<"postfix", "[", "expression", "]">>, "SUBSCRIPTION"),
    P("postfix", <<"postfix", "(", ")">>, "CALL"),
    P("postfix", <<"postfix", "(", "arguments", ")">>, "CALL"),
    P("postfix", <<"postfix", ".", "identifier">>, "DOT"),
    P("postfix", <<"postfix", "->", "identifier">>, "ARROW"),
    P("postfix", <<"postfix", "++">>, "POST_INC"), P("postfix", <<"postfix", "--">>, "POST_DEC"),
    P("arguments", <<"assignment">>, "ARG"),
    P("arguments", <<"arguments", ",", "assignment">>, "ARG"),
    P("unary", <<"postfix">>, ""),
    P("unary", <<"++", "unary">>, "PRE_INC"), P("unary", <<"--", "unary">>, "PRE_DEC"),
    P("unary", <<"&", "cast">>, "ADDRESS"), P("unary", <<"*", "cast">>, "INDIRECT"),
    P("unary", <<"+", "cast">>, "UPLUS"), P("unary", <<"-", "cast">>, "UMINUS"),
    P("unary", <<"~", "cast">>, "NOT"), P("unary", <<"!", "cast">>, "LNOT"),
    P("unary", <<"sizeof", "unary">>, "SIZEOF"),
    P("unary", <<"sizeof", "(", "type-name", ")">>, "SIZEOF"),
    P("unary", <<"_Alignof", "(", "type-name", ")">>, "ALIGNOF"),
    P("cast", <<"unary">>, ""), P("cast", <<"(", "type-name", ")", "cast">>, "CAST"),
    P("conditional", <<"logical-or">>, ""),
    P("conditional", <<"logical-or", "?", "expression", ":", "conditional">>, "CONDITION"),
    P("assignment", <<"conditional">>, "") }
  \cup Binary("multiplicative", "cast", "*" :> "MUL" @@ "/" :> "DIV" @@ "%" :> "MOD")
  \cup Binary("additive", "multiplicative", "+" :> "ADD" @@ "-" :> "SUB")
  \cup Binary("shift", "additive", "<<" :> "LSHIFT" @@ ">>" :> "RSHIFT")
  \cup Binary("relational", "shift", "<" :> "LT" @@ ">" :> "GT" @@ "<=" :> "LTE" @@ ">=" :> "GTE")
  \cup Binary("equality", "relational", "==" :> "EQ" @@ "!=" :> "NEQ")
  \cup Binary("and", "equality", "&" :> "AND") \cup Binary("xor", "and", "^" :> "XOR")
  \cup Binary("or", "xor", "|" :> "OR") \cup Binary("logical-and", "or", "&&" :> "LAND")
  \cup Binary("logical-or", "logical-and", "||" :> "LOR")
  \cup Binary("expression", "assignment", "," :> "COMMA")
  \* In C11 a unary expression stands to the left; sema.c refuses a cast there, which is no lvalue.
  \cup {P("assignment", <<"cast", op[1], "assignment">>, op[2]) : op \in
          {<<"=", "ASSIGN">>, <<"*=", "MUL_ASSIGN">>, <<"/=", "DIV_ASSIGN">>, <<"%=", "MOD_ASSIGN">>,
           <<"+=", "ADD_ASSIGN">>, <<"-=", "SUB_ASSIGN">>}}

LOCAL Suffixed(d) ==
  Optional(d, <<d, "[">>, <<"size">>, <<"]">>, "ARRAY")
  \cup Optional(d, <<d, "(">>, <<"parameters">>, <<")">>, "FUNCTION")
  \cup {P(d, <<d, "(", "parameters", ",", "...", ")">>, "FUNCTION")}

Declarations ==
  Optional("declaration", <<"specifiers">>, <<"init-declarators">>, <<";">>, "DECL")
  \cup {P("specifiers", <<s>>, "") : s \in {"storage-class", "type-specifier", "_Noreturn"}}
  \cup {P("specifiers", <<"specifiers", s>>, "") : s \in {"storage-class", "type-specifier", "_Noreturn"}}
  \cup {P("storage-class", <<s>>, "") : s \in {"typedef", "extern", "static"}}
  \cup {P("type-specifier", <<s>>, "") : s \in
          {"void", "char", "short", "int", "long", "signed", "unsigned", "_Bool", "typedef-name"}}
  \cup {P("types", <<"type-specifier">>, ""), P("types", <<"types", "type-specifier">>, "")}
  \cup { P("type-specifier", <<"struct", "identifier">>, "STRUCT"),
         P("type-specifier", <<"struct", "identifier", "{", "members", "}">>, "STRUCT"),
         P("type-specifier", <<"struct", "{", "members", "}">>, "STRUCT"),
         P("members", <<"member">>, ""), P("members", <<"members", "member">>, ""),
         P("member-declarators", <<"declarator">>, ""),
         P("member-declarators", <<"member-declarators", ",", "declarator">>, "") }
  \cup Optional("member", <<"types">>, <<"member-declarators">>, <<";">>, "MEMBERS")
  \cup { P("type-specifier", <<"enum", "identifier">>, "ENUM"),
         P("enumerator", <<"identifier">>, ""),
         P("enumerator", <<"identifier", "=", "conditional">>, "VALUE"),
         P("enumerators", <<"enumerator">>, ""), P("enumerators", <<"enumerators", ",", "enumerator">>, "") }
  \cup {P("type-specifier", <<"enum">> \o tag \o <<"{", "enumerators">> \o comma \o <<"}">>, "ENUM") :
          tag \in {<<"identifier">>, << >>}, comma \in {<<",">>, << >>}}
  \cup { P("init-declarators", <<"init-declarator">>, ""),
         P("init-declarators", <<"init-declarators", ",", "init-declarator">>, ""),
         P("init-declarator", <<"declarator">>, ""),
         P("init-declarator", <<"declarator", "=", "initializer">>, "INIT"),
         P("initializer", <<"assignment">>, ""),
         P("initializer", <<"{", "initializers", "}">>, "LIST"),
         P("initializer", <<"{", "initializers", ",", "}">>, "LIST"),
         P("initializer", <<"{", "}">>, "LIST"),   \* not in C11; the compiler takes an empty list
         P("initializers", <<"initializer">>, "ELEMENT"),
         P("initializers", <<"initializers", ",", "initializer">>, "ELEMENT") }
  \cup { P("declarator", <<"direct-declarator">>, ""), P("declarator", <<"*", "declarator">>, "POINTER"),
         P("direct-declarator", <<"identifier">>, ""), P("size", <<"assignment">>, "SIZE"),
         P("parameters", <<"parameter">>, ""), P("parameters", <<"parameters", ",", "parameter">>, ""),
         P("parameter", <<"types">>, "PARAM"), P("parameter", <<"types", "declarator">>, "PARAM"),
         P("parameter", <<"types", "abstract">>, "PARAM"),
         P("type-name", <<"types">>, "TYPE_NAME"), P("type-name", <<"types", "abstract">>, "TYPE_NAME"),
         P("abstract", <<"direct-abstract">>, ""), P("abstract", <<"*">>, "POINTER"),
         P("abstract", <<"*", "abstract">>, "POINTER") }
  \cup Optional("direct-abstract", <<"[">>, <<"size">>, <<"]">>, "ARRAY")
  \cup Optional("direct-abstract", <<"(">>, <<"parameters">>, <<")">>, "FUNCTION")
  \cup Suffixed("direct-declarator") \cup Suffixed("direct-abstract")

(* An else belongs to the nearest if: what stands between an if and its    *)
(* else, "closed", ends in no if without an else.                          *)
Statements ==
  {P("closed", <<"simple">>, ""), P("statement", <<"simple">>, ""),
   P("statement", <<"if", "(", "expression", ")", "statement">>, "IF")}
  \cup UNION {
    { P(s, <<"identifier", ":", s>>, "LABEL"), P(s, <<"case", "conditional", ":", s>>, "CASE"),
      P(s, <<"default", ":", s>>, "DEFAULT"),
      P(s, <<"if", "(", "expression", ")", "closed", "else", s>>, "IF_ELSE"),
      P(s, <<"switch", "(", "expression", ")", s>>, "SWITCH"),
      P(s, <<"while", "(", "expression", ")", s>>, "WHILE") }
    \cup {P(s, <<"for", "(">> \o init \o cond \o after \o <<s>>, "FOR") :
            init \in {<<"declaration">>, <<"expression", ";">>, <<"no;">>},
            cond \in {<<"expression", ";">>, <<"no;">>}, after \in {<<"expression", ")">>, <<"no)">>}}
    : s \in {"statement", "closed"}}
  \cup { P("simple", <<"expression", ";">>, "EXPR"), P("simple", <<"no;">>, "EXPR"),
         P("simple", <<"do", "statement", "while", "(", "expression", ")", ";">>, "DO"),
         P("simple", <<"goto", "identifier", ";">>, "GOTO"), P("simple", <<"continue", ";">>, "CONTINUE"),
         P("simple", <<"break", ";">>, "BREAK"), P("simple", <<"return", "no;">>, "RETURN"),
         P("simple", <<"return", "expression", ";">>, "RETURN"), P("simple", <<"compound">>, ""),
         P("compound", <<"{", "}">>, "COMP"), P("compound", <<"{", "items", "}">>, "COMP"),
         P("items", <<"item">>, "ITEM"), P("items", <<"items", "item">>, "ITEM"),
         P("item", <<"statement">>, ""), P("item", <<"declaration">>, "") }

Units ==
  { P("external", <<"declaration">>, ""),
    P("external", <<"specifiers", "function-declarator", "compound">>, "FUNC"),
    P("function-declarator", <<"direct-function">>, ""),
    P("function-declarator", <<"*", "function-declarator">>, "POINTER"),
    P("unit", <<"external">>, ""), P("unit", <<"unit", "external">>, "") }
  \cup Optional("direct-function", <<"identifier", "(">>, <<"parameters">>, <<")">>, "FUNCTION")
  \cup {P("direct-function", <<"identifier", "(", "parameters", ",", "...", ")">>, "FUNCTION")}
  \cup Suffixed("direct-function")

Productions == Expressions \cup Declarations \cup Statements \cup Units

(* The nonterminals, each after those that derive it alone. *)
Nonterminals ==
  <<"primary", "postfix", "unary", "cast", "multiplicative", "additive", "shift", "relational",
    "equality", "and", "xor", "or", "logical-and", "logical-or", "conditional", "assignment",
    "expression", "size", "arguments", "storage-class", "type-specifier", "specifiers", "types",
    "direct-declarator", "declarator", "direct-abstract", "abstract", "type-name", "member",
    "members", "member-declarators", "enumerator", "enumerators", "initializer", "initializers",
    "init-declarator", "init-declarators", "declaration", "parameter", "parameters", "compound",
    "simple", "closed", "statement", "item", "items", "direct-function", "function-declarator", "external", "unit">>

(* Tokens that are leaves of the tree. *)
Leaves == {"1", "'c'", "\"s\"", "...", "void", "char", "short", "int", "long", "signed", "unsigned",
           "_Bool", "typedef", "extern", "static", "_Noreturn"}

-----------------------------------------------------------------------------
(* A context says which identifiers are variables, types and constants and *)
(* which other tokens there are.  What stands for one token, and its leaf  *)
(* of the tree:                                                            *)
Part(words, tree) == [tokens |-> words, tree |-> tree]

Terminal(symbol, c) ==
  LET Each(set) == {Part(<<t>>, <<t>>) : t \in set}
  IN  CASE symbol = "identifier"   -> Each(c.variables \cup c.typedefs \cup c.constants)
        [] symbol = "typedef-name" -> Each(c.typedefs)
        [] symbol = "variable"     -> Each(c.variables)
        [] symbol = "constant"     -> Each(c.tokens \cap {"1", "'c'", "\"s\""})
                                        \cup {Part(<<t>>, <<"ENUM_CONST">>) : t \in c.constants}
        [] symbol \in {"no;", "no)"} ->
             {Part(<<t>>, <<"NONE">>) : t \in {IF symbol = "no;" THEN ";" ELSE ")"} \cap c.tokens}
        [] OTHER -> {Part(<<t>>, IF t \in Leaves THEN <<t>> ELSE << >>) : t \in {symbol} \cap c.tokens}

(* The forms whose sentences are found: the tokens and the beginnings of   *)
(* the right sides of productions, then the nonterminals.                  *)
Listed(set) ==
  LET First[n \in 0 .. Cardinality(set)] ==
        IF n = 0 THEN << >>
        ELSE LET before == First[n - 1] IN Append(before, CHOOSE f \in set : f \notin ToSet(before))
  IN  First[Cardinality(set)]

ProductionsOf == [k \in DOMAIN Nonterminals |-> {p \in Productions : p.left = Nonterminals[k]}]

Beginnings ==
  LET Of(p) == {<<t>> : t \in ToSet(p.right) \ ToSet(Nonterminals)}
               \cup {SubSeq(p.right, 1, l) : l \in 2 .. Len(p.right)}
      First[k \in 0 .. Len(Nonterminals)] ==
        IF k = 0 THEN << >>
        ELSE LET before == First[k - 1]
             IN  before \o Listed(UNION {Of(p) : p \in ProductionsOf[k]} \ ToSet(before))
  IN  First[Len(Nonterminals)]

(* The forms as they are numbered; of a beginning, the two forms it is     *)
(* made of; of a nonterminal, its right sides.                             *)
Numbered(forms, rank) ==
  [forms |-> forms, rank |-> rank,
   pairs |-> << >> \o [k \in DOMAIN Beginnings |->
               LET f == forms[k] IN IF Len(f) = 1 THEN << >> ELSE <<rank[Front(f)], rank[<<Last(f)>>]>>],
   sides |-> << >> \o [k \in DOMAIN Nonterminals |->
               Listed({[of |-> rank[p.right], node |-> IF p.node = "" THEN << >> ELSE <<p.node>>] :
                         p \in ProductionsOf[k]})]]

Ranked(forms) ==
  Numbered(forms, [f \in ToSet(forms) |-> CHOOSE k \in DOMAIN forms : forms[k] = f])

Grammar == Ranked(Beginnings \o [k \in DOMAIN Nonterminals |-> <<Nonterminals[k]>>])

(* All of the first followed by all of the second. *)
Cross(first, second) ==
  << >> \o [i \in 1 .. Len(first) * Len(second) |->
              LET f == first[((i - 1) \div Len(second)) + 1]
                  s == second[((i - 1) % Len(second)) + 1]
              IN  Part(f.tokens \o s.tokens, f.tree \o s.tree)]

(* What each form derives, listed for each number of tokens up to max. *)
Derived(grammar, c, max) ==
  LET Pairs == grammar.pairs
      Sides == grammar.sides
      Terminals == << >> \o [k \in DOMAIN Pairs |->
                     IF Pairs[k] = << >> THEN Listed(Terminal(grammar.forms[k][1], c)) ELSE << >>]
      Known[n \in 0 .. max] ==
        IF n = 0 THEN << >>
        ELSE LET known == Known[n - 1]
                 OfBeginning(k) ==
                   IF Pairs[k] = << >> THEN IF n = 1 THEN Terminals[k] ELSE << >>
                   ELSE FlattenSeq([m \in 1 .. n - 1 |-> Cross(known[m][Pairs[k][1]], known[n - m][Pairs[k][2]])])
                 Row[k \in 0 .. Len(Nonterminals)] ==
                   IF k = 0 THEN << >> \o [b \in DOMAIN Pairs |-> OfBeginning(b)]
                   ELSE LET row == Row[k - 1]
                            Of(r) == IF r <= Len(row) THEN row[r] ELSE << >>
                            Side(side) == LET s == Of(side.of)
                                          IN  << >> \o [i \in DOMAIN s |-> Part(s[i].tokens, s[i].tree \o side.node)]
                        IN  Append(row, FlattenSeq([j \in DOMAIN Sides[k] |-> Side(Sides[k][j])]))
             IN  Append(known, Row[Len(Nonterminals)])
  IN  Known[max]

(* The sentences of a symbol, by length. *)
Sentences(grammar, symbol, c, max) ==
  LET derived == Derived(grammar, c, max)
  IN  << >> \o [n \in 1 .. max |-> ToSet(derived[n][grammar.rank[<<symbol>>]])]
=============================================================================
