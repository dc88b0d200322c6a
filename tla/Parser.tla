-------------------------------- MODULE Parser --------------------------------
(***************************************************************************)
(* parse.c: a recursive descent over the tokens of a translation unit that *)
(* keeps the scopes of identifiers as it goes, because whether a name is a *)
(* type decides how the tokens after it are read.                          *)
(*                                                                         *)
(* A function of parse.c is the sequence of what it does for the token it  *)
(* looks at: tokens it takes, functions it calls, nodes it builds, scopes  *)
(* it opens.  `todo' holds what the calls in progress still have to do.    *)
(* The tree is written to `out' in postfix: every function builds a node   *)
(* after its parts.  A token is chosen when the parser first looks at it,  *)
(* so every sentence and every first error within the bounds is covered.   *)
(***************************************************************************)
EXTENDS Integers, Sequences, FiniteSets, SequencesExt

CONSTANTS Inputs,      \* where in a unit the tokens stand: what is parsed, up to which token,
                       \* the first tokens and those there may be then, how many at most, and
                       \* the scopes open before them
          Identifiers

ASSUME ParserAssumption ==
  /\ Identifiers # {}
  /\ \A i \in Inputs : i.max \in Nat /\ i.end \notin Identifiers

VARIABLES input,         \* the member of Inputs that is parsed
          phase,         \* "parse", "done" or "error"
          tokens, pos,   \* the tokens seen so far, and the one the parser is at
          todo,
          out,           \* the tree
          symbol_scopes, \* for each open scope the symbols of its map
          specs,         \* for each declaration in progress, how many typedefs it has
          symbols,       \* the symbols of declarators in progress
          names          \* what each identifier was taken for, and what was declared

vars == <<input, phase, tokens, pos, todo, out, symbol_scopes, specs, symbols, names>>

-----------------------------------------------------------------------------
(* What a function of parse.c is made of. *)
Item(do, what) == [do |-> do, what |-> what]

Call(f)     == Item("call", f)       \* call a function
Rest(l)     == Item("rest", l)       \* the loop over the operators of level l
Expect(t)   == Item("expect", t)     \* expect(t)
Build(op)   == Item("build", op)     \* a node of the tree
Declare(as) == Item("declare", as)   \* the identifier of a declarator
Suffix(op)  == Item("suffix", op)    \* [] or () after a declarator
Take        == Item("take", "")      \* read() of the token looked at
Leaf        == Item("leaf", "")      \* the same, the token being a leaf of the tree
Name        == Item("name", "")      \* the same, an identifier in an expression
TypeName    == Item("typename", "")  \* the same, a typedef name
Typedef     == Item("typedef", "")   \* the same, `typedef' among the specifiers
Member      == Item("member", "")    \* expect(TK_IDENTIFIER), a leaf
Open        == Item("open", "")      \* vector_push(symbol_scopes, map_new())
Close       == Item("close", "")     \* vector_pop(symbol_scopes)
Put         == Item("put", "")       \* put_symbol
PutFunc     == Item("putfunc", "")   \* put_symbol, then the scope of the parameters opens again
Drop        == Item("drop", "")      \* a symbol that is put nowhere
Begin       == Item("begin", "")     \* a list of specifiers begins
CheckTypedef(limit) == Item("checktypedef", limit)
Finish      == Item("finish", "")    \* its declaration is done
Error       == Item("error", "")     \* ERROR

Looks == {"call", "rest", "expect", "declare", "member"}

(* Variant: the outermost scope is asked first. *)
lookup_symbol_Outermost(identifier, scopes) ==
  LET found == {i \in DOMAIN scopes : \E s \in scopes[i] : s.identifier = identifier}
  IN  IF found = {} THEN [identifier |-> identifier, sy_type |-> "none", at |-> 0]
      ELSE LET i == CHOOSE m \in found : \A n \in found : m <= n
           IN  CHOOSE s \in scopes[i] : s.identifier = identifier

(* lookup_symbol: the innermost scope that has the identifier. *)
lookup_symbol(identifier, scopes) ==
  LET found == {i \in DOMAIN scopes : \E s \in scopes[i] : s.identifier = identifier}
  IN  IF found = {} THEN [identifier |-> identifier, sy_type |-> "none", at |-> 0]
      ELSE LET i == CHOOSE m \in found : \A n \in found : m >= n
           IN  CHOOSE s \in scopes[i] : s.identifier = identifier

peek == tokens[pos]

check_typedef_name ==
  peek \in Identifiers /\ lookup_symbol(peek, symbol_scopes).sy_type = "type"

StorageClasses == {"typedef", "extern", "static"}
BasicTypes     == {"void", "char", "short", "int", "long", "signed", "unsigned", "_Bool"}

check_type_specifier == peek \in BasicTypes \cup {"struct", "enum"} \/ check_typedef_name

check_declaration_specifier ==
  peek \in StorageClasses \cup {"_Noreturn"} \/ check_type_specifier

-----------------------------------------------------------------------------
(* Expressions *)
Constants == {"1", "'c'", "\"s\""}
Builtins  == {"__builtin_va_start", "__builtin_va_arg", "__builtin_va_end"}

primary_expression ==
  CASE peek \in Builtins                               -> <<Take, Call("builtin")>>
    [] peek \in Identifiers /\ ~check_typedef_name     -> <<Name>>
    [] peek \in Constants                              -> <<Leaf>>
    [] peek = "("                                      -> <<Take, Call("expression"), Expect(")")>>
    [] OTHER                                           -> <<Error>>

(* The macros of stdarg.h, whose name has been read. *)
builtin ==
  LET macro == tokens[pos - 1]
      ap    == <<Take, Call("assignment_expression")>>
  IN  CASE peek # "("                   -> <<Build(macro)>>
        [] macro = "__builtin_va_start" -> ap \o <<Expect(","), Member, Expect(")"), Build("VA_START")>>
        [] macro = "__builtin_va_arg"   -> ap \o <<Expect(","), Call("type_name"), Expect(")"), Build("VA_ARG")>>
        [] macro = "__builtin_va_end"   -> ap \o <<Expect(")"), Build("VA_END")>>

Postfix(op) == <<Build(op), Call("postfix_rest")>>

(* The loop of postfix_expression. *)
postfix_rest ==
  CASE peek = "["  -> <<Take, Call("expression"), Expect("]")>> \o Postfix("SUBSCRIPTION")
    [] peek = "("  -> <<Take, Call("arguments"), Expect(")")>> \o Postfix("CALL")
    [] peek = "."  -> <<Take, Member>> \o Postfix("DOT")
    [] peek = "->" -> <<Take, Member>> \o Postfix("ARROW")
    [] peek = "++" -> <<Take>> \o Postfix("POST_INC")
    [] peek = "--" -> <<Take>> \o Postfix("POST_DEC")
    [] OTHER       -> << >>

arguments == IF peek = ")" THEN << >> ELSE <<Call("argument")>>
argument  == <<Call("assignment_expression"), Build("ARG"), Call("more_arguments")>>
more_arguments == IF peek = "," THEN <<Take, Call("argument")>> ELSE << >>

UnaryOps == "++" :> "PRE_INC" @@ "--" :> "PRE_DEC" @@ "&" :> "ADDRESS" @@ "*" :> "INDIRECT"
            @@ "+" :> "UPLUS" @@ "-" :> "UMINUS" @@ "~" :> "NOT" @@ "!" :> "LNOT"

unary_expression ==
  CASE peek \in DOMAIN UnaryOps -> <<Take, Call("unary_expression"), Build(UnaryOps[peek])>>
    [] peek = "sizeof"   -> <<Take, Call("sizeof_operand"), Build("SIZEOF")>>
    [] peek = "_Alignof" -> <<Take, Expect("("), Call("type_name"), Expect(")"), Build("ALIGNOF")>>
    [] OTHER             -> <<Call("primary_expression"), Call("postfix_rest")>>

sizeof_operand ==
  IF peek = "(" THEN <<Take, Call("type_or_expression"), Expect(")")>>
  ELSE <<Call("unary_expression")>>

type_or_expression ==
  IF check_type_specifier THEN <<Call("type_name")>> ELSE <<Call("expression")>>

cast_expression ==
  IF peek = "(" THEN <<Take, Call("parenthesized")>> ELSE <<Call("unary_expression")>>

(* Variant: what follows (expression) is left to the callers. *)
parenthesized_Alone ==
  IF check_type_specifier
    THEN <<Call("type_name"), Expect(")"), Call("cast_expression"), Build("CAST")>>
    ELSE <<Call("expression"), Expect(")")>>

(* cast_expression after its `('. *)
parenthesized ==
  IF check_type_specifier
    THEN <<Call("type_name"), Expect(")"), Call("cast_expression"), Build("CAST")>>
    ELSE <<Call("expression"), Expect(")"), Call("postfix_rest")>>

(* The operators of multiplicative_expression, additive_expression and so  *)
(* on to logical_or_expression: each function loops over its own, between  *)
(* operands that are calls of the function before it.                      *)
Levels ==
  << "*" :> "MUL" @@ "/" :> "DIV" @@ "%" :> "MOD",
     "+" :> "ADD" @@ "-" :> "SUB",
     "<<" :> "LSHIFT" @@ ">>" :> "RSHIFT",
     "<" :> "LT" @@ ">" :> "GT" @@ "<=" :> "LTE" @@ ">=" :> "GTE",
     "==" :> "EQ" @@ "!=" :> "NEQ",
     "&" :> "AND", "^" :> "XOR", "|" :> "OR", "&&" :> "LAND", "||" :> "LOR" >>

Loops(l) == [i \in 1 .. l |-> Rest(i)]

Operand(l) == <<Call("cast_expression")>> \o Loops(l - 1)

binary_loop(l) ==
  IF peek \in DOMAIN Levels[l]
    THEN <<Take>> \o Operand(l) \o <<Build(Levels[l][peek]), Rest(l)>> ELSE << >>

conditional_expression == Operand(Len(Levels) + 1) \o <<Call("conditional_rest")>>

conditional_rest ==
  IF peek = "?"
    THEN <<Take, Call("expression"), Expect(":"), Call("conditional_expression"), Build("CONDITION")>>
    ELSE << >>

Assignments == "=" :> "ASSIGN" @@ "*=" :> "MUL_ASSIGN" @@ "/=" :> "DIV_ASSIGN"
               @@ "%=" :> "MOD_ASSIGN" @@ "+=" :> "ADD_ASSIGN" @@ "-=" :> "SUB_ASSIGN"

assignment_expression == <<Call("cast_expression"), Call("assignment_rest")>>

assignment_rest ==
  IF peek \in DOMAIN Assignments
    THEN <<Take, Call("assignment_expression"), Build(Assignments[peek])>>
    ELSE Loops(Len(Levels)) \o <<Call("conditional_rest")>>

expression == <<Call("assignment_expression"), Call("comma_rest")>>

comma_rest ==
  IF peek = "," THEN <<Take, Call("assignment_expression"), Build("COMMA"), Call("comma_rest")>>
  ELSE << >>

-----------------------------------------------------------------------------
(* Declarations *)
declaration ==
  <<Begin, Call("declaration_specifiers"), CheckTypedef(1), Call("init_declarators"), Expect(";"),
    Build("DECL"), Finish>>

init_declarators == IF peek = ";" THEN << >> ELSE <<Call("init_declarator_list")>>

init_declarator_list == <<Call("init_declarator"), Put, Call("more_declarators")>>
more_declarators     == IF peek = "," THEN <<Take, Call("init_declarator_list")>> ELSE << >>

declaration_specifier ==
  CASE peek = "typedef"        -> <<Typedef, Call("more_specifiers")>>
    [] check_type_specifier    -> <<Call("type_specifier"), Call("more_specifiers")>>
    [] OTHER                   -> <<Leaf, Call("more_specifiers")>>

(* The loop of declaration_specifiers ends at once when there is none;     *)
(* that is noted, as sema.c rejects it.                                    *)
declaration_specifiers ==
  IF check_declaration_specifier THEN declaration_specifier ELSE <<Build("NO_SPECIFIERS")>>

more_specifiers == IF check_declaration_specifier THEN declaration_specifier ELSE << >>

check_qualifier == peek \in StorageClasses \/ check_type_specifier

specifier_qualifier ==
  IF check_type_specifier THEN <<Call("type_specifier"), Call("more_qualifiers")>>
  ELSE <<Leaf, Call("more_qualifiers")>>

specifier_qualifier_list ==
  IF check_qualifier THEN specifier_qualifier ELSE <<Build("NO_SPECIFIERS")>>

more_qualifiers == IF check_qualifier THEN specifier_qualifier ELSE << >>

type_specifier ==
  CASE peek = "struct" -> <<Take, Call("struct_or_union_specifier")>>
    [] peek = "enum"   -> <<Take, Call("enum_specifier")>>
    [] peek \in BasicTypes -> <<Leaf>>
    [] OTHER           -> <<TypeName>>

(* What follows `struct', and what may follow its tag. *)
struct_or_union_specifier ==
  IF peek \in Identifiers THEN <<Leaf, Call("struct_body"), Build("STRUCT")>>
  ELSE <<Expect("{"), Call("struct_declaration"), Call("struct_declarations"), Build("STRUCT")>>

struct_body ==
  IF peek = "{" THEN <<Take, Call("struct_declaration"), Call("struct_declarations")>> ELSE << >>

struct_declarations ==
  IF peek \in {"}", "EOF"} THEN <<Expect("}")>>
  ELSE <<Call("struct_declaration"), Call("struct_declarations")>>

struct_declaration ==
  <<Call("specifier_qualifier_list"), Call("struct_declarators"), Expect(";"), Build("MEMBERS")>>

struct_declarators     == IF peek = ";" THEN << >> ELSE <<Call("struct_declarator_list")>>
struct_declarator_list ==
  <<Call("declarator"), Drop, Call("more_struct_declarators")>>
more_struct_declarators ==
  IF peek = "," THEN <<Take, Call("struct_declarator_list")>> ELSE << >>

enum_specifier ==
  IF peek \in Identifiers THEN <<Leaf, Call("enum_body"), Build("ENUM")>>
  ELSE <<Expect("{"), Call("enumerators"), Build("ENUM")>>

enum_body == IF peek = "{" THEN <<Take, Call("enumerators")>> ELSE << >>

enumerators ==
  <<Declare("constant"), Call("enumerator_value"), Put, Call("more_enumerators")>>
enumerator_value ==
  IF peek = "=" THEN <<Take, Call("conditional_expression"), Build("VALUE")>> ELSE << >>
more_enumerators ==
  IF peek = "," THEN <<Take, Call("last_enumerator")>> ELSE <<Expect("}")>>
last_enumerator == IF peek = "}" THEN <<Take>> ELSE <<Call("enumerators")>>

init_declarator   == <<Call("declarator"), Call("initializer_opt")>>
initializer_opt   == IF peek = "=" THEN <<Take, Call("initializer"), Build("INIT")>> ELSE << >>

declarator ==
  IF peek = "*" THEN <<Take, Call("declarator"), Build("POINTER")>>
  ELSE <<Declare("symbol"), Call("declarator_rest")>>

(* The loop of direct_declarator, param_direct_declarator and              *)
(* direct_abstract_declarator.                                             *)
declarator_rest ==
  CASE peek = "[" -> <<Take, Call("size_opt"), Expect("]"), Suffix("ARRAY"), Call("declarator_rest")>>
    [] peek = "(" -> <<Take, Open, Call("parameters"), Expect(")"), Suffix("FUNCTION"),
                       Call("declarator_rest")>>
    [] OTHER      -> << >>

size_opt   == IF peek = "]" THEN << >> ELSE <<Call("assignment_expression"), Build("SIZE")>>
parameters == IF peek = ")" THEN << >> ELSE <<Call("parameter_declaration"), Call("more_parameters")>>
more_parameters   == IF peek = "," THEN <<Take, Call("ellipsis_or_more")>> ELSE << >>
ellipsis_or_more  == IF peek = "..." THEN <<Leaf>> ELSE <<Call("parameter_declaration"), Call("more_parameters")>>

parameter_declaration ==
  <<Call("specifier_qualifier_list"), Call("param_declarator"), Put, Build("PARAM")>>

param_declarator ==
  CASE peek = "*"            -> <<Take, Call("param_declarator"), Build("POINTER")>>
    [] peek \in Identifiers  -> <<Declare("param"), Call("declarator_rest")>>
    [] OTHER                 -> <<Declare("none"), Call("declarator_rest")>>

type_name == <<Call("specifier_qualifier_list"), Call("abstract_opt"), Build("TYPE_NAME")>>

abstract_opt == IF peek \in {"*", "[", "("} THEN <<Call("abstract_declarator")>> ELSE << >>
abstract_declarator ==
  IF peek = "*" THEN <<Take, Call("abstract_opt"), Build("POINTER")>>
  ELSE <<Declare("none"), Call("declarator_rest"), Drop>>

initializer ==
  IF peek = "{" THEN <<Take, Call("initializers")>> ELSE <<Call("assignment_expression")>>
initializers == IF peek = "}" THEN <<Take, Build("LIST")>> ELSE <<Call("initializer_list")>>
initializer_list  == <<Call("initializer"), Build("ELEMENT"), Call("more_initializers")>>
more_initializers ==
  IF peek = "," THEN <<Take, Call("initializers")>> ELSE <<Expect("}"), Build("LIST")>>

-----------------------------------------------------------------------------
(* Statements and external declarations *)
compound_statement == <<Expect("{"), Call("block_items")>>

block_items ==
  CASE peek \in {"}", "EOF"}       -> <<Expect("}"), Build("COMP")>>
    [] check_declaration_specifier -> <<Call("declaration"), Build("ITEM"), Call("block_items")>>
    [] OTHER                       -> <<Call("statement"), Build("ITEM"), Call("block_items")>>

expression_opt(end) == IF peek = end THEN <<Build("NONE")>> ELSE <<Call("expression")>>
before_semicolon == expression_opt(";")
before_paren     == expression_opt(")")

condition == <<Expect("("), Call("expression"), Expect(")")>>

else_opt ==
  IF peek = "else" THEN <<Take, Call("statement"), Build("IF_ELSE")>> ELSE <<Build("IF")>>

(* for_statement has one scope around its three parts and its body. *)
for_statement ==
  <<Open, Take, Expect("("), Call("for_init"), Call("before_semicolon"), Expect(";"),
    Call("before_paren"), Expect(")"), Call("statement"), Close, Build("FOR")>>

for_init ==
  IF check_declaration_specifier
    THEN <<Begin, Call("declaration_specifiers"), CheckTypedef(1), Call("init_declarators"),
           Expect(";"), Build("DECL"), CheckTypedef(0), Finish>>
    ELSE <<Call("before_semicolon"), Expect(";")>>

statement ==
  CASE peek \in Identifiers /\ tokens[pos + 1] = ":" ->
                           <<Leaf, Take, Call("statement"), Build("LABEL")>>
    [] peek = "case"     -> <<Take, Call("conditional_expression"), Expect(":"), Call("statement"),
                              Build("CASE")>>
    [] peek = "default"  -> <<Take, Expect(":"), Call("statement"), Build("DEFAULT")>>
    [] peek = "if"       -> <<Take>> \o condition \o <<Call("statement"), Call("else_opt")>>
    [] peek = "switch"   -> <<Take>> \o condition \o <<Call("statement"), Build("SWITCH")>>
    [] peek = "while"    -> <<Take>> \o condition \o <<Call("statement"), Build("WHILE")>>
    [] peek = "do"       -> <<Take, Call("statement"), Expect("while")>> \o condition
                              \o <<Expect(";"), Build("DO")>>
    [] peek = "for"      -> for_statement
    [] peek = "goto"     -> <<Take, Member, Expect(";"), Build("GOTO")>>
    [] peek = "continue" -> <<Take, Expect(";"), Build("CONTINUE")>>
    [] peek = "break"    -> <<Take, Expect(";"), Build("BREAK")>>
    [] peek = "return"   -> <<Take, Call("before_semicolon"), Expect(";"), Build("RETURN")>>
    [] peek = "{"        -> <<Open>> \o compound_statement \o <<Close>>
    [] OTHER             -> <<Call("before_semicolon"), Expect(";"), Build("EXPR")>>

external_declaration ==
  <<Begin, Call("declaration_specifiers"), CheckTypedef(1), Call("external_declarators")>>

external_declarators ==
  IF peek = ";" THEN <<Take, Build("DECL"), Finish>>
  ELSE <<Call("declarator"), Call("function_or_more")>>

function_or_more ==
  CASE peek # "{" ->
         <<Call("initializer_opt"), Put, Call("more_declarators"), Expect(";"), Build("DECL"), Finish>>
    [] peek = "{" /\ Last(symbols).nearest = "FUNCTION" /\ Last(specs) = 0 ->
         <<PutFunc>> \o compound_statement \o <<Close, Build("FUNC"), Finish>>
    [] OTHER -> <<Error>>

translation_unit == <<Call("external_declaration"), Call("more_declarations")>>
more_declarations == IF peek = "EOF" THEN << >> ELSE translation_unit

-----------------------------------------------------------------------------
(* The functions by name. *)
StatementRule(f) ==
  CASE f = "compound_statement" -> compound_statement [] f = "block_items" -> block_items
    [] f = "before_semicolon" -> before_semicolon [] f = "before_paren" -> before_paren
    [] f = "else_opt" -> else_opt [] f = "for_init" -> for_init
    [] f = "statement" -> statement [] f = "external_declaration" -> external_declaration
    [] f = "external_declarators" -> external_declarators [] f = "function_or_more" -> function_or_more
    [] f = "translation_unit" -> translation_unit [] f = "more_declarations" -> more_declarations

DeclarationRule(f) ==
  CASE f = "declaration" -> declaration [] f = "init_declarators" -> init_declarators
    [] f = "init_declarator_list" -> init_declarator_list [] f = "more_declarators" -> more_declarators
    [] f = "declaration_specifiers" -> declaration_specifiers [] f = "more_specifiers" -> more_specifiers [] f = "specifier_qualifier_list" -> specifier_qualifier_list [] f = "more_qualifiers" -> more_qualifiers
    [] f = "type_specifier" -> type_specifier [] f = "struct_or_union_specifier" -> struct_or_union_specifier
    [] f = "struct_body" -> struct_body [] f = "struct_declarations" -> struct_declarations
    [] f = "struct_declaration" -> struct_declaration [] f = "struct_declarators" -> struct_declarators
    [] f = "struct_declarator_list" -> struct_declarator_list [] f = "more_struct_declarators" -> more_struct_declarators
    [] f = "enum_specifier" -> enum_specifier [] f = "enum_body" -> enum_body
    [] f = "enumerators" -> enumerators [] f = "enumerator_value" -> enumerator_value
    [] f = "more_enumerators" -> more_enumerators [] f = "last_enumerator" -> last_enumerator
    [] f = "init_declarator" -> init_declarator [] f = "initializer_opt" -> initializer_opt
    [] f = "declarator" -> declarator [] f = "declarator_rest" -> declarator_rest
    [] f = "size_opt" -> size_opt [] f = "parameters" -> parameters
    [] f = "more_parameters" -> more_parameters [] f = "ellipsis_or_more" -> ellipsis_or_more
    [] f = "parameter_declaration" -> parameter_declaration [] f = "param_declarator" -> param_declarator
    [] f = "type_name" -> type_name [] f = "abstract_opt" -> abstract_opt
    [] f = "abstract_declarator" -> abstract_declarator [] f = "initializer" -> initializer
    [] f = "initializers" -> initializers [] f = "initializer_list" -> initializer_list
    [] f = "more_initializers" -> more_initializers
    [] OTHER -> StatementRule(f)

ExpressionRule(f) ==
  CASE f = "primary_expression" -> primary_expression [] f = "builtin" -> builtin
    [] f = "postfix_rest" -> postfix_rest [] f = "arguments" -> arguments
    [] f = "argument" -> argument [] f = "more_arguments" -> more_arguments
    [] f = "unary_expression" -> unary_expression [] f = "sizeof_operand" -> sizeof_operand
    [] f = "type_or_expression" -> type_or_expression [] f = "cast_expression" -> cast_expression
    [] f = "parenthesized" -> parenthesized [] f = "conditional_expression" -> conditional_expression
    [] f = "conditional_rest" -> conditional_rest [] f = "assignment_expression" -> assignment_expression
    [] f = "assignment_rest" -> assignment_rest [] f = "expression" -> expression
    [] f = "comma_rest" -> comma_rest
    [] OTHER -> DeclarationRule(f)

-----------------------------------------------------------------------------
(* The parser at work: what stands first in todo is done. *)
Unread ==
  LET ahead == IF Head(todo) = Call("statement") /\ pos = Len(tokens) /\ peek \in Identifiers
                 THEN 1 ELSE 0
  IN  Head(todo).do \in Looks /\ pos + ahead > Len(tokens)

(* The parser comes to a token it has not seen. *)
next_token ==
  /\ phase = "parse" /\ todo # << >> /\ Unread
  /\ \E t \in IF Len(tokens) < Len(input.given) THEN {input.given[Len(tokens) + 1]}
              ELSE input.tokens \cup {input.end} :
       /\ Len(tokens) < input.max \/ (Len(tokens) = input.max /\ t = input.end)
       /\ tokens' = Append(tokens, t)
  /\ UNCHANGED <<input, phase, pos, todo, out, symbol_scopes, specs, symbols, names>>

Do(do) == phase = "parse" /\ todo # << >> /\ Head(todo).do = do /\ ~Unread

what == Head(todo).what

Onward == todo' = Tail(todo) /\ UNCHANGED <<input, phase, tokens>>

Fail == phase' = "error" /\ UNCHANGED <<input, tokens, pos, todo, out, symbol_scopes, specs, symbols, names>>

Unscoped == UNCHANGED <<symbol_scopes, specs, symbols, names>>

call ==
  /\ Do("call")
  /\ todo' = ExpressionRule(what) \o Tail(todo)
  /\ UNCHANGED <<input, phase, tokens, pos, out>> /\ Unscoped

(* The loops that do not read the token are left one after the other. *)
rest ==
  /\ Do("rest")
  /\ LET stays == {i \in DOMAIN todo : todo[i].do # "rest" \/ peek \in DOMAIN Levels[todo[i].what]}
         n == CHOOSE i \in stays : \A j \in stays : i <= j
     IN  todo' = (IF todo[n].do = "rest" THEN binary_loop(todo[n].what) ELSE <<todo[n]>>)
                   \o SubSeq(todo, n + 1, Len(todo))
  /\ UNCHANGED <<input, phase, tokens, pos, out>> /\ Unscoped

read ==
  /\ \/ Do("take") /\ out' = out
     \/ Do("leaf") /\ out' = Append(out, peek)
     \/ Do("expect") /\ peek = what /\ out' = out
     \/ Do("member") /\ peek \in Identifiers /\ out' = Append(out, peek)
  /\ pos' = pos + 1
  /\ Onward /\ Unscoped

unexpected ==
  /\ \/ Do("expect") /\ peek # what
     \/ Do("member") /\ peek \notin Identifiers
     \/ Do("declare") /\ what # "none" /\ peek \notin Identifiers
     \/ Do("error")
  /\ Fail

build ==
  /\ Do("build")
  /\ out' = Append(out, what)
  /\ Onward /\ UNCHANGED pos /\ Unscoped

(* An identifier is looked up: in an expression, or as a typedef name. *)
name ==
  /\ Do("name") \/ Do("typename")
  /\ LET s == lookup_symbol(peek, symbol_scopes)
     IN  /\ out' = Append(out, IF s.sy_type = "const" THEN "ENUM_CONST" ELSE peek)
         /\ names' = Append(names, [kind |-> "use", identifier |-> peek, at |-> pos,
                                    sy_type |-> s.sy_type, to |-> s.at])
  /\ pos' = pos + 1
  /\ Onward /\ UNCHANGED <<symbol_scopes, specs, symbols>>

scope ==
  /\ \/ Do("open") /\ symbol_scopes' = Append(symbol_scopes, {})
     \/ Do("close") /\ symbol_scopes' = Front(symbol_scopes)
  /\ Onward /\ UNCHANGED <<pos, out, specs, symbols, names>>

specifiers ==
  /\ \/ Do("begin") /\ specs' = Append(specs, 0) /\ UNCHANGED <<pos, out>>
     \/ /\ Do("typedef")
        /\ specs' = Append(Front(specs), Last(specs) + 1)
        /\ pos' = pos + 1 /\ out' = Append(out, peek)
     \/ Do("checktypedef") /\ Last(specs) <= what /\ UNCHANGED <<pos, out, specs>>
     \/ Do("finish") /\ specs' = Front(specs) /\ UNCHANGED <<pos, out>>
  /\ Onward /\ UNCHANGED <<symbol_scopes, symbols, names>>

(* check_typedef finds a second typedef, or one in a for statement. *)
invalid_typedef == Do("checktypedef") /\ Last(specs) > what /\ Fail

SyType(as) ==
  CASE as = "constant"                      -> "const"
    [] as = "symbol" /\ Last(specs) > 0     -> "type"
    [] OTHER                                -> "variable"

declare ==
  /\ Do("declare")
  /\ LET named == what # "none"
     IN  /\ named => peek \in Identifiers
         /\ symbols' = Append(symbols,
              [identifier |-> IF named THEN peek ELSE "", sy_type |-> SyType(what), at |-> pos,
               nearest |-> "none", params |-> {}])
         /\ pos' = IF named THEN pos + 1 ELSE pos
         /\ out' = IF named THEN Append(out, peek) ELSE out
  /\ Onward /\ UNCHANGED <<symbol_scopes, specs, names>>

(* [] or () has been read; the scope of parameters ends, and is kept when  *)
(* it is next to the identifier.                                           *)
suffix ==
  /\ Do("suffix")
  /\ LET s      == Last(symbols)
         params == IF what = "FUNCTION" THEN Last(symbol_scopes) ELSE {}
     IN  symbols' = IF s.nearest = "none"
                      THEN Append(Front(symbols), [s EXCEPT !.nearest = what, !.params = params])
                      ELSE symbols
  /\ symbol_scopes' = IF what = "FUNCTION" THEN Front(symbol_scopes) ELSE symbol_scopes
  /\ out' = Append(out, what)
  /\ Onward /\ UNCHANGED <<pos, specs, names>>

Declared(s) == [identifier |-> s.identifier, sy_type |-> s.sy_type, at |-> s.at]

Clashes(s, map) == \E p \in map : p.identifier = s.identifier /\ p.sy_type # s.sy_type

put_symbol(s, scopes) ==
  IF s.identifier = "" THEN scopes
  ELSE [scopes EXCEPT ![Len(scopes)] = {p \in @ : p.identifier # s.identifier} \cup {Declared(s)}]

put ==
  /\ Do("put") \/ Do("putfunc")
  /\ LET s == Last(symbols)
     IN  /\ ~Clashes(s, Last(symbol_scopes))
         /\ symbol_scopes' = put_symbol(s, symbol_scopes)
                               \o (IF Head(todo).do = "putfunc" THEN <<s.params>> ELSE << >>)
         /\ names' = IF s.identifier = "" THEN names
                     ELSE Append(names, [kind |-> "decl", identifier |-> s.identifier, at |-> pos,
                                         sy_type |-> s.sy_type, to |-> s.at])
  /\ symbols' = Front(symbols)
  /\ Onward /\ UNCHANGED <<pos, out, specs>>

drop ==
  /\ Do("drop")
  /\ symbols' = Front(symbols)
  /\ Onward /\ UNCHANGED <<pos, out, symbol_scopes, specs, names>>

invalid_redeclaration ==
  /\ Do("put") \/ Do("putfunc")
  /\ Clashes(Last(symbols), Last(symbol_scopes))
  /\ Fail

finished ==
  /\ phase = "parse" /\ todo = << >>
  /\ phase' = "done"
  /\ UNCHANGED <<input, tokens, pos, todo, out, symbol_scopes, specs, symbols, names>>

Init ==
  /\ input \in Inputs
  /\ phase = "parse"
  /\ tokens = << >> /\ pos = 1
  /\ todo = <<Call(input.start), Expect(input.end)>>
  /\ out = << >>
  /\ symbol_scopes = input.scopes
  /\ specs = << >> /\ symbols = << >>
  /\ names = << >>

Next ==
  \/ next_token \/ call \/ rest \/ read \/ unexpected \/ build \/ name \/ scope \/ specifiers
  \/ invalid_typedef \/ declare \/ suffix \/ put \/ drop \/ invalid_redeclaration \/ finished

Spec == Init /\ [][Next]_vars
=============================================================================
