------------------------------- MODULE MCParser -------------------------------
EXTENDS ParserC

Symbol(identifier, sy_type) == [identifier |-> identifier, sy_type |-> sy_type, at |-> 0]

(* Before each input: typedef int T; enum { E };  and x declared.          *)
FileScope == <<{Symbol("T", "type"), Symbol("E", "const"), Symbol("x", "variable")}>>

Input(start, symbol, end, max, set) ==
  [start |-> start, symbol |-> symbol, end |-> end, max |-> max, tokens |-> set,
   given |-> << >>, scopes |-> IF start = "translation_unit" /\ symbol = "any" THEN <<{}>> ELSE FileScope]

Expr(max, set) == Input("expression", "expression", ";", max, set)

(* Binary operators of neighbouring levels, and the other operators. *)
Levels1 == {Expr(5, {"x", "*", "%", "+"}), Expr(5, {"x", "/", "-", "<<"}), Expr(5, {"x", ">>", ">=", "!="}),
            Expr(5, {"x", "<", "==", "&"}), Expr(5, {"x", "&", "^", "|"}), Expr(5, {"x", "||", "|", "&&"}),
            Expr(5, {"x", "<=", ">", "~"})}

Expressions1 == Levels1 \cup
  { Expr(7, {"x", "&&", "||"}), Expr(8, {"x", "?", ":", ","}), Expr(6, {"x", "E", "?", ":", "=", "||"}),
    Expr(6, {"x", "1", "+=", "*=", "+"}), Expr(5, {"x", "-=", "/=", "%=", ","}),
    Expr(5, {"x", "(", ")", "[", "]", "*", "++"}), Expr(6, {"x", "(", ")", ",", "="}),
    Expr(5, {"x", ".", "->", "--", "!", "&", "'c'"}),
    Expr(8, {"x", "T", "(", ")", "/", "?", ":"}), Expr(7, {"x", "T", "(", ")", "sizeof", "+"}),
    Expr(7, {"int", "x", "(", ")", "*", "[", "]", "_Alignof"}),
    Expr(6, {"x", "int", "(", ")", ",", "__builtin_va_arg", "__builtin_va_start", "__builtin_va_end"}) }

Decl(max, set) == Input("external_declaration", "external", "EOF", max, set)

Declarations1 ==
  { Decl(7, {"int", "y", "*", "[", "]", ",", ";", "1"}), Decl(8, {"int", "y", "(", ")", ",", "...", ";"}),
    Decl(9, {"int", "y", "=", "{", "}", ",", "1", ";"}), Decl(8, {"struct", "y", "{", "}", "int", ";", "*", ","}),
    Decl(9, {"enum", "y", "{", "}", ",", ";"}), Decl(8, {"enum", "y", "{", "}", "=", "1", ";"}),
    Decl(5, {"typedef", "extern", "static", "_Noreturn", "unsigned", "long", "y", ";"}),
    Decl(8, {"int", "y", "(", ")", "{", "}", "*"}),
    Input("translation_unit", "unit", "EOF", 8, {"int", "y", ";", "(", ")", "{", "}"}) }

Stmt(max, set) == Input("statement", "statement", "}", max, set)

Statements1 ==
  { Stmt(11, {"if", "(", ")", "else", "x", ";"}), Stmt(9, {"if", "else", "while", "do", "x", "(", ")", ";"}),
    Stmt(10, {"for", "(", ")", "x", ";"}), Stmt(9, {"for", "(", ")", "int", "y", ";"}),
    Stmt(7, {"{", "}", ";", "int", "y", "T", "="}), Stmt(8, {"switch", "case", "default", ":", "(", ")", "1", ";"}),
    Stmt(8, {"x", ":", "?", "goto", ";", "{", "}"}), Stmt(5, {"continue", "break", "return", "x", ";", "{", "}"}) }

(* Declarations in blocks, for statements and parameters, and uses of what *)
(* they declare; `}' ends the block the input begins in.                   *)
Block(given, more, set) == [Input("block_items", "any", "EOF", Len(given) + more, set) EXCEPT !.given = given]
Unit(given, more, set)  == [Input("translation_unit", "any", "EOF", Len(given) + more, set) EXCEPT !.given = given]

Scoping ==
  { Block(<<"{", "typedef", "int", "y", ";">>, 7, {"y", ";", "}", "*"}),
    Block(<<"typedef", "int", "y", ";", "{">>, 6, {"int", "y", ";", "{", "}", "*"}),
    Block(<<"for", "(", "int", "y", ";", ";", ")">>, 7, {"y", ";", "{", "}"}),
    Block(<<"for", "(", "typedef", "int">>, 4, {"int", "y", ";", ")"}),
    Block(<<"enum", "{", "y", "}", ";", "{">>, 6, {"int", "y", ";", "{", "}"}),
    Block(<<"int", "y", ";", "{", "enum", "{">>, 8, {"y", "=", ";", "{", "}"}),
    Unit(<<"typedef", "int", "y", ";", "int", "f", "(">>, 6, {"int", "f", "y", "(", ")", "{", "}", ";"}),
    Unit(<<"int", "f", "(", "int", "y", ")", "{">>, 6, {"int", "f", "y", "{", "}", ";"}) }

MCInputs == Expressions1 \cup Declarations1 \cup Statements1 \cup Scoping
=============================================================================
