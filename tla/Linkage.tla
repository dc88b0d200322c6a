-------------------------------- MODULE Linkage -------------------------------
(***************************************************************************)
(* What an identifier stands for: from the declarations parse.c enters in  *)
(* its scopes, by the link and definition put_variable gives each symbol,  *)
(* to the labels, .global directives and operands gen.c prints.            *)
(*                                                                         *)
(* The three phases go over the same text, a sequence of items.  Every     *)
(* declaration makes a symbol of its own; prev leads to the one it         *)
(* replaces in its scope, and a use keeps the one it found.                *)
(***************************************************************************)
EXTENDS Integers, Sequences, FiniteSets, SequencesExt

CONSTANT Inputs   \* which identifiers, kinds, storage classes and parameters there are, how many items

(* An identifier has a character. *)
ASSUME LinkageAssumption ==
  \A i \in Inputs : /\ "" \notin i.identifiers \cup i.functions \cup i.params
                    /\ i.kinds \subseteq {"object", "function"}
                    /\ i.storages \subseteq {"", "extern", "static"}

VARIABLES input,
          phase,          \* "parse", "sema", "gen" and "done"; or "error", "crash", "assertion"
          text,           \* the items of the translation unit
          at,             \* the item sema.c or gen.c is at
          symbols, symbol_scopes,
          stack_size,
          out             \* what is printed

vars == <<input, phase, text, at, symbols, symbol_scopes, stack_size, out>>

Item(do, x, id) == [do |-> do, identifier |-> x, symbol |-> id]

-----------------------------------------------------------------------------
(* parse.c *)
map_lookup(map, x) == IF x \in DOMAIN map THEN map[x] ELSE 0

map_put(map, x, id) == [y \in DOMAIN map \cup {x} |-> IF y = x THEN id ELSE map[y]]

(* The innermost symbol in sight. *)
lookup_symbol(scopes, x) ==
  LET in == {k \in DOMAIN scopes : x \in DOMAIN scopes[k]}
  IN  IF in = {} THEN 0 ELSE scopes[CHOOSE k \in in : \A j \in in : j <= k][x]

(* Variant: what an outer scope declares is declared again. *)
Declared_InSight(scopes, x) == lookup_symbol(scopes, x)

(* The symbol x replaces in the innermost scope. *)
Declared(scopes, x) == map_lookup(Last(scopes), x)

Symbol(x, kind, storage, init, scopes) ==
  [identifier |-> x, kind |-> kind, storage |-> storage, init |-> init,
   prev |-> Declared(scopes, x), global |-> Len(scopes) = 1,
   link |-> "unset", definition |-> FALSE, offset |-> 0]

put_symbol(scopes, x, id) == [scopes EXCEPT ![Len(scopes)] = map_put(@, x, id)]

Parsing == phase = "parse" /\ Len(text) < input.max

Parsed(item) == text' = Append(text, item) /\ UNCHANGED <<input, phase, at, stack_size, out>>

(* A declaration of one declarator, in a block or outside of functions. *)
declaration ==
  /\ Parsing
  /\ \E x \in input.identifiers, kind \in input.kinds, storage \in input.storages, init \in BOOLEAN :
       /\ kind = "function" => ~init
       /\ symbols' = Append(symbols, Symbol(x, kind, storage, init, symbol_scopes))
       /\ symbol_scopes' = put_symbol(symbol_scopes, x, Len(symbols) + 1)
       /\ Parsed(Item("declare", x, Len(symbols) + 1))

(* The name of a function that is defined, and a scope that its parameters *)
(* share with its body.                                                    *)
function_definition ==
  /\ Parsing /\ Len(symbol_scopes) = 1
  /\ \E f \in input.functions, storage \in input.storages :
       /\ symbols' = Append(symbols, Symbol(f, "function", storage, FALSE, symbol_scopes))
       /\ symbol_scopes' = Append(put_symbol(symbol_scopes, f, Len(symbols) + 1), << >>)
       /\ Parsed(Item("define", f, Len(symbols) + 1))

parameter_declaration ==
  /\ Parsing /\ text # << >> /\ Last(text).do \in {"define", "param"}
  /\ \E x \in input.params :
       /\ symbols' = Append(symbols, Symbol(x, "object", "", FALSE, symbol_scopes))
       /\ symbol_scopes' = put_symbol(symbol_scopes, x, Len(symbols) + 1)
       /\ Parsed(Item("param", x, Len(symbols) + 1))

block_begin ==
  /\ Parsing /\ Len(symbol_scopes) \in 2 .. 3
  /\ symbol_scopes' = Append(symbol_scopes, << >>)
  /\ Parsed(Item("begin", "", 0))
  /\ UNCHANGED symbols

(* The end of a block or of a function. *)
block_end ==
  /\ phase = "parse" /\ Len(symbol_scopes) > 1
  /\ symbol_scopes' = Front(symbol_scopes)
  /\ Parsed(Item("end", "", 0))
  /\ UNCHANGED symbols

primary_expression ==
  /\ Parsing /\ Len(symbol_scopes) > 1
  /\ \E x \in input.identifiers \cup input.functions, do \in {"use", "call"} :
       Parsed(Item(do, x, lookup_symbol(symbol_scopes, x)))
  /\ UNCHANGED <<symbols, symbol_scopes>>

translation_unit ==
  /\ phase = "parse" /\ text # << >> /\ Len(symbol_scopes) = 1
  /\ phase' = "sema"
  /\ UNCHANGED <<input, text, at, symbols, symbol_scopes, stack_size, out>>

-----------------------------------------------------------------------------
(* sema.c *)
Redefined(s) == s.prev # 0 /\ symbols[s.prev].definition

Link(s) == CASE ~s.global                          -> "none"
             [] s.global /\ s.storage = "static"   -> "internal"
             [] OTHER                              -> "external"

Defines(s) == s.kind = "object" /\ s.storage # "extern"

Linked(s) == [s EXCEPT !.link = Link(s), !.definition = Defines(s)]

(* An object takes 8 bytes of the frame, a function none. *)
put_variable(id) ==
  LET s == symbols[id]
      size == stack_size + (IF s.kind = "object" THEN 8 ELSE 0)
  IN  IF Redefined(s) \/ (~s.global /\ s.storage # "")
        THEN phase' = "error" /\ UNCHANGED <<symbols, stack_size>>
        ELSE /\ IF s.global
                  THEN symbols' = [symbols EXCEPT ![id] = Linked(s)] /\ UNCHANGED stack_size
                  ELSE symbols' = [symbols EXCEPT ![id] = [Linked(s) EXCEPT !.offset = size]] /\ stack_size' = size
             /\ UNCHANGED phase

At(do, in) == phase = in /\ at <= Len(text) /\ text[at].do \in do

Advance == at' = at + 1 /\ UNCHANGED <<input, text, symbol_scopes>>

sema_decl == At({"declare", "param"}, "sema") /\ put_variable(text[at].symbol) /\ Advance /\ UNCHANGED out

sema_func ==
  /\ At({"define"}, "sema")
  /\ LET id == text[at].symbol
     IN  IF Redefined(symbols[id])
           THEN phase' = "error" /\ UNCHANGED symbols
           ELSE symbols' = [symbols EXCEPT ![id] = [Linked(@) EXCEPT !.definition = TRUE]] /\ UNCHANGED phase
  /\ stack_size' = 0
  /\ Advance /\ UNCHANGED out

sema_identifier ==
  /\ At({"use"}, "sema")
  /\ phase' = IF text[at].symbol = 0 THEN "error" ELSE phase
  /\ Advance /\ UNCHANGED <<symbols, stack_size, out>>

(* A name that is not declared is a function; the parameters of an object  *)
(* are counted before its type is looked at.                               *)
sema_call ==
  /\ At({"call"}, "sema")
  /\ phase' = IF text[at].symbol # 0 /\ symbols[text[at].symbol].kind # "function" THEN "crash" ELSE phase
  /\ Advance /\ UNCHANGED <<symbols, stack_size, out>>

sema_block == At({"begin", "end"}, "sema") /\ Advance /\ UNCHANGED <<phase, symbols, stack_size, out>>

sema == phase = "sema" /\ at > Len(text) /\ phase' = "gen" /\ at' = 1
        /\ UNCHANGED <<input, text, symbols, symbol_scopes, stack_size, out>>

-----------------------------------------------------------------------------
(* gen.c *)
Printed(do, x, what) == [do |-> do, identifier |-> x, what |-> what]

(* The .global and the label of a symbol. *)
Named(s, what) ==
  (IF s.link = "external" THEN <<Printed("global", s.identifier, "")>> ELSE << >>)
  \o <<Printed("label", s.identifier, what)>>

Emit(lines) == out' = out \o lines /\ Advance /\ UNCHANGED <<phase, symbols, stack_size>>

gen_decl ==
  /\ At({"declare", "param"}, "gen")
  /\ LET s == symbols[text[at].symbol]
     IN  Emit(IF s.global /\ s.definition THEN Named(s, IF s.init THEN "value" ELSE "zero") ELSE << >>)

gen_func == At({"define"}, "gen") /\ Emit(Named(symbols[text[at].symbol], "code"))

(* An operand keeps what it was printed for. *)
gen_lvalue(s) == <<Printed("use", IF s.link = "none" THEN "" ELSE s.identifier, [item |-> at, offset |-> s.offset])>>

(* No case for functions. *)
gen_load(s) == phase' = IF s.kind = "function" THEN "assertion" ELSE phase

(* A use is the operand of & or is loaded: its item does not say which. *)
gen_address == At({"use"}, "gen") /\ Emit(gen_lvalue(symbols[text[at].symbol]))

gen_identifier ==
  /\ At({"use"}, "gen")
  /\ LET s == symbols[text[at].symbol]
     IN  out' = out \o gen_lvalue(s) /\ gen_load(s)
  /\ Advance /\ UNCHANGED <<symbols, stack_size>>

gen_call == At({"call"}, "gen") /\ Emit(<<Printed("use", text[at].identifier, [item |-> at, offset |-> 0])>>)

gen_block == At({"begin", "end"}, "gen") /\ Emit(<< >>)

gen == phase = "gen" /\ at > Len(text) /\ phase' = "done"
       /\ UNCHANGED <<input, text, at, symbols, symbol_scopes, stack_size, out>>

-----------------------------------------------------------------------------
Init ==
  /\ input \in Inputs
  /\ phase = "parse" /\ text = << >> /\ at = 1
  /\ symbols = << >> /\ symbol_scopes = << << >> >>
  /\ stack_size = 0 /\ out = << >>

Next ==
  \/ declaration \/ function_definition \/ parameter_declaration \/ block_begin \/ block_end \/ primary_expression \/ translation_unit
  \/ sema_decl \/ sema_func \/ sema_identifier \/ sema_call \/ sema_block \/ sema
  \/ gen_decl \/ gen_func \/ gen_address \/ gen_identifier \/ gen_call \/ gen_block \/ gen

Spec == Init /\ [][Next]_vars
=============================================================================
