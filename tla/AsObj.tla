-------------------------------- MODULE AsObj ---------------------------------
(***************************************************************************)
(* The assembler from its statements to the object file: as_encode.c keeps *)
(* a current section, the symbols and the relocations, and as_gen.c writes *)
(* the symbol table and the relocation tables, and patches the references  *)
(* it can resolve by itself.                                               *)
(*                                                                         *)
(* Bytes are counted, not written: an instruction or directive is the      *)
(* number of bytes before the field that holds an address, the field, and  *)
(* the bytes after it.  Map and Vector keep what is put in them (Vector,   *)
(* and map.c), so symbols is a function and the relocations are sets.      *)
(***************************************************************************)
EXTENDS Integers, Sequences

CONSTANTS Idents,    \* the identifiers of the program
          Bytes,     \* sizes of statements that name no identifier, and of opcodes
          Trailing,  \* numbers of immediate bytes after a %rip displacement
          AnyQuad,   \* TRUE: .quad as the assembler accepts it; FALSE: as gen.c prints it
          MaxStmts,  \* bound on the number of statements
          Layouts,   \* where a linker may place the sections
          Imports    \* where a linker may find what the file does not define

ASSUME AsObjAssumption ==
  /\ Bytes \subseteq Nat \ {0}
  /\ Trailing \subseteq Nat
  /\ AnyQuad \in BOOLEAN
  /\ MaxStmts \in Nat
  /\ Layouts \subseteq [{1, 3, 5} -> Int]
  /\ Imports \subseteq [Idents -> Int]

UNDEF  == 0
TEXT   == 1
DATA   == 3
RODATA == 5
Sections == {TEXT, DATA, RODATA}

PC32 == "R_X86_64_PC32"
ABS64 == "R_X86_64_64"

VARIABLES phase,    \* "encode", "symtab", "written", or "error" and "crash", where it ends
          stmts,    \* the number of statements encoded
          current,  \* the section statements go to
          length,   \* bin->length of each section
          symbols,  \* the map from identifiers to [global, section, offset]
          order,    \* the identifiers in the order the map received them
          relocs,   \* the relocations of each section
          refs,     \* the references the program makes, as it means them
          numbered, \* the number of symbols the loop of gen_obj has seen
          gsyms,    \* the global symbols in the order of the symbol table
          rela,     \* the entries of the relocation table of each section
          patched   \* the fields gen_rela fills in itself

vars == <<phase, stmts, current, length, symbols, order, relocs, refs, numbered, gsyms,
          rela, patched>>

object == <<numbered, gsyms, rela, patched>>

encoded == <<stmts, current, length, symbols, order, relocs, refs>>

Seen(x) == x \in DOMAIN symbols

(* Variant: a key that is put again is listed again. *)
map_put_Again(x, symbol) ==
  /\ symbols' = [y \in DOMAIN symbols \cup {x} |-> IF y = x THEN symbol ELSE symbols[y]]
  /\ order' = Append(order, x)

map_put(x, symbol) ==
  /\ symbols' = [y \in DOMAIN symbols \cup {x} |-> IF y = x THEN symbol ELSE symbols[y]]
  /\ order' = IF Seen(x) THEN order ELSE Append(order, x)

Encode ==
  /\ phase = "encode"
  /\ stmts < MaxStmts
  /\ stmts' = stmts + 1
  /\ UNCHANGED object

-----------------------------------------------------------------------------
(* as_encode.c *)

gen_label(x) ==
  /\ Encode
  /\ \/ /\ Seen(x) /\ symbols[x].section # UNDEF
        /\ phase' = "error"
        /\ UNCHANGED <<symbols, order>>
     \/ /\ Seen(x) => symbols[x].section = UNDEF
        /\ map_put(x, [global  |-> Seen(x) /\ symbols[x].global,
                       section |-> current,
                       offset  |-> length[current]])
        /\ UNCHANGED phase
  /\ UNCHANGED <<current, length, relocs, refs>>

(* .text, .data and .section *)
gen_section(s) ==
  /\ Encode
  /\ current' = s
  /\ UNCHANGED <<phase, length, symbols, order, relocs, refs>>

(* Variant: .global after the label makes a new symbol. *)
gen_global_Fresh(x) ==
  /\ Encode
  /\ map_put(x, [global |-> TRUE, section |-> UNDEF, offset |-> 0])
  /\ UNCHANGED <<phase, current, length, relocs, refs>>

gen_global(x) ==
  /\ Encode
  /\ map_put(x, IF Seen(x) THEN [symbols[x] EXCEPT !.global = TRUE]
                ELSE [global |-> TRUE, section |-> UNDEF, offset |-> 0])
  /\ UNCHANGED <<phase, current, length, relocs, refs>>

(* .zero, .long, .ascii and the instructions without a symbol *)
gen_bytes(n) ==
  /\ Encode
  /\ length' = [length EXCEPT ![current] = @ + n]
  /\ UNCHANGED <<phase, current, symbols, order, relocs, refs>>

(* A reference at the place before + length: what as_encode records of it, *)
(* and what the program means by it.                                       *)
Refer(x, before, type, addend, trailing) ==
  LET place == length[current] + before
  IN  /\ relocs' = [relocs EXCEPT ![current] =
                      @ \cup {[offset |-> place, ident |-> x, type |-> type, addend |-> addend]}]
      /\ refs' = refs \cup {[section |-> current, offset |-> place, ident |-> x, type |-> type,
                             trailing |-> trailing]}

(* .quad of an identifier; gen.c prints it in .data for a string literal,  *)
(* which it has printed in .rodata before.                                 *)
gen_quad(x) ==
  /\ Encode
  /\ AnyQuad \/ (current = DATA /\ Seen(x) /\ symbols[x].section = RODATA)
  /\ Refer(x, 0, ABS64, 0, 0)
  /\ length' = [length EXCEPT ![current] = @ + 8]
  /\ UNCHANGED <<phase, current, symbols, order>>

(* An instruction with a rip-relative operand or a jump target: the opcode, *)
(* the displacement, and an immediate operand if there is one.             *)
gen_rel32(x, opcode, trailing) ==
  /\ Encode
  /\ IF Seen(x) THEN UNCHANGED <<symbols, order>>
     ELSE map_put(x, [global |-> FALSE, section |-> UNDEF, offset |-> 0])
  /\ Refer(x, opcode, PC32, -4, trailing)
  /\ length' = [length EXCEPT ![current] = @ + opcode + 4 + trailing]
  /\ UNCHANGED <<phase, current>>

-----------------------------------------------------------------------------
(* as_gen.c *)
LOCAL_SYMS == 4

section_syms(s) == CASE s = TEXT -> 1 [] s = DATA -> 2 [] s = RODATA -> 3

External(x) == symbols[x].global \/ symbols[x].section = UNDEF

(* The position in the symbol table of an identifier that is external. *)
Index(x, externals) == LOCAL_SYMS - 1 + CHOOSE k \in DOMAIN externals : externals[k] = x

(* Variant: the offset of a local symbol in its section is left out. *)
RelaEntry_SectionStart(r, externals) ==
  LET symbol == symbols[r.ident]
  IN  IF External(r.ident)
        THEN [offset |-> r.offset, sym |-> Index(r.ident, externals), type |-> r.type,
              addend |-> r.addend]
        ELSE [offset |-> r.offset, sym |-> section_syms(symbol.section), type |-> r.type,
              addend |-> r.addend]

RelaEntry(r, externals) ==
  LET symbol == symbols[r.ident]
  IN  IF External(r.ident)
        THEN [offset |-> r.offset, sym |-> Index(r.ident, externals), type |-> r.type,
              addend |-> r.addend]
        ELSE [offset |-> r.offset, sym |-> section_syms(symbol.section), type |-> r.type,
              addend |-> symbol.offset + r.addend]

(* References within a section are resolved here, whatever their type. *)
Here(s, r) == ~External(r.ident) /\ symbols[r.ident].section = s

(* The statements have been encoded; gen_obj begins. *)
gen_obj ==
  /\ phase = "encode"
  /\ phase' = "symtab"
  /\ UNCHANGED <<encoded, object>>

(* A turn of its loop: the next symbol of the map gets a number and an     *)
(* entry of the symbol table if it is external.                            *)
gen_symtab ==
  /\ phase = "symtab"
  /\ numbered < Len(order)
  /\ LET x == order[numbered + 1]
     IN  gsyms' = IF External(x) THEN Append(gsyms, x) ELSE gsyms
  /\ numbered' = numbered + 1
  /\ UNCHANGED <<encoded, phase, rela, patched>>

(* The relocations of the three sections; a relocation whose identifier is *)
(* not in the map makes gen_rela dereference a null pointer.               *)
gen_rela ==
  /\ phase = "symtab"
  /\ numbered = Len(order)
  /\ IF \A s \in Sections : \A r \in relocs[s] : Seen(r.ident)
       THEN /\ rela' = [s \in Sections |->
                          {RelaEntry(r, gsyms) : r \in {q \in relocs[s] : ~Here(s, q)}}]
            /\ patched' = [s \in Sections |->
                             {[offset |-> r.offset,
                               value  |-> symbols[r.ident].offset - r.offset + r.addend]
                                : r \in {q \in relocs[s] : Here(s, q)}}]
            /\ phase' = "written"
       ELSE /\ phase' = "crash"
            /\ UNCHANGED <<rela, patched>>
  /\ UNCHANGED <<encoded, numbered, gsyms>>

Init ==
  /\ phase = "encode"
  /\ stmts = 0
  /\ current = TEXT
  /\ length = [s \in Sections |-> 0]
  /\ symbols = << >>
  /\ order = << >>
  /\ relocs = [s \in Sections |-> {}]
  /\ refs = {}
  /\ numbered = 0
  /\ gsyms = << >>
  /\ rela = [s \in Sections |-> {}]
  /\ patched = [s \in Sections |-> {}]

Next ==
  \/ \E x \in Idents : gen_label(x) \/ gen_global(x) \/ gen_quad(x)
  \/ \E s \in Sections : gen_section(s)
  \/ \E n \in Bytes : gen_bytes(n)
  \/ \E x \in Idents, n \in Bytes, t \in Trailing : gen_rel32(x, n, t)
  \/ gen_obj \/ gen_symtab \/ gen_rela

Spec == Init /\ [][Next]_vars

-----------------------------------------------------------------------------
(* The address of what an identifier names, once the file is linked. *)
Address(x, base, ext) ==
  IF symbols[x].section = UNDEF THEN ext[x]
  ELSE base[symbols[x].section] + symbols[x].offset

(* What the field of a reference must hold in the linked program: the      *)
(* address, or its distance from the end of the instruction.               *)
Meaning(r, base, ext) ==
  IF r.type = ABS64 THEN Address(r.ident, base, ext)
  ELSE Address(r.ident, base, ext) - (base[r.section] + r.offset + 4 + r.trailing)

(* The value of entry k of the symbol table. *)
SymbolValue(k, base, ext) ==
  IF k < LOCAL_SYMS THEN base[CHOOSE s \in Sections : section_syms(s) = k]
  ELSE Address(gsyms[k - LOCAL_SYMS + 1], base, ext)

(* What the linker makes of a relocation entry of section s. *)
Relocated(s, e, base, ext) ==
  SymbolValue(e.sym, base, ext) + e.addend - (IF e.type = PC32 THEN base[s] + e.offset ELSE 0)

(* What the file, once linked, holds at an offset of a section.            *)
Fields(s, offset, base, ext) ==
  {p.value : p \in {q \in patched[s] : q.offset = offset}}
    \cup {Relocated(s, e, base, ext) : e \in {q \in rela[s] : q.offset = offset}}

(* Every reference the program makes ends up with the one value it means,  *)
(* wherever the linker puts the sections and the imports, for references   *)
(* before and after the label, within and across sections, and whatever    *)
(* .global says and when; and writing the file never looks up a symbol     *)
(* that is not there (as_encode.c:44-109, 183-191, as_gen.c:8-39).         *)
LinkedRight ==
  /\ phase # "crash"
  /\ phase = "written" =>
       \A r \in refs, base \in Layouts, ext \in Imports :
         Fields(r.section, r.offset, base, ext) = {Meaning(r, base, ext)}

(* The symbol table names each identifier that another file may use or     *)
(* must supply once, and no identifier that is private to the file, even   *)
(* if it was used before it was defined (as_gen.c:87-104).                 *)
SymtabExact ==
  phase = "written" =>
    /\ \A x \in DOMAIN symbols :
         symbols[x].global \/ symbols[x].section = UNDEF <=> \E k \in DOMAIN gsyms : gsyms[k] = x
    /\ \A k \in DOMAIN gsyms : gsyms[k] \in DOMAIN symbols
    /\ \A j, k \in DOMAIN gsyms : gsyms[j] = gsyms[k] => j = k

(* A definition and a .global are never forgotten, in whichever order      *)
(* definition, .global and uses come (as_encode.c:44-54, 76-83, 183-191).  *)
NothingForgotten ==
  [][ \A x \in DOMAIN symbols :
        /\ x \in DOMAIN symbols'
        /\ symbols[x].global => symbols'[x].global
        /\ symbols[x].section # UNDEF => symbols'[x].section = symbols[x].section
                                         /\ symbols'[x].offset = symbols[x].offset ]_vars
=============================================================================
