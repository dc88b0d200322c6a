------------------------------ MODULE AsObjProofs ------------------------------
(***************************************************************************)
(* For every number of statements, every set of identifiers and every      *)
(* place where a linker may put the sections and the imports: no           *)
(* definition and no .global is forgotten, the symbol table holds the      *)
(* external identifiers and no other, each once, and, for what gen.c       *)
(* prints, every reference arrives at what it names.                       *)
(***************************************************************************)
EXTENDS AsObj, TLAPS

Symbol == [global : BOOLEAN, section : Sections \cup {UNDEF}, offset : Nat]

Reloc == [offset : Nat, ident : Idents, type : {PC32, ABS64}, addend : Int]

Ref == [section : Sections, offset : Nat, ident : Idents, type : {PC32, ABS64}, trailing : Nat]

TypeOK ==
  /\ phase \in {"encode", "symtab", "written", "error", "crash"}
  /\ current \in Sections
  /\ length \in [Sections -> Nat]
  /\ relocs \in [Sections -> SUBSET Reloc]
  /\ refs \subseteq Ref
  /\ numbered \in Nat
  /\ gsyms \in Seq(Idents)

(* The map lists each of its keys once. *)
MapOK ==
  /\ DOMAIN symbols \subseteq Idents
  /\ symbols \in [DOMAIN symbols -> Symbol]
  /\ order \in Seq(Idents)
  /\ \A x \in Idents : Seen(x) <=> \E k \in DOMAIN order : order[k] = x
  /\ \A j, k \in DOMAIN order : order[j] = order[k] => j = k

(* Which identifiers have a number after some turns of the loop. *)
Numbered ==
  /\ phase \in {"encode", "error"} => numbered = 0
  /\ numbered <= Len(order)
  /\ \A k \in 1 .. numbered : External(order[k]) => \E i \in DOMAIN gsyms : gsyms[i] = order[k]
  /\ \A i \in DOMAIN gsyms :
       \E k \in 1 .. numbered : gsyms[i] = order[k] /\ External(order[k])
  /\ \A i, j \in DOMAIN gsyms : gsyms[i] = gsyms[j] => i = j
  /\ phase = "written" => numbered = Len(order)

IInv == TypeOK /\ MapOK /\ Numbered

(* A step keeps what is known of every identifier. *)
Remembers ==
  \A x \in DOMAIN symbols :
    /\ x \in DOMAIN symbols'
    /\ symbols[x].global => symbols'[x].global
    /\ symbols[x].section # UNDEF => symbols'[x].section = symbols[x].section
                                     /\ symbols'[x].offset = symbols[x].offset

-----------------------------------------------------------------------------
LEMMA SectionFacts ==
  /\ UNDEF \notin Sections /\ Sections \subseteq Nat /\ Sections = {1, 3, 5}
  /\ \A s \in Sections : section_syms(s) \in 1 .. 3
  /\ \A s, t \in Sections : section_syms(s) = section_syms(t) => s = t
<1>1. UNDEF \notin Sections /\ Sections \subseteq Nat /\ Sections = {1, 3, 5}
  BY DEF Sections, UNDEF, TEXT, DATA, RODATA
<1>2. section_syms(1) = 1 /\ section_syms(3) = 2 /\ section_syms(5) = 3
  BY DEF section_syms, TEXT, DATA, RODATA
<1> QED
  BY <1>1, <1>2

(* What map_put does to the keys and to the symbols. *)
LEMMA MapPut ==
  ASSUME MapOK, NEW x \in Idents, NEW symbol \in Symbol, map_put(x, symbol)
  PROVE  /\ DOMAIN symbols' = DOMAIN symbols \cup {x}
         /\ symbols'[x] = symbol
         /\ \A y \in DOMAIN symbols : y # x => symbols'[y] = symbols[y]
         /\ MapOK'
<1>1. /\ DOMAIN symbols' = DOMAIN symbols \cup {x}
      /\ symbols' \in [DOMAIN symbols' -> Symbol]
      /\ symbols'[x] = symbol
      /\ \A y \in DOMAIN symbols : y # x => symbols'[y] = symbols[y]
      /\ DOMAIN symbols' \subseteq Idents
  BY DEF map_put, MapOK
<1>2. order \in Seq(Idents) /\ Len(order) \in Nat /\ DOMAIN order = 1 .. Len(order)
  BY DEF MapOK
<1>3. CASE Seen(x)
  <2>1. order' = order /\ DOMAIN symbols' = DOMAIN symbols
    BY <1>1, <1>3 DEF map_put, Seen
  <2> QED
    BY <1>1, <1>2, <2>1 DEF MapOK, Seen
<1>4. CASE ~Seen(x)
  <2>1. order' = Append(order, x)
    BY <1>4 DEF map_put
  <2>2. /\ order' \in Seq(Idents) /\ DOMAIN order' = 1 .. Len(order) + 1
        /\ order'[Len(order) + 1] = x
        /\ \A k \in DOMAIN order : order'[k] = order[k]
    BY <1>2, <2>1
  <2>3. \A k \in DOMAIN order : order[k] # x
    BY <1>4 DEF MapOK
  <2>4. ASSUME NEW y \in Idents
        PROVE  Seen(y)' <=> \E k \in DOMAIN order' : order'[k] = y
    <3>1. CASE y = x
      <4>1. Len(order) + 1 \in DOMAIN order'
        BY <1>2, <2>2
      <4> QED
        BY <1>1, <2>2, <3>1, <4>1 DEF Seen
    <3>2. CASE y # x
      <4>1. Seen(y)' <=> Seen(y)
        BY <1>1, <3>2 DEF Seen
      <4>2. (\E k \in DOMAIN order' : order'[k] = y) <=> (\E k \in DOMAIN order : order[k] = y)
        BY <1>2, <2>2, <3>2
      <4> QED
        BY <4>1, <4>2 DEF MapOK
    <3> QED
      BY <3>1, <3>2
  <2>5. ASSUME NEW j \in DOMAIN order', NEW k \in DOMAIN order', order'[j] = order'[k]
        PROVE  j = k
    <3>1. j \in DOMAIN order \/ j = Len(order) + 1
      BY <1>2, <2>2
    <3>2. k \in DOMAIN order \/ k = Len(order) + 1
      BY <1>2, <2>2
    <3> QED
      BY <2>2, <2>3, <2>5, <3>1, <3>2 DEF MapOK
  <2> QED
    BY <1>1, <2>2, <2>4, <2>5 DEF MapOK
<1> QED
  BY <1>3, <1>4

(* Nothing is forgotten when a symbol is put that knows what the last did. *)
LEMMA PutRemembers ==
  ASSUME MapOK, NEW x \in Idents, NEW symbol \in Symbol, map_put(x, symbol),
         Seen(x) => /\ symbols[x].global => symbol.global
                    /\ symbols[x].section # UNDEF =>
                         symbol.section = symbols[x].section /\ symbol.offset = symbols[x].offset
  PROVE  MapOK' /\ Remembers /\ x \in DOMAIN symbols'
  BY MapPut DEF Remembers, Seen

LEMMA SameRemembers ==
  ASSUME MapOK, UNCHANGED <<symbols, order>>
  PROVE  MapOK' /\ Remembers
  BY DEF MapOK, Seen, Remembers

(* While the file is encoded no symbol has a number. *)
LEMMA StillNothing ==
  ASSUME IInv, phase = "encode", phase' \in {"encode", "error", "symtab"},
         UNCHANGED object, MapOK'
  PROVE  Numbered'
<1>1. numbered = 0 /\ DOMAIN gsyms = {}
  <2>1. numbered = 0
    BY DEF IInv, Numbered
  <2>2. \A i \in DOMAIN gsyms : \E k \in 1 .. 0 : gsyms[i] = order[k] /\ External(order[k])
    BY <2>1 DEF IInv, Numbered
  <2>3. 1 .. 0 = {}
    OBVIOUS
  <2> QED
    BY <2>1, <2>2, <2>3
<1>2. numbered' = 0 /\ DOMAIN gsyms' = {}
  BY <1>1 DEF object
<1>3. Len(order') \in Nat
  BY DEF MapOK
<1> QED
  BY <1>2, <1>3 DEF Numbered

-----------------------------------------------------------------------------
(* Each step keeps the invariant, and remembers. *)

LEMMA InitIInv ==
  ASSUME Init
  PROVE  IInv
<1> USE DEF Init
<1>1. relocs \in [Sections -> SUBSET Reloc] /\ length \in [Sections -> Nat]
  OBVIOUS
<1>2. gsyms \in Seq(Idents) /\ order \in Seq(Idents) /\ DOMAIN gsyms = {} /\ DOMAIN order = {}
  OBVIOUS
<1>3. TypeOK
  BY <1>1, <1>2 DEF TypeOK, Sections
<1>4. DOMAIN symbols = {}
  OBVIOUS
<1>5. MapOK
  <2>1. symbols \in [DOMAIN symbols -> Symbol]
    BY <1>4
  <2> QED
    BY <1>2, <1>4, <2>1 DEF MapOK, Seen
<1>6. Numbered
  BY <1>2 DEF Numbered
<1> QED
  BY <1>3, <1>5, <1>6 DEF IInv

LEMMA LabelStep ==
  ASSUME IInv, NEW x \in Idents, gen_label(x)
  PROVE  IInv' /\ Remembers
<1> USE DEF IInv
<1>1. phase = "encode" /\ UNCHANGED <<object, current, length, relocs, refs>>
  BY DEF gen_label, Encode
<1>2. TypeOK' /\ phase' \in {"encode", "error"}
  BY <1>1 DEF TypeOK, gen_label, object
<1>3. MapOK' /\ Remembers
  <2>1. CASE UNCHANGED <<symbols, order>>
    BY <2>1, SameRemembers
  <2>2. CASE /\ Seen(x) => symbols[x].section = UNDEF
             /\ map_put(x, [global  |-> Seen(x) /\ symbols[x].global,
                            section |-> current,
                            offset  |-> length[current]])
    <3>1. current \in Sections /\ length[current] \in Nat
      BY DEF TypeOK
    <3>2. (Seen(x) /\ symbols[x].global) \in BOOLEAN
      BY DEF MapOK, Seen, Symbol
    <3>3. [global |-> Seen(x) /\ symbols[x].global, section |-> current,
           offset |-> length[current]] \in Symbol
      BY <3>1, <3>2 DEF Symbol
    <3> QED
      BY <2>2, <3>3, PutRemembers
  <2> QED
    BY <2>1, <2>2 DEF gen_label
<1> QED
  BY <1>1, <1>2, <1>3, StillNothing

LEMMA GlobalStep ==
  ASSUME IInv, NEW x \in Idents, gen_global(x)
  PROVE  IInv' /\ Remembers
<1> USE DEF IInv
<1>1. /\ phase = "encode" /\ phase' = "encode"
      /\ UNCHANGED <<object, current, length, relocs, refs>>
  BY DEF gen_global, Encode
<1>2. TypeOK'
  BY <1>1 DEF TypeOK, object
<1>3. MapOK' /\ Remembers
  <2>1. CASE Seen(x)
    <3>1. symbols[x] \in Symbol
      BY <2>1 DEF MapOK, Seen
    <3> DEFINE symbol == [symbols[x] EXCEPT !.global = TRUE]
    <3>2. /\ symbol \in Symbol /\ symbol.global
          /\ symbol.section = symbols[x].section /\ symbol.offset = symbols[x].offset
      BY <3>1 DEF Symbol
    <3>3. map_put(x, symbol)
      BY <2>1 DEF gen_global
    <3> HIDE DEF symbol
    <3> QED
      BY <3>2, <3>3, PutRemembers
  <2>2. CASE ~Seen(x)
    <3>1. [global |-> TRUE, section |-> UNDEF, offset |-> 0] \in Symbol
      BY DEF Symbol
    <3> QED
      BY <2>2, <3>1, PutRemembers DEF gen_global
  <2> QED
    BY <2>1, <2>2
<1> QED
  BY <1>1, <1>2, <1>3, StillNothing

(* Statements that leave the symbols alone. *)
LEMMA PlainStep ==
  ASSUME IInv, (\E s \in Sections : gen_section(s)) \/ (\E n \in Bytes : gen_bytes(n))
  PROVE  IInv' /\ Remembers
<1> USE DEF IInv
<1>1. /\ phase = "encode" /\ phase' = "encode"
      /\ UNCHANGED <<object, symbols, order, relocs, refs>>
  BY DEF gen_section, gen_bytes, Encode
<1>2. current' \in Sections /\ length' \in [Sections -> Nat]
  <2>1. CASE \E s \in Sections : gen_section(s)
    BY <2>1 DEF gen_section, TypeOK
  <2>2. ASSUME NEW n \in Bytes, gen_bytes(n) PROVE current' \in Sections /\ length' \in [Sections -> Nat]
    <3>1. n \in Nat /\ length[current] + n \in Nat
      BY AsObjAssumption DEF TypeOK
    <3> QED
      BY <2>2, <3>1 DEF gen_bytes, TypeOK
  <2> QED
    BY <2>1, <2>2
<1>3. TypeOK'
  BY <1>1, <1>2 DEF TypeOK, object
<1> QED
  BY <1>1, <1>3, SameRemembers, StillNothing

(* A reference is noted at its place in the current section. *)
LEMMA ReferTypes ==
  ASSUME TypeOK, NEW x \in Idents, NEW before \in Nat, NEW type \in {PC32, ABS64},
         NEW addend \in Int, NEW trailing \in Nat, Refer(x, before, type, addend, trailing)
  PROVE  relocs' \in [Sections -> SUBSET Reloc] /\ refs' \subseteq Ref
<1> DEFINE place == length[current] + before
           q == [offset |-> place, ident |-> x, type |-> type, addend |-> addend]
           r == [section |-> current, offset |-> place, ident |-> x, type |-> type,
                 trailing |-> trailing]
<1>1. place \in Nat /\ current \in Sections
  BY DEF TypeOK
<1>2. q \in Reloc /\ r \in Ref
  BY <1>1 DEF Reloc, Ref
<1>3. relocs' = [relocs EXCEPT ![current] = @ \cup {q}] /\ refs' = refs \cup {r}
  BY DEF Refer
<1> HIDE DEF q, r
<1> QED
  BY <1>1, <1>2, <1>3 DEF TypeOK

LEMMA QuadStep ==
  ASSUME IInv, NEW x \in Idents, gen_quad(x)
  PROVE  IInv' /\ Remembers
<1> USE DEF IInv
<1>1. /\ phase = "encode" /\ phase' = "encode"
      /\ UNCHANGED <<object, current, symbols, order>>
      /\ Refer(x, 0, ABS64, 0, 0) /\ length' = [length EXCEPT ![current] = @ + 8]
  BY DEF gen_quad, Encode
<1>2. relocs' \in [Sections -> SUBSET Reloc] /\ refs' \subseteq Ref
  BY <1>1, ReferTypes
<1>3. length' \in [Sections -> Nat]
  <2>1. length[current] + 8 \in Nat
    BY DEF TypeOK
  <2> QED
    BY <1>1, <2>1 DEF TypeOK
<1>4. TypeOK'
  BY <1>1, <1>2, <1>3 DEF TypeOK, object
<1> QED
  BY <1>1, <1>4, SameRemembers, StillNothing

LEMMA Rel32Step ==
  ASSUME IInv, NEW x \in Idents, NEW n \in Bytes, NEW t \in Trailing, gen_rel32(x, n, t)
  PROVE  IInv' /\ Remembers /\ x \in DOMAIN symbols'
<1> USE DEF IInv
<1>1. /\ phase = "encode" /\ phase' = "encode" /\ UNCHANGED <<object, current>>
      /\ Refer(x, n, PC32, -4, t) /\ length' = [length EXCEPT ![current] = @ + n + 4 + t]
  BY DEF gen_rel32, Encode
<1>2. n \in Nat /\ t \in Nat
  BY AsObjAssumption
<1>3. relocs' \in [Sections -> SUBSET Reloc] /\ refs' \subseteq Ref
  BY <1>1, <1>2, ReferTypes
<1>4. TypeOK'
  <2>1. length[current] + n + 4 + t \in Nat
    BY <1>2 DEF TypeOK
  <2>2. length' \in [Sections -> Nat]
    BY <1>1, <2>1 DEF TypeOK
  <2> QED
    BY <1>1, <1>3, <2>2 DEF TypeOK, object
<1>5. MapOK' /\ Remembers /\ x \in DOMAIN symbols'
  <2>1. CASE Seen(x)
    BY <2>1, SameRemembers DEF gen_rel32, Seen
  <2>2. CASE ~Seen(x)
    <3>1. [global |-> FALSE, section |-> UNDEF, offset |-> 0] \in Symbol
      BY DEF Symbol
    <3> QED
      BY <2>2, <3>1, PutRemembers DEF gen_rel32
  <2> QED
    BY <2>1, <2>2
<1> QED
  BY <1>1, <1>4, <1>5, StillNothing

(* Nothing but the numbering changes once the file is encoded. *)
LEMMA EncodedSame ==
  ASSUME IInv, UNCHANGED encoded
  PROVE  /\ MapOK' /\ Remembers
         /\ \A x : Seen(x)' = Seen(x) /\ External(x)' = External(x)
  BY SameRemembers DEF encoded, IInv, Seen, External

LEMMA ObjStep ==
  ASSUME IInv, gen_obj
  PROVE  IInv' /\ Remembers
<1> USE DEF IInv
<1>1. phase = "encode" /\ phase' = "symtab" /\ UNCHANGED <<encoded, object>>
  BY DEF gen_obj
<1>2. TypeOK'
  BY <1>1 DEF TypeOK, encoded, object
<1> QED
  BY <1>1, <1>2, EncodedSame, StillNothing

LEMMA SymtabStep ==
  ASSUME IInv, gen_symtab
  PROVE  IInv' /\ Remembers
<1> USE DEF IInv
<1> DEFINE n == numbered + 1
           x == order[n]
<1>1. /\ phase = "symtab" /\ phase' = "symtab" /\ numbered < Len(order) /\ numbered' = n
      /\ gsyms' = IF External(x) THEN Append(gsyms, x) ELSE gsyms
      /\ UNCHANGED <<encoded, rela, patched>>
  BY DEF gen_symtab
<1>2. /\ MapOK' /\ Remembers
      /\ \A y : External(y)' = External(y)
      /\ order' = order
  BY <1>1, EncodedSame DEF encoded
<1>3. /\ numbered \in Nat /\ Len(order) \in Nat /\ DOMAIN order = 1 .. Len(order)
      /\ order \in Seq(Idents) /\ gsyms \in Seq(Idents)
      /\ Len(gsyms) \in Nat /\ DOMAIN gsyms = 1 .. Len(gsyms)
  BY DEF TypeOK, MapOK
<1>4. /\ n \in Nat /\ n \in DOMAIN order /\ n <= Len(order) /\ x \in Idents
      /\ \A k \in 1 .. n : k \in 1 .. numbered \/ k = n
      /\ \A k \in 1 .. numbered : k \in 1 .. n /\ k \in DOMAIN order /\ k # n
  BY <1>1, <1>3
<1>5. TypeOK'
  BY <1>1, <1>3, <1>4 DEF TypeOK, encoded
<1>6. \A i \in DOMAIN gsyms : gsyms[i] # x
  <2>1. ASSUME NEW i \in DOMAIN gsyms, gsyms[i] = x PROVE FALSE
    <3>1. PICK k \in 1 .. numbered : gsyms[i] = order[k]
      BY DEF Numbered
    <3>2. order[k] = order[n] /\ k \in DOMAIN order /\ n \in DOMAIN order /\ k # n
      BY <1>4, <2>1, <3>1
    <3> QED
      BY <3>2 DEF MapOK
  <2> QED
    BY <2>1
<1> HIDE DEF n, x
<1>7. Numbered'
  <2>1. CASE External(x)
    <3>1. gsyms' = Append(gsyms, x)
      BY <1>1, <2>1
    <3>2. /\ DOMAIN gsyms' = 1 .. Len(gsyms) + 1 /\ gsyms'[Len(gsyms) + 1] = x
          /\ \A i \in DOMAIN gsyms : i \in DOMAIN gsyms' /\ gsyms'[i] = gsyms[i]
          /\ Len(gsyms) + 1 \in DOMAIN gsyms'
          /\ \A i \in DOMAIN gsyms' : i \in DOMAIN gsyms \/ i = Len(gsyms) + 1
      BY <1>3, <1>4, <3>1
    <3>3. ASSUME NEW k \in 1 .. n, External(order[k])
          PROVE  \E i \in DOMAIN gsyms' : gsyms'[i] = order[k]
      <4>1. CASE k \in 1 .. numbered
        BY <3>2, <3>3, <4>1 DEF Numbered
      <4>2. CASE k = n
        BY <3>2, <4>2 DEF x
      <4> QED
        BY <1>4, <4>1, <4>2
    <3>4. ASSUME NEW i \in DOMAIN gsyms'
          PROVE  \E k \in 1 .. n : gsyms'[i] = order[k] /\ External(order[k])
      <4>1. CASE i \in DOMAIN gsyms
        <5>1. PICK k \in 1 .. numbered : gsyms[i] = order[k] /\ External(order[k])
          BY <4>1 DEF Numbered
        <5>2. k \in 1 .. n /\ gsyms'[i] = gsyms[i]
          BY <1>4, <3>2, <4>1
        <5> QED
          BY <5>1, <5>2
      <4>2. CASE i = Len(gsyms) + 1
        <5>1. n \in 1 .. n
          BY <1>3 DEF n
        <5> QED
          BY <2>1, <3>2, <4>2, <5>1 DEF x
      <4> QED
        BY <3>2, <4>1, <4>2
    <3>5. ASSUME NEW i \in DOMAIN gsyms', NEW j \in DOMAIN gsyms', gsyms'[i] = gsyms'[j]
          PROVE  i = j
      BY <1>6, <3>2, <3>5 DEF Numbered
    <3> QED
      BY <1>1, <1>2, <1>4, <3>3, <3>4, <3>5, ZenonT(60) DEF Numbered
  <2>2. CASE ~External(x)
    <3>1. gsyms' = gsyms
      BY <1>1, <2>2
    <3>2. ASSUME NEW k \in 1 .. n, External(order[k])
          PROVE  \E i \in DOMAIN gsyms : gsyms[i] = order[k]
      <4>1. k # n
        BY <2>2, <3>2 DEF x
      <4> QED
        BY <1>4, <3>2, <4>1 DEF Numbered
    <3>3. ASSUME NEW i \in DOMAIN gsyms
          PROVE  \E k \in 1 .. n : gsyms[i] = order[k] /\ External(order[k])
      <4>1. PICK k \in 1 .. numbered : gsyms[i] = order[k] /\ External(order[k])
        BY DEF Numbered
      <4> QED
        BY <1>4, <4>1
    <3>4. \A i, j \in DOMAIN gsyms : gsyms[i] = gsyms[j] => i = j
      BY DEF Numbered
    <3> QED
      BY <1>1, <1>2, <1>4, <3>1, <3>2, <3>3, <3>4, SMTT(40) DEF Numbered
  <2> QED
    BY <2>1, <2>2
<1> QED
  BY <1>2, <1>5, <1>7

LEMMA RelaStep ==
  ASSUME IInv, gen_rela
  PROVE  IInv' /\ Remembers
<1> USE DEF IInv
<1>1. /\ phase = "symtab" /\ phase' \in {"written", "crash"} /\ numbered = Len(order)
      /\ UNCHANGED <<encoded, numbered, gsyms>>
  BY DEF gen_rela
<1>2. TypeOK'
  BY <1>1 DEF TypeOK, encoded
<1>3. MapOK' /\ Remembers /\ \A y : External(y)' = External(y)
  BY <1>1, EncodedSame
<1>4. Numbered'
  BY <1>1, <1>3 DEF Numbered, encoded
<1> QED
  BY <1>2, <1>3, <1>4

LEMMA StutterStep ==
  ASSUME IInv, UNCHANGED vars
  PROVE  IInv' /\ Remembers
<1>1. UNCHANGED <<encoded, object, phase>>
  BY DEF vars, encoded, object
<1>2. MapOK' /\ Remembers /\ \A y : External(y)' = External(y)
  BY <1>1, EncodedSame
<1> QED
  BY <1>1, <1>2 DEF IInv, TypeOK, Numbered, encoded, object

LEMMA NextIInv ==
  ASSUME IInv, [Next]_vars
  PROVE  IInv' /\ Remembers
<1>1. CASE \E x \in Idents : gen_label(x) \/ gen_global(x) \/ gen_quad(x)
  BY <1>1, LabelStep, GlobalStep, QuadStep
<1>2. CASE (\E s \in Sections : gen_section(s)) \/ (\E n \in Bytes : gen_bytes(n))
  BY <1>2, PlainStep
<1>3. CASE \E x \in Idents, n \in Bytes, t \in Trailing : gen_rel32(x, n, t)
  BY <1>3, Rel32Step
<1>4. CASE gen_obj \/ gen_symtab \/ gen_rela
  BY <1>4, ObjStep, SymtabStep, RelaStep
<1>5. CASE UNCHANGED vars
  BY <1>5, StutterStep
<1> QED
  BY <1>1, <1>2, <1>3, <1>4, <1>5 DEF Next

LEMMA AsObjInvariant == Spec => []IInv
  BY InitIInv, NextIInv, PTL DEF Spec

-----------------------------------------------------------------------------
(* The symbol table holds the external identifiers, each once, and no      *)
(* other, for every sequence of statements (as_gen.c:87-104).              *)
THEOREM AsObjSymtabExact == Spec => []SymtabExact
<1>1. ASSUME IInv PROVE SymtabExact
  <2> SUFFICES ASSUME phase = "written"
               PROVE  /\ \A x \in DOMAIN symbols : External(x) <=>
                           \E k \in DOMAIN gsyms : gsyms[k] = x
                      /\ \A k \in DOMAIN gsyms : gsyms[k] \in DOMAIN symbols
                      /\ \A j, k \in DOMAIN gsyms : gsyms[j] = gsyms[k] => j = k
    BY DEF SymtabExact, External
  <2>1. numbered = Len(order) /\ DOMAIN order = 1 .. numbered
    BY <1>1 DEF IInv, Numbered, MapOK
  <2>2. ASSUME NEW x \in DOMAIN symbols, External(x)
        PROVE  \E k \in DOMAIN gsyms : gsyms[k] = x
    <3>1. PICK k \in DOMAIN order : order[k] = x
      BY <1>1 DEF IInv, MapOK, Seen
    <3> QED
      BY <1>1, <2>1, <2>2, <3>1 DEF IInv, Numbered
  <2>3. ASSUME NEW i \in DOMAIN gsyms
        PROVE  gsyms[i] \in DOMAIN symbols /\ External(gsyms[i])
    <3>1. PICK k \in 1 .. numbered : gsyms[i] = order[k] /\ External(order[k])
      BY <1>1 DEF IInv, Numbered
    <3>2. order[k] \in Idents /\ k \in DOMAIN order
      BY <1>1, <2>1 DEF IInv, MapOK
    <3> QED
      BY <1>1, <3>1, <3>2 DEF IInv, MapOK, Seen
  <2>4. \A j, k \in DOMAIN gsyms : gsyms[j] = gsyms[k] => j = k
    BY <1>1 DEF IInv, Numbered
  <2> QED
    BY <2>2, <2>3, <2>4
<1> QED
  BY <1>1, AsObjInvariant, PTL

(* No statement and no later step loses a definition or a .global, however *)
(* many there are (as_encode.c:44-54, 76-83, 183-191).                     *)
THEOREM AsObjNothingForgotten == Spec => NothingForgotten
<1>1. IInv /\ [Next]_vars => Remembers
  BY NextIInv
<1> QED
  BY <1>1, AsObjInvariant, PTL DEF Spec, NothingForgotten, Remembers

-----------------------------------------------------------------------------
(* References.  What the compiler prints: no immediate follows a %rip      *)
(* displacement, and .quad is in .data and names a string of .rodata.      *)
AsPrinted == Trailing = {0} /\ ~AnyQuad

(* A relocation, when it is noted in section s. *)
Sound(s, q) ==
  /\ q.ident \in DOMAIN symbols
  /\ q.offset < length[s]
  /\ q.addend = IF q.type = PC32 THEN -4 ELSE 0
  /\ q.type = ABS64 => s = DATA /\ symbols[q.ident].section = RODATA

(* Every reference has its relocation, and a place has one at most. *)
Links ==
  /\ \A s \in Sections : \A q \in relocs[s] : Sound(s, q)
  /\ \A s \in Sections : \A p, q \in relocs[s] : p.offset = q.offset => p = q
  /\ \A r \in refs :
       /\ r.trailing = 0
       /\ \E q \in relocs[r.section] :
            q.offset = r.offset /\ q.ident = r.ident /\ q.type = r.type

Entries(s) == {RelaEntry(r, gsyms) : r \in {q \in relocs[s] : ~Here(s, q)}}

Patches(s) ==
  {[offset |-> r.offset, value  |-> symbols[r.ident].offset - r.offset + r.addend]
     : r \in {q \in relocs[s] : Here(s, q)}}

Written ==
  /\ phase # "crash"
  /\ phase = "written" => \A s \in Sections : rela[s] = Entries(s) /\ patched[s] = Patches(s)

LEMMA RelocTypes ==
  ASSUME IInv, NEW s \in Sections, NEW q \in relocs[s]
  PROVE  /\ q \in Reloc /\ q.offset \in Nat /\ q.ident \in Idents
         /\ q.type \in {PC32, ABS64} /\ q.addend \in Int
<1>1. q \in Reloc
  BY DEF IInv, TypeOK
<1> QED
  BY <1>1 DEF Reloc

LEMMA TypesDiffer ==
  /\ PC32 # ABS64 /\ DATA # RODATA /\ RODATA # UNDEF
  /\ DATA \in Sections /\ RODATA \in Sections
  BY DEF PC32, ABS64, DATA, RODATA, UNDEF, Sections

(* What is sound stays so while sections grow and nothing is forgotten. *)
LEMMA StaysSound ==
  ASSUME IInv, Remembers, NEW s \in Sections, NEW q \in relocs[s], Sound(s, q),
         length'[s] \in Nat, length[s] <= length'[s]
  PROVE  Sound(s, q)'
<1>1. q.offset < length'[s]
  <2>1. q.offset \in Nat /\ length[s] \in Nat /\ q.offset < length[s]
    BY RelocTypes DEF IInv, TypeOK, Sound
  <2> QED
    BY <2>1
<1>2. q.ident \in DOMAIN symbols'
  BY DEF Sound, Remembers
<1>3. q.type = ABS64 => s = DATA /\ symbols'[q.ident].section = RODATA
  BY TypesDiffer DEF Sound, Remembers
<1> QED
  BY <1>1, <1>2, <1>3 DEF Sound

LEMMA KeepLinks ==
  ASSUME IInv, Links, Remembers, UNCHANGED <<relocs, refs>>,
         \A s \in Sections : length'[s] \in Nat /\ length[s] <= length'[s]
  PROVE  Links'
<1>1. \A s \in Sections : \A q \in relocs[s] : Sound(s, q)'
  BY StaysSound DEF Links
<1> QED
  BY <1>1 DEF Links

(* A new reference gets a place behind all the others. *)
LEMMA ReferLinks ==
  ASSUME IInv, Links, Remembers, NEW x \in Idents, x \in DOMAIN symbols',
         NEW before \in Nat, NEW type \in {PC32, ABS64}, NEW size \in Nat, before < size,
         NEW addend \in Int, addend = IF type = PC32 THEN -4 ELSE 0,
         type = ABS64 => current = DATA /\ symbols'[x].section = RODATA,
         Refer(x, before, type, addend, 0),
         length' = [length EXCEPT ![current] = @ + size]
  PROVE  Links'
<1> DEFINE place == length[current] + before
           new == [offset |-> place, ident |-> x, type |-> type, addend |-> addend]
           ref == [section |-> current, offset |-> place, ident |-> x, type |-> type,
                   trailing |-> 0]
<1>1. current \in Sections /\ length \in [Sections -> Nat] /\ relocs \in [Sections -> SUBSET Reloc]
  BY DEF IInv, TypeOK
<1>2. length[current] \in Nat /\ place \in Nat /\ length[current] <= place
  BY <1>1
<1>3. \A s \in Sections : length'[s] \in Nat /\ length[s] <= length'[s]
  BY <1>1
<1>4. place < length'[current]
  <2>1. length'[current] = length[current] + size
    BY <1>1
  <2> QED
    BY <1>2, <2>1
<1>5. relocs' = [relocs EXCEPT ![current] = @ \cup {new}] /\ refs' = refs \cup {ref}
  BY DEF Refer
<1>6. /\ new.offset = place /\ new.ident = x /\ new.type = type /\ new.addend = addend
      /\ ref.section = current /\ ref.offset = place /\ ref.ident = x /\ ref.type = type
      /\ ref.trailing = 0
  OBVIOUS
<1>7. ASSUME NEW s \in Sections, NEW q, s = current, q = new
      PROVE  Sound(s, q)'
  BY <1>4, <1>6, <1>7 DEF Sound
<1> HIDE DEF new, ref, place
<1>8. /\ relocs'[current] = relocs[current] \cup {new}
      /\ \A s \in Sections : s # current => relocs'[s] = relocs[s]
      /\ \A s \in Sections : relocs[s] \subseteq relocs'[s]
  BY <1>1, <1>5
<1>9. \A s \in Sections : \A q \in relocs'[s] : Sound(s, q)'
  <2>1. \A s \in Sections : \A q \in relocs[s] : Sound(s, q)'
    BY <1>3, StaysSound DEF Links
  <2> QED
    BY <1>7, <1>8, <2>1
<1>10. \A q \in relocs[current] : q.offset # place
  <2>1. ASSUME NEW q \in relocs[current] PROVE q.offset # place
    <3>1. q.offset < length[current] /\ q.offset \in Nat
      BY <1>1, RelocTypes DEF Links, Sound
    <3> QED
      BY <1>2, <3>1
  <2> QED
    BY <2>1
<1>11. \A s \in Sections : \A p, q \in relocs'[s] : p.offset = q.offset => p = q
  <2>1. \A p, q \in relocs'[current] : p.offset = q.offset => p = q
    BY <1>1, <1>6, <1>8, <1>10 DEF Links
  <2> QED
    BY <1>8, <2>1 DEF Links
<1>12. ASSUME NEW r \in refs'
       PROVE  /\ r.trailing = 0
              /\ \E q \in relocs'[r.section] :
                   q.offset = r.offset /\ q.ident = r.ident /\ q.type = r.type
  <2>1. CASE r \in refs
    <3>1. r.section \in Sections
      BY <2>1 DEF IInv, TypeOK, Ref
    <3> QED
      BY <1>8, <2>1, <3>1 DEF Links
  <2>2. CASE r = ref
    BY <1>6, <1>8, <2>2
  <2> QED
    BY <1>5, <2>1, <2>2
<1> QED
  BY <1>9, <1>11, <1>12 DEF Links

LEMMA NextLinks ==
  ASSUME AsPrinted, IInv, Links, [Next]_vars
  PROVE  Links'
<1> USE DEF IInv
<1>1. IInv' /\ Remembers
  BY NextIInv
<1>2. length \in [Sections -> Nat] /\ current \in Sections
  BY DEF TypeOK
<1>3. CASE \E x \in Idents : gen_label(x) \/ gen_global(x)
  BY <1>1, <1>2, <1>3, KeepLinks DEF gen_label, gen_global
<1>4. CASE \E s \in Sections : gen_section(s)
  BY <1>1, <1>2, <1>4, KeepLinks DEF gen_section
<1>5. ASSUME NEW n \in Bytes, gen_bytes(n) PROVE Links'
  <2>1. n \in Nat
    BY AsObjAssumption
  <2>2. \A s \in Sections : length'[s] \in Nat /\ length[s] <= length'[s]
    BY <1>2, <1>5, <2>1 DEF gen_bytes
  <2> QED
    BY <1>1, <1>5, <2>2, KeepLinks DEF gen_bytes
<1>6. ASSUME NEW x \in Idents, gen_quad(x) PROVE Links'
  <2>1. /\ current = DATA /\ x \in DOMAIN symbols /\ symbols[x].section = RODATA
        /\ symbols' = symbols /\ Refer(x, 0, ABS64, 0, 0)
        /\ length' = [length EXCEPT ![current] = @ + 8]
    BY <1>6 DEF gen_quad, AsPrinted, Seen
  <2>2. x \in DOMAIN symbols' /\ symbols'[x].section = RODATA
    BY <2>1
  <2>3. 0 = (IF ABS64 = PC32 THEN -4 ELSE 0)
    BY TypesDiffer
  <2>4. /\ 0 \in Nat /\ 8 \in Nat /\ 0 < 8 /\ 0 \in Int /\ ABS64 \in {PC32, ABS64}
        /\ ABS64 = ABS64 => current = DATA /\ symbols'[x].section = RODATA
    BY <2>1, <2>2
  <2> QED
    BY <1>1, <2>1, <2>2, <2>3, <2>4, ReferLinks, Zenon
<1>7. ASSUME NEW x \in Idents, NEW n \in Bytes, NEW t \in Trailing, gen_rel32(x, n, t)
      PROVE  Links'
  <2>1. t = 0 /\ n \in Nat /\ n + 4 + t \in Nat /\ n < n + 4 + t
    BY AsObjAssumption DEF AsPrinted
  <2>2. Refer(x, n, PC32, -4, 0) /\ length' = [length EXCEPT ![current] = @ + n + 4 + t]
    BY <1>7, <2>1 DEF gen_rel32
  <2>3. length' = [length EXCEPT ![current] = @ + (n + 4 + t)]
    <3>1. length[current] + n + 4 + t = length[current] + (n + 4 + t)
      BY <1>2, <2>1
    <3> QED
      BY <2>2, <3>1
  <2>4. x \in DOMAIN symbols'
    BY <1>7, Rel32Step
  <2>5. /\ -4 \in Int /\ -4 = (IF PC32 = PC32 THEN -4 ELSE 0) /\ PC32 \in {PC32, ABS64}
        /\ PC32 = ABS64 => current = DATA /\ symbols'[x].section = RODATA
    BY TypesDiffer
  <2> QED
    BY <1>1, <2>1, <2>2, <2>3, <2>4, <2>5, ReferLinks, Zenon
<1>8. CASE gen_obj \/ gen_symtab \/ gen_rela
  BY <1>1, <1>2, <1>8, KeepLinks DEF gen_obj, gen_symtab, gen_rela, encoded
<1>9. CASE UNCHANGED vars
  BY <1>1, <1>2, <1>9, KeepLinks DEF vars
<1> QED
  BY <1>3, <1>4, <1>5, <1>6, <1>7, <1>8, <1>9 DEF Next

LEMMA NextWritten ==
  ASSUME IInv, Links, Written, [Next]_vars
  PROVE  Written'
<1>1. CASE gen_rela
  <2>1. \A s \in Sections : \A r \in relocs[s] : Seen(r.ident)
    BY DEF Links, Sound, Seen
  <2>2. /\ phase' = "written" /\ UNCHANGED <<encoded, gsyms>>
        /\ \A s \in Sections : rela'[s] = Entries(s) /\ patched'[s] = Patches(s)
    BY <1>1, <2>1 DEF gen_rela, Entries, Patches
  <2>3. \A s \in Sections : Entries(s)' = Entries(s) /\ Patches(s)' = Patches(s)
    BY <2>2 DEF encoded, Entries, Patches, Here, External, RelaEntry, Index
  <2> QED
    BY <2>2, <2>3 DEF Written
<1>2. CASE UNCHANGED vars
  <2>1. \A s \in Sections : Entries(s)' = Entries(s) /\ Patches(s)' = Patches(s)
    BY <1>2 DEF vars, Entries, Patches, Here, External, RelaEntry, Index
  <2> QED
    BY <1>2, <2>1 DEF Written, vars
<1>3. CASE ~gen_rela /\ Next
  <2>1. phase' \in {"encode", "error", "symtab"}
    BY <1>3 DEF Next, gen_label, gen_global, gen_quad, gen_section, gen_bytes, gen_rel32,
                gen_obj, gen_symtab, Encode
  <2> QED
    BY <2>1 DEF Written
<1> QED
  BY <1>1, <1>2, <1>3

(* A number of the symbol table stands for the identifier it was given to, *)
(* the first four for the sections.                                        *)
LEMMA Addressed ==
  ASSUME IInv, phase = "written", NEW x \in DOMAIN symbols,
         NEW base, NEW ext
  PROVE  /\ External(x) => SymbolValue(Index(x, gsyms), base, ext) = Address(x, base, ext)
         /\ ~External(x) =>
              SymbolValue(section_syms(symbols[x].section), base, ext) = base[symbols[x].section]
<1>1. ASSUME External(x)
      PROVE  SymbolValue(Index(x, gsyms), base, ext) = Address(x, base, ext)
  <2> DEFINE k == CHOOSE i \in DOMAIN gsyms : gsyms[i] = x
  <2>1. \E i \in DOMAIN gsyms : gsyms[i] = x
    <3>1. PICK j \in DOMAIN order : order[j] = x
      BY DEF IInv, MapOK, Seen
    <3>2. j \in 1 .. numbered
      BY <3>1 DEF IInv, Numbered, MapOK
    <3> QED
      BY <1>1, <3>1, <3>2 DEF IInv, Numbered
  <2>2. k \in DOMAIN gsyms /\ gsyms[k] = x
    BY <2>1
  <2>3. k \in Nat \ {0}
    BY <2>2 DEF IInv, TypeOK
  <2>4. Index(x, gsyms) = LOCAL_SYMS - 1 + k
    BY DEF Index
  <2> HIDE DEF k
  <2>5. ~(Index(x, gsyms) < LOCAL_SYMS) /\ Index(x, gsyms) - LOCAL_SYMS + 1 = k
    BY <2>3, <2>4 DEF LOCAL_SYMS
  <2> QED
    BY <2>2, <2>5 DEF SymbolValue
<1>2. ASSUME ~External(x)
      PROVE  SymbolValue(section_syms(symbols[x].section), base, ext) = base[symbols[x].section]
  <2> DEFINE t == symbols[x].section
  <2>1. t \in Sections
    BY <1>2 DEF IInv, MapOK, Symbol, External
  <2>2. section_syms(t) < LOCAL_SYMS
    BY <2>1, SectionFacts DEF LOCAL_SYMS
  <2> HIDE DEF t
  <2>3. (CHOOSE s \in Sections : section_syms(s) = section_syms(t)) = t
    BY <2>1, SectionFacts
  <2>4. SymbolValue(section_syms(t), base, ext) = base[t]
    BY <2>2, <2>3 DEF SymbolValue
  <2> QED
    BY <2>4 DEF t
<1> QED
  BY <1>1, <1>2

LEMMA AddressType ==
  ASSUME IInv, NEW x \in DOMAIN symbols, NEW base \in Layouts, NEW ext \in Imports
  PROVE  Address(x, base, ext) \in Int
<1>1. base \in [{1, 3, 5} -> Int] /\ ext \in [Idents -> Int]
  BY AsObjAssumption
<1>2. symbols[x] \in Symbol /\ x \in Idents
  BY DEF IInv, MapOK
<1>3. symbols[x].offset \in Int /\ symbols[x].section \in Sections \cup {UNDEF}
  BY <1>2 DEF Symbol
<1>4. ext[x] \in Int /\ \A s \in Sections : base[s] \in Int
  BY <1>1, <1>2, SectionFacts
<1> QED
  BY <1>3, <1>4 DEF Address

(* The field of a reference gets one value, and that is what it means. *)
LEMMA FieldRight ==
  ASSUME IInv, Links, Written, phase = "written",
         NEW r \in refs, NEW base \in Layouts, NEW ext \in Imports
  PROVE  Fields(r.section, r.offset, base, ext) = {Meaning(r, base, ext)}
<1> USE DEF IInv
<1> DEFINE s == r.section
           m == Meaning(r, base, ext)
<1>1. s \in Sections /\ r.offset \in Nat /\ r.trailing = 0
  BY DEF TypeOK, Ref, Links
<1>2. PICK q \in relocs[s] : q.offset = r.offset /\ q.ident = r.ident /\ q.type = r.type
  BY DEF Links
<1> DEFINE x == q.ident
<1>3. \A p \in relocs[s] : p.offset = r.offset => p = q
  BY <1>1, <1>2 DEF Links
<1>4. Sound(s, q) /\ x \in DOMAIN symbols /\ q.type \in {PC32, ABS64} /\ q.offset \in Nat
  BY <1>1, <1>2, RelocTypes DEF Links, Sound
<1>5. /\ base[s] \in Int /\ Address(x, base, ext) \in Int
      /\ symbols[x].offset \in Nat
  <2>1. base \in [Sections -> Int]
    BY AsObjAssumption, SectionFacts
  <2>2. symbols[x] \in Symbol
    BY <1>4 DEF MapOK
  <2> QED
    BY <1>1, <1>4, <2>1, <2>2, AddressType DEF Symbol
<1>6. m = IF q.type = ABS64 THEN Address(x, base, ext)
          ELSE Address(x, base, ext) - (base[s] + q.offset + 4 + 0)
  BY <1>1, <1>2 DEF Meaning
<1>7. rela[s] = Entries(s) /\ patched[s] = Patches(s)
  BY <1>1 DEF Written
<1>8. q.addend = (IF q.type = PC32 THEN -4 ELSE 0)
  BY <1>4 DEF Sound
<1>9. CASE Here(s, q)
  <2>1. q.type = PC32 /\ symbols[x].section = s
    <3>1. q.type # ABS64
      BY <1>4, <1>9, TypesDiffer DEF Sound, Here
    <3> QED
      BY <1>4, <1>9, <3>1 DEF Here
  <2>2. {p \in patched[s] : p.offset = r.offset} =
          {[offset |-> q.offset, value |-> symbols[x].offset - q.offset + q.addend]}
    BY <1>2, <1>3, <1>7, <1>9 DEF Patches
  <2>3. {e \in rela[s] : e.offset = r.offset} = {}
    <3>1. ASSUME NEW e \in rela[s], e.offset = r.offset PROVE FALSE
      <4>1. PICK p \in relocs[s] : ~Here(s, p) /\ e = RelaEntry(p, gsyms)
        BY <1>7, <3>1 DEF Entries
      <4>2. e.offset = p.offset
        BY <4>1 DEF RelaEntry
      <4> QED
        BY <1>3, <1>9, <3>1, <4>1, <4>2
    <3> QED
      BY <3>1
  <2>4. Fields(s, r.offset, base, ext) = {symbols[x].offset - q.offset + q.addend}
    <3> DEFINE v == symbols[x].offset - q.offset + q.addend
               e == [offset |-> q.offset, value |-> v]
    <3>1. Fields(s, r.offset, base, ext)
            = {p.value : p \in {e}} \cup {Relocated(s, o, base, ext) : o \in {}}
      BY <2>2, <2>3 DEF Fields
    <3>2. e.value = v
      OBVIOUS
    <3> HIDE DEF e, v
    <3>3. {p.value : p \in {e}} = {v} /\ {Relocated(s, o, base, ext) : o \in {}} = {}
      BY <3>2
    <3> QED
      BY <3>1, <3>3 DEF v
  <2>5. Address(x, base, ext) = base[s] + symbols[x].offset
    <3>1. symbols[x].section # UNDEF
      BY <1>1, <2>1, SectionFacts
    <3> QED
      BY <2>1, <3>1 DEF Address
  <2>6. m = symbols[x].offset - q.offset + q.addend
    <3> HIDE DEF m, x, s
    <3>1. m = Address(x, base, ext) - (base[s] + q.offset + 4 + 0) /\ q.addend = -4
      BY <1>6, <1>8, <2>1, TypesDiffer
    <3> QED
      BY <1>4, <1>5, <2>5, <3>1
  <2> QED
    BY <2>4, <2>6
<1>10. CASE ~Here(s, q)
  <2> DEFINE entry == RelaEntry(q, gsyms)
  <2>1. {p \in patched[s] : p.offset = r.offset} = {}
    <3>1. ASSUME NEW p \in patched[s], p.offset = r.offset PROVE FALSE
      <4>1. PICK o \in relocs[s] : Here(s, o) /\ p.offset = o.offset
        BY <1>7, <3>1 DEF Patches
      <4> QED
        BY <1>3, <1>10, <3>1, <4>1
    <3> QED
      BY <3>1
  <2>2. {e \in rela[s] : e.offset = r.offset} = {entry}
    <3>1. entry \in rela[s] /\ entry.offset = r.offset
      BY <1>2, <1>7, <1>10 DEF Entries, RelaEntry
    <3>2. ASSUME NEW e \in rela[s], e.offset = r.offset PROVE e = entry
      <4>1. PICK p \in relocs[s] : e = RelaEntry(p, gsyms)
        BY <1>7, <3>2 DEF Entries
      <4>2. e.offset = p.offset
        BY <4>1 DEF RelaEntry
      <4> QED
        BY <1>3, <3>2, <4>1, <4>2
    <3> QED
      BY <3>1, <3>2
  <2>3. Fields(s, r.offset, base, ext) = {Relocated(s, entry, base, ext)}
    BY <2>1, <2>2 DEF Fields
  <2>4. /\ SymbolValue(entry.sym, base, ext) + entry.addend
             = Address(x, base, ext) + q.addend
        /\ SymbolValue(entry.sym, base, ext) \in Int /\ entry.addend \in Int
        /\ entry.type = q.type /\ entry.offset = q.offset
    <3>1. entry.type = q.type /\ entry.offset = q.offset /\ q.addend \in Int
      BY <1>1, <1>2, RelocTypes DEF RelaEntry
    <3>2. CASE External(x)
      <4>1. entry.sym = Index(x, gsyms) /\ entry.addend = q.addend
        BY <3>2 DEF RelaEntry
      <4> QED
        BY <1>4, <1>5, <3>1, <3>2, <4>1, Addressed
    <3>3. CASE ~External(x)
      <4>1. /\ entry.sym = section_syms(symbols[x].section)
            /\ entry.addend = symbols[x].offset + q.addend
        BY <3>3 DEF RelaEntry
      <4>2. SymbolValue(entry.sym, base, ext) = base[symbols[x].section]
        BY <1>4, <3>3, <4>1, Addressed
      <4>3. symbols[x].section \in Sections
        BY <1>4, <3>3 DEF MapOK, Symbol, External
      <4>4. Address(x, base, ext) = base[symbols[x].section] + symbols[x].offset
        BY <4>3, SectionFacts DEF Address
      <4>5. base[symbols[x].section] \in Int
        BY <4>3, AsObjAssumption, SectionFacts
      <4> HIDE DEF x, entry
      <4>6. /\ base[symbols[x].section] + (symbols[x].offset + q.addend)
              = (base[symbols[x].section] + symbols[x].offset) + q.addend
            /\ symbols[x].offset + q.addend \in Int
        BY <1>5, <3>1, <4>5
      <4> QED
        BY <3>1, <4>1, <4>2, <4>4, <4>5, <4>6
    <3> QED
      BY <3>2, <3>3
  <2> HIDE DEF entry, x, m, s
  <2>5. Relocated(s, entry, base, ext) = m
    <3>0. Relocated(s, entry, base, ext)
            = (Address(x, base, ext) + q.addend)
                - (IF q.type = PC32 THEN base[s] + q.offset ELSE 0)
      <4>1. Relocated(s, entry, base, ext) = SymbolValue(entry.sym, base, ext)
              + (entry.addend - (IF q.type = PC32 THEN base[s] + q.offset ELSE 0))
        BY <2>4 DEF Relocated
      <4>2. q.addend \in Int
        BY <1>8
      <4> QED
        BY <1>4, <1>5, <2>4, <4>1, <4>2
    <3>1. CASE q.type = ABS64
      <4>1. Relocated(s, entry, base, ext) = Address(x, base, ext) + 0 - 0
        BY <1>5, <1>8, <3>0, <3>1, TypesDiffer
      <4> QED
        BY <1>5, <1>6, <3>1, <4>1
    <3>2. CASE q.type = PC32
      <4>1. Relocated(s, entry, base, ext) = Address(x, base, ext) + (-4) - (base[s] + q.offset)
        BY <1>4, <1>5, <1>8, <3>0, <3>2
      <4>2. m = Address(x, base, ext) - (base[s] + q.offset + 4 + 0)
        BY <1>6, <3>2, TypesDiffer
      <4> QED
        BY <1>4, <1>5, <4>1, <4>2
    <3> QED
      BY <1>4, <3>1, <3>2
  <2> QED
    BY <2>3, <2>5 DEF s, m
<1> QED
  BY <1>9, <1>10

(* For what gen.c prints, however long the file, and wherever the linker   *)
(* puts sections and imports, each reference arrives at what it names, and *)
(* no relocation is without its symbol (as_encode.c:44-109, 183-191,       *)
(* as_gen.c:8-39).                                                         *)
THEOREM AsObjLinkedRight ==
  ASSUME AsPrinted
  PROVE  Spec => []LinkedRight
<1>1. Init => Links /\ Written
  BY DEF Init, Links, Written
<1>2. IInv /\ Links /\ Written /\ [Next]_vars => Links' /\ Written'
  BY NextLinks, NextWritten
<1>3. IInv /\ Links /\ Written => LinkedRight
  BY FieldRight DEF LinkedRight, Written
<1> QED
  BY <1>1, <1>2, <1>3, AsObjInvariant, PTL DEF Spec
=============================================================================
