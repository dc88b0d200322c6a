---------------------------------- MODULE X86 ---------------------------------
(***************************************************************************)
(* What the bytes of an instruction mean to the processor, decoded the way *)
(* the Intel manual does it, against what was written.  Nothing here is    *)
(* taken from the assembler.                                               *)
(***************************************************************************)
EXTENDS Encode

-----------------------------------------------------------------------------
(* The opcodes.  A row has the bytes of an opcode, the digit in the reg    *)
(* field if there is one, the operands' form, the size of the operands if  *)
(* prefixes do not give it, and that of the source if it has its own.      *)
Row(o, code, digit, form, size, from) ==
  [op |-> o, code |-> code, digit |-> digit, form |-> form, size |-> size, from |-> from]

(* The four opcodes between two operands: of bytes or not, to or from a    *)
(* register.                                                               *)
Pair(o, first) ==
  { Row(o, first,     None, "to",   BYTE, None), Row(o, first + 1, None, "to",   None, None),
    Row(o, first + 2, None, "from", BYTE, None), Row(o, first + 3, None, "from", None, None) }

Immediate(o, first, digit) ==
  { Row(o, first, digit, "imm", BYTE, None), Row(o, first + 1, digit, "imm", None, None) }

Arithmetic(o, number) == Pair(o, 8 * number) \cup Immediate(o, \h80, number)

Group3(o, digit)  == Row(o, \hF7, digit, "one", None, None)
Condition(o, low) == Row(o, \h0F90 + low, None, "set", BYTE, None)

Intel ==
  Arithmetic("add", 0) \cup Arithmetic("or", 1) \cup Arithmetic("and", 4)
  \cup Arithmetic("sub", 5) \cup Arithmetic("xor", 6) \cup Arithmetic("cmp", 7)
  \cup Pair("mov", \h88) \cup Immediate("mov", \hC6, 0)
  \cup {Group3("not", 2), Group3("neg", 3), Group3("mul", 4), Group3("imul", 5),
        Group3("div", 6), Group3("idiv", 7)}
  \cup {Row("sal", \hD3, 4, "cl", None, None), Row("sar", \hD3, 7, "cl", None, None)}
  \cup {Condition("setb", 2), Condition("sete", 4), Condition("setne", 5), Condition("setbe", 6),
        Condition("setl", 12), Condition("setge", 13), Condition("setle", 14), Condition("setg", 15)}
  \cup {Row("movzb", \h0FB6, None, "from", None, BYTE), Row("movzw", \h0FB7, None, "from", None, WORD),
        Row("movsb", \h0FBE, None, "from", None, BYTE), Row("movsw", \h0FBF, None, "from", None, WORD),
        Row("movsl", \h63,   None, "from", None, LONG)}
  \cup {Row("lea", \h8D, None, "from", None, None)}
  \cup {Row("push", \h50 + k, None, "opcode", QUAD, None) : k \in 0 .. 7}
  \cup {Row("pop",  \h58 + k, None, "opcode", QUAD, None) : k \in 0 .. 7}
  \cup {Row("jmp", \hE9,   None, "rel", QUAD, None), Row("call", \hE8,   None, "rel", QUAD, None),
        Row("je",  \h0F84, None, "rel", QUAD, None), Row("jne",  \h0F85, None, "rel", QUAD, None)}
  \cup {Row("cltd",  \h99, None, "none", None, None),
        Row("leave", \hC9, None, "none", QUAD, None), Row("ret", \hC3, None, "none", QUAD, None)}

HasModRM(row) == row.form \notin {"opcode", "rel", "none"}

-----------------------------------------------------------------------------
(* An operand: a register, ah .. bh, memory, a symbol or a number. *)
Reg(size, code) == <<"reg", size, code>>
High(code) == <<"high", code>>
Mem(base, index, scale, disp) == <<"mem", base, index, scale, disp>>
Sym(kind, ident) == <<kind, ident>>
Num(bytes) == <<"num", bytes>>

Flag(cond) == IF cond THEN 1 ELSE 0

(* The number that count bytes hold, in two's complement. *)
Signed(b, k, count) ==
  LET last == b[k + count - 1]
      top  == IF last >= 128 THEN last - 256 ELSE last
  IN  IF count = 0 THEN 0
      ELSE IF count = 1 THEN top
      ELSE b[k] + 256 * b[k + 1] + 65536 * b[k + 2] + 16777216 * top

Extended(bytes) ==
  [k \in 1 .. 8 |-> IF k <= Len(bytes) THEN bytes[k]
                    ELSE IF bytes[Len(bytes)] >= 128 THEN 255 ELSE 0]

(* The symbol a relocation puts at place k. *)
Relocated(k) ==
  IF \E r \in relocs : r.offset = k - 1
  THEN (CHOOSE r \in relocs : r.offset = k - 1).ident ELSE "unknown"

(* The head of an instruction b: the prefixes and the opcode, of two bytes *)
(* if the first is 0F; R, X and B are the bits that extend three fields.   *)
At(b, k)   == IF k \in 1 .. Len(b) THEN b[k] ELSE -1
Word(b)    == At(b, 1) = \h66
HasRex(b)  == At(b, 1 + Flag(Word(b))) \in \h40 .. \h4F
Rex(b)     == IF HasRex(b) THEN At(b, 1 + Flag(Word(b))) - \h40 ELSE 0
W(b)       == Rex(b) \div 8
R(b)       == 8 * ((Rex(b) \div 4) % 2)
X(b)       == 8 * ((Rex(b) \div 2) % 2)
B(b)       == 8 * (Rex(b) % 2)
First(b)   == 1 + Flag(Word(b)) + Flag(HasRex(b))
Escaped(b) == At(b, First(b)) = \h0F
Opcode(b)  == IF Escaped(b) THEN \h0F00 + At(b, First(b) + 1) ELSE At(b, First(b))
HeadLen(b) == First(b) + Flag(Escaped(b))
Body(b)    == SubSeq(b, HeadLen(b) + 1, Len(b))

(* The body t of an instruction: the byte ModR/M, perhaps the byte SIB,    *)
(* perhaps a displacement.                                                 *)
Mod(t)      == At(t, 1) \div 64
RegField(t) == (At(t, 1) \div 8) % 8
RmField(t)  == At(t, 1) % 8
Direct(t)   == Mod(t) = 3
RipMode(t)  == Mod(t) = 0 /\ RmField(t) = 5
Sib(t)      == Mod(t) # 3 /\ RmField(t) = 4
BaseField(t)  == IF Sib(t) THEN At(t, 2) % 8 ELSE RmField(t)
IndexField(t) == (At(t, 2) \div 8) % 8
ScaleField(t) == At(t, 2) \div 64
NoBase(t)   == Sib(t) /\ Mod(t) = 0 /\ BaseField(t) = 5
DispAt(t)   == 2 + Flag(Sib(t))
DispLen(t)  == IF RipMode(t) \/ NoBase(t) \/ Mod(t) = 2 THEN 4 ELSE IF Mod(t) = 1 THEN 1 ELSE 0
FormLen(t)  == IF Direct(t) THEN 1 ELSE DispAt(t) + DispLen(t) - 1

Address(t, x, base) ==
  LET indexed == Sib(t) /\ IndexField(t) + x # 4
  IN  Mem(IF NoBase(t) THEN None ELSE BaseField(t) + base,
          IF indexed THEN <<IndexField(t) + x>> ELSE << >>,
          IF indexed THEN 2 ^ ScaleField(t) ELSE 1,
          Signed(t, DispAt(t), DispLen(t)))

Named(size, code, hasRex) ==
  IF size = BYTE /\ ~hasRex /\ code \in 4 .. 7 THEN High(code - 4) ELSE Reg(size, code)

(* The operand in the r/m field, and the one in the reg field. *)
RM(b, size) ==
  LET t == Body(b)
  IN  IF Direct(t) THEN Named(size, RmField(t) + B(b), HasRex(b))
      ELSE IF RipMode(t) THEN Sym("rip", Relocated(HeadLen(b) + 2))
      ELSE Address(t, X(b), B(b))

InReg(b, size) == Named(size, RegField(Body(b)) + R(b), HasRex(b))

RowsOf(b) == {r \in Intel : r.code = Opcode(b) /\ r.digit \in {None, RegField(Body(b))}}

SizeOf(b, row) ==
  IF row.size # None THEN row.size ELSE IF W(b) = 1 THEN QUAD ELSE IF Word(b) THEN WORD ELSE LONG

ImmLen(row, size) ==
  IF row.form # "imm" THEN 0 ELSE IF size = BYTE THEN 1 ELSE IF size = WORD THEN 2 ELSE 4

LengthOf(b, row) ==
  HeadLen(b) + (IF HasModRM(row) THEN FormLen(Body(b)) + ImmLen(row, SizeOf(b, row))
                ELSE IF row.form = "rel" THEN 4 ELSE 0)

OperandsOf(b, row) ==
  LET size == SizeOf(b, row)
      imm  == SubSeq(b, Len(b) - ImmLen(row, size) + 1, Len(b))
  IN  CASE row.form = "to"     -> <<InReg(b, size), RM(b, size)>>
        [] row.form = "from"   -> <<RM(b, IF row.from = None THEN size ELSE row.from), InReg(b, size)>>
        [] row.form = "imm"    -> <<Num(IF size = QUAD THEN Extended(imm) ELSE imm), RM(b, size)>>
        [] row.form = "one"    -> <<RM(b, size)>>
        [] row.form = "set"    -> <<RM(b, BYTE)>>
        [] row.form = "cl"     -> <<Reg(BYTE, 1), RM(b, size)>>
        [] row.form = "opcode" -> <<Reg(QUAD, (Opcode(b) % 8) + B(b))>>
        [] row.form = "rel"    -> <<Sym("sym", Relocated(HeadLen(b) + 1))>>
        [] row.form = "none"   -> << >>

Undefined == [op |-> "undefined", size |-> None, ops |-> << >>, length |-> 0]

Decoded(b) ==
  LET row  == CHOOSE r \in RowsOf(b) : TRUE
  IN  IF RowsOf(b) = {} \/ LengthOf(b, row) # Len(b) THEN Undefined
      ELSE [op     |-> IF row.op = "cltd" /\ SizeOf(b, row) = QUAD THEN "cqto" ELSE row.op,
            size   |-> SizeOf(b, row),
            ops    |-> OperandsOf(b, row),
            length |-> Len(b)]

-----------------------------------------------------------------------------
(* What was written. *)
Registers == {written.ops[i].reg.size : i \in {j \in DOMAIN written.ops : written.ops[j].kind = "reg"}}

Extensions == {"movzb", "movzw", "movsb", "movsw", "movsl"}

Size ==
  IF written.suffix # None THEN written.suffix
  ELSE IF written.op \in Sets THEN BYTE
  ELSE IF written.op \in Extensions \cup {"sal", "sar"} THEN written.ops[2].reg.size
  ELSE IF written.op = "cltd" THEN LONG
  ELSE IF Registers = {} THEN QUAD
  ELSE CHOOSE s \in Registers : TRUE

Denotes(o) ==
  CASE o.kind = "reg" -> Reg(o.reg.size, o.reg.code)
    [] o.kind = "mem" -> Mem(o.base.code, [i \in DOMAIN o.index |-> o.index[i].code],
                             IF o.index = << >> \/ o.scale = None THEN 1 ELSE o.scale, o.disp)
    [] o.kind \in {"rip", "sym"} -> Sym(o.kind, o.ident)
    [] o.kind = "imm" -> Num(SubSeq(o.imm, 1, 2 ^ Size))

Meaning ==
  [op |-> written.op, size |-> Size, ops |-> [i \in DOMAIN written.ops |-> Denotes(written.ops[i])],
   length |-> Len(bin)]

Means == bin # << >> => Decoded(bin) = Meaning

(* The instructions that come out wrong, each the subject of a property of *)
(* its own.                                                                *)
FromByteRegister ==
  /\ written.op \in {"movzb", "movsb"}
  /\ written.ops[1].kind = "reg"
  /\ written.ops[1].reg.code \in 4 .. 7

LargeImmediate ==
  /\ \E i \in DOMAIN written.ops :
       written.ops[i].kind = "imm" /\ written.ops[i].imm # Extended(SubSeq(written.ops[i].imm, 1, 4))
  /\ Size = QUAD

OtherSize ==
  \/ written.op \in {"lea", "cqto", "leave", "ret"} /\ Size # QUAD
  \/ written.op = "cltd" /\ Size # LONG
  \/ written.op \in Sets /\ Registers \cup {Size} # {BYTE}

-----------------------------------------------------------------------------
(* The processor does what was written: operation, size, registers with    *)
(* and without REX, every form of address, immediates, and the symbols at  *)
(* the places the relocations name (as_encode.c:113-214, 239-1503).        *)
EncodesMeaning ==
  phase = "encoded" => FromByteRegister \/ LargeImmediate \/ OtherSize \/ Means

(* What gen.c prints, the assembler accepts and turns into bytes.          *)
Kinds == [i \in DOMAIN written.ops |-> written.ops[i].kind]

PrintedForms ==
  ({"mov"} \X {QUAD} \X {<<"imm", "reg">>, <<"reg", "reg">>, <<"mem", "reg">>, <<"reg", "mem">>})
  \cup ({"mov"} \X {LONG} \X ({"imm", "reg"} \X {"reg", "mem"} \cup {<<"mem", "reg">>}))
  \cup ({"mov"} \X {BYTE, WORD} \X {<<"mem", "reg">>, <<"reg", "mem">>})
  \cup {<<"mov", BYTE, <<"imm", "reg">>>>, <<"sub", QUAD, <<"imm", "reg">>>>}
  \cup ({"add"} \X {LONG, QUAD} \X {<<"imm", "reg">>})
  \cup ({"cmp"} \X {BYTE, WORD, LONG, QUAD} \X {<<"imm", "reg">>})
  \cup ({"add", "sub", "and", "or", "xor", "cmp"} \X {LONG, QUAD} \X {<<"reg", "reg">>})
  \cup ({"sal", "sar"} \X {LONG, QUAD} \X {<<"reg", "reg">>})
  \cup ({"lea"} \X {QUAD} \X {<<"mem", "reg">>, <<"rip", "reg">>})
  \cup ({"neg", "not", "mul", "imul", "div", "idiv"} \X {LONG, QUAD} \X {<<"reg">>})
  \cup ({"push", "pop"} \X {QUAD} \X {<<"reg">>})
  \cup ({"movzb", "movsb"} \X {WORD, LONG, QUAD} \X {<<"reg", "reg">>})
  \cup ({"movzw", "movsw"} \X {LONG, QUAD} \X {<<"reg", "reg">>})
  \cup {<<"movsl", QUAD, <<"reg", "reg">>>>}
  \cup ({"sete", "setne", "setb", "setl", "setbe", "setle"} \X {None} \X {<<"reg">>})
  \cup ({"jmp", "je", "jne", "call"} \X {None} \X {<<"sym">>})
  \cup ({"cltd", "cqto", "leave", "ret"} \X {None} \X {<< >>})

SourceSize ==
  CASE written.op \in {"movzb", "movsb", "sal", "sar"} \cup Sets -> BYTE
    [] written.op \in {"movzw", "movsw"} -> WORD
    [] written.op = "movsl" -> LONG
    [] OTHER -> written.suffix

Printed ==
  /\ <<written.op, written.suffix, Kinds>> \in PrintedForms
  /\ \A i \in DOMAIN written.ops :
       LET o == written.ops[i]
       IN  /\ o.kind = "reg" => o.reg.size = IF i = 1 THEN SourceSize ELSE written.suffix
           /\ o.kind = "reg" /\ i = 1 /\ written.op \in {"sal", "sar"} => o.reg.code = 1
           /\ o.kind = "mem" => o.base.size = QUAD /\ o.index = << >>

(* The two halves agree on a language: whatever instruction the code       *)
(* generator prints, with whatever registers, passes the parser and        *)
(* as_sema, and becomes bytes (gen.c:62-943, as_sema.c:136-261).           *)
AcceptsPrinted == Printed => phase # "error" /\ (phase = "encoded" => bin # << >>)
=============================================================================
