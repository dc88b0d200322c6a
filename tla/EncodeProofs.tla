------------------------------ MODULE EncodeProofs ----------------------------
(***************************************************************************)
(* Proofs about the assembler's instructions: whatever is accepted, of     *)
(* whatever operands, becomes bytes that mean to the processor what was    *)
(* written, but for three exceptions; and whatever gen.c prints is         *)
(* accepted and becomes bytes.                                             *)
(***************************************************************************)
EXTENDS X86, SequenceTheorems, TLAPS

-----------------------------------------------------------------------------
(* The invariant. *)
NoOperand  == {"cltd", "cqto", "leave", "ret"}
Stack      == {"push", "pop"}
Unary      == {"neg", "not", "mul", "imul", "div", "idiv"}
Jumps      == {"jmp", "je", "jne", "call"}
Binary     == {"mov", "add", "sub", "and", "xor", "or", "cmp"}
Shifts     == {"sal", "sar"}

(* The size s asks for in operand i, if it is a register.                  *)
Exact(i, s) ==
  CASE i = 1 /\ written.op \in {"movzb", "movsb", "sal", "sar"} -> BYTE
    [] i = 1 /\ written.op \in {"movzw", "movsw"} -> WORD
    [] i = 1 /\ written.op = "movsl" -> LONG
    [] OTHER -> s

(* What as_sema makes sure of when it decides on the suffix s. *)
Agreed(s) ==
  /\ s \in 0 .. 3
  /\ ~OtherSize => s = Size
  /\ \A i \in DOMAIN written.ops : inst.ops[i].type = "reg" => inst.ops[i].regtype = Exact(i, s)
  /\ written.op \in NoOperand => DOMAIN written.ops = {}
  /\ written.op \in Stack \cup Unary \cup Jumps \cup Sets => DOMAIN written.ops = {1}
  /\ written.op \in Binary \cup Shifts \cup Extensions \cup {"lea"} =>
       /\ DOMAIN written.ops = {1, 2}
       /\ ~(src.type = "mem" /\ dest.type = "mem")
       /\ dest.type # "imm"
  /\ written.op \in Stack => op.type = "reg" /\ s = QUAD
  /\ written.op \in Jumps => op.type = "sym" /\ s = QUAD
  /\ written.op = "lea" => src.type = "mem" /\ dest.type = "reg"
  /\ written.op \in Shifts => src.type = "reg" /\ src.regcode = 1

Parsed == [i \in DOMAIN written.ops |-> parse_op(written.ops[i])]

Addresses == \A i \in DOMAIN written.ops : written.ops[i].kind = "mem" => memory_ok(written.ops[i])

(* as_encode has appended to an empty section. *)
Emitted ==
  /\ bin = << >> \o Encoding.bytes
  /\ relocs = {[r EXCEPT !.offset = Len(<< >>) + @] : r \in Encoding.refs}

IInv ==
  /\ phase \in {"written", "parsed", "checked", "encoded", "error"}
  /\ written \in Written
  /\ phase # "encoded" => bin = << >> /\ relocs = {}
  /\ phase \in {"parsed", "checked", "encoded"} =>
       Addresses /\ inst = [op |-> written.op, suffix |-> inst.suffix, ops |-> Parsed]
  /\ phase = "parsed" => inst.suffix = written.suffix
  /\ phase \in {"checked", "encoded"} => Agreed(inst.suffix)
  /\ phase = "encoded" => Emitted
  /\ phase = "error" => ~Printed

-----------------------------------------------------------------------------
(* What the parser makes of an operand, field by field. *)
LEMMA ParsedReg ==
  ASSUME NEW o, o.kind = "reg"
  PROVE  parse_op(o) =
           [type |-> "reg", regtype |-> o.reg.size, regcode |-> o.reg.code, rip |-> FALSE,
            sib |-> FALSE, scale |-> 0, index |-> 0, base |-> 0, disp |-> 0, ident |-> "none",
            imm |-> << >>]
  BY DEF parse_op, parse_reg, op_new, BYTE

LEMMA ParsedMem ==
  ASSUME NEW o, o.kind = "mem", o.index = << >>
  PROVE  parse_op(o) =
           [type |-> "mem", regtype |-> BYTE, regcode |-> 0, rip |-> FALSE,
            sib |-> FALSE, scale |-> 0, index |-> 0, base |-> o.base.code, disp |-> o.disp,
            ident |-> "none", imm |-> << >>]
  BY DEF parse_op, parse_memory, op_mem_base, op_new

LEMMA ParsedSib ==
  ASSUME NEW o, o.kind = "mem", o.index # << >>
  PROVE  parse_op(o) =
           [type |-> "mem", regtype |-> BYTE, regcode |-> 0, rip |-> FALSE,
            sib |-> TRUE, scale |-> ScaleOf(o.scale), index |-> o.index[1].code,
            base |-> o.base.code, disp |-> o.disp, ident |-> "none", imm |-> << >>]
  BY DEF parse_op, parse_memory, op_mem_sib, op_mem_base, op_new

LEMMA ParsedRip ==
  ASSUME NEW o, o.kind = "rip"
  PROVE  parse_op(o) =
           [type |-> "mem", regtype |-> BYTE, regcode |-> 0, rip |-> TRUE,
            sib |-> FALSE, scale |-> 0, index |-> 0, base |-> 0, disp |-> 0,
            ident |-> o.ident, imm |-> << >>]
  BY DEF parse_op, parse_symbol, op_new

LEMMA ParsedSym ==
  ASSUME NEW o, o.kind = "sym"
  PROVE  parse_op(o) =
           [type |-> "sym", regtype |-> BYTE, regcode |-> 0, rip |-> FALSE,
            sib |-> FALSE, scale |-> 0, index |-> 0, base |-> 0, disp |-> 0,
            ident |-> o.ident, imm |-> << >>]
  BY DEF parse_op, parse_symbol, op_new

LEMMA ParsedImm ==
  ASSUME NEW o, o.kind = "imm"
  PROVE  parse_op(o) =
           [type |-> "imm", regtype |-> BYTE, regcode |-> 0, rip |-> FALSE,
            sib |-> FALSE, scale |-> 0, index |-> 0, base |-> 0, disp |-> 0,
            ident |-> "none", imm |-> SubSeq(o.imm, 1, 4)]
  BY DEF parse_op, parse_immediate, op_new

-----------------------------------------------------------------------------
(* Operands, by their kinds. *)
LEMMA OperandCases ==
  ASSUME NEW o \in Operand
  PROVE  \/ o.kind = "reg" /\ o.reg.size \in 0 .. 3 /\ o.reg.code \in 0 .. 15
         \/ /\ o.kind = "mem" /\ o.base.size \in 0 .. 3 /\ o.base.code \in 0 .. 15
            /\ (o.index = << >>) \/ (\E r \in Register : o.index = <<r>>)
            /\ o.scale \in Int /\ o.disp \in Int32
         \/ o.kind = "rip" /\ o.ident \in STRING
         \/ o.kind = "sym" /\ o.ident \in STRING
         \/ o.kind = "imm" /\ o.imm \in [1 .. 8 -> 0 .. 255]
<1>1. CASE o \in [kind : {"reg"}, reg : Register]
  BY <1>1 DEF Register
<1>2. CASE o \in [kind : {"mem"}, base : Register, index : {<< >>} \cup {<<r>> : r \in Register},
                  scale : Int, disp : Int32]
  <2>1. o.kind = "mem" /\ o.scale \in Int /\ o.disp \in Int32 /\ o.base \in Register
    BY <1>2
  <2>2. o.index \in {<< >>} \cup {<<r>> : r \in Register}
    BY <1>2
  <2>3. (o.index = << >>) \/ (\E r \in Register : o.index = <<r>>)
    BY <2>2
  <2>4. o.base.size \in 0 .. 3 /\ o.base.code \in 0 .. 15
    BY <2>1 DEF Register
  <2> QED BY <2>1, <2>3, <2>4
<1>3. CASE o \in [kind : {"rip", "sym"}, ident : STRING]
  BY <1>3
<1>4. CASE o \in [kind : {"imm"}, imm : [1 .. 8 -> 0 .. 255]]
  BY <1>4
<1>5. \/ o \in [kind : {"reg"}, reg : Register]
      \/ o \in [kind : {"mem"}, base : Register, index : {<< >>} \cup {<<r>> : r \in Register},
               scale : Int, disp : Int32]
      \/ o \in [kind : {"rip", "sym"}, ident : STRING]
      \/ o \in [kind : {"imm"}, imm : [1 .. 8 -> 0 .. 255]]
  BY Zenon DEF Operand
<1> QED BY ONLY <1>1, <1>2, <1>3, <1>4, <1>5

LEMMA Scales ==
  ASSUME NEW s \in {None, 1, 2, 4, 8}
  PROVE  ScaleOf(s) \in 0 .. 3 /\ 2 ^ ScaleOf(s) = IF s = None THEN 1 ELSE s
<1>1. CASE s = None
  BY <1>1 DEF ScaleOf, None
<1>2. CASE s # None
  <2>1. 2 ^ 0 = 1 /\ 2 ^ 1 = 2 /\ 2 ^ 2 = 4 /\ 2 ^ 3 = 8
    BY SMT
  <2>2. \E k \in 0 .. 3 : s = 2 ^ k
    BY <1>2, <2>1
  <2>3. ScaleOf(s) = CHOOSE k \in 0 .. 3 : s = 2 ^ k
    BY <1>2 DEF ScaleOf
  <2>4. ScaleOf(s) \in 0 .. 3 /\ s = 2 ^ ScaleOf(s)
    BY <2>2, <2>3
  <2> QED BY <1>2, <2>4
<1> QED BY <1>1, <1>2

(* Four bytes of eight. *)
LEMMA LowBytesOf ==
  ASSUME NEW bytes \in [1 .. 8 -> 0 .. 255]
  PROVE  /\ bytes \in Seq(0 .. 255)
         /\ SubSeq(bytes, 1, 4) \in [1 .. 4 -> 0 .. 255]
         /\ \A k \in 1 .. 4 : SubSeq(bytes, 1, 4)[k] = bytes[k]
<1>1. bytes \in Seq(0 .. 255)
  <2>1. 8 \in Nat
    OBVIOUS
  <2> QED BY <2>1, SeqDef, ZenonT(60)
<1>2. \A k \in 1 .. 4 : bytes[k] \in 0 .. 255
  OBVIOUS
<1> DEFINE low == SubSeq(bytes, 1, 4)
<1>3. /\ low \in Seq(0 .. 255)
      /\ Len(low) = IF 1 <= 4 THEN 4 - 1 + 1 ELSE 0
      /\ \A k \in 1 .. 4 - 1 + 1 : low[k] = bytes[1 + k - 1]
  BY ONLY <1>2, SubSeqProperties, SMT
<1>4. \A k \in 1 .. 4 : low[k] = bytes[k]
  BY <1>3
<1>5. DOMAIN low = 1 .. 4
  BY <1>3, LenProperties
<1>6. low \in [1 .. 4 -> 0 .. 255]
  <2>1. \E n \in Nat : low \in [1 .. n -> 0 .. 255]
    BY <1>3, LenProperties, ZenonT(60)
  <2>2. PICK n \in Nat : low \in [1 .. n -> 0 .. 255]
    BY <2>1
  <2>3. 1 .. n = 1 .. 4
    BY <2>2, <1>5
  <2> QED BY <2>2, <2>3
<1> QED BY <1>1, <1>4, <1>6

IsOp(p) ==
  /\ p.type \in {"reg", "mem", "sym", "imm"}
  /\ p.regtype \in 0 .. 3 /\ p.regcode \in 0 .. 15
  /\ p.scale \in 0 .. 3 /\ p.index \in 0 .. 15 /\ p.base \in 0 .. 15 /\ p.disp \in Int32

LEMMA ParsedType ==
  ASSUME NEW o \in Operand, o.kind = "mem" => memory_ok(o)
  PROVE  IsOp(parse_op(o))
<1> USE DEF BYTE
<1>0. 0 \in Int32
  BY DEF Int32
<1>1. CASE o.kind = "reg"
  BY <1>0, <1>1, ParsedReg, OperandCases DEF IsOp
<1>2. CASE o.kind = "mem" /\ o.index = << >>
  BY <1>0, <1>2, ParsedMem, OperandCases DEF IsOp
<1>3. CASE o.kind = "mem" /\ o.index # << >>
  <2>1. PICK r \in Register : o.index = <<r>>
    BY <1>3, OperandCases
  <2>2. o.index[1].code \in 0 .. 15
    BY <2>1 DEF Register
  <2>3. ScaleOf(o.scale) \in 0 .. 3
    BY <1>3, Scales DEF memory_ok
  <2>4. o.base.code \in 0 .. 15 /\ o.disp \in Int32
    BY <1>3, OperandCases
  <2> QED BY <1>3, <2>2, <2>3, <2>4, ParsedSib DEF IsOp
<1>4. CASE o.kind = "rip"
  BY <1>0, <1>4, ParsedRip, OperandCases DEF IsOp
<1>5. CASE o.kind = "sym"
  BY <1>0, <1>5, ParsedSym, OperandCases DEF IsOp
<1>6. CASE o.kind = "imm"
  BY <1>0, <1>6, ParsedImm DEF IsOp
<1> QED BY <1>1, <1>2, <1>3, <1>4, <1>5, <1>6, OperandCases

-----------------------------------------------------------------------------
(* What a parsed instruction looks like. *)
LEMMA IntervalsEqual ==
  ASSUME NEW m \in Nat, NEW n \in Nat, 1 .. m = 1 .. n
  PROVE  m = n
<1>1. m > 0 => m \in 1 .. n
  OBVIOUS
<1>2. n > 0 => n \in 1 .. m
  OBVIOUS
<1> QED BY <1>1, <1>2

LEMMA WrittenType ==
  ASSUME IInv
  PROVE  /\ written.op \in Mnemonics /\ written.suffix \in -1 .. 3
         /\ written.ops \in Seq(Operand)
         /\ DOMAIN written.ops = 1 .. Len(written.ops) /\ Len(written.ops) \in Nat
         /\ \A i \in DOMAIN written.ops : written.ops[i] \in Operand
<1>1. written \in [op : Mnemonics, suffix : -1 .. 3, ops : Seq(Operand)]
  BY EncodeAssumption DEF IInv
<1>2. written.ops \in Seq(Operand)
  BY <1>1
<1> QED BY <1>1, <1>2, LenProperties

LEMMA ParsedLen ==
  ASSUME IInv
  PROVE  Len(Parsed) = Len(written.ops) /\ DOMAIN Parsed = DOMAIN written.ops
<1> DEFINE S == {parse_op(written.ops[i]) : i \in DOMAIN written.ops}
           n == Len(written.ops)
<1>1. n \in Nat /\ DOMAIN written.ops = 1 .. n
  BY WrittenType
<1>2. Parsed \in [1 .. n -> S]
  BY <1>1 DEF Parsed
<1>3. Parsed \in Seq(S)
  BY <1>1, <1>2, SeqDef
<1>4. DOMAIN Parsed = 1 .. Len(Parsed) /\ Len(Parsed) \in Nat
  BY <1>3, LenProperties
<1> QED BY <1>1, <1>2, <1>4, IntervalsEqual

LEMMA ParsedKind ==
  ASSUME IInv, Addresses, NEW i \in DOMAIN written.ops
  PROVE  /\ Parsed[i] = parse_op(written.ops[i])
         /\ IsOp(Parsed[i])
         /\ Parsed[i].type =
              IF written.ops[i].kind = "rip" THEN "mem" ELSE written.ops[i].kind
         /\ written.ops[i].kind = "reg" =>
              /\ Parsed[i].regtype = written.ops[i].reg.size
              /\ Parsed[i].regcode = written.ops[i].reg.code
         /\ written.ops[i].kind # "reg" => Parsed[i].regcode = 0
<1> DEFINE o == written.ops[i]
<1>1. o \in Operand /\ (o.kind = "mem" => memory_ok(o))
  BY WrittenType DEF Addresses
<1>2. Parsed[i] = parse_op(o)
  BY DEF Parsed
<1>3. IsOp(Parsed[i])
  BY <1>1, <1>2, ParsedType
<1> HIDE DEF o
<1>4. CASE o.kind = "reg"
  BY <1>2, <1>3, <1>4, ParsedReg DEF o
<1>5. CASE o.kind = "mem"
  BY <1>2, <1>3, <1>5, ParsedMem, ParsedSib DEF o
<1>6. CASE o.kind = "rip"
  BY <1>2, <1>3, <1>6, ParsedRip DEF o
<1>7. CASE o.kind = "sym"
  BY <1>2, <1>3, <1>7, ParsedSym DEF o
<1>8. CASE o.kind = "imm"
  BY <1>2, <1>3, <1>8, ParsedImm DEF o
<1>9. o.kind \in {"reg", "mem", "rip", "sym", "imm"}
  BY <1>1, OperandCases
<1> QED BY <1>4, <1>5, <1>6, <1>7, <1>8, <1>9

-----------------------------------------------------------------------------
(* as_sema: the suffix is the one that is written, that of every register  *)
(* that counts, or the default.                                            *)
LEMMA SuffixFound ==
  ASSUME NEW first \in -1 .. 3, NEW operands, NEW default \in -1 .. 3,
         \A o \in operands : o.regtype \in 0 .. 3,
         Suffix(first, operands, default).ok
  PROVE  LET s == Suffix(first, operands, default).suffix
         IN  /\ s \in 0 .. 3
             /\ first # None => s = first
             /\ \A o \in operands : o.type = "reg" => o.regtype = s
             /\ first = None /\ (\A o \in operands : o.type # "reg") => s = default
             /\ default = None => first # None \/ (\E o \in operands : o.type = "reg")
<1> DEFINE result == Suffix(first, operands, default)
           known == {s \in {first} \cup {operand_suffix(o) : o \in operands} : s # None}
           agree == known \cup {default} # {None} /\ \A s, t \in known : s = t
           found == IF known = {} THEN default ELSE CHOOSE s \in known : TRUE
<1>1. result = [ok |-> agree, suffix |-> found]
  BY DEF Suffix
<1> HIDE DEF agree, found
<1>2. known \cup {default} # {None} /\ \A s, t \in known : s = t
  <2>1. result.ok = agree
    BY <1>1
  <2> QED BY <2>1 DEF agree
<1>3. result.suffix = IF known = {} THEN default ELSE CHOOSE s \in known : TRUE
  <2>1. result.suffix = found
    BY <1>1
  <2> QED BY <2>1 DEF found
<1>4. \A s \in known : s \in 0 .. 3
  BY DEF operand_suffix, None
<1>5. \A o \in operands : o.type = "reg" => o.regtype \in known
  BY DEF operand_suffix, None
<1>6. first # None => first \in known
  OBVIOUS
<1>7. known # {} => first # None \/ (\E o \in operands : o.type = "reg")
  BY DEF operand_suffix
<1> HIDE DEF known, result
<1>8. CASE known = {}
  BY <1>2, <1>3, <1>5, <1>6, <1>8 DEF None, result
<1>9. CASE known # {}
  <2>1. PICK s \in known : result.suffix = s
    BY <1>3, <1>9
  <2>2. \A t \in known : t = s
    BY <1>2, <2>1
  <2> QED BY <1>4, <1>5, <1>6, <1>7, <1>9, <2>1, <2>2 DEF result
<1> QED BY <1>8, <1>9

(* An instruction as the parser leaves it: the numbers and kinds of operands. *)
Fresh == IInv /\ phase = "parsed"

LEMMA FreshInst ==
  ASSUME Fresh
  PROVE  /\ Addresses /\ inst.op = written.op /\ inst.suffix = written.suffix /\ inst.ops = Parsed
         /\ inst.suffix \in -1 .. 3
         /\ Len(inst.ops) = Len(written.ops) /\ DOMAIN written.ops = 1 .. Len(inst.ops)
         /\ Len(inst.ops) \in Nat
         /\ \A i \in DOMAIN written.ops : inst.ops[i].regtype \in 0 .. 3
<1>1. IInv /\ phase = "parsed"
  BY DEF Fresh
<1>2. /\ Addresses
      /\ inst = [op |-> written.op, suffix |-> inst.suffix, ops |-> Parsed]
      /\ inst.suffix = written.suffix
  BY <1>1 DEF IInv
<1>3. inst.op = written.op /\ inst.ops = Parsed
  BY <1>2
<1>4. Len(Parsed) = Len(written.ops)
  BY <1>1, ParsedLen
<1>5. /\ DOMAIN written.ops = 1 .. Len(written.ops) /\ Len(written.ops) \in Nat
      /\ written.suffix \in -1 .. 3
  BY <1>1, WrittenType
<1>6. \A i \in DOMAIN written.ops : Parsed[i].regtype \in 0 .. 3
  BY <1>1, <1>2, ParsedKind DEF IsOp
<1> QED BY <1>2, <1>3, <1>4, <1>5, <1>6

LEMMA NotWrong == ~Wrong.ok
<1>1. Wrong.ok = FALSE
  BY DEF Wrong
<1> QED BY <1>1

(* What each way to decide on a suffix leaves: s is what it found.         *)
Chosen(s, default, operands) ==
  /\ s \in 0 .. 3
  /\ written.suffix # None => s = written.suffix
  /\ \A i \in operands : inst.ops[i].type = "reg" => inst.ops[i].regtype = s
  /\ written.suffix = None /\ (\A i \in operands : inst.ops[i].type # "reg") => s = default
  /\ default = None => written.suffix # None \/ (\E i \in operands : inst.ops[i].type = "reg")

LEMMA SuffixChosen ==
  ASSUME Fresh, NEW I, I \subseteq DOMAIN written.ops, NEW default \in -1 .. 3,
         Suffix(inst.suffix, {inst.ops[i] : i \in I}, default).ok
  PROVE  Chosen(Suffix(inst.suffix, {inst.ops[i] : i \in I}, default).suffix, default, I)
<1> DEFINE operands == {inst.ops[i] : i \in I}
           s == Suffix(inst.suffix, operands, default).suffix
<1>1. inst.suffix \in -1 .. 3 /\ inst.suffix = written.suffix
  BY FreshInst
<1>2. \A o \in operands : o.regtype \in 0 .. 3
  BY FreshInst
<1>3. /\ s \in 0 .. 3
      /\ inst.suffix # None => s = inst.suffix
      /\ \A o \in operands : o.type = "reg" => o.regtype = s
      /\ inst.suffix = None /\ (\A o \in operands : o.type # "reg") => s = default
      /\ default = None => inst.suffix # None \/ (\E o \in operands : o.type = "reg")
  <2>1. Suffix(inst.suffix, operands, default).ok
    OBVIOUS
  <2> HIDE DEF operands
  <2> QED BY <1>1, <1>2, <2>1, SuffixFound
<1> HIDE DEF s
<1> QED BY <1>1, <1>3 DEF Chosen, s

LEMMA Op0 ==
  ASSUME Fresh, NEW default \in -1 .. 3, sema_inst_op0(default).ok
  PROVE  DOMAIN written.ops = {} /\ Chosen(sema_inst_op0(default).suffix, default, {})
<1>1. Len(inst.ops) = 0
  BY NotWrong DEF sema_inst_op0
<1>2. DOMAIN written.ops = {}
  BY <1>1, FreshInst
<1>3. sema_inst_op0(default) = Suffix(inst.suffix, {}, default)
  BY <1>1 DEF sema_inst_op0
<1>4. {inst.ops[i] : i \in {}} = {}
  OBVIOUS
<1>5. Chosen(Suffix(inst.suffix, {}, default).suffix, default, {})
  BY <1>3, <1>4, SuffixChosen, Zenon
<1> QED BY <1>2, <1>3, <1>5

LEMMA Op1 ==
  ASSUME Fresh, NEW default \in -1 .. 3, sema_inst_op1(default).ok
  PROVE  DOMAIN written.ops = {1} /\ Chosen(sema_inst_op1(default).suffix, default, {1})
<1>1. Len(inst.ops) = 1
  BY NotWrong DEF sema_inst_op1
<1>2. DOMAIN written.ops = {1}
  BY <1>1, FreshInst
<1>3. sema_inst_op1(default) = Suffix(inst.suffix, {inst.ops[1]}, default)
  BY <1>1 DEF sema_inst_op1
<1>4. {inst.ops[i] : i \in {1}} = {inst.ops[1]} /\ {1} \subseteq DOMAIN written.ops
  BY <1>2
<1>5. Chosen(Suffix(inst.suffix, {inst.ops[1]}, default).suffix, default, {1})
  BY <1>3, <1>4, SuffixChosen, Zenon
<1> QED BY <1>2, <1>3, <1>5

LEMMA Op2 ==
  ASSUME Fresh, NEW default \in -1 .. 3, sema_inst_op2(default).ok
  PROVE  DOMAIN written.ops = {1, 2} /\ Two /\ Chosen(sema_inst_op2(default).suffix, default, {1, 2})
<1>1. Two
  BY NotWrong DEF sema_inst_op2
<1>2. Len(inst.ops) = 2
  BY <1>1 DEF Two
<1>3. DOMAIN written.ops = {1, 2}
  BY <1>2, FreshInst
<1>4. sema_inst_op2(default) = Suffix(inst.suffix, {inst.ops[1], inst.ops[2]}, default)
  BY <1>1 DEF sema_inst_op2, src, dest
<1>5. {inst.ops[i] : i \in {1, 2}} = {inst.ops[1], inst.ops[2]} /\ {1, 2} \subseteq DOMAIN written.ops
  BY <1>3
<1>6. Chosen(Suffix(inst.suffix, {inst.ops[1], inst.ops[2]}, default).suffix, default, {1, 2})
  BY <1>4, <1>5, SuffixChosen, Zenon
<1> QED BY <1>1, <1>3, <1>4, <1>6

LEMMA SrcDest ==
  ASSUME Fresh, NEW size \in 0 .. 3, sema_inst_src_dest(size, None).ok
  PROVE  /\ DOMAIN written.ops = {1, 2} /\ Two
         /\ src.type = "reg" => src.regtype = size
         /\ Chosen(sema_inst_src_dest(size, None).suffix, None, {2})
<1>1. Two /\ operand_suffix(src) \in {None, size}
  BY NotWrong DEF sema_inst_src_dest
<1>2. Len(inst.ops) = 2
  BY <1>1 DEF Two
<1>3. DOMAIN written.ops = {1, 2}
  BY <1>2, FreshInst
<1>4. sema_inst_src_dest(size, None) = Suffix(inst.suffix, {inst.ops[2]}, None)
  BY <1>1 DEF sema_inst_src_dest, dest
<1>5. {inst.ops[i] : i \in {2}} = {inst.ops[2]} /\ {2} \subseteq DOMAIN written.ops
  BY <1>3
<1>6. Chosen(Suffix(inst.suffix, {inst.ops[2]}, None).suffix, None, {2})
  <2>1. None \in -1 .. 3
    BY DEF None
  <2> QED BY <1>4, <1>5, <2>1, SuffixChosen, Zenon
<1>7. src.type = "reg" => src.regtype = size
  <2>1. src.regtype \in 0 .. 3
    BY <1>3, FreshInst DEF src
  <2> QED BY <1>1, <2>1 DEF operand_suffix, None
<1> QED BY <1>1, <1>3, <1>4, <1>6, <1>7

LEMMA WithOk ==
  ASSUME NEW r, DOMAIN r = {"ok", "suffix"}, NEW condition \in BOOLEAN
  PROVE  /\ With(r, condition).suffix = r.suffix
         /\ With(r, condition).ok => r.ok /\ condition
         /\ r.ok /\ condition => With(r, condition).ok
<1>1. With(r, condition).suffix = r.suffix
  BY DEF With
<1> DEFINE both == r.ok /\ condition
<1>2. With(r, condition) = [r EXCEPT !.ok = both]
  BY DEF With
<1> HIDE DEF both
<1>3. With(r, condition).ok = both
  BY <1>2
<1> QED BY <1>1, <1>3 DEF both

LEMMA SuffixRecord ==
  ASSUME NEW first, NEW operands, NEW default
  PROVE  DOMAIN Suffix(first, operands, default) = {"ok", "suffix"} /\ DOMAIN Wrong = {"ok", "suffix"}
<1> DEFINE known == {s \in {first} \cup {operand_suffix(o) : o \in operands} : s # None}
           agree == known \cup {default} # {None} /\ \A s, t \in known : s = t
           found == IF known = {} THEN default ELSE CHOOSE s \in known : TRUE
<1>1. Suffix(first, operands, default) = [ok |-> agree, suffix |-> found]
  BY DEF Suffix
<1> HIDE DEF agree, found
<1> QED BY <1>1 DEF Wrong

LEMMA ResultRecords ==
  ASSUME NEW default, NEW size
  PROVE  /\ DOMAIN sema_inst_op1(default) = {"ok", "suffix"}
         /\ DOMAIN sema_inst_op2(default) = {"ok", "suffix"}
         /\ DOMAIN sema_inst_src_dest(size, default) = {"ok", "suffix"}
  BY SuffixRecord DEF sema_inst_op1, sema_inst_op2, sema_inst_src_dest

(* The arms of as_sema, and what each of them leaves. *)
LEMMA NoOperandChosen ==
  ASSUME Fresh, Checked.ok, written.op \in NoOperand
  PROVE  /\ DOMAIN written.ops = {}
         /\ Chosen(Checked.suffix, IF written.op = "cltd" THEN LONG ELSE QUAD, {})
<1>1. inst.op = written.op
  BY FreshInst
<1>2. CASE written.op = "cltd"
  <2>1. Checked = sema_inst_op0(LONG)
    BY <1>1, <1>2 DEF Checked, Sets
  <2> QED BY <1>2, <2>1, Op0 DEF LONG
<1>3. CASE written.op # "cltd"
  <2>1. Checked = sema_inst_op0(QUAD)
    BY <1>1, <1>3 DEF Checked, Sets, NoOperand
  <2> QED BY <1>3, <2>1, Op0 DEF QUAD
<1> QED BY <1>2, <1>3

LEMMA StackChosen ==
  ASSUME Fresh, Checked.ok, written.op \in Stack
  PROVE  /\ DOMAIN written.ops = {1} /\ Chosen(Checked.suffix, QUAD, {1})
         /\ op.type = "reg" /\ op.regtype = QUAD
<1> DEFINE r == sema_inst_op1(QUAD)
           condition == op.type = "reg" /\ op.regtype = QUAD
<1>1. inst.op = written.op
  BY FreshInst
<1>2. Checked = IF r.ok THEN With(r, condition) ELSE r
  BY <1>1 DEF Checked, Sets, Stack
<1>3. DOMAIN r = {"ok", "suffix"}
  BY ResultRecords
<1>4. r.ok => DOMAIN written.ops = {1} /\ Chosen(r.suffix, QUAD, {1})
  BY Op1 DEF QUAD
<1>5. condition \in BOOLEAN
  OBVIOUS
<1> HIDE DEF r, condition
<1>6. r.ok /\ condition /\ Checked.suffix = r.suffix
  BY <1>2, <1>3, <1>5, WithOk
<1> QED BY <1>4, <1>6 DEF condition

LEMMA UnaryChosen ==
  ASSUME Fresh, Checked.ok, written.op \in Unary
  PROVE  DOMAIN written.ops = {1} /\ Chosen(Checked.suffix, None, {1})
<1>1. inst.op = written.op
  BY FreshInst
<1>2. Checked = sema_inst_op1(None)
  BY <1>1 DEF Checked, Sets, Unary
<1> QED BY <1>2, Op1 DEF None

LEMMA SetsChosen ==
  ASSUME Fresh, Checked.ok, written.op \in Sets
  PROVE  DOMAIN written.ops = {1} /\ Chosen(Checked.suffix, BYTE, {1})
<1>1. inst.op = written.op
  BY FreshInst
<1>2. Checked = sema_inst_op1(BYTE)
  BY <1>1 DEF Checked, Sets
<1> QED BY <1>2, Op1 DEF BYTE

LEMMA JumpsChosen ==
  ASSUME Fresh, Checked.ok, written.op \in Jumps
  PROVE  /\ DOMAIN written.ops = {1} /\ Chosen(Checked.suffix, QUAD, {1})
         /\ op.type = "sym" /\ Checked.suffix = QUAD
<1> DEFINE r == sema_inst_op1(QUAD)
           condition == op.type = "sym" /\ r.suffix = QUAD
<1>1. inst.op = written.op
  BY FreshInst
<1>2. Checked = IF r.ok THEN With(r, condition) ELSE r
  BY <1>1 DEF Checked, Sets, Jumps
<1>3. DOMAIN r = {"ok", "suffix"}
  BY ResultRecords
<1>4. r.ok => DOMAIN written.ops = {1} /\ Chosen(r.suffix, QUAD, {1})
  BY Op1 DEF QUAD
<1>5. condition \in BOOLEAN
  OBVIOUS
<1> HIDE DEF r, condition
<1>6. r.ok /\ condition /\ Checked.suffix = r.suffix
  BY <1>2, <1>3, <1>5, WithOk
<1> QED BY <1>4, <1>6 DEF condition

LEMMA BinaryChosen ==
  ASSUME Fresh, Checked.ok, written.op \in Binary
  PROVE  DOMAIN written.ops = {1, 2} /\ Two /\ Chosen(Checked.suffix, None, {1, 2})
<1>1. inst.op = written.op
  BY FreshInst
<1>2. Checked = sema_inst_op2(None)
  BY <1>1 DEF Checked, Sets, Binary
<1> QED BY <1>2, Op2 DEF None

LEMMA LeaChosen ==
  ASSUME Fresh, Checked.ok, written.op = "lea"
  PROVE  /\ DOMAIN written.ops = {1, 2} /\ Two /\ Chosen(Checked.suffix, None, {1, 2})
         /\ src.type = "mem" /\ dest.type = "reg"
<1> DEFINE r == sema_inst_op2(None)
           condition == src.type = "mem" /\ dest.type = "reg"
<1>1. inst.op = written.op
  BY FreshInst
<1>2. Checked = IF r.ok THEN With(r, condition) ELSE r
  BY <1>1 DEF Checked, Sets
<1>3. DOMAIN r = {"ok", "suffix"}
  BY ResultRecords
<1>4. r.ok => DOMAIN written.ops = {1, 2} /\ Two /\ Chosen(r.suffix, None, {1, 2})
  BY Op2 DEF None
<1>5. condition \in BOOLEAN
  OBVIOUS
<1> HIDE DEF r, condition
<1>6. r.ok /\ condition /\ Checked.suffix = r.suffix
  BY <1>2, <1>3, <1>5, WithOk
<1> QED BY <1>4, <1>6 DEF condition

LEMMA ShiftsChosen ==
  ASSUME Fresh, Checked.ok, written.op \in Shifts
  PROVE  /\ DOMAIN written.ops = {1, 2} /\ Two /\ Chosen(Checked.suffix, None, {2})
         /\ src.type = "reg" => src.regtype = BYTE
         /\ src.regcode = 1
<1> DEFINE r == sema_inst_src_dest(BYTE, None)
           condition == src.regcode = 1
<1>1. inst.op = written.op
  BY FreshInst
<1>2. Checked = IF r.ok THEN With(r, condition) ELSE r
  BY <1>1 DEF Checked, Sets, Shifts
<1>3. DOMAIN r = {"ok", "suffix"}
  BY ResultRecords
<1>4. r.ok => /\ DOMAIN written.ops = {1, 2} /\ Two /\ Chosen(r.suffix, None, {2})
              /\ src.type = "reg" => src.regtype = BYTE
  BY SrcDest DEF BYTE
<1>5. condition \in BOOLEAN
  OBVIOUS
<1> HIDE DEF r, condition
<1>6. r.ok /\ condition /\ Checked.suffix = r.suffix
  BY <1>2, <1>3, <1>5, WithOk
<1> QED BY <1>4, <1>6 DEF condition

FromSize ==
  CASE written.op \in {"movzb", "movsb"} -> BYTE
    [] written.op \in {"movzw", "movsw"} -> WORD
    [] written.op = "movsl" -> LONG

LEMMA ExtensionsChosen ==
  ASSUME Fresh, Checked.ok, written.op \in Extensions
  PROVE  /\ DOMAIN written.ops = {1, 2} /\ Two /\ Chosen(Checked.suffix, None, {2})
         /\ src.type = "reg" => src.regtype = FromSize
<1> DEFINE r == sema_inst_src_dest(FromSize, None)
<1>1. inst.op = written.op
  BY FreshInst
<1>2. FromSize \in 0 .. 3
  BY DEF FromSize, Extensions, BYTE, WORD, LONG
<1>3. PICK condition \in BOOLEAN : Checked = With(r, condition)
  <2>1. CASE written.op \in {"movzb", "movsb"}
    BY <1>1, <2>1 DEF Checked, Sets, FromSize
  <2>2. CASE written.op \in {"movzw", "movsw"}
    BY <1>1, <2>2 DEF Checked, Sets, FromSize
  <2>3. CASE written.op = "movsl"
    BY <1>1, <2>3 DEF Checked, Sets, FromSize
  <2> QED BY <2>1, <2>2, <2>3 DEF Extensions
<1>4. DOMAIN r = {"ok", "suffix"}
  BY ResultRecords
<1>5. r.ok => /\ DOMAIN written.ops = {1, 2} /\ Two /\ Chosen(r.suffix, None, {2})
              /\ src.type = "reg" => src.regtype = FromSize
  BY <1>2, SrcDest
<1> HIDE DEF r
<1>6. r.ok /\ Checked.suffix = r.suffix
  BY <1>3, <1>4, WithOk
<1> QED BY <1>5, <1>6

-----------------------------------------------------------------------------
(* The suffix as_sema decides on is the size of what was written. *)
LEMMA FreshReg ==
  ASSUME Fresh, NEW i \in DOMAIN written.ops
  PROVE  /\ inst.ops[i].type = "reg" <=> written.ops[i].kind = "reg"
         /\ inst.ops[i].type = "reg" =>
              inst.ops[i].regtype = written.ops[i].reg.size /\ written.ops[i].reg.size \in Registers
<1>1. IInv /\ Addresses /\ inst.ops = Parsed
  BY FreshInst DEF Fresh
<1>2. /\ written.ops[i].kind = "reg" => inst.ops[i].type = "reg" /\ inst.ops[i].regtype = written.ops[i].reg.size
      /\ inst.ops[i].type = "reg" => written.ops[i].kind = "reg"
  BY <1>1, ParsedKind
<1>3. written.ops[i].kind = "reg" => written.ops[i].reg.size \in Registers
  BY DEF Registers
<1> QED BY <1>2, <1>3

LEMMA SizeOfAll ==
  ASSUME Fresh, NEW s, NEW default, Chosen(s, default, DOMAIN written.ops),
         written.op \notin Sets \cup Extensions \cup Shifts,
         written.op = "cltd" => default = LONG /\ DOMAIN written.ops = {},
         written.op # "cltd" => default \in {QUAD, None}
  PROVE  s = Size
<1>1. CASE written.suffix # None
  BY <1>1 DEF Size, Chosen
<1>2. CASE written.suffix = None /\ written.op = "cltd"
  BY <1>2 DEF Size, Chosen, Sets, Extensions
<1>3. CASE written.suffix = None /\ written.op # "cltd" /\ Registers = {}
  <2>1. \A i \in DOMAIN written.ops : inst.ops[i].type # "reg"
    BY <1>3, FreshReg
  <2>2. s = default /\ default # None
    BY <1>3, <2>1 DEF Chosen
  <2>3. Size = QUAD
    BY <1>3 DEF Size, Shifts
  <2> QED BY <1>3, <2>2, <2>3
<1>4. CASE written.suffix = None /\ written.op # "cltd" /\ Registers # {}
  <2>1. Size = CHOOSE t \in Registers : TRUE
    BY <1>4 DEF Size, Shifts
  <2>2. \A t \in Registers : t = s
    <3> SUFFICES ASSUME NEW i \in DOMAIN written.ops, written.ops[i].kind = "reg"
                 PROVE  written.ops[i].reg.size = s
      BY DEF Registers
    <3> QED BY FreshReg DEF Chosen
  <2>3. (CHOOSE t \in Registers : TRUE) \in Registers
    BY <1>4
  <2> QED BY <2>1, <2>2, <2>3
<1> QED BY <1>1, <1>2, <1>3, <1>4

LEMMA SizeOfSecond ==
  ASSUME Fresh, NEW s, Chosen(s, None, {2}), DOMAIN written.ops = {1, 2},
         written.op \in Extensions \cup Shifts
  PROVE  s = Size
<1>1. CASE written.suffix # None
  BY <1>1 DEF Size, Chosen
<1>2. CASE written.suffix = None
  <2>1. inst.ops[2].type = "reg" /\ inst.ops[2].regtype = s
    BY <1>2 DEF Chosen
  <2>2. s = written.ops[2].reg.size
    BY <2>1, FreshReg
  <2>3. Size = written.ops[2].reg.size
    BY <1>2 DEF Size, Sets, Extensions, Shifts
  <2> QED BY <2>2, <2>3
<1> QED BY <1>1, <1>2

LEMMA SizeOfByte ==
  ASSUME Fresh, NEW s, Chosen(s, BYTE, {1}), DOMAIN written.ops = {1}, written.op \in Sets, ~OtherSize
  PROVE  s = Size
<1>1. CASE written.suffix # None
  BY <1>1 DEF Size, Chosen
<1>2. CASE written.suffix = None
  <2>1. Size = BYTE
    BY <1>2 DEF Size
  <2>2. \A t \in Registers : t = BYTE
    <3>1. Registers \cup {Size} = {BYTE}
      BY DEF OtherSize
    <3> QED BY <3>1
  <2>3. inst.ops[1].type = "reg" => s = BYTE
    <3>1. inst.ops[1].type = "reg" => inst.ops[1].regtype = s
      BY DEF Chosen
    <3> QED BY <2>2, <3>1, FreshReg
  <2>4. inst.ops[1].type # "reg" => s = BYTE
    BY <1>2 DEF Chosen
  <2> QED BY <2>1, <2>3, <2>4
<1> QED BY <1>1, <1>2

LEMMA FreshShift ==
  ASSUME Fresh, DOMAIN written.ops = {1, 2}, src.regcode = 1
  PROVE  src.type = "reg"
<1>1. IInv /\ Addresses /\ inst.ops = Parsed /\ 1 \in DOMAIN written.ops
  BY FreshInst DEF Fresh
<1>2. /\ written.ops[1].kind = "reg" => Parsed[1].type = "reg"
      /\ written.ops[1].kind # "reg" => Parsed[1].regcode = 0
  BY <1>1, ParsedKind
<1> QED BY <1>1, <1>2 DEF src

LEMMA CheckedAgrees ==
  ASSUME Fresh, Checked.ok
  PROVE  Agreed(Checked.suffix)
<1> DEFINE s == Checked.suffix
<1>1. written.op \in Mnemonics
  BY WrittenType DEF Fresh
<1>2. CASE written.op \in NoOperand
  <2>1. DOMAIN written.ops = {} /\ Chosen(s, IF written.op = "cltd" THEN LONG ELSE QUAD, {})
    BY <1>2, NoOperandChosen
  <2>2. s = Size
    BY <1>2, <2>1, SizeOfAll DEF NoOperand, Sets, Extensions, Shifts
  <2>3. s \in 0 .. 3
    BY <2>1 DEF Chosen
  <2> HIDE DEF s
  <2>4. Agreed(s)
    BY <1>2, <2>1, <2>2, <2>3
       DEF Agreed, NoOperand, Stack, Unary, Jumps, Sets, Binary, Shifts, Extensions
  <2> QED BY <2>4 DEF s
<1>3. CASE written.op \in Stack \cup Unary \cup Jumps
  <2>1. PICK default \in {QUAD, None} : DOMAIN written.ops = {1} /\ Chosen(s, default, {1})
    BY <1>3, StackChosen, UnaryChosen, JumpsChosen
  <2>2. s = Size
    BY <1>3, <2>1, SizeOfAll DEF Stack, Unary, Jumps, Sets, Extensions, Shifts
  <2>3. s \in 0 .. 3 /\ (inst.ops[1].type = "reg" => inst.ops[1].regtype = s)
    BY <2>1 DEF Chosen
  <2>4. Exact(1, s) = s
    BY <1>3 DEF Exact, Stack, Unary, Jumps
  <2>5. /\ written.op \in Stack => op.type = "reg" /\ s = QUAD
        /\ written.op \in Jumps => op.type = "sym" /\ s = QUAD
    <3>1. CASE written.op \in Stack
      <4>1. op.type = "reg" /\ op.regtype = QUAD
        BY <3>1, StackChosen
      <4> QED BY <2>3, <3>1, <4>1 DEF op, Stack, Jumps
    <3>2. CASE written.op \in Jumps
      BY <3>2, JumpsChosen DEF Stack, Jumps
    <3> QED BY <3>1, <3>2
  <2> HIDE DEF s
  <2>6. Agreed(s)
    BY <1>3, <2>1, <2>2, <2>3, <2>4, <2>5
       DEF Agreed, NoOperand, Stack, Unary, Jumps, Sets, Binary, Shifts, Extensions
  <2> QED BY <2>6 DEF s
<1>4. CASE written.op \in Sets
  <2>1. DOMAIN written.ops = {1} /\ Chosen(s, BYTE, {1})
    BY <1>4, SetsChosen
  <2>2. ~OtherSize => s = Size
    BY <1>4, <2>1, SizeOfByte
  <2>3. s \in 0 .. 3 /\ (inst.ops[1].type = "reg" => inst.ops[1].regtype = s)
    BY <2>1 DEF Chosen
  <2>4. Exact(1, s) = s
    BY <1>4 DEF Exact, Sets
  <2> HIDE DEF s
  <2>5. Agreed(s)
    BY <1>4, <2>1, <2>2, <2>3, <2>4
       DEF Agreed, NoOperand, Stack, Unary, Jumps, Sets, Binary, Shifts, Extensions
  <2> QED BY <2>5 DEF s
<1>5. CASE written.op \in Binary \cup {"lea"}
  <2>1. DOMAIN written.ops = {1, 2} /\ Two /\ Chosen(s, None, {1, 2})
    BY <1>5, BinaryChosen, LeaChosen
  <2>2. s = Size
    BY <1>5, <2>1, SizeOfAll DEF Binary, Sets, Extensions, Shifts
  <2>3. s \in 0 .. 3 /\ (\A i \in {1, 2} : inst.ops[i].type = "reg" => inst.ops[i].regtype = s)
    BY <2>1 DEF Chosen
  <2>4. \A i \in {1, 2} : Exact(i, s) = s
    BY <1>5 DEF Exact, Binary
  <2>5. written.op = "lea" => src.type = "mem" /\ dest.type = "reg"
    BY LeaChosen
  <2> HIDE DEF s
  <2>6. Agreed(s)
    BY <1>5, <2>1, <2>2, <2>3, <2>4, <2>5
       DEF Agreed, Two, NoOperand, Stack, Unary, Jumps, Sets, Binary, Shifts, Extensions
  <2> QED BY <2>6 DEF s
<1>6. CASE written.op \in Shifts
  <2>1. /\ DOMAIN written.ops = {1, 2} /\ Two /\ Chosen(s, None, {2})
        /\ src.type = "reg" => src.regtype = BYTE
        /\ src.regcode = 1
    BY <1>6, ShiftsChosen
  <2>2. s = Size
    BY <1>6, <2>1, SizeOfSecond
  <2>3. s \in 0 .. 3 /\ (inst.ops[2].type = "reg" => inst.ops[2].regtype = s)
    BY <2>1 DEF Chosen
  <2>4. Exact(1, s) = BYTE /\ Exact(2, s) = s
    BY <1>6 DEF Exact, Shifts
  <2>5. src.type = "reg"
    BY <2>1, FreshShift
  <2> HIDE DEF s
  <2>6. Agreed(s)
    BY <1>6, <2>1, <2>2, <2>3, <2>4, <2>5
       DEF Agreed, Two, NoOperand, Stack, Unary, Jumps, Sets, Binary, Shifts, Extensions, src
  <2> QED BY <2>6 DEF s
<1>7. CASE written.op \in Extensions
  <2>1. /\ DOMAIN written.ops = {1, 2} /\ Two /\ Chosen(s, None, {2})
        /\ src.type = "reg" => src.regtype = FromSize
    BY <1>7, ExtensionsChosen
  <2>2. s = Size
    BY <1>7, <2>1, SizeOfSecond
  <2>3. s \in 0 .. 3 /\ (inst.ops[2].type = "reg" => inst.ops[2].regtype = s)
    BY <2>1 DEF Chosen
  <2>4. Exact(1, s) = FromSize /\ Exact(2, s) = s
    BY <1>7 DEF Exact, FromSize, Extensions
  <2> HIDE DEF s
  <2>5. Agreed(s)
    BY <1>7, <2>1, <2>2, <2>3, <2>4
       DEF Agreed, Two, NoOperand, Stack, Unary, Jumps, Sets, Binary, Shifts, Extensions, src
  <2> QED BY <2>5 DEF s
<1>8. written.op \in NoOperand \cup Stack \cup Unary \cup Jumps \cup Sets \cup Binary \cup {"lea"}
                     \cup Shifts \cup Extensions
  BY <1>1 DEF Mnemonics, NoOperand, Stack, Unary, Jumps, Sets, Binary, Shifts, Extensions
<1> QED BY <1>2, <1>3, <1>4, <1>5, <1>6, <1>7, <1>8

-----------------------------------------------------------------------------
(* What gen.c prints passes the parser and as_sema. *)
LEMMA PrintedAddresses ==
  ASSUME IInv, Printed
  PROVE  Addresses
<1> SUFFICES ASSUME NEW i \in DOMAIN written.ops, written.ops[i].kind = "mem"
             PROVE  memory_ok(written.ops[i])
  BY DEF Addresses
<1> QED BY DEF Printed, memory_ok

LEMMA InitInv == Init => IInv
<1> SUFFICES ASSUME Init PROVE IInv
  OBVIOUS
<1> QED BY DEF Init, IInv

LEMMA ParseStep ==
  ASSUME IInv, parse_inst
  PROVE  IInv'
<1>1. phase = "written" /\ written' = written /\ bin' = bin /\ relocs' = relocs
  BY DEF parse_inst, Fail
<1>2. bin = << >> /\ relocs = {} /\ written \in Written
  BY <1>1 DEF IInv
<1>3. Printed' = Printed /\ Parsed' = Parsed /\ Addresses' = Addresses
  BY <1>1 DEF Printed, Kinds, SourceSize, Parsed, Addresses
<1>4. CASE phase' = "parsed"
  <2>1. Addresses /\ inst' = [op |-> written.op, suffix |-> written.suffix, ops |-> Parsed]
    BY <1>4 DEF parse_inst, Fail, Parsed, Addresses
  <2>2. inst'.suffix = written'.suffix
    BY <1>1, <2>1
  <2>3. inst' = [op |-> written'.op, suffix |-> inst'.suffix, ops |-> Parsed']
    BY <1>1, <1>3, <2>1
  <2> QED BY <1>1, <1>2, <1>3, <1>4, <2>1, <2>2, <2>3 DEF IInv
<1>5. CASE phase' = "error"
  <2>1. ~Addresses
    BY <1>5 DEF parse_inst, Addresses
  <2>2. ~Printed'
    BY <1>3, <2>1, PrintedAddresses
  <2> QED BY <1>1, <1>2, <1>5, <2>2 DEF IInv
<1> QED BY <1>4, <1>5 DEF parse_inst, Fail

LEMMA KindsTwo ==
  ASSUME NEW a, NEW b, Kinds = <<a, b>>
  PROVE  DOMAIN written.ops = {1, 2} /\ written.ops[1].kind = a /\ written.ops[2].kind = b
<1>1. DOMAIN Kinds = DOMAIN written.ops
  BY DEF Kinds
<1>2. DOMAIN <<a, b>> = {1, 2}
  OBVIOUS
<1>3. DOMAIN written.ops = {1, 2}
  BY <1>1, <1>2
<1>4. Kinds[1] = written.ops[1].kind /\ Kinds[2] = written.ops[2].kind
  BY <1>3 DEF Kinds
<1> QED BY <1>3, <1>4

LEMMA KindsOne ==
  ASSUME NEW a, Kinds = <<a>>
  PROVE  DOMAIN written.ops = {1} /\ written.ops[1].kind = a
<1>1. DOMAIN Kinds = DOMAIN written.ops
  BY DEF Kinds
<1>2. DOMAIN <<a>> = {1}
  OBVIOUS
<1>3. DOMAIN written.ops = {1}
  BY <1>1, <1>2
<1>4. Kinds[1] = written.ops[1].kind
  BY <1>3 DEF Kinds
<1> QED BY <1>3, <1>4

LEMMA KindsNone ==
  ASSUME Kinds = << >>
  PROVE  DOMAIN written.ops = {}
<1>1. DOMAIN Kinds = DOMAIN written.ops
  BY DEF Kinds
<1> QED BY <1>1

(* The forms gen.c prints, by the number of operands. *)
PrintedTwo ==
  /\ DOMAIN written.ops = {1, 2} /\ written.suffix \in 0 .. 3
  /\ written.ops[1].kind \in {"imm", "reg", "mem", "rip"} /\ written.ops[2].kind \in {"reg", "mem"}
  /\ \/ written.op \in {"mov", "cmp"} /\ ~(written.ops[1].kind = "mem" /\ written.ops[2].kind = "mem")
        /\ written.ops[1].kind # "rip"
     \/ /\ written.op \in {"add", "sub", "and", "or", "xor", "sal", "sar"}
        /\ written.suffix \in {LONG, QUAD} /\ written.ops[1].kind \in {"imm", "reg"}
        /\ written.op \in {"sal", "sar"} => written.ops[1].kind = "reg"
        /\ written.ops[2].kind = "reg"
     \/ /\ written.op = "lea" /\ written.suffix = QUAD
        /\ written.ops[1].kind \in {"mem", "rip"} /\ written.ops[2].kind = "reg"
     \/ /\ written.op \in Extensions /\ written.ops[1].kind = "reg" /\ written.ops[2].kind = "reg"
        /\ written.op \in {"movzb", "movsb"} => written.suffix # BYTE
        /\ written.op \in {"movzw", "movsw"} => written.suffix \in {LONG, QUAD}
        /\ written.op = "movsl" => written.suffix = QUAD

PrintedOne ==
  /\ DOMAIN written.ops = {1}
  /\ \/ written.op \in Unary /\ written.suffix \in {LONG, QUAD} /\ written.ops[1].kind = "reg"
     \/ written.op \in Stack /\ written.suffix = QUAD /\ written.ops[1].kind = "reg"
     \/ written.op \in Sets /\ written.suffix = None /\ written.ops[1].kind = "reg"
     \/ written.op \in Jumps /\ written.suffix = None /\ written.ops[1].kind = "sym"

PrintedNone ==
  DOMAIN written.ops = {} /\ written.op \in NoOperand /\ written.suffix = None

LEMMA PrintedShape ==
  ASSUME Printed
  PROVE  PrintedTwo \/ PrintedOne \/ PrintedNone
<1> USE DEF BYTE, WORD, LONG, QUAD
<1> DEFINE form == <<written.op, written.suffix, Kinds>>
<1>0. form \in PrintedForms
  BY DEF Printed
<1>1. CASE form \in {"mov"} \X {QUAD} \X {<<"imm", "reg">>, <<"reg", "reg">>, <<"mem", "reg">>, <<"reg", "mem">>}
  BY <1>1, KindsTwo DEF PrintedTwo
<1>2. CASE form \in {"mov"} \X {LONG} \X ({"imm", "reg"} \X {"reg", "mem"} \cup {<<"mem", "reg">>})
  BY <1>2, KindsTwo DEF PrintedTwo
<1>3. CASE form \in {"mov"} \X {BYTE, WORD} \X {<<"mem", "reg">>, <<"reg", "mem">>}
  BY <1>3, KindsTwo DEF PrintedTwo
<1>4. CASE form \in {<<"mov", BYTE, <<"imm", "reg">>>>, <<"sub", QUAD, <<"imm", "reg">>>>}
  BY <1>4, KindsTwo DEF PrintedTwo
<1>5. CASE form \in {"add"} \X {LONG, QUAD} \X {<<"imm", "reg">>}
  BY <1>5, KindsTwo DEF PrintedTwo
<1>6. CASE form \in {"cmp"} \X {BYTE, WORD, LONG, QUAD} \X {<<"imm", "reg">>}
  BY <1>6, KindsTwo DEF PrintedTwo
<1>7. CASE form \in {"add", "sub", "and", "or", "xor", "cmp"} \X {LONG, QUAD} \X {<<"reg", "reg">>}
  BY <1>7, KindsTwo DEF PrintedTwo
<1>8. CASE form \in {"sal", "sar"} \X {LONG, QUAD} \X {<<"reg", "reg">>}
  BY <1>8, KindsTwo DEF PrintedTwo
<1>9. CASE form \in {"lea"} \X {QUAD} \X {<<"mem", "reg">>, <<"rip", "reg">>}
  BY <1>9, KindsTwo DEF PrintedTwo
<1>10. CASE form \in {"neg", "not", "mul", "imul", "div", "idiv"} \X {LONG, QUAD} \X {<<"reg">>}
  BY <1>10, KindsOne DEF PrintedOne, Unary
<1>11. CASE form \in {"push", "pop"} \X {QUAD} \X {<<"reg">>}
  BY <1>11, KindsOne DEF PrintedOne, Stack
<1>12. CASE form \in {"movzb", "movsb"} \X {WORD, LONG, QUAD} \X {<<"reg", "reg">>}
  BY <1>12, KindsTwo DEF PrintedTwo, Extensions
<1>13. CASE form \in {"movzw", "movsw"} \X {LONG, QUAD} \X {<<"reg", "reg">>}
  BY <1>13, KindsTwo DEF PrintedTwo, Extensions
<1>14. CASE form \in {<<"movsl", QUAD, <<"reg", "reg">>>>}
  BY <1>14, KindsTwo DEF PrintedTwo, Extensions
<1>15. CASE form \in {"sete", "setne", "setb", "setl", "setbe", "setle"} \X {None} \X {<<"reg">>}
  BY <1>15, KindsOne DEF PrintedOne, Sets
<1>16. CASE form \in {"jmp", "je", "jne", "call"} \X {None} \X {<<"sym">>}
  BY <1>16, KindsOne DEF PrintedOne, Jumps
<1>17. CASE form \in {"cltd", "cqto", "leave", "ret"} \X {None} \X {<< >>}
  BY <1>17, KindsNone DEF PrintedNone, NoOperand
<1> QED
  BY <1>0, <1>1, <1>2, <1>3, <1>4, <1>5, <1>6, <1>7, <1>8, <1>9, <1>10, <1>11, <1>12, <1>13,
     <1>14, <1>15, <1>16, <1>17 DEF PrintedForms

LEMMA SuffixAccepted ==
  ASSUME NEW first, NEW operands, NEW default, NEW s \in 0 .. 3,
         first \in {None, s},
         \A o \in operands : o.type = "reg" => o.regtype = s,
         first = s \/ (default \in 0 .. 3 /\ default = s)
  PROVE  Suffix(first, operands, default).ok /\ Suffix(first, operands, default).suffix = s
<1> DEFINE result == Suffix(first, operands, default)
           known == {t \in {first} \cup {operand_suffix(o) : o \in operands} : t # None}
           agree == known \cup {default} # {None} /\ \A t, u \in known : t = u
           found == IF known = {} THEN default ELSE CHOOSE t \in known : TRUE
<1>1. result = [ok |-> agree, suffix |-> found]
  BY DEF Suffix
<1>2. \A t \in known : t = s
  BY DEF operand_suffix
<1>3. first = s => s \in known
  BY DEF None
<1>4. agree
  BY <1>2, <1>3 DEF None
<1>5. found = s
  <2>1. CASE known = {}
    BY <1>3, <2>1
  <2>2. CASE known # {}
    BY <1>2, <2>2
  <2> QED BY <2>1, <2>2
<1> HIDE DEF agree, found
<1>6. result.ok = agree /\ result.suffix = found
  BY <1>1
<1> QED BY <1>4, <1>5, <1>6

LEMMA PrintedTypes ==
  ASSUME Fresh, Printed, NEW i \in DOMAIN written.ops
  PROVE  /\ inst.ops[i].type = IF written.ops[i].kind = "rip" THEN "mem" ELSE written.ops[i].kind
         /\ inst.ops[i].type = "reg" =>
              inst.ops[i].regtype = IF i = 1 THEN SourceSize ELSE written.suffix
         /\ i = 1 /\ written.op \in Shifts /\ inst.ops[i].type = "reg" => inst.ops[i].regcode = 1
<1>1. IInv /\ Addresses /\ inst.ops = Parsed
  BY FreshInst DEF Fresh
<1>2. /\ inst.ops[i].type = IF written.ops[i].kind = "rip" THEN "mem" ELSE written.ops[i].kind
      /\ written.ops[i].kind = "reg" =>
           /\ inst.ops[i].regtype = written.ops[i].reg.size
           /\ inst.ops[i].regcode = written.ops[i].reg.code
  BY <1>1, ParsedKind
<1>3. /\ written.ops[i].kind = "reg" =>
           written.ops[i].reg.size = IF i = 1 THEN SourceSize ELSE written.suffix
      /\ written.ops[i].kind = "reg" /\ i = 1 /\ written.op \in {"sal", "sar"} =>
           written.ops[i].reg.code = 1
  BY DEF Printed
<1> QED BY <1>2, <1>3 DEF Shifts

LEMMA FreshLen ==
  ASSUME Fresh
  PROVE  /\ DOMAIN written.ops = {} => Len(inst.ops) = 0
         /\ DOMAIN written.ops = {1} => Len(inst.ops) = 1
         /\ DOMAIN written.ops = {1, 2} => Len(inst.ops) = 2
<1>1. PICK n \in Nat : n = Len(inst.ops) /\ DOMAIN written.ops = 1 .. n
  BY FreshInst
<1>2. {} = 1 .. 0 /\ {1} = 1 .. 1 /\ {1, 2} = 1 .. 2
  OBVIOUS
<1>3. /\ DOMAIN written.ops = {} => n = 0
      /\ DOMAIN written.ops = {1} => n = 1
      /\ DOMAIN written.ops = {1, 2} => n = 2
  BY <1>1, <1>2, IntervalsEqual
<1> QED BY <1>1, <1>3

LEMMA PrintedOneChecked ==
  ASSUME Fresh, Printed, PrintedOne
  PROVE  Checked.ok
<1>1. inst.op = written.op /\ inst.suffix = written.suffix /\ Len(inst.ops) = 1
  BY FreshInst, FreshLen DEF PrintedOne
<1>2. /\ op.type = written.ops[1].kind
      /\ op.type = "reg" => op.regtype = SourceSize
  <2>1. 1 \in DOMAIN written.ops /\ written.ops[1].kind # "rip"
    BY DEF PrintedOne
  <2> QED BY <2>1, PrintedTypes DEF op
<1>3. \A d : sema_inst_op1(d) = Suffix(inst.suffix, {op}, d)
  BY <1>1 DEF sema_inst_op1, op
<1>4. CASE written.op \in Unary
  <2>1. written.suffix \in {LONG, QUAD} /\ SourceSize = written.suffix
    BY <1>4 DEF PrintedOne, Unary, Stack, Sets, Jumps, SourceSize
  <2>2. Checked = sema_inst_op1(None)
    BY <1>1, <1>4 DEF Checked, Sets, Unary
  <2> QED BY <1>1, <1>2, <1>3, <2>1, <2>2, SuffixAccepted DEF LONG, QUAD
<1>5. CASE written.op \in Stack
  <2> DEFINE r == sema_inst_op1(QUAD)
             condition == op.type = "reg" /\ op.regtype = QUAD
  <2>1. written.suffix = QUAD /\ SourceSize = written.suffix /\ op.type = "reg"
    BY <1>2, <1>5 DEF PrintedOne, Unary, Stack, Sets, Jumps, SourceSize
  <2>2. Checked = IF r.ok THEN With(r, condition) ELSE r
    BY <1>1, <1>5 DEF Checked, Sets, Stack
  <2>3. r.ok
    BY <1>1, <1>2, <1>3, <2>1, SuffixAccepted DEF QUAD
  <2>4. DOMAIN r = {"ok", "suffix"}
    BY ResultRecords
  <2>5. condition /\ condition \in BOOLEAN
    BY <1>2, <2>1
  <2> HIDE DEF r, condition
  <2> QED BY <2>2, <2>3, <2>4, <2>5, WithOk
<1>6. CASE written.op \in Sets
  <2>1. written.suffix = None /\ SourceSize = BYTE
    BY <1>6 DEF PrintedOne, Unary, Stack, Sets, Jumps, SourceSize
  <2>2. Checked = sema_inst_op1(BYTE)
    BY <1>1, <1>6 DEF Checked, Sets
  <2> QED BY <1>1, <1>2, <1>3, <2>1, <2>2, SuffixAccepted DEF BYTE
<1>7. CASE written.op \in Jumps
  <2> DEFINE r == sema_inst_op1(QUAD)
             condition == op.type = "sym" /\ r.suffix = QUAD
  <2>1. written.suffix = None /\ op.type = "sym"
    BY <1>2, <1>7 DEF PrintedOne, Unary, Stack, Sets, Jumps
  <2>2. Checked = IF r.ok THEN With(r, condition) ELSE r
    BY <1>1, <1>7 DEF Checked, Sets, Jumps
  <2>3. r.ok /\ r.suffix = QUAD
    BY <1>1, <1>2, <1>3, <2>1, SuffixAccepted DEF QUAD
  <2>4. DOMAIN r = {"ok", "suffix"}
    BY ResultRecords
  <2>5. condition /\ condition \in BOOLEAN
    BY <2>1, <2>3
  <2> HIDE DEF r, condition
  <2> QED BY <2>2, <2>3, <2>4, <2>5, WithOk
<1> QED BY <1>4, <1>5, <1>6, <1>7 DEF PrintedOne

LEMMA PrintedTwoChecked ==
  ASSUME Fresh, Printed, PrintedTwo
  PROVE  Checked.ok
<1>1. inst.op = written.op /\ inst.suffix = written.suffix /\ Len(inst.ops) = 2
  BY FreshInst, FreshLen DEF PrintedTwo
<1>2. /\ src.type = IF written.ops[1].kind = "rip" THEN "mem" ELSE written.ops[1].kind
      /\ src.type = "reg" => src.regtype = SourceSize
      /\ src.type = "reg" /\ written.op \in Shifts => src.regcode = 1
  <2>1. 1 \in DOMAIN written.ops
    BY DEF PrintedTwo
  <2> QED BY <2>1, PrintedTypes DEF src
<1>3. dest.type = written.ops[2].kind /\ (dest.type = "reg" => dest.regtype = written.suffix)
  <2>1. 2 \in DOMAIN written.ops /\ written.ops[2].kind # "rip"
    BY DEF PrintedTwo
  <2> QED BY <2>1, PrintedTypes DEF dest
<1>4. Two
  BY <1>1, <1>2, <1>3 DEF Two, PrintedTwo, Extensions
<1>5. written.suffix \in 0 .. 3
  BY DEF PrintedTwo
<1>6. sema_inst_op2(None) = Suffix(inst.suffix, {src, dest}, None)
  BY <1>4 DEF sema_inst_op2
<1>7. \A z \in 0 .. 3 : (src.type = "reg" => src.regtype = z)
        => sema_inst_src_dest(z, None) = Suffix(inst.suffix, {dest}, None)
  BY <1>4 DEF sema_inst_src_dest, operand_suffix
<1>8. CASE written.op \in Binary
  <2>1. Checked = sema_inst_op2(None)
    BY <1>1, <1>8 DEF Checked, Sets, Binary
  <2>2. SourceSize = written.suffix
    BY <1>8 DEF SourceSize, Sets, Binary
  <2> QED BY <1>1, <1>2, <1>3, <1>5, <1>6, <2>1, <2>2, SuffixAccepted
<1>9. CASE written.op = "lea"
  <2> DEFINE r == sema_inst_op2(None)
             condition == src.type = "mem" /\ dest.type = "reg"
  <2>1. Checked = IF r.ok THEN With(r, condition) ELSE r
    BY <1>1, <1>9 DEF Checked, Sets
  <2>2. condition /\ condition \in BOOLEAN
    BY <1>2, <1>3, <1>9 DEF PrintedTwo, Extensions
  <2>3. r.ok
    BY <1>1, <1>2, <1>3, <1>5, <1>6, <2>2, SuffixAccepted
  <2>4. DOMAIN r = {"ok", "suffix"}
    BY ResultRecords
  <2> HIDE DEF r, condition
  <2> QED BY <2>1, <2>2, <2>3, <2>4, WithOk
<1>10. CASE written.op \in Shifts
  <2> DEFINE r == sema_inst_src_dest(BYTE, None)
             condition == src.regcode = 1
  <2>1. Checked = IF r.ok THEN With(r, condition) ELSE r
    BY <1>1, <1>10 DEF Checked, Sets, Shifts
  <2>2. src.type = "reg" /\ SourceSize = BYTE
    BY <1>2, <1>10 DEF PrintedTwo, Shifts, Extensions, SourceSize
  <2>3. condition /\ condition \in BOOLEAN
    BY <1>2, <1>10, <2>2
  <2>4. r = Suffix(inst.suffix, {dest}, None)
    BY <1>2, <1>7, <2>2 DEF BYTE
  <2>5. r.ok
    BY <1>1, <1>3, <1>5, <2>4, SuffixAccepted
  <2>6. DOMAIN r = {"ok", "suffix"}
    BY ResultRecords
  <2> HIDE DEF r, condition
  <2> QED BY <2>1, <2>3, <2>5, <2>6, WithOk
<1>11. CASE written.op \in Extensions
  <2> DEFINE r == sema_inst_src_dest(FromSize, None)
  <2>1. SourceSize = FromSize /\ FromSize \in 0 .. 3
    BY <1>11 DEF SourceSize, FromSize, Extensions, Sets, BYTE, WORD, LONG
  <2>2. r = Suffix(inst.suffix, {dest}, None)
    BY <1>2, <1>7, <2>1
  <2>3. r.ok /\ r.suffix = written.suffix
    BY <1>1, <1>3, <1>5, <2>2, SuffixAccepted
  <2>4. PICK condition \in BOOLEAN : condition /\ Checked = With(r, condition)
    <3>1. CASE written.op \in {"movzb", "movsb"}
      <4>1. r.suffix # BYTE
        BY <2>3, <3>1 DEF PrintedTwo, Extensions
      <4>2. Checked = With(r, r.suffix # BYTE)
        BY <1>1, <3>1 DEF Checked, Sets, FromSize
      <4> QED BY <4>1, <4>2
    <3>2. CASE written.op \in {"movzw", "movsw"}
      <4>1. r.suffix \notin {BYTE, WORD}
        BY <2>3, <3>2 DEF PrintedTwo, Extensions, BYTE, WORD, LONG, QUAD
      <4>2. Checked = With(r, r.suffix \notin {BYTE, WORD})
        BY <1>1, <3>2 DEF Checked, Sets, FromSize
      <4> QED BY <4>1, <4>2
    <3>3. CASE written.op = "movsl"
      <4>1. r.suffix \notin {BYTE, WORD, LONG}
        BY <2>3, <3>3 DEF PrintedTwo, Extensions, BYTE, WORD, LONG, QUAD
      <4>2. Checked = With(r, r.suffix \notin {BYTE, WORD, LONG})
        BY <1>1, <3>3 DEF Checked, Sets, FromSize
      <4> QED BY <4>1, <4>2
    <3> QED BY <1>11, <3>1, <3>2, <3>3 DEF Extensions
  <2>5. DOMAIN r = {"ok", "suffix"}
    BY ResultRecords
  <2> HIDE DEF r
  <2> QED BY <2>3, <2>4, <2>5, WithOk
<1> QED BY <1>8, <1>9, <1>10, <1>11 DEF PrintedTwo, Binary, Shifts

LEMMA PrintedChecked ==
  ASSUME Fresh, Printed
  PROVE  Checked.ok
<1>1. CASE PrintedNone
  <2>1. inst.op = written.op /\ inst.suffix = None /\ Len(inst.ops) = 0
    BY <1>1, FreshInst, FreshLen DEF PrintedNone
  <2>2. Checked = sema_inst_op0(LONG) \/ Checked = sema_inst_op0(QUAD)
    BY <1>1, <2>1 DEF PrintedNone, NoOperand, Checked, Sets
  <2>3. sema_inst_op0(LONG) = Suffix(None, {}, LONG) /\ sema_inst_op0(QUAD) = Suffix(None, {}, QUAD)
    BY <2>1 DEF sema_inst_op0
  <2> QED BY <2>2, <2>3, SuffixAccepted DEF LONG, QUAD
<1> QED BY <1>1, PrintedShape, PrintedOneChecked, PrintedTwoChecked

LEMMA SemaStep ==
  ASSUME IInv, as_sema
  PROVE  IInv'
<1>1. phase = "parsed" /\ written' = written /\ bin' = bin /\ relocs' = relocs
  BY DEF as_sema, Fail
<1>2. Fresh
  BY <1>1 DEF Fresh
<1>3. bin = << >> /\ relocs = {} /\ written \in Written /\ Addresses
  BY <1>1 DEF IInv
<1>4. Printed' = Printed /\ Parsed' = Parsed /\ Addresses' = Addresses
  BY <1>1 DEF Printed, Kinds, SourceSize, Parsed, Addresses
<1>5. CASE Checked.ok /\ inst' = [inst EXCEPT !.suffix = Checked.suffix] /\ phase' = "checked"
  <2> DEFINE s == Checked.suffix
  <2>1. inst = [op |-> written.op, suffix |-> inst.suffix, ops |-> Parsed]
    BY <1>1 DEF IInv
  <2> HIDE DEF s
  <2>2. inst' = [op |-> written.op, suffix |-> s, ops |-> Parsed]
    BY <1>5, <2>1 DEF s
  <2>3. inst'.suffix = s /\ inst'.ops = inst.ops
    BY <2>1, <2>2
  <2>4. inst' = [op |-> written'.op, suffix |-> inst'.suffix, ops |-> Parsed']
    BY <1>1, <1>4, <2>2
  <2>5. Agreed(s)
    BY <1>2, <1>5, CheckedAgrees DEF s
  <2>6. Agreed(inst.suffix)'
    <3>1. OtherSize' = OtherSize /\ Size' = Size
      BY <1>1 DEF OtherSize, Size, Registers
    <3>2. \A i : Exact(i, inst.suffix)' = Exact(i, s)
      BY <1>1, <2>3 DEF Exact
    <3>3. op' = op /\ src' = src /\ dest' = dest
      BY <2>3 DEF op, src, dest
    <3> QED BY <1>1, <2>3, <2>5, <3>1, <3>2, <3>3 DEF Agreed
  <2> QED BY <1>1, <1>3, <1>4, <1>5, <2>4, <2>6 DEF IInv
<1>6. CASE ~Checked.ok /\ phase' = "error"
  <2>1. ~Printed'
    BY <1>2, <1>4, <1>6, PrintedChecked
  <2> QED BY <1>1, <1>3, <1>6, <2>1 DEF IInv
<1> QED BY <1>5, <1>6 DEF as_sema, Fail

(* The bytes depend on the instruction alone. *)
LEMMA SameEncoding ==
  ASSUME inst' = inst
  PROVE  Encoding' = Encoding
<1>1. op' = op /\ src' = src /\ dest' = dest
  BY DEF op, src, dest
<1> QED
  BY <1>1 DEF Encoding, TwoOperands, Extension, OneOperand, SetByte, Imm, gen_push,
      gen_pop, gen_cltd, gen_cqto, gen_mov, gen_add, gen_sub, gen_and, gen_xor,
      gen_or, gen_cmp, gen_movzb, gen_movzw, gen_movsb, gen_movsw, gen_movsl,
      gen_lea, gen_not, gen_neg, gen_mul, gen_imul, gen_div, gen_idiv, gen_sal,
      gen_sar, gen_setb, gen_sete, gen_setne, gen_setbe, gen_setl, gen_setge,
      gen_setle, gen_setg, gen_jmp, gen_je, gen_jne, gen_call, gen_leave, gen_ret

LEMMA EncodeStep ==
  ASSUME IInv, as_encode
  PROVE  IInv'
<1>1. phase = "checked" /\ phase' = "encoded" /\ written' = written /\ inst' = inst
  BY DEF as_encode
<1>2. bin = << >> /\ relocs = {}
  BY <1>1 DEF IInv
<1>3. /\ Printed' = Printed /\ Parsed' = Parsed /\ Addresses' = Addresses
      /\ Agreed(inst.suffix)' = Agreed(inst.suffix) /\ Encoding' = Encoding
  <2>1. Printed' = Printed /\ Parsed' = Parsed /\ Addresses' = Addresses
    BY <1>1 DEF Printed, Kinds, SourceSize, Parsed, Addresses
  <2>2. Agreed(inst.suffix)' = Agreed(inst.suffix)
    BY <1>1 DEF Agreed, OtherSize, Size, Registers, Exact, op, src, dest
  <2>3. Encoding' = Encoding
    BY <1>1, SameEncoding
  <2> QED BY <2>1, <2>2, <2>3
<1>4. Emitted'
  BY <1>2, <1>3 DEF as_encode, Emitted
<1> QED BY <1>1, <1>3, <1>4 DEF IInv

LEMMA NextInv ==
  ASSUME IInv, [Next]_vars
  PROVE  IInv'
<1>1. CASE parse_inst
  BY <1>1, ParseStep
<1>2. CASE as_sema
  BY <1>2, SemaStep
<1>3. CASE as_encode
  BY <1>3, EncodeStep
<1>4. CASE UNCHANGED vars
  <2>1. phase' = phase /\ written' = written /\ inst' = inst /\ bin' = bin /\ relocs' = relocs
    BY <1>4 DEF vars
  <2>2. Printed' = Printed /\ Parsed' = Parsed /\ Addresses' = Addresses
    BY <2>1 DEF Printed, Kinds, SourceSize, Parsed, Addresses
  <2>3. Agreed(inst.suffix)' = Agreed(inst.suffix)
    BY <2>1 DEF Agreed, OtherSize, Size, Registers, Exact, op, src, dest
  <2>4. Emitted' = Emitted
    BY <2>1, SameEncoding DEF Emitted
  <2> QED BY <2>1, <2>2, <2>3, <2>4 DEF IInv
<1> QED BY <1>1, <1>2, <1>3, <1>4 DEF Next

(* Every state is as the invariant says. *)
THEOREM Invariant == Spec => []IInv
<1>1. Init => IInv
  BY InitInv
<1>2. IInv /\ [Next]_vars => IInv'
  BY NextInv
<1> QED BY <1>1, <1>2, PTL DEF Spec

-----------------------------------------------------------------------------
(* Sequences of bytes. *)
LEMMA Singles ==
  ASSUME NEW a \in Int
  PROVE  <<a>> \in Seq(Int) /\ Len(<<a>>) = 1 /\ <<a>>[1] = a
  OBVIOUS

LEMMA Pairs ==
  ASSUME NEW a \in Int, NEW b \in Int
  PROVE  <<a, b>> \in Seq(Int) /\ Len(<<a, b>>) = 2 /\ <<a, b>>[1] = a /\ <<a, b>>[2] = b
  OBVIOUS

LEMMA Fours ==
  ASSUME NEW a \in Int, NEW b \in Int, NEW c \in Int, NEW d \in Int
  PROVE  /\ <<a, b, c, d>> \in Seq(Int) /\ Len(<<a, b, c, d>>) = 4
         /\ <<a, b, c, d>>[1] = a /\ <<a, b, c, d>>[2] = b
         /\ <<a, b, c, d>>[3] = c /\ <<a, b, c, d>>[4] = d
  OBVIOUS

LEMMA Empties == << >> \in Seq(Int) /\ Len(<< >>) = 0
  OBVIOUS

LEMMA Joined ==
  ASSUME NEW s \in Seq(Int), NEW t \in Seq(Int)
  PROVE  /\ s \o t \in Seq(Int)
         /\ Len(s \o t) = Len(s) + Len(t)
         /\ Len(s) \in Nat /\ Len(t) \in Nat
         /\ \A k \in 1 .. Len(s) : (s \o t)[k] = s[k]
         /\ \A k \in 1 .. Len(t) : (s \o t)[Len(s) + k] = t[k]
  BY ConcatProperties, LenProperties

LEMMA NoneBefore ==
  ASSUME NEW s \in Seq(Int)
  PROVE  << >> \o s = s
  BY ConcatEmptySeq

LEMMA AtJoined ==
  ASSUME NEW s \in Seq(Int), NEW t \in Seq(Int), NEW k \in Nat
  PROVE  /\ k \in 1 .. Len(s) => At(s \o t, k) = At(s, k)
         /\ k \in 1 .. Len(t) => At(s \o t, Len(s) + k) = At(t, k)
<1>1. Len(s \o t) = Len(s) + Len(t) /\ Len(s) \in Nat /\ Len(t) \in Nat
  BY Joined
<1>2. ASSUME k \in 1 .. Len(s) PROVE At(s \o t, k) = At(s, k)
  BY <1>1, <1>2, Joined DEF At
<1>3. ASSUME k \in 1 .. Len(t) PROVE At(s \o t, Len(s) + k) = At(t, k)
  BY <1>1, <1>3, Joined DEF At
<1> QED BY <1>2, <1>3

(* The end of a sequence after its beginning. *)
LEMMA AfterJoined ==
  ASSUME NEW s \in Seq(Int), NEW t \in Seq(Int)
  PROVE  SubSeq(s \o t, Len(s) + 1, Len(s \o t)) = t
<1> DEFINE u == s \o t
           m == Len(s) + 1
           n == Len(u)
           v == SubSeq(u, m, n)
<1>1. n = Len(s) + Len(t) /\ Len(s) \in Nat /\ Len(t) \in Nat /\ u \in Seq(Int)
  BY Joined
<1>2. \A k \in 1 .. Len(t) : u[Len(s) + k] = t[k]
  BY Joined
<1>3. \A k \in m .. n : u[k] \in Int
  BY <1>1, ElementOfSeq
<1> HIDE DEF u, n
<1>4. v \in Seq(Int) /\ Len(v) = Len(t) /\ \A k \in 1 .. Len(t) : v[k] = u[m + k - 1]
  <2>1. /\ v \in Seq(Int)
        /\ Len(v) = IF m <= n THEN n - m + 1 ELSE 0
        /\ \A k \in 1 .. n - m + 1 : v[k] = u[m + k - 1]
    BY <1>1, <1>3, SubSeqProperties
  <2>2. n - m + 1 = Len(t)
    BY <1>1
  <2> QED BY <1>1, <2>1, <2>2
<1> HIDE DEF v
<1>5. ASSUME NEW k \in 1 .. Len(t) PROVE v[k] = t[k]
  <2>1. m + k - 1 = Len(s) + k
    BY <1>1
  <2> QED BY <1>2, <1>4, <2>1
<1>6. v = t
  BY <1>4, <1>5, SeqEqual
<1> QED BY <1>6 DEF u, n, v

-----------------------------------------------------------------------------
(* The head of an instruction, whatever follows it. *)
IsPrefix(p) == p = << >> \/ p = <<\h66>>
IsRex(x)    == x = << >> \/ \E r \in \h40 .. \h4F : x = <<r>>
IsOpcode(c) ==
  \/ \E a \in 0 .. 255 : c = <<a>> /\ a \notin {\h0F, \h66} /\ a \notin \h40 .. \h4F
  \/ \E a \in 0 .. 255 : c = <<\h0F, a>>

RexOf(x) == IF x = << >> THEN 0 ELSE x[1] - \h40

Number(c) == IF c[1] = \h0F THEN \h0F00 + c[2] ELSE c[1]

LEMMA HeadTypes ==
  ASSUME NEW p, NEW x, NEW c, IsPrefix(p), IsRex(x), IsOpcode(c)
  PROVE  /\ p \in Seq(Int) /\ x \in Seq(Int) /\ c \in Seq(Int)
         /\ Len(p) \in 0 .. 1 /\ Len(x) \in 0 .. 1 /\ Len(c) \in 1 .. 2
         /\ p # << >> => Len(p) = 1 /\ p[1] = \h66
         /\ p = << >> => Len(p) = 0
         /\ x # << >> => Len(x) = 1 /\ x[1] \in \h40 .. \h4F
         /\ x = << >> => Len(x) = 0
         /\ c[1] \in 0 .. 255 /\ c[1] # \h66 /\ c[1] \notin \h40 .. \h4F
         /\ c[1] = \h0F => Len(c) = 2 /\ c[2] \in 0 .. 255
         /\ c[1] # \h0F => Len(c) = 1
<1>1. /\ p \in Seq(Int) /\ Len(p) \in 0 .. 1
      /\ p # << >> => Len(p) = 1 /\ p[1] = \h66
      /\ p = << >> => Len(p) = 0
  <2>1. CASE p = << >>
    BY <2>1, Empties
  <2>2. CASE p = <<\h66>>
    <3>1. p \in Seq(Int) /\ Len(p) = 1 /\ p[1] = \h66
      BY <2>2, Singles
    <3>2. p # << >>
      BY <2>2
    <3> QED BY <3>1, <3>2
  <2> QED BY <2>1, <2>2 DEF IsPrefix
<1>2. /\ x \in Seq(Int) /\ Len(x) \in 0 .. 1
      /\ x # << >> => Len(x) = 1 /\ x[1] \in \h40 .. \h4F
      /\ x = << >> => Len(x) = 0
  <2>1. CASE x = << >>
    BY <2>1, Empties
  <2>2. CASE \E r \in \h40 .. \h4F : x = <<r>>
    <3>1. x \in Seq(Int) /\ Len(x) = 1 /\ x[1] \in \h40 .. \h4F
      BY <2>2, Singles
    <3> QED BY <3>1, Empties
  <2> QED BY <2>1, <2>2 DEF IsRex
<1>3. /\ c \in Seq(Int) /\ Len(c) \in 1 .. 2
      /\ c[1] \in 0 .. 255 /\ c[1] # \h66 /\ c[1] \notin \h40 .. \h4F
      /\ c[1] = \h0F => Len(c) = 2 /\ c[2] \in 0 .. 255
      /\ c[1] # \h0F => Len(c) = 1
  <2>1. CASE \E a \in 0 .. 255 : c = <<a>> /\ a \notin {\h0F, \h66} /\ a \notin \h40 .. \h4F
    BY <2>1, Singles
  <2>2. CASE \E a \in 0 .. 255 : c = <<\h0F, a>>
    BY <2>2, Pairs
  <2> QED BY <2>1, <2>2 DEF IsOpcode
<1> QED BY <1>1, <1>2, <1>3

(* How the decoder takes the bytes b apart. *)
Splits(b, p, x, c, t) ==
  /\ Len(b) = Len(p) + Len(x) + Len(c) + Len(t)
  /\ Word(b) <=> p # << >>
  /\ HasRex(b) <=> x # << >>
  /\ Rex(b) = RexOf(x)
  /\ Opcode(b) = Number(c)
  /\ HeadLen(b) = Len(p) + Len(x) + Len(c)
  /\ Body(b) = t

LEMMA HeadDecoded ==
  ASSUME NEW p, NEW x, NEW c, IsPrefix(p), IsRex(x), IsOpcode(c), NEW t \in Seq(Int), NEW b,
         b = p \o x \o c \o t
  PROVE  Splits(b, p, x, c, t)
<1> DEFINE px == p \o x
           h  == px \o c
           np == Len(p)
           nx == Len(x)
           nc == Len(c)
<1>0. p \in Seq(Int) /\ x \in Seq(Int) /\ c \in Seq(Int)
  BY HeadTypes
<1>1. /\ np \in 0 .. 1 /\ nx \in 0 .. 1 /\ nc \in 1 .. 2
      /\ p # << >> => np = 1 /\ p[1] = \h66
      /\ p = << >> => np = 0
      /\ x # << >> => nx = 1 /\ x[1] \in \h40 .. \h4F
      /\ x = << >> => nx = 0
      /\ c[1] \in 0 .. 255 /\ c[1] # \h66 /\ c[1] \notin \h40 .. \h4F
      /\ c[1] = \h0F => nc = 2 /\ c[2] \in 0 .. 255
      /\ c[1] # \h0F => nc = 1
  BY HeadTypes
<1>2. /\ px \in Seq(Int) /\ Len(px) = np + nx
      /\ \A k \in 1 .. np : px[k] = p[k]
      /\ \A k \in 1 .. nx : px[np + k] = x[k]
  BY <1>0, Joined
<1>3. /\ h \in Seq(Int) /\ Len(h) = Len(px) + nc
      /\ \A k \in 1 .. Len(px) : h[k] = px[k]
      /\ \A k \in 1 .. nc : h[Len(px) + k] = c[k]
  <2> HIDE DEF px
  <2> QED BY <1>0, <1>2, Joined
<1>4. b = h \o t
  OBVIOUS
<1> HIDE DEF h, px, np, nx, nc
<1>5. /\ b \in Seq(Int) /\ Len(b) = Len(h) + Len(t) /\ Len(t) \in Nat
      /\ \A k \in 1 .. Len(h) : b[k] = h[k]
  BY ONLY <1>3, <1>4, t \in Seq(Int), Joined
<1>6. \A k \in 1 .. Len(h) : At(b, k) = h[k]
  BY ONLY <1>1, <1>2, <1>3, <1>5 DEF At
<1>7. /\ np = 1 => At(b, 1) = \h66
      /\ nx = 1 => At(b, np + 1) = x[1]
      /\ At(b, np + nx + 1) = c[1]
      /\ nc = 2 => At(b, np + nx + 2) = c[2]
  <2>1. np = 1 => h[1] = \h66
    <3> SUFFICES ASSUME np = 1 PROVE h[1] = \h66
      OBVIOUS
    <3>1. 1 \in 1 .. np /\ 1 \in 1 .. np + nx
      BY <1>1
    <3>2. p[1] = \h66
      BY <1>1
    <3> QED BY <1>2, <1>3, <3>1, <3>2
  <2>2. nx = 1 => h[np + 1] = x[1]
    <3> SUFFICES ASSUME nx = 1 PROVE h[np + 1] = x[1]
      OBVIOUS
    <3>1. 1 \in 1 .. nx /\ np + 1 \in 1 .. np + nx
      BY <1>1
    <3> QED BY <1>2, <1>3, <3>1
  <2>3. h[np + nx + 1] = c[1]
    <3>1. 1 \in 1 .. nc
      BY <1>1
    <3> QED BY <1>2, <1>3, <3>1
  <2>4. nc = 2 => h[np + nx + 2] = c[2]
    BY <1>2, <1>3
  <2>5. Len(h) = np + nx + nc
    BY <1>2, <1>3
  <2>6. /\ np = 1 => 1 \in 1 .. Len(h)
        /\ nx = 1 => np + 1 \in 1 .. Len(h)
        /\ np + nx + 1 \in 1 .. Len(h)
        /\ nc = 2 => np + nx + 2 \in 1 .. Len(h)
    BY <1>1, <2>5, SMTT(40)
  <2> QED BY ONLY <2>1, <2>2, <2>3, <2>4, <2>6, <1>6
<1>8. Word(b) <=> p # << >>
  <2>1. CASE p # << >>
    <3>1. At(b, 1) = \h66
      BY <1>1, <1>7, <2>1
    <3> QED BY <2>1, <3>1 DEF Word
  <2>2. CASE p = << >> /\ x # << >>
    <3>1. np = 0 /\ nx = 1 /\ x[1] # \h66
      <4>1. np = 0 /\ nx = 1 /\ x[1] \in \h40 .. \h4F
        BY <1>1, <2>2
      <4>2. \A k \in \h40 .. \h4F : k # \h66
        OBVIOUS
      <4> QED BY <4>1, <4>2
    <3>2. At(b, 1) = x[1]
      BY <1>7, <3>1
    <3> QED BY <2>2, <3>1, <3>2 DEF Word
  <2>3. CASE p = << >> /\ x = << >>
    <3>1. np = 0 /\ nx = 0 /\ c[1] # \h66
      BY <1>1, <2>3
    <3>2. At(b, 1) = c[1]
      BY <1>7, <3>1
    <3> QED BY <2>3, <3>1, <3>2 DEF Word
  <2> QED BY <2>1, <2>2, <2>3
<1>9. Flag(Word(b)) = np
  BY <1>1, <1>8 DEF Flag
<1>10. HasRex(b) <=> x # << >>
  BY ONLY <1>1, <1>7, <1>9, SMTT(40) DEF HasRex
<1>11. Flag(HasRex(b)) = nx
  BY <1>1, <1>10 DEF Flag
<1>12. Rex(b) = RexOf(x)
  BY <1>1, <1>7, <1>9, <1>10, SMTT(40) DEF Rex, RexOf
<1>13. First(b) = np + nx + 1
  BY <1>1, <1>9, <1>11 DEF First
<1>14. Escaped(b) <=> c[1] = \h0F
  BY <1>1, <1>7, <1>13 DEF Escaped
<1>15. Opcode(b) = Number(c)
  BY <1>1, <1>7, <1>13, <1>14, SMTT(40) DEF Opcode, Number
<1>16. HeadLen(b) = np + nx + nc
  BY <1>1, <1>13, <1>14, SMTT(40) DEF HeadLen, Flag
<1>17. Body(b) = t
  <2>1. HeadLen(b) = Len(h)
    BY <1>1, <1>2, <1>3, <1>16
  <2> QED BY <1>3, <1>4, <2>1, AfterJoined DEF Body
<1> QED BY <1>1, <1>2, <1>3, <1>5, <1>8, <1>10, <1>12, <1>15, <1>16, <1>17
   DEF Splits, np, nx, nc

(* The REX prefix holds a bit of each of three register numbers.           *)
RexHolds(x, w, reg, index, base, required) ==
  /\ IsRex(x)
  /\ required => x # << >>
  /\ RexOf(x) \div 8 = w
  /\ 8 * ((RexOf(x) \div 4) % 2) = 8 * (reg \div 8)
  /\ 8 * ((RexOf(x) \div 2) % 2) = 8 * (index \div 8)
  /\ 8 * (RexOf(x) % 2) = 8 * (base \div 8)

LEMMA RexBits ==
  ASSUME NEW w \in {0, 1}, NEW reg \in 0 .. 15, NEW index \in 0 .. 15, NEW base \in 0 .. 15,
         NEW required \in BOOLEAN, NEW x, x = gen_rex(w, reg, index, base, required)
  PROVE  RexHolds(x, w, reg, index, base, required)
<1> DEFINE rex  == RexOf(x)
           wrxb == 8 * w + 4 * (reg \div 8) + 2 * (index \div 8) + base \div 8
<1>1. reg \div 8 \in {0, 1} /\ index \div 8 \in {0, 1} /\ base \div 8 \in {0, 1}
  OBVIOUS
<1>2. /\ wrxb \in 0 .. 15
      /\ wrxb \div 8 = w
      /\ (wrxb \div 4) % 2 = reg \div 8
      /\ (wrxb \div 2) % 2 = index \div 8
      /\ wrxb % 2 = base \div 8
  <2>1. \A a, b, c, d \in {0, 1} :
          LET n == 8 * a + 4 * b + 2 * c + d
          IN  n \in 0 .. 15 /\ n \div 8 = a /\ (n \div 4) % 2 = b /\ (n \div 2) % 2 = c /\ n % 2 = d
    OBVIOUS
  <2> QED BY <1>1, <2>1
<1> HIDE DEF wrxb
<1>3. x = IF required \/ wrxb # 0 THEN <<\h40 + wrxb>> ELSE << >>
  BY DEF gen_rex, wrxb
<1>4. CASE required \/ wrxb # 0
  <2>1. x = <<\h40 + wrxb>> /\ \h40 + wrxb \in \h40 .. \h4F
    BY <1>2, <1>3, <1>4
  <2>2. x # << >> /\ x[1] - \h40 = wrxb
    BY <1>2, <2>1
  <2>3. IsRex(x)
    BY <2>1 DEF IsRex
  <2>4. rex = wrxb
    BY <2>2 DEF RexOf
  <2> QED BY <1>2, <2>2, <2>3, <2>4 DEF RexHolds
<1>5. CASE ~(required \/ wrxb # 0)
  <2>1. x = << >> /\ rex = wrxb
    BY <1>3, <1>5 DEF RexOf
  <2> QED BY <1>2, <1>5, <2>1 DEF IsRex, RexHolds
<1> QED BY <1>4, <1>5

RmBase(rm) == IF rm.type = "reg" THEN rm.regcode ELSE rm.base

HeadHolds(b, h, size, opcode, reg, rm, required, t) ==
  /\ h \in Seq(Int)
  /\ Len(b) = HeadLen(b) + Len(t)
  /\ HeadLen(b) = Len(h) /\ HeadLen(b) \in Nat \ {0}
  /\ Body(b) = t
  /\ Opcode(b) = Number(opcode)
  /\ Word(b) <=> size = WORD
  /\ W(b) = 1 <=> size = QUAD
  /\ required => HasRex(b)
  /\ R(b) = 8 * (reg \div 8)
  /\ X(b) = 8 * (rm.index \div 8)
  /\ B(b) = 8 * (RmBase(rm) \div 8)

LEMMA InstrHeadDecoded ==
  ASSUME NEW size \in 0 .. 3, NEW opcode, IsOpcode(opcode), NEW reg \in 0 .. 15, NEW rm, IsOp(rm),
         NEW required \in BOOLEAN, NEW t \in Seq(Int),
         NEW h, h = InstrHead(size, opcode, reg, rm, required), NEW b, b = h \o t
  PROVE  HeadHolds(b, h, size, opcode, reg, rm, required, t)
<1> DEFINE p == IF size = WORD THEN <<\h66>> ELSE << >>
           w == IF size = QUAD THEN 1 ELSE 0
           x == gen_rex(w, reg, rm.index, RmBase(rm), required)
<1>1. w \in {0, 1} /\ rm.index \in 0 .. 15 /\ RmBase(rm) \in 0 .. 15
  BY DEF IsOp, RmBase
<1>2. RexHolds(x, w, reg, rm.index, RmBase(rm), required)
  <2> HIDE DEF w
  <2> QED BY <1>1, RexBits
<1>3. h = p \o x \o opcode
  BY DEF InstrHead, RmBase
<1>4. IsPrefix(p) /\ (p # << >> <=> size = WORD)
  <2>1. <<\h66>> # << >>
    OBVIOUS
  <2> QED BY <2>1 DEF IsPrefix
<1> HIDE DEF p, x, w
<1>5. /\ p \in Seq(Int) /\ x \in Seq(Int) /\ opcode \in Seq(Int)
      /\ Len(p) \in 0 .. 1 /\ Len(x) \in 0 .. 1 /\ Len(opcode) \in 1 .. 2
  BY <1>2, <1>4, HeadTypes DEF RexHolds
<1>6. h \in Seq(Int) /\ Len(h) = Len(p) + Len(x) + Len(opcode)
  <2>1. p \o x \in Seq(Int) /\ Len(p \o x) = Len(p) + Len(x)
    BY <1>5, Joined
  <2> QED BY ONLY <1>3, <1>5, <2>1, Joined
<1>7. b = p \o x \o opcode \o t
  BY <1>3
<1>8. Splits(b, p, x, opcode, t)
  <2>1. IsRex(x)
    BY <1>2 DEF RexHolds
  <2> QED BY <1>4, <1>7, <2>1, HeadDecoded
<1>9. HeadLen(b) = Len(h) /\ Len(b) = HeadLen(b) + Len(t) /\ HeadLen(b) \in Nat \ {0}
  <2>1. /\ Len(b) = Len(p) + Len(x) + Len(opcode) + Len(t)
        /\ HeadLen(b) = Len(p) + Len(x) + Len(opcode)
    BY <1>8 DEF Splits
  <2>2. Len(t) \in Nat
    BY LenProperties
  <2> DEFINE i == Len(p)
             j == Len(x)
             k == Len(opcode)
  <2>3. i \in 0 .. 1 /\ j \in 0 .. 1 /\ k \in 1 .. 2
    BY <1>5
  <2>4. Len(h) = i + j + k /\ HeadLen(b) = i + j + k /\ Len(b) = i + j + k + Len(t)
    BY <1>6, <2>1
  <2> HIDE DEF i, j, k
  <2> QED BY ONLY <2>2, <2>3, <2>4
<1>10. /\ W(b) = w /\ R(b) = 8 * (reg \div 8) /\ X(b) = 8 * (rm.index \div 8)
       /\ B(b) = 8 * (RmBase(rm) \div 8)
  BY <1>2, <1>8 DEF RexHolds, Splits, W, R, X, B
<1>11. w = 1 <=> size = QUAD
  BY DEF w
<1> QED BY <1>2, <1>4, <1>6, <1>8, <1>9, <1>10, <1>11 DEF RexHolds, Splits, HeadHolds

-----------------------------------------------------------------------------
(* The parts of an operand. *)
HasFields(n, a, b, c) == n \in 0 .. 255 /\ n \div 64 = a /\ (n \div 8) % 8 = b /\ n % 8 = c

LEMMA Fields ==
  ASSUME NEW a \in 0 .. 3, NEW b \in 0 .. 7, NEW c \in 0 .. 7, NEW n, n = 64 * a + 8 * b + c
  PROVE  HasFields(n, a, b, c)
<1>1. n \in 0 .. 255 /\ n \div 64 = a /\ n % 8 = c
  OBVIOUS
<1>2. n \div 8 = 8 * a + b
  OBVIOUS
<1>3. (8 * a + b) % 8 = b
  OBVIOUS
<1> QED BY <1>1, <1>2, <1>3 DEF HasFields

LEMMA Octal ==
  ASSUME NEW n \in Nat
  PROVE  n % 8 \in 0 .. 7 /\ 8 * (n \div 8) + (n % 8) = n
  OBVIOUS

LEMMA LowByte ==
  ASSUME NEW n \in Int
  PROVE  LowBytes(n, 0) = << >> /\ LowBytes(n, 1) = <<n % 256>>
<1>1. 256 ^ 0 = 1 /\ n \div 1 = n
  BY SMT
<1>2. LowBytes(n, 0) = << >>
  BY DEF LowBytes
<1>3. LowBytes(n, 1) = [k \in 1 .. 1 |-> n % 256]
  BY <1>1 DEF LowBytes
<1> QED BY <1>2, <1>3

LEMMA FourBytes ==
  ASSUME NEW n \in Int
  PROVE  LowBytes(n, 4) = <<n % 256, (n \div 256) % 256, (n \div 65536) % 256, (n \div 16777216) % 256>>
<1>1. /\ 256 ^ 0 = 1 /\ 256 ^ 1 = 256 /\ 256 ^ 2 = 65536 /\ 256 ^ 3 = 16777216
      /\ n \div 1 = n
  BY SMT
<1>2. LowBytes(n, 4) = [k \in 1 .. 4 |-> (n \div 256 ^ (k - 1)) % 256]
  BY DEF LowBytes
<1> QED BY <1>1, <1>2, SMT

(* A number of 32 bits is what its four bytes say in two's complement.     *)
LEMMA TwosComplement ==
  ASSUME NEW n \in Int32, NEW b0, NEW b1, NEW b2, NEW b3,
         b0 = n % 256, b1 = (n \div 256) % 256, b2 = (n \div 65536) % 256, b3 = (n \div 16777216) % 256
  PROVE  n = b0 + 256 * b1 + 65536 * b2 + 16777216 * (IF b3 >= 128 THEN b3 - 256 ELSE b3)
<1> DEFINE q3 == n \div 16777216
<1>1. n \in Int /\ q3 \in -128 .. 127
  BY DEF Int32
<1>2. q3 = IF b3 >= 128 THEN b3 - 256 ELSE b3
  <2>1. \A q \in -128 .. 127 : q = IF q % 256 >= 128 THEN (q % 256) - 256 ELSE q % 256
    BY SMT
  <2> HIDE DEF q3
  <2>2. b3 = q3 % 256
    BY DEF q3
  <2> QED BY <1>1, <2>1, <2>2
<1>3. n = 256 * (n \div 256) + b0
  BY <1>1, SMT
<1>4. n \div 256 = 256 * (n \div 65536) + b1
  BY <1>1, SMT
<1>5. n \div 65536 = 256 * q3 + b2
  BY <1>1, SMT
<1>6. b0 \in Int /\ b1 \in Int /\ b2 \in Int /\ n \div 256 \in Int /\ n \div 65536 \in Int
  BY <1>1, SMT
<1> HIDE DEF q3
<1>7. n = b0 + 256 * b1 + 65536 * b2 + 16777216 * q3
  BY <1>1, <1>3, <1>4, <1>5, <1>6, SMT
<1> QED BY <1>2, <1>7, SMT

(* A body g: the byte m, perhaps a second one, and a displacement d; t is   *)
(* the body and what follows it.                                           *)
IsShort(q) == q = << >> \/ \E s \in Int : q = <<s>>

BodyOf(t, g, m, q, d, rest) ==
  /\ g \in Seq(Int) /\ t \in Seq(Int)
  /\ Len(g) = 1 + Len(q) + Len(d) /\ Len(t) = Len(g) + Len(rest)
  /\ Len(q) \in 0 .. 1 /\ Len(d) \in Nat /\ Len(rest) \in Nat
  /\ At(t, 1) = m
  /\ q # << >> => Len(q) = 1 /\ At(t, 2) = q[1]
  /\ q = << >> => Len(q) = 0
  /\ \A k \in 1 .. Len(d) : t[1 + Len(q) + k] = d[k]

LEMMA BodyBytes ==
  ASSUME NEW m \in Int, NEW q, IsShort(q), NEW d \in Seq(Int),
         NEW rest \in Seq(Int), NEW g, g = <<m>> \o q \o d, NEW t, t = g \o rest
  PROVE  BodyOf(t, g, m, q, d, rest)
<1> DEFINE mq == <<m>> \o q
           nq == Len(q)
           nd == Len(d)
<1>1. /\ q \in Seq(Int) /\ nq \in 0 .. 1
      /\ q # << >> => nq = 1
      /\ q = << >> => nq = 0
  <2> SUFFICES q \in Seq(Int) /\ (q # << >> => nq = 1) /\ (q = << >> => nq = 0)
    OBVIOUS
  <2>1. CASE q = << >>
    <3>1. q \in Seq(Int) /\ nq = 0
      BY <2>1, Empties
    <3> QED BY <2>1, <3>1
  <2>2. CASE \E s \in Int : q = <<s>>
    <3>1. q \in Seq(Int) /\ nq = 1
      BY <2>2, Singles
    <3>2. q # << >>
      BY <2>2
    <3> QED BY <3>1, <3>2
  <2> QED BY <2>1, <2>2 DEF IsShort
<1>2. <<m>> \in Seq(Int) /\ Len(<<m>>) = 1 /\ <<m>>[1] = m
  BY Singles
<1>3. /\ mq \in Seq(Int) /\ Len(mq) = 1 + nq
      /\ mq[1] = m
      /\ \A k \in 1 .. nq : mq[1 + k] = q[k]
  <2> DEFINE one == <<m>>
             n1  == Len(one)
  <2>1. one \in Seq(Int) /\ n1 = 1 /\ one[1] = m
    BY <1>2
  <2> HIDE DEF one
  <2>2. /\ one \o q \in Seq(Int) /\ Len(one \o q) = n1 + nq
        /\ \A k \in 1 .. n1 : (one \o q)[k] = one[k]
        /\ \A k \in 1 .. nq : (one \o q)[n1 + k] = q[k]
    BY <1>1, <2>1, Joined
  <2> HIDE DEF n1
  <2>3. 1 \in 1 .. n1
    BY <2>1
  <2> QED BY <2>1, <2>2, <2>3 DEF one
<1> HIDE DEF mq
<1>4. /\ g \in Seq(Int) /\ Len(g) = 1 + nq + nd /\ nd \in Nat
      /\ \A k \in 1 .. 1 + nq : g[k] = mq[k]
      /\ \A k \in 1 .. nd : g[1 + nq + k] = d[k]
  <2> DEFINE n == Len(mq)
  <2>1. g = mq \o d
    BY DEF mq
  <2>2. /\ g \in Seq(Int) /\ Len(g) = n + nd /\ nd \in Nat
        /\ \A k \in 1 .. n : g[k] = mq[k]
        /\ \A k \in 1 .. nd : g[n + k] = d[k]
    <3>1. mq \in Seq(Int)
      BY <1>3
    <3> QED BY ONLY <2>1, <3>1, d \in Seq(Int), Joined
  <2>3. n = 1 + nq
    BY <1>3
  <2> HIDE DEF n
  <2> QED BY <2>2, <2>3
<1>5. /\ t \in Seq(Int) /\ Len(t) = Len(g) + Len(rest) /\ Len(rest) \in Nat
      /\ \A k \in 1 .. Len(g) : t[k] = g[k]
  BY <1>4, Joined
<1> HIDE DEF nq, nd
<1>6. /\ 1 \in 1 .. 1 + nq /\ 1 \in 1 .. Len(g) /\ 1 \in 1 .. Len(t)
      /\ nq = 1 => 1 \in 1 .. nq /\ 2 \in 1 .. 1 + nq /\ 2 \in 1 .. Len(g) /\ 2 \in 1 .. Len(t)
      /\ \A k \in 1 .. nd : 1 + nq + k \in 1 .. Len(g)
  BY <1>1, <1>4, <1>5
<1>7. At(t, 1) = m
  BY <1>3, <1>4, <1>5, <1>6 DEF At
<1>8. nq = 1 => At(t, 2) = q[1]
  <2> SUFFICES ASSUME nq = 1 PROVE At(t, 2) = q[1]
    OBVIOUS
  <2>1. mq[2] = q[1]
    BY <1>3, <1>6
  <2>2. t[2] = mq[2]
    BY <1>4, <1>5, <1>6
  <2> QED BY <1>6, <2>1, <2>2 DEF At
<1>9. \A k \in 1 .. nd : t[1 + nq + k] = d[k]
  BY <1>4, <1>5, <1>6
<1> QED BY <1>1, <1>4, <1>5, <1>7, <1>8, <1>9 DEF nq, nd, BodyOf

(* What the first byte says. *)
ByteSays(t, m, mod, reg, rm) ==
  m \in 0 .. 255 /\ Mod(t) = mod /\ RegField(t) = reg % 8 /\ RmField(t) = rm % 8

LEMMA FirstByte ==
  ASSUME NEW mod \in 0 .. 3, NEW reg \in 0 .. 15, NEW rm \in 0 .. 15, NEW m, gen_mod_rm(mod, reg, rm) = <<m>>,
         NEW t, At(t, 1) = m
  PROVE  ByteSays(t, m, mod, reg, rm)
<1> DEFINE u == reg % 8
           v == rm % 8
<1>1. u \in 0 .. 7 /\ v \in 0 .. 7
  BY Octal
<1>2. m = 64 * mod + 8 * u + v
  BY DEF gen_mod_rm
<1> HIDE DEF u, v
<1>3. HasFields(m, mod, u, v)
  BY <1>1, <1>2, Fields
<1> QED BY <1>3 DEF u, v, Mod, RegField, RmField, ByteSays, HasFields

(* A register in the r/m field. *)
IsFormReg(g, t, rest, reg, code) ==
  /\ g \in Seq(Int) /\ t \in Seq(Int)
  /\ Len(t) = FormLen(t) + Len(rest) /\ FormLen(t) = Len(g) /\ Len(g) \in Nat \ {0}
  /\ RegField(t) = reg % 8 /\ RmField(t) = code % 8 /\ Direct(t)

LEMMA OpsReg ==
  ASSUME NEW reg \in 0 .. 15, NEW rm, IsOp(rm), rm.type = "reg", NEW rest \in Seq(Int),
         NEW g, g = gen_ops(reg, rm), NEW t, t = g \o rest
  PROVE  IsFormReg(g, t, rest, reg, rm.regcode)
<1> DEFINE m == 64 * 3 + 8 * (reg % 8) + (rm.regcode % 8)
<1>1. g = <<m>> /\ gen_mod_rm(3, reg, rm.regcode) = <<m>> /\ rm.regcode \in 0 .. 15
  BY DEF gen_ops, gen_mod_rm, IsOp
<1>2. m \in Int
  BY <1>1
<1> HIDE DEF m
<1>3. g = <<m>> \o << >> \o << >> /\ << >> \in Seq(Int) /\ <<m>> \in Seq(Int)
  BY <1>1, <1>2, ConcatEmptySeq
<1>4. BodyOf(t, g, m, << >>, << >>, rest)
  BY <1>2, <1>3, BodyBytes DEF IsShort
<1>5. At(t, 1) = m
  BY <1>4 DEF BodyOf
<1>6. Mod(t) = 3 /\ RegField(t) = reg % 8 /\ RmField(t) = rm.regcode % 8
  <2> DEFINE mod == 3
  <2>1. mod \in 0 .. 3 /\ gen_mod_rm(mod, reg, rm.regcode) = <<m>> /\ rm.regcode \in 0 .. 15
    BY <1>1
  <2> HIDE DEF mod
  <2>2. ByteSays(t, m, mod, reg, rm.regcode)
    BY <1>5, <2>1, FirstByte
  <2> QED BY <2>2 DEF mod, ByteSays
<1>7. Direct(t) /\ FormLen(t) = 1
  BY <1>6 DEF FormLen, Direct
<1>8. g \in Seq(Int) /\ t \in Seq(Int) /\ Len(g) = 1 /\ Len(t) = Len(g) + Len(rest)
  BY <1>4, Empties DEF BodyOf
<1> QED BY <1>6, <1>7, <1>8 DEF IsFormReg

(* The displacement d at the places after k of t, and the mod field it     *)
(* asks for: mod 0 would be another form if the base were rbp or r13.      *)
DispLenOf(mod) == IF mod = 2 THEN 4 ELSE IF mod = 1 THEN 1 ELSE 0

DispHolds(mod, d, t, k, disp, base) ==
  /\ mod \in 0 .. 2
  /\ d \in Seq(Int) /\ Len(d) = DispLenOf(mod)
  /\ (\A i \in 1 .. Len(d) : t[k + i] = d[i]) => Signed(t, k + 1, DispLenOf(mod)) = disp
  /\ mod = 0 => base % 8 # 5

LEMMA FourHold ==
  ASSUME NEW n \in Int32, NEW d, d = LowBytes(n, 4), NEW t, NEW k \in Nat
  PROVE  /\ d \in Seq(Int) /\ Len(d) = 4
         /\ (\A i \in 1 .. Len(d) : t[k + i] = d[i]) => Signed(t, k + 1, 4) = n
<1> DEFINE b0 == n % 256
           b1 == (n \div 256) % 256
           b2 == (n \div 65536) % 256
           b3 == (n \div 16777216) % 256
<1>1. n \in Int
  BY DEF Int32
<1>2. d = <<b0, b1, b2, b3>>
  BY <1>1, FourBytes
<1>3. b0 \in Int /\ b1 \in Int /\ b2 \in Int /\ b3 \in Int
  BY <1>1, SMT
<1>4. n = b0 + 256 * b1 + 65536 * b2 + 16777216 * (IF b3 >= 128 THEN b3 - 256 ELSE b3)
  BY TwosComplement
<1> HIDE DEF b0, b1, b2, b3
<1>5. d \in Seq(Int) /\ Len(d) = 4 /\ d[1] = b0 /\ d[2] = b1 /\ d[3] = b2 /\ d[4] = b3
  <2>1. /\ <<b0, b1, b2, b3>> \in Seq(Int) /\ Len(<<b0, b1, b2, b3>>) = 4
        /\ <<b0, b1, b2, b3>>[1] = b0 /\ <<b0, b1, b2, b3>>[2] = b1
        /\ <<b0, b1, b2, b3>>[3] = b2 /\ <<b0, b1, b2, b3>>[4] = b3
    BY <1>3, Fours
  <2> QED BY <1>2, <2>1
<1>6. ASSUME \A i \in 1 .. Len(d) : t[k + i] = d[i]
      PROVE  Signed(t, k + 1, 4) = n
  <2>1. 1 \in 1 .. Len(d) /\ 2 \in 1 .. Len(d) /\ 3 \in 1 .. Len(d) /\ 4 \in 1 .. Len(d)
    BY <1>5
  <2>2. t[k + 1] = b0 /\ t[k + 2] = b1 /\ t[k + 3] = b2 /\ t[k + 4] = b3
    BY <1>5, <1>6, <2>1
  <2>3. (k + 1) + 1 = k + 2 /\ (k + 1) + 2 = k + 3 /\ (k + 1) + 3 = k + 4 /\ (k + 1) + 4 - 1 = k + 4
    OBVIOUS
  <2>4. Signed(t, k + 1, 4) = b0 + 256 * b1 + 65536 * b2 + 16777216 * (IF b3 >= 128 THEN b3 - 256 ELSE b3)
    BY <2>2, <2>3 DEF Signed
  <2> QED BY <1>4, <2>4
<1> QED BY <1>5, <1>6

LEMMA DispSays ==
  ASSUME NEW disp \in Int32, NEW base \in 0 .. 15, NEW mod, mod = mod_mem(disp, base),
         NEW d, d = gen_disp(mod, disp), NEW t, NEW k \in Nat
  PROVE  DispHolds(mod, d, t, k, disp, base)
<1>1. disp \in Int
  BY DEF Int32
<1>2. CASE disp = 0 /\ base \notin {BP, R13}
  <2>1. mod = 0
    BY <1>2 DEF mod_mem
  <2>2. d = << >>
    BY <1>1, <2>1, LowByte DEF gen_disp
  <2>3. base % 8 # 5
    BY <1>2 DEF BP, R13
  <2>4. d \in Seq(Int) /\ Len(d) = 0
    BY <2>2, Empties
  <2> QED BY <1>2, <2>1, <2>3, <2>4 DEF DispHolds, DispLenOf, Signed
<1>3. CASE (disp # 0 \/ base \in {BP, R13}) /\ disp \in -128 .. 127
  <2>1. mod = 1
    BY <1>3 DEF mod_mem
  <2>2. d = <<disp % 256>>
    BY <1>1, <2>1, LowByte DEF gen_disp
  <2>3. d \in Seq(Int) /\ Len(d) = 1 /\ d[1] = disp % 256
    BY <1>1, <2>2, Singles
  <2>4. disp = IF disp % 256 >= 128 THEN (disp % 256) - 256 ELSE disp % 256
    BY <1>1, <1>3
  <2>5. (\A i \in 1 .. Len(d) : t[k + i] = d[i]) => Signed(t, k + 1, 1) = disp
    <3> SUFFICES ASSUME \A i \in 1 .. Len(d) : t[k + i] = d[i] PROVE Signed(t, k + 1, 1) = disp
      OBVIOUS
    <3>1. 1 \in 1 .. Len(d) /\ (k + 1) + 1 - 1 = k + 1
      BY <2>3
    <3>2. t[k + 1] = disp % 256
      BY <2>3, <3>1
    <3> QED BY <2>4, <3>1, <3>2 DEF Signed
  <2> QED BY <2>1, <2>3, <2>5 DEF DispHolds, DispLenOf
<1>4. CASE ~(disp \in -128 .. 127)
  <2>1. mod = 2
    BY <1>4 DEF mod_mem
  <2>2. d = LowBytes(disp, 4)
    BY <2>1 DEF gen_disp
  <2>3. d \in Seq(Int) /\ Len(d) = 4
    BY <2>2, FourHold
  <2>4. (\A i \in 1 .. Len(d) : t[k + i] = d[i]) => Signed(t, k + 1, 4) = disp
    BY <2>2, FourHold
  <2> QED BY <2>1, <2>3, <2>4 DEF DispHolds, DispLenOf
<1> QED BY <1>2, <1>3, <1>4

(* Memory at an address that follows, and in a base and perhaps an index.  *)
IsFormRip(g, t, rest, reg) ==
  /\ g \in Seq(Int) /\ t \in Seq(Int)
  /\ Len(t) = FormLen(t) + Len(rest) /\ FormLen(t) = Len(g) /\ Len(g) \in Nat \ {0}
  /\ RegField(t) = reg % 8 /\ ~Direct(t) /\ RipMode(t)

LEMMA OpsRip ==
  ASSUME NEW reg \in 0 .. 15, NEW rm, IsOp(rm), rm.type = "mem", rm.rip, NEW rest \in Seq(Int),
         NEW g, g = gen_ops(reg, rm), NEW t, t = g \o rest
  PROVE  IsFormRip(g, t, rest, reg)
<1> DEFINE m == 64 * 0 + 8 * (reg % 8) + (5 % 8)
           d == LowBytes(0, 4)
           mod == 0
           five == 5
<1>1. gen_mod_rm(0, reg, 5) = <<m>>
  BY DEF gen_mod_rm
<1>2. g = <<m>> \o d
  BY <1>1 DEF gen_ops
<1>3. m \in Int
  OBVIOUS
<1>4. d \in Seq(Int) /\ Len(d) = 4
  <2>1. 0 \in Int32
    BY DEF Int32
  <2>2. 0 \in Nat
    OBVIOUS
  <2> QED BY ONLY <2>1, <2>2, FourHold
<1>5. mod \in 0 .. 3 /\ five \in 0 .. 15 /\ gen_mod_rm(mod, reg, five) = <<m>>
  BY <1>1
<1> HIDE DEF m, d, mod, five
<1>6. g = <<m>> \o << >> \o d /\ <<m>> \in Seq(Int)
  BY <1>2, <1>3, ConcatEmptySeq
<1>7. BodyOf(t, g, m, << >>, d, rest)
  BY <1>3, <1>4, <1>6, BodyBytes DEF IsShort
<1>8. At(t, 1) = m
  BY <1>7 DEF BodyOf
<1>9. ByteSays(t, m, mod, reg, five)
  BY <1>5, <1>8, FirstByte
<1>10. Mod(t) = 0 /\ RegField(t) = reg % 8 /\ RmField(t) = 5
  BY <1>9 DEF ByteSays, mod, five
<1>11. ~Direct(t) /\ RipMode(t) /\ FormLen(t) = 5
  BY <1>10 DEF Direct, RipMode, FormLen, DispAt, DispLen, Sib, Flag
<1>12. g \in Seq(Int) /\ t \in Seq(Int) /\ Len(g) = 5 /\ Len(t) = Len(g) + Len(rest)
  BY <1>4, <1>7, Empties DEF BodyOf
<1> QED BY <1>10, <1>11, <1>12 DEF IsFormRip

IsFormMem(g, t, rest, reg, x, b, address) ==
  /\ g \in Seq(Int) /\ t \in Seq(Int)
  /\ Len(t) = FormLen(t) + Len(rest) /\ FormLen(t) = Len(g) /\ Len(g) \in Nat \ {0}
  /\ RegField(t) = reg % 8 /\ ~Direct(t) /\ ~RipMode(t)
  /\ Address(t, x, b) = address

(* A base alone. *)
LEMMA BaseForm ==
  ASSUME NEW reg \in 0 .. 15, NEW base \in 0 .. 15, base % 8 # 4, NEW disp \in Int32,
         NEW rest \in Seq(Int), NEW mod, mod = mod_mem(disp, base),
         NEW g, g = gen_mod_rm(mod, reg, base) \o << >> \o gen_disp(mod, disp),
         NEW t, t = g \o rest, NEW x
  PROVE  IsFormMem(g, t, rest, reg, x, 8 * (base \div 8), Mem(base, << >>, 1, disp))
<1> DEFINE m == 64 * mod + 8 * (reg % 8) + (base % 8)
           d == gen_disp(mod, disp)
<1>1. DispHolds(mod, d, t, 1, disp, base)
  <2> DEFINE k == 1
  <2>1. k \in Nat
    OBVIOUS
  <2> HIDE DEF k, d
  <2>2. DispHolds(mod, d, t, k, disp, base)
    BY <2>1, DispSays DEF d
  <2> QED BY <2>2 DEF k
<1>2. mod \in 0 .. 2 /\ d \in Seq(Int) /\ Len(d) = DispLenOf(mod) /\ (mod = 0 => base % 8 # 5)
  BY <1>1 DEF DispHolds
<1>3. gen_mod_rm(mod, reg, base) = <<m>>
  BY DEF gen_mod_rm
<1>4. m \in Int
  BY <1>2
<1> HIDE DEF m, d
<1>5. BodyOf(t, g, m, << >>, d, rest)
  BY <1>2, <1>3, <1>4, BodyBytes DEF IsShort, d
<1>6. At(t, 1) = m /\ \A k \in 1 .. Len(d) : t[1 + k] = d[k]
  BY <1>5, Empties DEF BodyOf
<1>7. ByteSays(t, m, mod, reg, base)
  <2>1. mod \in 0 .. 3
    BY <1>2
  <2> QED BY <1>3, <1>6, <2>1, FirstByte
<1>8. Mod(t) = mod /\ RegField(t) = reg % 8 /\ RmField(t) = base % 8
  BY <1>7 DEF ByteSays
<1>9. ~Direct(t) /\ ~RipMode(t) /\ ~Sib(t)
  BY <1>2, <1>8 DEF Direct, RipMode, Sib
<1>10. ~NoBase(t) /\ DispAt(t) = 2 /\ DispLen(t) = DispLenOf(mod) /\ BaseField(t) = base % 8
  BY <1>2, <1>8, <1>9 DEF NoBase, DispAt, DispLen, DispLenOf, BaseField, Flag
<1>11. DispLenOf(mod) \in Nat
  BY DEF DispLenOf
<1>12. FormLen(t) = 1 + DispLenOf(mod)
  BY <1>9, <1>10, <1>11 DEF FormLen
<1>13. g \in Seq(Int) /\ t \in Seq(Int) /\ Len(g) = 1 + DispLenOf(mod) /\ Len(t) = Len(g) + Len(rest)
  <2>1. Len(<< >>) = 0
    BY Empties
  <2> QED BY <1>2, <1>5, <2>1 DEF BodyOf
<1>14. Signed(t, 2, DispLenOf(mod)) = disp
  <2>1. Signed(t, 1 + 1, DispLenOf(mod)) = disp
    BY <1>1, <1>6 DEF DispHolds
  <2> QED BY <2>1
<1>15. (base % 8) + 8 * (base \div 8) = base
  BY Octal
<1>16. Address(t, x, 8 * (base \div 8)) = Mem(base, << >>, 1, disp)
  BY <1>9, <1>10, <1>14, <1>15 DEF Address
<1> QED BY <1>8, <1>9, <1>11, <1>12, <1>13, <1>16 DEF IsFormMem

(* A byte SIB: its index 4, with no bit of REX, is none.                   *)
LEMMA SibForm ==
  ASSUME NEW reg \in 0 .. 15, NEW base \in 0 .. 15, NEW rm \in 0 .. 15, rm % 8 = 4, NEW disp \in Int32,
         NEW scale \in 0 .. 3, NEW index \in 0 .. 15,
         NEW rest \in Seq(Int), NEW mod, mod = mod_mem(disp, base),
         NEW g, g = gen_mod_rm(mod, reg, rm) \o gen_sib(scale, index, base) \o gen_disp(mod, disp),
         NEW t, t = g \o rest
  PROVE  IsFormMem(g, t, rest, reg, 8 * (index \div 8), 8 * (base \div 8),
                   Mem(base, IF index = 4 THEN << >> ELSE <<index>>,
                       IF index = 4 THEN 1 ELSE 2 ^ scale, disp))
<1> DEFINE m == 64 * mod + 8 * (reg % 8) + (rm % 8)
           s == 64 * scale + 8 * (index % 8) + (base % 8)
           q == gen_sib(scale, index, base)
           d == gen_disp(mod, disp)
           x == 8 * (index \div 8)
           address == Mem(base, IF index = 4 THEN << >> ELSE <<index>>,
                          IF index = 4 THEN 1 ELSE 2 ^ scale, disp)
<1>1. DispHolds(mod, d, t, 2, disp, base)
  <2> DEFINE k == 2
  <2>1. k \in Nat
    OBVIOUS
  <2> HIDE DEF k, d
  <2>2. DispHolds(mod, d, t, k, disp, base)
    BY <2>1, DispSays DEF d
  <2> QED BY <2>2 DEF k
<1>2. mod \in 0 .. 2 /\ d \in Seq(Int) /\ Len(d) = DispLenOf(mod) /\ (mod = 0 => base % 8 # 5)
  BY <1>1 DEF DispHolds
<1>3. gen_mod_rm(mod, reg, rm) = <<m>> /\ q = <<s>>
  BY DEF gen_mod_rm, gen_sib
<1>4. m \in Int /\ s \in Int
  BY <1>2
<1>5. s \in 0 .. 255 /\ s \div 64 = scale /\ (s \div 8) % 8 = index % 8 /\ s % 8 = base % 8
  <2> DEFINE u == index % 8
             v == base % 8
  <2>1. u \in 0 .. 7 /\ v \in 0 .. 7 /\ s = 64 * scale + 8 * u + v
    BY Octal
  <2> HIDE DEF u, v, s
  <2>2. HasFields(s, scale, u, v)
    BY <2>1, Fields
  <2> QED BY <2>2 DEF u, v, HasFields
<1> HIDE DEF m, s, d, q, address
<1>6. g = <<m>> \o q \o d /\ IsShort(q) /\ q # << >> /\ q[1] = s
  <2>1. g = <<m>> \o q \o d
    BY <1>3 DEF q, d
  <2>2. <<s>> # << >> /\ <<s>>[1] = s
    OBVIOUS
  <2> QED BY <1>3, <1>4, <2>1, <2>2 DEF IsShort
<1>7. BodyOf(t, g, m, q, d, rest)
  BY <1>2, <1>4, <1>6, BodyBytes
<1>8. Len(q) = 1
  BY <1>6, <1>7 DEF BodyOf
<1>9. At(t, 1) = m /\ At(t, 2) = s /\ \A k \in 1 .. Len(d) : t[2 + k] = d[k]
  <2> DEFINE n == Len(q)
  <2>1. At(t, 1) = m /\ At(t, 2) = s /\ \A k \in 1 .. Len(d) : t[1 + n + k] = d[k]
    BY <1>6, <1>7 DEF BodyOf
  <2>2. n = 1
    BY <1>8
  <2> HIDE DEF n
  <2>3. 1 + n = 2
    BY <2>2
  <2> QED BY ONLY <2>1, <2>3
<1>10. ByteSays(t, m, mod, reg, rm)
  <2>1. mod \in 0 .. 3
    BY <1>2
  <2> QED BY <1>3, <1>9, <2>1, FirstByte
<1>11. Mod(t) = mod /\ RegField(t) = reg % 8 /\ RmField(t) = 4
  BY <1>10 DEF ByteSays
<1>12. ~Direct(t) /\ ~RipMode(t) /\ Sib(t)
  BY <1>2, <1>11 DEF Direct, RipMode, Sib
<1>13. BaseField(t) = base % 8 /\ IndexField(t) = index % 8 /\ ScaleField(t) = scale
  BY <1>5, <1>9, <1>12 DEF BaseField, IndexField, ScaleField
<1>14. ~NoBase(t)
  BY <1>2, <1>11, <1>13 DEF NoBase
<1>15. DispAt(t) = 3 /\ DispLen(t) = DispLenOf(mod)
  BY <1>2, <1>11, <1>12, <1>14 DEF DispAt, DispLen, DispLenOf, Flag
<1>16. DispLenOf(mod) \in Nat
  BY DEF DispLenOf
<1>17. FormLen(t) = 2 + DispLenOf(mod)
  BY <1>12, <1>15, <1>16 DEF FormLen
<1>18. g \in Seq(Int) /\ t \in Seq(Int) /\ Len(g) = 2 + DispLenOf(mod) /\ Len(t) = Len(g) + Len(rest)
  <2> DEFINE n == Len(q)
  <2>1. g \in Seq(Int) /\ t \in Seq(Int) /\ Len(g) = 1 + n + DispLenOf(mod) /\ Len(t) = Len(g) + Len(rest)
    BY <1>2, <1>7 DEF BodyOf
  <2>2. n = 1
    BY <1>8
  <2> HIDE DEF n
  <2> QED BY <2>1, <2>2, <1>16
<1>19. Signed(t, 3, DispLenOf(mod)) = disp
  <2>1. Signed(t, 2 + 1, DispLenOf(mod)) = disp
    BY <1>1, <1>9 DEF DispHolds
  <2> QED BY <2>1
<1>20. (base % 8) + 8 * (base \div 8) = base /\ (index % 8) + x = index
  BY Octal
<1>21. Address(t, x, 8 * (base \div 8)) = address
  BY <1>12, <1>13, <1>14, <1>15, <1>19, <1>20 DEF Address, address
<1> HIDE DEF x
<1>22. IsFormMem(g, t, rest, reg, x, 8 * (base \div 8), address)
  <2>1. FormLen(t) = Len(g) /\ Len(g) \in Nat \ {0} /\ Len(t) = FormLen(t) + Len(rest)
    BY <1>16, <1>17, <1>18
  <2> QED BY <1>11, <1>12, <1>18, <1>21, <2>1 DEF IsFormMem, x
<1> QED BY <1>22 DEF address, x

(* What a parsed operand in memory means.                                  *)
IsMemory(rm) ==
  /\ rm.type = "mem" /\ ~rm.rip
  /\ rm.sib => rm.index # SP
  /\ ~rm.sib => rm.index = 0

AddressOf(rm) ==
  Mem(rm.base, IF rm.sib THEN <<rm.index>> ELSE << >>, IF rm.sib THEN 2 ^ rm.scale ELSE 1, rm.disp)

LEMMA OpsMem ==
  ASSUME NEW reg \in 0 .. 15, NEW rm, IsOp(rm), IsMemory(rm), NEW rest \in Seq(Int),
         NEW g, g = gen_ops(reg, rm), NEW t, t = g \o rest
  PROVE  IsFormMem(g, t, rest, reg, 8 * (rm.index \div 8), 8 * (rm.base \div 8), AddressOf(rm))
<1> DEFINE mod == mod_mem(rm.disp, rm.base)
           base == rm.base
           index == rm.index
           disp == rm.disp
<1>1. base \in 0 .. 15 /\ index \in 0 .. 15 /\ disp \in Int32 /\ rm.scale \in 0 .. 3
  BY DEF IsOp
<1>2. g = (IF rm.sib THEN gen_mod_rm(mod, reg, 4) \o gen_sib(rm.scale, index, base)
           ELSE gen_mod_rm(mod, reg, base)
                \o (IF base \in {SP, R12} THEN gen_sib(0, 4, base) ELSE << >>))
          \o gen_disp(mod, disp)
  BY DEF gen_ops, IsMemory
<1>3. CASE rm.sib
  <2> DEFINE four == 4
  <2>1. four \in 0 .. 15 /\ four % 8 = 4
    OBVIOUS
  <2>2. g = gen_mod_rm(mod, reg, four) \o gen_sib(rm.scale, index, base) \o gen_disp(mod, disp)
    BY <1>2, <1>3
  <2> HIDE DEF mod, four, base, index, disp
  <2>3. IsFormMem(g, t, rest, reg, 8 * (index \div 8), 8 * (base \div 8),
                  Mem(base, IF index = 4 THEN << >> ELSE <<index>>,
                       IF index = 4 THEN 1 ELSE 2 ^ rm.scale, disp))
    BY <1>1, <2>1, <2>2, SibForm DEF mod, base, disp
  <2>4. index # 4
    BY <1>3 DEF IsMemory, SP, index
  <2>5. Mem(base, IF index = 4 THEN << >> ELSE <<index>>, IF index = 4 THEN 1 ELSE 2 ^ rm.scale, disp)
          = AddressOf(rm)
    BY <1>3, <2>4 DEF AddressOf, base, index, disp
  <2> QED BY <2>3, <2>5 DEF base, index
<1>4. CASE ~rm.sib /\ base \in {SP, R12}
  <2> DEFINE four == 4
             zero == 0
  <2>1. four \in 0 .. 15 /\ base % 8 = 4 /\ zero \in 0 .. 3
    BY <1>4 DEF SP, R12
  <2>2. g = gen_mod_rm(mod, reg, base) \o gen_sib(zero, four, base) \o gen_disp(mod, disp)
    BY <1>2, <1>4
  <2> HIDE DEF mod, four, zero, base, disp
  <2>3. IsFormMem(g, t, rest, reg, 8 * (four \div 8), 8 * (base \div 8),
                  Mem(base, IF four = 4 THEN << >> ELSE <<four>>,
                       IF four = 4 THEN 1 ELSE 2 ^ zero, disp))
    BY <1>1, <2>1, <2>2, SibForm DEF mod, base, disp
  <2>4. 8 * (four \div 8) = 8 * (index \div 8)
    BY <1>4 DEF IsMemory, four
  <2>5. Mem(base, IF four = 4 THEN << >> ELSE <<four>>, IF four = 4 THEN 1 ELSE 2 ^ zero, disp)
          = AddressOf(rm)
    BY <1>4 DEF AddressOf, base, disp, four
  <2> QED BY <2>3, <2>4, <2>5 DEF base
<1>5. CASE ~rm.sib /\ base \notin {SP, R12}
  <2>1. base % 8 # 4
    BY <1>1, <1>5, SMTT(40) DEF SP, R12
  <2>2. g = gen_mod_rm(mod, reg, base) \o << >> \o gen_disp(mod, disp)
    BY <1>2, <1>5
  <2> HIDE DEF mod, base, disp
  <2>3. IsFormMem(g, t, rest, reg, 8 * (index \div 8), 8 * (base \div 8), Mem(base, << >>, 1, disp))
    BY <1>1, <2>1, <2>2, BaseForm DEF mod, base, disp
  <2>4. Mem(base, << >>, 1, disp) = AddressOf(rm)
    BY <1>5 DEF AddressOf, base, disp
  <2> QED BY <2>3, <2>4 DEF base
<1> QED BY <1>3, <1>4, <1>5 DEF IsMemory

-----------------------------------------------------------------------------
(* The bytes of an instruction, as the decoder sees them. *)
IsRm(rm) == IsOp(rm) /\ (rm.type = "reg" \/ (rm.type = "mem" /\ rm.rip) \/ IsMemory(rm))

RmOperand(rm, size, rex, k) ==
  IF rm.type = "reg" THEN Named(size, rm.regcode, rex)
  ELSE IF rm.rip THEN Sym("rip", Relocated(k)) ELSE AddressOf(rm)

(* The body that gen_ops makes. *)
IsForm(g, t, rest, reg, rm, b) ==
  /\ g \in Seq(Int) /\ t \in Seq(Int)
  /\ Len(t) = FormLen(t) + Len(rest) /\ FormLen(t) = Len(g) /\ Len(g) \in Nat \ {0}
  /\ RegField(t) = reg % 8
  /\ (Body(b) = t /\ X(b) = 8 * (rm.index \div 8) /\ B(b) = 8 * (RmBase(rm) \div 8)) =>
       \A size : RM(b, size) = RmOperand(rm, size, HasRex(b), HeadLen(b) + 2)

LEMMA OpsForm ==
  ASSUME NEW reg \in 0 .. 15, NEW rm, IsRm(rm), NEW rest \in Seq(Int),
         NEW g, g = gen_ops(reg, rm), NEW t, t = g \o rest, NEW b
  PROVE  IsForm(g, t, rest, reg, rm, b)
<1>0. IsOp(rm)
  BY DEF IsRm
<1>1. CASE rm.type = "reg"
  <2>1. IsFormReg(g, t, rest, reg, rm.regcode)
    BY <1>0, <1>1, OpsReg
  <2>2. rm.regcode \in 0 .. 15
    BY <1>0 DEF IsOp
  <2>3. (rm.regcode % 8) + 8 * (rm.regcode \div 8) = rm.regcode
    BY <2>2, Octal, SMTT(40)
  <2>4. ASSUME Body(b) = t, B(b) = 8 * (RmBase(rm) \div 8), NEW size
        PROVE  RM(b, size) = RmOperand(rm, size, HasRex(b), HeadLen(b) + 2)
    <3>1. Direct(t) /\ RmField(t) + B(b) = rm.regcode
      BY <1>1, <2>1, <2>3, <2>4 DEF IsFormReg, RmBase
    <3> QED BY <1>1, <2>4, <3>1 DEF RM, RmOperand
  <2> QED BY <2>1, <2>4 DEF IsForm, IsFormReg
<1>2. CASE rm.type = "mem" /\ rm.rip
  <2>1. IsFormRip(g, t, rest, reg)
    BY <1>0, <1>2, OpsRip
  <2>2. ASSUME Body(b) = t, NEW size
        PROVE  RM(b, size) = RmOperand(rm, size, HasRex(b), HeadLen(b) + 2)
    BY <1>2, <2>1, <2>2 DEF RM, RmOperand, IsFormRip
  <2> QED BY <2>1, <2>2 DEF IsForm, IsFormRip
<1>3. CASE IsMemory(rm)
  <2> DEFINE x == 8 * (rm.index \div 8)
             y == 8 * (rm.base \div 8)
  <2>1. IsFormMem(g, t, rest, reg, x, y, AddressOf(rm))
    BY <1>0, <1>3, OpsMem
  <2>2. rm.type = "mem" /\ ~rm.rip /\ RmBase(rm) = rm.base
    BY <1>3 DEF IsMemory, RmBase
  <2>3. ASSUME Body(b) = t, X(b) = x, B(b) = 8 * (RmBase(rm) \div 8), NEW size
        PROVE  RM(b, size) = RmOperand(rm, size, HasRex(b), HeadLen(b) + 2)
    <3>1. B(b) = y
      BY <2>2, <2>3
    <3> HIDE DEF x, y
    <3>2. ~Direct(t) /\ ~RipMode(t) /\ Address(t, X(b), B(b)) = AddressOf(rm)
      BY <2>1, <2>3, <3>1 DEF IsFormMem
    <3> QED BY <2>2, <2>3, <3>2 DEF RM, RmOperand
  <2> HIDE DEF y
  <2> QED BY <2>1, <2>3 DEF IsForm, IsFormMem
<1> QED BY <1>1, <1>2, <1>3 DEF IsRm

InstrHolds(b, size, opcode, reg, rm, required, imm) ==
  /\ b \in Seq(Int)
  /\ HeadLen(b) \in Nat \ {0} /\ FormLen(Body(b)) \in Nat \ {0}
  /\ Len(b) = HeadLen(b) + FormLen(Body(b)) + Len(imm)
  /\ Opcode(b) = Number(opcode)
  /\ Word(b) <=> size = WORD
  /\ W(b) = 1 <=> size = QUAD
  /\ required => HasRex(b)
  /\ RegField(Body(b)) = reg % 8
  /\ \A s : InReg(b, s) = Named(s, reg, HasRex(b))
  /\ \A s : RM(b, s) = RmOperand(rm, s, HasRex(b), HeadLen(b) + 2)
  /\ SubSeq(b, Len(b) - Len(imm) + 1, Len(b)) = imm

RefersTo(c, rm) ==
  c.refs = IF rm.rip THEN {[offset |-> HeadLen(c.bytes) + 1, ident |-> rm.ident]} ELSE {}

LEMMA InstrBytes ==
  ASSUME NEW size \in 0 .. 3, NEW opcode, IsOpcode(opcode), NEW reg \in 0 .. 15, NEW rm, IsRm(rm),
         NEW required \in BOOLEAN, NEW imm \in Seq(Int), NEW c,
         c = Instr(size, opcode, reg, rm, required, imm)
  PROVE  InstrHolds(c.bytes, size, opcode, reg, rm, required, imm) /\ RefersTo(c, rm)
<1> DEFINE h == InstrHead(size, opcode, reg, rm, required)
           g == gen_ops(reg, rm)
           t == g \o imm
           b == h \o t
<1>0. IsOp(rm)
  BY DEF IsRm
<1>1. IsForm(g, t, imm, reg, rm, b)
  <2> HIDE DEF b
  <2> QED BY OpsForm
<1>2. g \in Seq(Int) /\ t \in Seq(Int)
  BY <1>1 DEF IsForm
<1>3. HeadHolds(b, h, size, opcode, reg, rm, required, t)
  <2> HIDE DEF t
  <2> QED BY <1>0, <1>2, InstrHeadDecoded
<1>4. h \in Seq(Int)
  BY <1>3 DEF HeadHolds
<1>5. c.bytes = h \o g \o imm
  BY DEF Instr, Code
<1>6. c.refs = IF rm.rip THEN {[offset |-> Len(h) + 1, ident |-> rm.ident]} ELSE {}
  BY DEF Instr, Code
<1> HIDE DEF h, g
<1>7. c.bytes = b
  BY <1>2, <1>4, <1>5, ConcatAssociative, SMTT(40)
<1>8. h \o g \in Seq(Int) /\ (h \o g) \o imm = b
  <2>1. h \o g \in Seq(Int)
    BY <1>2, <1>4, Joined
  <2> QED BY <1>5, <1>7, <2>1
<1>9. b \in Seq(Int) /\ Len(b) = Len(h \o g) + Len(imm) /\ Len(h \o g) \in Nat /\ Len(imm) \in Nat
  BY ONLY <1>8, imm \in Seq(Int), Joined
<1>10. SubSeq(b, Len(h \o g) + 1, Len(b)) = imm
  BY ONLY <1>8, imm \in Seq(Int), AfterJoined
<1>11. SubSeq(b, Len(b) - Len(imm) + 1, Len(b)) = imm
  <2>1. Len(b) - Len(imm) + 1 = Len(h \o g) + 1
    BY <1>9
  <2> QED BY <1>10, <2>1
<1> HIDE DEF b, t
<1>12. /\ HeadLen(b) \in Nat \ {0} /\ HeadLen(b) = Len(h) /\ FormLen(Body(b)) \in Nat \ {0}
       /\ Len(b) = HeadLen(b) + FormLen(Body(b)) + Len(imm)
  <2>1. /\ Body(b) = t /\ Len(t) = FormLen(t) + Len(imm) /\ FormLen(t) \in Nat \ {0}
        /\ Len(b) = HeadLen(b) + Len(t) /\ HeadLen(b) \in Nat \ {0} /\ HeadLen(b) = Len(h)
    BY <1>1, <1>3 DEF IsForm, HeadHolds
  <2> DEFINE n == FormLen(t)
             l == HeadLen(b)
             m == Len(imm)
  <2>2. n \in Nat \ {0} /\ l \in Nat /\ m \in Nat /\ Len(b) = l + (n + m) /\ FormLen(Body(b)) = n
    BY <1>9, <2>1
  <2> HIDE DEF n, l, m
  <2>3. Len(b) = l + n + m
    BY ONLY <2>2
  <2> QED BY ONLY <2>1, <2>2, <2>3 DEF l, m
<1>13. ASSUME NEW s PROVE InReg(b, s) = Named(s, reg, HasRex(b))
  <2>1. RegField(Body(b)) = reg % 8 /\ R(b) = 8 * (reg \div 8)
    BY <1>1, <1>3 DEF IsForm, HeadHolds
  <2>2. (reg % 8) + 8 * (reg \div 8) = reg
    BY Octal
  <2> QED BY <2>1, <2>2 DEF InReg
<1>14. \A s : RM(b, s) = RmOperand(rm, s, HasRex(b), HeadLen(b) + 2)
  BY <1>1, <1>3 DEF IsForm, HeadHolds
<1>15. /\ Opcode(b) = Number(opcode) /\ (Word(b) <=> size = WORD) /\ (W(b) = 1 <=> size = QUAD)
       /\ required => HasRex(b)
       /\ RegField(Body(b)) = reg % 8
  BY <1>1, <1>3 DEF IsForm, HeadHolds
<1>16. InstrHolds(b, size, opcode, reg, rm, required, imm)
  BY <1>9, <1>11, <1>12, <1>13, <1>14, <1>15 DEF InstrHolds
<1> QED BY <1>6, <1>7, <1>12, <1>16 DEF RefersTo

-----------------------------------------------------------------------------
(* What a parsed operand p denotes, the operand o being what was written. *)
Shows(p, o) ==
  /\ IsOp(p)
  /\ p.type = "reg" => ~p.rip /\ o.kind = "reg" /\ Denotes(o) = Reg(p.regtype, p.regcode)
  /\ p.type = "mem" /\ p.rip => Denotes(o) = Sym("rip", p.ident)
  /\ p.type = "mem" /\ ~p.rip => IsMemory(p) /\ Denotes(o) = AddressOf(p)
  /\ p.type = "sym" => Denotes(o) = Sym("sym", p.ident)
  /\ p.type = "imm" =>
       /\ o.kind = "imm" /\ o.imm \in [1 .. 8 -> 0 .. 255] /\ p.imm = SubSeq(o.imm, 1, 4)
       /\ Denotes(o) = Num(SubSeq(o.imm, 1, 2 ^ Size))

LEMMA Shown ==
  ASSUME NEW o \in Operand, o.kind = "mem" => memory_ok(o), NEW p, p = parse_op(o)
  PROVE  Shows(p, o)
<1>0. IsOp(p)
  BY ParsedType
<1>1. CASE o.kind = "reg"
  <2>1. /\ p.type = "reg" /\ ~p.rip /\ p.regtype = o.reg.size /\ p.regcode = o.reg.code
    BY <1>1, ParsedReg
  <2>2. Denotes(o) = Reg(o.reg.size, o.reg.code)
    BY <1>1 DEF Denotes
  <2> QED BY <1>0, <1>1, <2>1, <2>2 DEF Shows
<1>2. CASE o.kind = "mem" /\ o.index = << >>
  <2>1. /\ p.type = "mem" /\ ~p.rip /\ ~p.sib /\ p.index = 0
        /\ p.base = o.base.code /\ p.disp = o.disp
    BY <1>2, ParsedMem
  <2>2. Denotes(o) = Mem(o.base.code, [i \in DOMAIN o.index |-> o.index[i].code], 1, o.disp)
    BY <1>2 DEF Denotes
  <2>3. [i \in DOMAIN o.index |-> o.index[i].code] = << >>
    BY <1>2
  <2>4. IsMemory(p) /\ Denotes(o) = AddressOf(p)
    BY <2>1, <2>2, <2>3 DEF IsMemory, AddressOf
  <2> QED BY <1>0, <2>1, <2>4 DEF Shows
<1>3. CASE o.kind = "mem" /\ o.index # << >>
  <2>1. /\ p.type = "mem" /\ ~p.rip /\ p.sib
        /\ p.index = o.index[1].code /\ p.scale = ScaleOf(o.scale)
        /\ p.base = o.base.code /\ p.disp = o.disp
    BY <1>3, ParsedSib
  <2>2. PICK r \in Register : o.index = <<r>>
    BY <1>3, OperandCases
  <2>3. Denotes(o) = Mem(o.base.code, [i \in DOMAIN o.index |-> o.index[i].code],
                         IF o.scale = None THEN 1 ELSE o.scale, o.disp)
    BY <1>3 DEF Denotes
  <2>4. [i \in DOMAIN o.index |-> o.index[i].code] = <<r.code>>
    BY <2>2
  <2>5. p.index # SP /\ o.scale \in {None, 1, 2, 4, 8}
    BY <1>3, <2>1 DEF memory_ok
  <2>6. 2 ^ p.scale = IF o.scale = None THEN 1 ELSE o.scale
    BY <2>1, <2>5, Scales
  <2>7. p.index = r.code
    BY <2>1, <2>2
  <2>8. IsMemory(p) /\ Denotes(o) = AddressOf(p)
    BY <2>1, <2>3, <2>4, <2>5, <2>6, <2>7 DEF IsMemory, AddressOf
  <2> QED BY <1>0, <2>1, <2>8 DEF Shows
<1>4. CASE o.kind = "rip"
  <2>1. p.type = "mem" /\ p.rip /\ p.ident = o.ident
    BY <1>4, ParsedRip
  <2>2. Denotes(o) = Sym("rip", o.ident)
    BY <1>4 DEF Denotes
  <2> QED BY <1>0, <2>1, <2>2 DEF Shows
<1>5. CASE o.kind = "sym"
  <2>1. p.type = "sym" /\ p.ident = o.ident
    BY <1>5, ParsedSym
  <2>2. Denotes(o) = Sym("sym", o.ident)
    BY <1>5 DEF Denotes
  <2> QED BY <1>0, <2>1, <2>2 DEF Shows
<1>6. CASE o.kind = "imm"
  <2>1. p.type = "imm" /\ p.imm = SubSeq(o.imm, 1, 4)
    BY <1>6, ParsedImm
  <2>2. Denotes(o) = Num(SubSeq(o.imm, 1, 2 ^ Size))
    BY <1>6 DEF Denotes
  <2>3. o.imm \in [1 .. 8 -> 0 .. 255]
    BY <1>6, OperandCases
  <2> QED BY <1>0, <1>6, <2>1, <2>2, <2>3 DEF Shows
<1> QED BY <1>1, <1>2, <1>3, <1>4, <1>5, <1>6, OperandCases

LEMMA ShownOps ==
  ASSUME IInv, Addresses, inst.ops = Parsed, NEW i \in DOMAIN written.ops
  PROVE  Shows(inst.ops[i], written.ops[i])
<1>1. written.ops[i] \in Operand /\ (written.ops[i].kind = "mem" => memory_ok(written.ops[i]))
  BY WrittenType DEF Addresses
<1>2. inst.ops[i] = parse_op(written.ops[i])
  BY DEF Parsed
<1> QED BY <1>1, <1>2, Shown

(* A byte register has a name of its own only with REX. *)
Clear(p, size, rex) == p.type = "reg" /\ size = BYTE /\ p.regcode \in 4 .. 7 => rex

LEMMA NamedShows ==
  ASSUME NEW p, NEW o, Shows(p, o), p.type = "reg", NEW rex, Clear(p, p.regtype, rex)
  PROVE  Named(p.regtype, p.regcode, rex) = Denotes(o)
  BY DEF Shows, Clear, Named

LEMMA RmShows ==
  ASSUME NEW p, NEW o, Shows(p, o), p.type \in {"reg", "mem"}, NEW size, NEW rex,
         p.type = "reg" => p.regtype = size, Clear(p, size, rex),
         NEW n \in Nat, p.rip => relocs = {[offset |-> n + 1, ident |-> p.ident]}
  PROVE  IsRm(p) /\ RmOperand(p, size, rex, n + 2) = Denotes(o)
<1>1. CASE p.type = "reg"
  <2>1. Named(size, p.regcode, rex) = Denotes(o)
    BY <1>1, NamedShows
  <2> QED BY <1>1, <2>1 DEF IsRm, RmOperand, Shows
<1>2. CASE p.type = "mem" /\ p.rip
  <2> DEFINE r == [offset |-> n + 1, ident |-> p.ident]
  <2>1. relocs = {r} /\ r.offset = (n + 2) - 1 /\ r.ident = p.ident
    BY <1>2
  <2> HIDE DEF r
  <2>2. Relocated(n + 2) = p.ident
    BY <2>1 DEF Relocated
  <2> QED BY <1>2, <2>2 DEF IsRm, RmOperand, Shows
<1>3. CASE p.type = "mem" /\ ~p.rip
  BY <1>3 DEF IsRm, RmOperand, Shows
<1> QED BY <1>1, <1>2, <1>3

-----------------------------------------------------------------------------
(* The rows of the manual that an opcode and a reg field select. *)
Only(code, digit, row) ==
  /\ row \in Intel /\ row.code = code /\ row.digit \in {None, digit}
  /\ \A r \in Intel : r.code = code /\ r.digit \in {None, digit} => r = row

LEMMA RowFound ==
  ASSUME NEW b, NEW row, Only(Opcode(b), RegField(Body(b)), row), LengthOf(b, row) = Len(b)
  PROVE  Decoded(b) = [op     |-> IF row.op = "cltd" /\ SizeOf(b, row) = QUAD THEN "cqto" ELSE row.op,
                       size   |-> SizeOf(b, row),
                       ops    |-> OperandsOf(b, row),
                       length |-> Len(b)]
<1>1. RowsOf(b) = {row}
  BY DEF Only, RowsOf
<1>2. (CHOOSE r \in RowsOf(b) : TRUE) = row
  BY <1>1
<1> QED BY <1>1, <1>2 DEF Decoded

(* The six rows of an instruction between two operands; of the first three *)
(* there is one less than the opcode, for bytes.                           *)
InTable(o, code, digit, form) ==
  /\ Only(code, digit, Row(o, code, IF form = "imm" THEN digit ELSE None, form, None, None))
  /\ o \in {"mov", "cmp"} =>
       Only(code - 1, digit, Row(o, code - 1, IF form = "imm" THEN digit ELSE None, form, BYTE, None))

LEMMA MovRows ==
  ASSUME NEW digit \in 0 .. 7
  PROVE  InTable("mov", \hC7, 0, "imm") /\ InTable("mov", \h89, digit, "to") /\ InTable("mov", \h8B, digit, "from")
<1>1. InTable("mov", \hC7, 0, "imm")
  BY DEF InTable, Only, Intel, Arithmetic, Pair, Immediate, Group3, Condition, Row, None, BYTE, WORD, LONG, QUAD
<1>2. InTable("mov", \h89, digit, "to")
  BY DEF InTable, Only, Intel, Arithmetic, Pair, Immediate, Group3, Condition, Row, None, BYTE, WORD, LONG, QUAD
<1>3. InTable("mov", \h8B, digit, "from")
  BY DEF InTable, Only, Intel, Arithmetic, Pair, Immediate, Group3, Condition, Row, None, BYTE, WORD, LONG, QUAD
<1> QED BY <1>1, <1>2, <1>3

LEMMA AddRows ==
  ASSUME NEW digit \in 0 .. 7
  PROVE  InTable("add", \h81, 0, "imm") /\ InTable("add", \h01, digit, "to") /\ InTable("add", \h03, digit, "from")
<1>1. InTable("add", \h81, 0, "imm")
  BY DEF InTable, Only, Intel, Arithmetic, Pair, Immediate, Group3, Condition, Row, None, BYTE, WORD, LONG, QUAD
<1>2. InTable("add", \h01, digit, "to")
  BY DEF InTable, Only, Intel, Arithmetic, Pair, Immediate, Group3, Condition, Row, None, BYTE, WORD, LONG, QUAD
<1>3. InTable("add", \h03, digit, "from")
  BY DEF InTable, Only, Intel, Arithmetic, Pair, Immediate, Group3, Condition, Row, None, BYTE, WORD, LONG, QUAD
<1> QED BY <1>1, <1>2, <1>3

LEMMA SubRows ==
  ASSUME NEW digit \in 0 .. 7
  PROVE  InTable("sub", \h81, 5, "imm") /\ InTable("sub", \h29, digit, "to") /\ InTable("sub", \h2B, digit, "from")
<1>1. InTable("sub", \h81, 5, "imm")
  BY DEF InTable, Only, Intel, Arithmetic, Pair, Immediate, Group3, Condition, Row, None, BYTE, WORD, LONG, QUAD
<1>2. InTable("sub", \h29, digit, "to")
  BY DEF InTable, Only, Intel, Arithmetic, Pair, Immediate, Group3, Condition, Row, None, BYTE, WORD, LONG, QUAD
<1>3. InTable("sub", \h2B, digit, "from")
  BY DEF InTable, Only, Intel, Arithmetic, Pair, Immediate, Group3, Condition, Row, None, BYTE, WORD, LONG, QUAD
<1> QED BY <1>1, <1>2, <1>3

LEMMA AndRows ==
  ASSUME NEW digit \in 0 .. 7
  PROVE  InTable("and", \h81, 4, "imm") /\ InTable("and", \h21, digit, "to") /\ InTable("and", \h23, digit, "from")
<1>1. InTable("and", \h81, 4, "imm")
  BY DEF InTable, Only, Intel, Arithmetic, Pair, Immediate, Group3, Condition, Row, None, BYTE, WORD, LONG, QUAD
<1>2. InTable("and", \h21, digit, "to")
  BY DEF InTable, Only, Intel, Arithmetic, Pair, Immediate, Group3, Condition, Row, None, BYTE, WORD, LONG, QUAD
<1>3. InTable("and", \h23, digit, "from")
  BY DEF InTable, Only, Intel, Arithmetic, Pair, Immediate, Group3, Condition, Row, None, BYTE, WORD, LONG, QUAD
<1> QED BY <1>1, <1>2, <1>3

LEMMA XorRows ==
  ASSUME NEW digit \in 0 .. 7
  PROVE  InTable("xor", \h81, 6, "imm") /\ InTable("xor", \h31, digit, "to") /\ InTable("xor", \h33, digit, "from")
<1>1. InTable("xor", \h81, 6, "imm")
  BY DEF InTable, Only, Intel, Arithmetic, Pair, Immediate, Group3, Condition, Row, None, BYTE, WORD, LONG, QUAD
<1>2. InTable("xor", \h31, digit, "to")
  BY DEF InTable, Only, Intel, Arithmetic, Pair, Immediate, Group3, Condition, Row, None, BYTE, WORD, LONG, QUAD
<1>3. InTable("xor", \h33, digit, "from")
  BY DEF InTable, Only, Intel, Arithmetic, Pair, Immediate, Group3, Condition, Row, None, BYTE, WORD, LONG, QUAD
<1> QED BY <1>1, <1>2, <1>3

LEMMA OrRows ==
  ASSUME NEW digit \in 0 .. 7
  PROVE  InTable("or", \h81, 1, "imm") /\ InTable("or", \h09, digit, "to") /\ InTable("or", \h0B, digit, "from")
<1>1. InTable("or", \h81, 1, "imm")
  BY DEF InTable, Only, Intel, Arithmetic, Pair, Immediate, Group3, Condition, Row, None, BYTE, WORD, LONG, QUAD
<1>2. InTable("or", \h09, digit, "to")
  BY DEF InTable, Only, Intel, Arithmetic, Pair, Immediate, Group3, Condition, Row, None, BYTE, WORD, LONG, QUAD
<1>3. InTable("or", \h0B, digit, "from")
  BY DEF InTable, Only, Intel, Arithmetic, Pair, Immediate, Group3, Condition, Row, None, BYTE, WORD, LONG, QUAD
<1> QED BY <1>1, <1>2, <1>3

LEMMA CmpRows ==
  ASSUME NEW digit \in 0 .. 7
  PROVE  InTable("cmp", \h81, 7, "imm") /\ InTable("cmp", \h39, digit, "to") /\ InTable("cmp", \h3B, digit, "from")
<1>1. InTable("cmp", \h81, 7, "imm")
  BY DEF InTable, Only, Intel, Arithmetic, Pair, Immediate, Group3, Condition, Row, None, BYTE, WORD, LONG, QUAD
<1>2. InTable("cmp", \h39, digit, "to")
  BY DEF InTable, Only, Intel, Arithmetic, Pair, Immediate, Group3, Condition, Row, None, BYTE, WORD, LONG, QUAD
<1>3. InTable("cmp", \h3B, digit, "from")
  BY DEF InTable, Only, Intel, Arithmetic, Pair, Immediate, Group3, Condition, Row, None, BYTE, WORD, LONG, QUAD
<1> QED BY <1>1, <1>2, <1>3

(* The other rows. *)
LEMMA ExtensionRows ==
  ASSUME NEW digit \in 0 .. 7
  PROVE  /\ Only(\h0FB6, digit, Row("movzb", \h0FB6, None, "from", None, BYTE))
         /\ Only(\h0FB7, digit, Row("movzw", \h0FB7, None, "from", None, WORD))
         /\ Only(\h0FBE, digit, Row("movsb", \h0FBE, None, "from", None, BYTE))
         /\ Only(\h0FBF, digit, Row("movsw", \h0FBF, None, "from", None, WORD))
         /\ Only(\h63, digit, Row("movsl", \h63, None, "from", None, LONG))
         /\ Only(\h8D, digit, Row("lea", \h8D, None, "from", None, None))
<1>1. Only(\h0FB6, digit, Row("movzb", \h0FB6, None, "from", None, BYTE))
  BY DEF Only, Intel, Arithmetic, Pair, Immediate, Group3, Condition, Row, None, BYTE, WORD, LONG, QUAD
<1>2. Only(\h0FB7, digit, Row("movzw", \h0FB7, None, "from", None, WORD))
  BY DEF Only, Intel, Arithmetic, Pair, Immediate, Group3, Condition, Row, None, BYTE, WORD, LONG, QUAD
<1>3. Only(\h0FBE, digit, Row("movsb", \h0FBE, None, "from", None, BYTE))
  BY DEF Only, Intel, Arithmetic, Pair, Immediate, Group3, Condition, Row, None, BYTE, WORD, LONG, QUAD
<1>4. Only(\h0FBF, digit, Row("movsw", \h0FBF, None, "from", None, WORD))
  BY DEF Only, Intel, Arithmetic, Pair, Immediate, Group3, Condition, Row, None, BYTE, WORD, LONG, QUAD
<1>5. Only(\h63, digit, Row("movsl", \h63, None, "from", None, LONG))
  BY DEF Only, Intel, Arithmetic, Pair, Immediate, Group3, Condition, Row, None, BYTE, WORD, LONG, QUAD
<1>6. Only(\h8D, digit, Row("lea", \h8D, None, "from", None, None))
  BY DEF Only, Intel, Arithmetic, Pair, Immediate, Group3, Condition, Row, None, BYTE, WORD, LONG, QUAD
<1> QED BY <1>1, <1>2, <1>3, <1>4, <1>5, <1>6

LEMMA UnaryRows ==
  /\ Only(\hF7, 2, Row("not", \hF7, 2, "one", None, None))
  /\ Only(\hF7, 3, Row("neg", \hF7, 3, "one", None, None))
  /\ Only(\hF7, 4, Row("mul", \hF7, 4, "one", None, None))
  /\ Only(\hF7, 5, Row("imul", \hF7, 5, "one", None, None))
  /\ Only(\hF7, 6, Row("div", \hF7, 6, "one", None, None))
  /\ Only(\hF7, 7, Row("idiv", \hF7, 7, "one", None, None))
  /\ Only(\hD3, 4, Row("sal", \hD3, 4, "cl", None, None))
  /\ Only(\hD3, 7, Row("sar", \hD3, 7, "cl", None, None))
<1>1. Only(\hF7, 2, Row("not", \hF7, 2, "one", None, None))
  BY DEF Only, Intel, Arithmetic, Pair, Immediate, Group3, Condition, Row, None, BYTE, WORD, LONG, QUAD
<1>2. Only(\hF7, 3, Row("neg", \hF7, 3, "one", None, None))
  BY DEF Only, Intel, Arithmetic, Pair, Immediate, Group3, Condition, Row, None, BYTE, WORD, LONG, QUAD
<1>3. Only(\hF7, 4, Row("mul", \hF7, 4, "one", None, None))
  BY DEF Only, Intel, Arithmetic, Pair, Immediate, Group3, Condition, Row, None, BYTE, WORD, LONG, QUAD
<1>4. Only(\hF7, 5, Row("imul", \hF7, 5, "one", None, None))
  BY DEF Only, Intel, Arithmetic, Pair, Immediate, Group3, Condition, Row, None, BYTE, WORD, LONG, QUAD
<1>5. Only(\hF7, 6, Row("div", \hF7, 6, "one", None, None))
  BY DEF Only, Intel, Arithmetic, Pair, Immediate, Group3, Condition, Row, None, BYTE, WORD, LONG, QUAD
<1>6. Only(\hF7, 7, Row("idiv", \hF7, 7, "one", None, None))
  BY DEF Only, Intel, Arithmetic, Pair, Immediate, Group3, Condition, Row, None, BYTE, WORD, LONG, QUAD
<1>7. Only(\hD3, 4, Row("sal", \hD3, 4, "cl", None, None))
  BY DEF Only, Intel, Arithmetic, Pair, Immediate, Group3, Condition, Row, None, BYTE, WORD, LONG, QUAD
<1>8. Only(\hD3, 7, Row("sar", \hD3, 7, "cl", None, None))
  BY DEF Only, Intel, Arithmetic, Pair, Immediate, Group3, Condition, Row, None, BYTE, WORD, LONG, QUAD
<1> QED BY <1>1, <1>2, <1>3, <1>4, <1>5, <1>6, <1>7, <1>8

LEMMA SetRows ==
  /\ Only(\h0F00 + \h92, 0, Row("setb", \h0F90 + 2, None, "set", BYTE, None))
  /\ Only(\h0F00 + \h94, 0, Row("sete", \h0F90 + 4, None, "set", BYTE, None))
  /\ Only(\h0F00 + \h95, 0, Row("setne", \h0F90 + 5, None, "set", BYTE, None))
  /\ Only(\h0F00 + \h96, 0, Row("setbe", \h0F90 + 6, None, "set", BYTE, None))
  /\ Only(\h0F00 + \h9C, 0, Row("setl", \h0F90 + 12, None, "set", BYTE, None))
  /\ Only(\h0F00 + \h9D, 0, Row("setge", \h0F90 + 13, None, "set", BYTE, None))
  /\ Only(\h0F00 + \h9E, 0, Row("setle", \h0F90 + 14, None, "set", BYTE, None))
  /\ Only(\h0F00 + \h9F, 0, Row("setg", \h0F90 + 15, None, "set", BYTE, None))
<1>1. Only(\h0F00 + \h92, 0, Row("setb", \h0F90 + 2, None, "set", BYTE, None))
  BY DEF Only, Intel, Arithmetic, Pair, Immediate, Group3, Condition, Row, None, BYTE, WORD, LONG, QUAD
<1>2. Only(\h0F00 + \h94, 0, Row("sete", \h0F90 + 4, None, "set", BYTE, None))
  BY DEF Only, Intel, Arithmetic, Pair, Immediate, Group3, Condition, Row, None, BYTE, WORD, LONG, QUAD
<1>3. Only(\h0F00 + \h95, 0, Row("setne", \h0F90 + 5, None, "set", BYTE, None))
  BY DEF Only, Intel, Arithmetic, Pair, Immediate, Group3, Condition, Row, None, BYTE, WORD, LONG, QUAD
<1>4. Only(\h0F00 + \h96, 0, Row("setbe", \h0F90 + 6, None, "set", BYTE, None))
  BY DEF Only, Intel, Arithmetic, Pair, Immediate, Group3, Condition, Row, None, BYTE, WORD, LONG, QUAD
<1>5. Only(\h0F00 + \h9C, 0, Row("setl", \h0F90 + 12, None, "set", BYTE, None))
  BY DEF Only, Intel, Arithmetic, Pair, Immediate, Group3, Condition, Row, None, BYTE, WORD, LONG, QUAD
<1>6. Only(\h0F00 + \h9D, 0, Row("setge", \h0F90 + 13, None, "set", BYTE, None))
  BY DEF Only, Intel, Arithmetic, Pair, Immediate, Group3, Condition, Row, None, BYTE, WORD, LONG, QUAD
<1>7. Only(\h0F00 + \h9E, 0, Row("setle", \h0F90 + 14, None, "set", BYTE, None))
  BY DEF Only, Intel, Arithmetic, Pair, Immediate, Group3, Condition, Row, None, BYTE, WORD, LONG, QUAD
<1>8. Only(\h0F00 + \h9F, 0, Row("setg", \h0F90 + 15, None, "set", BYTE, None))
  BY DEF Only, Intel, Arithmetic, Pair, Immediate, Group3, Condition, Row, None, BYTE, WORD, LONG, QUAD
<1> QED BY <1>1, <1>2, <1>3, <1>4, <1>5, <1>6, <1>7, <1>8

LEMMA StackRows ==
  ASSUME NEW digit \in Int, NEW k \in 0 .. 7
  PROVE  /\ Only(\h50 + k, digit, Row("push", \h50 + k, None, "opcode", QUAD, None))
         /\ Only(\h58 + k, digit, Row("pop", \h58 + k, None, "opcode", QUAD, None))
<1>1. Only(\h50 + k, digit, Row("push", \h50 + k, None, "opcode", QUAD, None))
  BY DEF Only, Intel, Arithmetic, Pair, Immediate, Group3, Condition, Row, None, BYTE, WORD, LONG, QUAD
<1>2. Only(\h58 + k, digit, Row("pop", \h58 + k, None, "opcode", QUAD, None))
  BY DEF Only, Intel, Arithmetic, Pair, Immediate, Group3, Condition, Row, None, BYTE, WORD, LONG, QUAD
<1> QED BY <1>1, <1>2

LEMMA BareRows ==
  ASSUME NEW digit \in Int
  PROVE  /\ Only(\hE9, digit, Row("jmp", \hE9, None, "rel", QUAD, None))
         /\ Only(\hE8, digit, Row("call", \hE8, None, "rel", QUAD, None))
         /\ Only(\h0F84, digit, Row("je", \h0F84, None, "rel", QUAD, None))
         /\ Only(\h0F85, digit, Row("jne", \h0F85, None, "rel", QUAD, None))
         /\ Only(\h99, digit, Row("cltd", \h99, None, "none", None, None))
         /\ Only(\hC9, digit, Row("leave", \hC9, None, "none", QUAD, None))
         /\ Only(\hC3, digit, Row("ret", \hC3, None, "none", QUAD, None))
<1>1. Only(\hE9, digit, Row("jmp", \hE9, None, "rel", QUAD, None))
  BY DEF Only, Intel, Arithmetic, Pair, Immediate, Group3, Condition, Row, None, BYTE, WORD, LONG, QUAD
<1>2. Only(\hE8, digit, Row("call", \hE8, None, "rel", QUAD, None))
  BY DEF Only, Intel, Arithmetic, Pair, Immediate, Group3, Condition, Row, None, BYTE, WORD, LONG, QUAD
<1>3. Only(\h0F84, digit, Row("je", \h0F84, None, "rel", QUAD, None))
  BY DEF Only, Intel, Arithmetic, Pair, Immediate, Group3, Condition, Row, None, BYTE, WORD, LONG, QUAD
<1>4. Only(\h0F85, digit, Row("jne", \h0F85, None, "rel", QUAD, None))
  BY DEF Only, Intel, Arithmetic, Pair, Immediate, Group3, Condition, Row, None, BYTE, WORD, LONG, QUAD
<1>5. Only(\h99, digit, Row("cltd", \h99, None, "none", None, None))
  BY DEF Only, Intel, Arithmetic, Pair, Immediate, Group3, Condition, Row, None, BYTE, WORD, LONG, QUAD
<1>6. Only(\hC9, digit, Row("leave", \hC9, None, "none", QUAD, None))
  BY DEF Only, Intel, Arithmetic, Pair, Immediate, Group3, Condition, Row, None, BYTE, WORD, LONG, QUAD
<1>7. Only(\hC3, digit, Row("ret", \hC3, None, "none", QUAD, None))
  BY DEF Only, Intel, Arithmetic, Pair, Immediate, Group3, Condition, Row, None, BYTE, WORD, LONG, QUAD
<1> QED BY <1>1, <1>2, <1>3, <1>4, <1>5, <1>6, <1>7

-----------------------------------------------------------------------------
(* Instructions that are encoded. *)
Ready == IInv /\ phase = "encoded"

LEMMA ReadyFacts ==
  ASSUME Ready
  PROVE  /\ inst.op = written.op /\ inst.ops = Parsed /\ Addresses
         /\ inst.suffix \in 0 .. 3 /\ Agreed(inst.suffix)
         /\ \A i \in DOMAIN written.ops : Shows(inst.ops[i], written.ops[i])
         /\ DOMAIN inst.ops = DOMAIN written.ops
         /\ Emitted
<1>1. Addresses /\ inst = [op |-> written.op, suffix |-> inst.suffix, ops |-> Parsed]
  BY DEF Ready, IInv
<1>2. inst.op = written.op /\ inst.ops = Parsed
  BY <1>1
<1>3. Agreed(inst.suffix) /\ Emitted
  BY DEF Ready, IInv
<1>4. \A i \in DOMAIN written.ops : Shows(inst.ops[i], written.ops[i])
  BY <1>1, <1>2, ShownOps DEF Ready
<1>5. DOMAIN Parsed = DOMAIN written.ops
  BY ParsedLen DEF Ready
<1> QED BY <1>1, <1>2, <1>3, <1>4, <1>5 DEF Agreed

LEMMA Appended ==
  ASSUME Ready, NEW c, Encoding = c, c.bytes \in Seq(Int)
  PROVE  /\ bin = c.bytes
         /\ \A n \in Nat : \A x : c.refs = {[offset |-> n, ident |-> x]}
                                => relocs = {[offset |-> n, ident |-> x]}
<1>1. bin = << >> \o c.bytes /\ relocs = {[r EXCEPT !.offset = Len(<< >>) + @] : r \in c.refs}
  BY ReadyFacts DEF Emitted
<1>2. bin = c.bytes
  BY <1>1, NoneBefore
<1>3. ASSUME NEW n \in Nat, NEW x, c.refs = {[offset |-> n, ident |-> x]}
      PROVE  relocs = {[offset |-> n, ident |-> x]}
  <2> DEFINE z == Len(<< >>)
  <2>1. z = 0
    BY Empties
  <2> HIDE DEF z
  <2>2. relocs = {[r EXCEPT !.offset = z + @] : r \in {[offset |-> n, ident |-> x]}}
    BY <1>1, <1>3 DEF z
  <2>3. [[offset |-> n, ident |-> x] EXCEPT !.offset = z + @] = [offset |-> n, ident |-> x]
    BY <2>1
  <2> QED BY <2>2, <2>3
<1> QED BY <1>2, <1>3

(* Its bytes, read by the one row that they select. *)
InstrReads(row, size, opcode, reg, rm, required, imm) ==
  /\ InstrHolds(bin, size, opcode, reg, rm, required, imm)
  /\ SizeOf(bin, row) = size
  /\ Decoded(bin) = [op |-> row.op, size |-> size, ops |-> OperandsOf(bin, row), length |-> Len(bin)]
  /\ rm.rip => relocs = {[offset |-> HeadLen(bin) + 1, ident |-> rm.ident]}

LEMMA InstrDecoded ==
  ASSUME Ready, NEW size \in 0 .. 3, NEW opcode, IsOpcode(opcode), NEW reg \in 0 .. 15,
         NEW rm, IsRm(rm), NEW required \in BOOLEAN, NEW imm \in Seq(Int),
         Encoding = Instr(size, opcode, reg, rm, required, imm),
         NEW row, Only(Number(opcode), reg % 8, row), HasModRM(row), row.op # "cltd",
         \/ row.size = None /\ size # BYTE
         \/ row.size = BYTE /\ size = BYTE,
         Len(imm) = ImmLen(row, size)
  PROVE  InstrReads(row, size, opcode, reg, rm, required, imm)
<1> DEFINE c == Instr(size, opcode, reg, rm, required, imm)
<1>0. c = Instr(size, opcode, reg, rm, required, imm) /\ Encoding = c
  OBVIOUS
<1> HIDE DEF c
<1>1. InstrHolds(c.bytes, size, opcode, reg, rm, required, imm) /\ RefersTo(c, rm)
  BY <1>0, InstrBytes
<1>2. c.bytes \in Seq(Int)
  BY <1>1 DEF InstrHolds
<1>3. bin = c.bytes
  BY <1>0, <1>2, Appended
<1>4. InstrHolds(bin, size, opcode, reg, rm, required, imm)
  BY <1>1, <1>3
<1>5. rm.rip => relocs = {[offset |-> HeadLen(bin) + 1, ident |-> rm.ident]}
  <2> SUFFICES ASSUME rm.rip PROVE relocs = {[offset |-> HeadLen(bin) + 1, ident |-> rm.ident]}
    OBVIOUS
  <2> DEFINE n == HeadLen(bin) + 1
  <2>1. HeadLen(bin) \in Nat
    BY <1>4 DEF InstrHolds
  <2>2. c.refs = {[offset |-> n, ident |-> rm.ident]} /\ n \in Nat
    BY <1>1, <1>3, <2>1 DEF RefersTo
  <2> HIDE DEF n
  <2>3. relocs = {[offset |-> n, ident |-> rm.ident]}
    BY <1>0, <1>2, <2>2, Appended
  <2> QED BY <2>3 DEF n
<1>6. SizeOf(bin, row) = size
  <2>1. (Word(bin) <=> size = WORD) /\ (W(bin) = 1 <=> size = QUAD)
    BY <1>4 DEF InstrHolds
  <2> QED BY <2>1 DEF SizeOf, None, BYTE, WORD, LONG, QUAD
<1>7. LengthOf(bin, row) = Len(bin)
  BY <1>4, <1>6 DEF InstrHolds, LengthOf
<1>8. Only(Opcode(bin), RegField(Body(bin)), row)
  BY <1>4 DEF InstrHolds
<1>9. Decoded(bin) = [op |-> row.op, size |-> size, ops |-> OperandsOf(bin, row), length |-> Len(bin)]
  BY <1>6, <1>7, <1>8, RowFound
<1> QED BY <1>4, <1>5, <1>6, <1>9 DEF InstrReads

(* What was written, of one operand and of two. *)
LEMMA OneMeant ==
  ASSUME DOMAIN written.ops = {1}
  PROVE  [i \in DOMAIN written.ops |-> Denotes(written.ops[i])] = <<Denotes(written.ops[1])>>
<1>1. {1} = 1 .. 1
  OBVIOUS
<1> QED BY <1>1

LEMMA TwoMeant ==
  ASSUME DOMAIN written.ops = {1, 2}
  PROVE  [i \in DOMAIN written.ops |-> Denotes(written.ops[i])]
           = <<Denotes(written.ops[1]), Denotes(written.ops[2])>>
<1>1. {1, 2} = 1 .. 2
  OBVIOUS
<1> DEFINE f == [i \in DOMAIN written.ops |-> Denotes(written.ops[i])]
           g == <<Denotes(written.ops[1]), Denotes(written.ops[2])>>
<1>2. DOMAIN f = 1 .. 2 /\ DOMAIN g = 1 .. 2 /\ f[1] = g[1] /\ f[2] = g[2]
  BY <1>1
<1>3. f = [i \in 1 .. 2 |-> f[i]] /\ g = [i \in 1 .. 2 |-> g[i]]
  BY <1>1
<1>4. \A i \in 1 .. 2 : f[i] = g[i]
  BY <1>1, <1>2
<1> HIDE DEF f, g
<1>5. [i \in 1 .. 2 |-> f[i]] = [i \in 1 .. 2 |-> g[i]]
  BY <1>4
<1>6. f = g
  BY <1>3, <1>5
<1> QED BY <1>6 DEF f, g

(* Its operands. *)
LEMMA RmRead ==
  ASSUME NEW row, NEW size, NEW opcode, NEW reg, NEW rm, NEW required, NEW imm,
         InstrReads(row, size, opcode, reg, rm, required, imm),
         NEW o, Shows(rm, o), rm.type \in {"reg", "mem"}, NEW s, rm.type = "reg" => rm.regtype = s,
         Clear(rm, s, required)
  PROVE  RM(bin, s) = Denotes(o)
<1> DEFINE n == HeadLen(bin)
<1>1. InstrHolds(bin, size, opcode, reg, rm, required, imm)
  BY DEF InstrReads
<1>2. /\ n \in Nat /\ (required => HasRex(bin))
      /\ RM(bin, s) = RmOperand(rm, s, HasRex(bin), n + 2)
  BY <1>1 DEF InstrHolds
<1>3. rm.rip => relocs = {[offset |-> n + 1, ident |-> rm.ident]}
  BY DEF InstrReads
<1>4. Clear(rm, s, HasRex(bin))
  BY <1>2 DEF Clear
<1> HIDE DEF n
<1>5. RmOperand(rm, s, HasRex(bin), n + 2) = Denotes(o)
  BY <1>2, <1>3, <1>4, RmShows
<1> QED BY <1>2, <1>5

LEMMA RegRead ==
  ASSUME NEW row, NEW size, NEW opcode, NEW reg, NEW rm, NEW required, NEW imm,
         InstrReads(row, size, opcode, reg, rm, required, imm),
         NEW p, NEW o, Shows(p, o), p.type = "reg", reg = p.regcode, Clear(p, p.regtype, required)
  PROVE  InReg(bin, p.regtype) = Denotes(o)
<1>1. InstrHolds(bin, size, opcode, reg, rm, required, imm)
  BY DEF InstrReads
<1>2. (required => HasRex(bin)) /\ InReg(bin, p.regtype) = Named(p.regtype, reg, HasRex(bin))
  BY <1>1 DEF InstrHolds
<1>3. Clear(p, p.regtype, HasRex(bin))
  BY <1>2 DEF Clear
<1> QED BY <1>2, <1>3, NamedShows

(* The immediate: its lowest bytes, extended if they are fewer than the    *)
(* operand has.                                                            *)
LEMMA LowOfLow ==
  ASSUME NEW bytes \in [1 .. 8 -> 0 .. 255], NEW n \in 1 .. 4
  PROVE  /\ SubSeq(SubSeq(bytes, 1, 4), 1, n) = SubSeq(bytes, 1, n)
         /\ SubSeq(bytes, 1, n) \in Seq(Int) /\ Len(SubSeq(bytes, 1, n)) = n
<1> DEFINE low == SubSeq(bytes, 1, 4)
           a   == SubSeq(low, 1, n)
           b   == SubSeq(bytes, 1, n)
<1>1. low \in [1 .. 4 -> 0 .. 255] /\ \A k \in 1 .. 4 : low[k] = bytes[k]
  BY LowBytesOf
<1> HIDE DEF low
<1>2. (\A k \in 1 .. n : low[k] \in Int) /\ (\A k \in 1 .. n : bytes[k] \in Int)
  BY <1>1
<1>3. 1 \in Int /\ n \in Int /\ 1 <= n /\ n - 1 + 1 = n
  OBVIOUS
<1>4. a \in Seq(Int) /\ Len(a) = n /\ \A k \in 1 .. n : a[k] = low[1 + k - 1]
  BY ONLY <1>2, <1>3, SubSeqProperties
<1>5. b \in Seq(Int) /\ Len(b) = n /\ \A k \in 1 .. n : b[k] = bytes[1 + k - 1]
  BY ONLY <1>2, <1>3, SubSeqProperties
<1>6. \A k \in 1 .. n : a[k] = b[k]
  BY <1>1, <1>4, <1>5
<1> HIDE DEF a, b
<1>7. a = b
  BY <1>4, <1>5, <1>6, SeqEqual
<1> QED BY <1>5, <1>7 DEF a, b, low

LEMMA AllEight ==
  ASSUME NEW bytes \in [1 .. 8 -> 0 .. 255]
  PROVE  SubSeq(bytes, 1, 8) = bytes
<1> DEFINE b == SubSeq(bytes, 1, 8)
           n == 8
<1>1. bytes \in Seq(Int) /\ Len(bytes) = n
  <2>1. bytes \in Seq(0 .. 255)
    BY LowBytesOf
  <2>2. DOMAIN bytes = 1 .. Len(bytes) /\ Len(bytes) \in Nat /\ DOMAIN bytes = 1 .. n /\ n \in Nat
    BY <2>1, LenProperties, ZenonT(60)
  <2>3. bytes \in [1 .. n -> Int]
    OBVIOUS
  <2> HIDE DEF n
  <2>4. Len(bytes) = n
    BY ONLY <2>2, IntervalsEqual
  <2>5. bytes \in Seq(Int)
    BY ONLY <2>2, <2>3, SeqDef
  <2> QED BY <2>4, <2>5
<1>2. \A k \in 1 .. n : bytes[k] \in Int
  OBVIOUS
<1>3. 1 \in Int /\ n \in Int /\ 1 <= n /\ n - 1 + 1 = n
  OBVIOUS
<1>4. b \in Seq(Int) /\ Len(b) = n /\ \A k \in 1 .. n : b[k] = bytes[1 + k - 1]
  BY ONLY <1>2, <1>3, SubSeqProperties
<1>5. \A k \in 1 .. n : b[k] = bytes[k]
  BY <1>4
<1> HIDE DEF b, n
<1>6. b = bytes
  BY <1>1, <1>4, <1>5, SeqEqual
<1> QED BY <1>6 DEF b

ImmSize(size) == IF size = BYTE THEN 1 ELSE IF size = WORD THEN 2 ELSE 4

LEMMA ImmBytes ==
  ASSUME NEW bytes \in [1 .. 8 -> 0 .. 255], NEW size \in 0 .. 3,
         NEW imm, imm = gen_imm(size, SubSeq(bytes, 1, 4))
  PROVE  /\ imm \in Seq(Int) /\ Len(imm) = ImmSize(size)
         /\ imm = SubSeq(bytes, 1, ImmSize(size))
<1> DEFINE n == ImmSize(size)
<1>1. n \in 1 .. 4
  BY DEF ImmSize
<1>2. imm = SubSeq(SubSeq(bytes, 1, 4), 1, n)
  BY DEF gen_imm, ImmSize, BYTE, WORD, LONG, QUAD
<1> HIDE DEF n
<1>3. /\ imm = SubSeq(bytes, 1, n)
      /\ SubSeq(bytes, 1, n) \in Seq(Int) /\ Len(SubSeq(bytes, 1, n)) = n
  BY <1>1, <1>2, LowOfLow
<1> QED BY <1>3 DEF n

LEMMA ImmRead ==
  ASSUME NEW size \in 0 .. 3, NEW p, NEW o, Shows(p, o), p.type = "imm", size = Size,
         size = QUAD => o.imm = Extended(SubSeq(o.imm, 1, 4)),
         NEW imm, imm = gen_imm(size, p.imm)
  PROVE  Num(IF size = QUAD THEN Extended(imm) ELSE imm) = Denotes(o)
<1>1. o.imm \in [1 .. 8 -> 0 .. 255] /\ p.imm = SubSeq(o.imm, 1, 4)
  BY DEF Shows
<1>2. imm = SubSeq(o.imm, 1, ImmSize(size))
  BY <1>1, ImmBytes
<1>3. Denotes(o) = Num(SubSeq(o.imm, 1, 2 ^ size))
  BY DEF Shows
<1>4. 2 ^ 0 = 1 /\ 2 ^ 1 = 2 /\ 2 ^ 2 = 4 /\ 2 ^ 3 = 8
  BY SMT
<1>5. CASE size # QUAD
  <2>1. 2 ^ size = ImmSize(size)
    <3>1. size = 0 \/ size = 1 \/ size = 2
      BY <1>5 DEF QUAD
    <3>2. ImmSize(0) = 1 /\ ImmSize(1) = 2 /\ ImmSize(2) = 4
      BY DEF ImmSize, BYTE, WORD
    <3> QED BY <1>4, <3>1, <3>2
  <2> QED BY <1>2, <1>3, <1>5, <2>1
<1>6. CASE size = QUAD
  <2>1. 2 ^ size = 8 /\ ImmSize(size) = 4
    BY <1>4, <1>6 DEF ImmSize, BYTE, WORD, QUAD
  <2>2. SubSeq(o.imm, 1, 8) = o.imm
    BY <1>1, AllEight
  <2> QED BY <1>2, <1>3, <1>6, <2>1, <2>2
<1> QED BY <1>5, <1>6

(* A row of a table, for the size. *)
SizedRow(o, code, digit, form, size) ==
  Row(o, IF size = BYTE THEN code - 1 ELSE code, IF form = "imm" THEN digit ELSE None, form,
      IF size = BYTE THEN BYTE ELSE None, None)

Plain(code) == code \in 1 .. 255 /\ IsOpcode(<<code>>) /\ IsOpcode(<<code - 1>>)

LEMMA TableRow ==
  ASSUME NEW o, NEW code, NEW digit, NEW form, InTable(o, code, digit, form), Plain(code),
         NEW size, size = BYTE => o \in {"mov", "cmp"}
  PROVE  /\ IsOpcode(Sized(code, size))
         /\ Only(Number(Sized(code, size)), digit, SizedRow(o, code, digit, form, size))
<1>1. \A a \in Int : IsOpcode(<<a>>) => Number(<<a>>) = a
  <2> SUFFICES ASSUME NEW a \in Int, IsOpcode(<<a>>) PROVE Number(<<a>>) = a
    OBVIOUS
  <2>1. <<a>>[1] = a /\ Len(<<a>>) = 1
    BY Singles
  <2>2. ASSUME a = \h0F PROVE FALSE
    <3>1. <<a>>[1] = \h0F => Len(<<a>>) = 2
      BY HeadTypes DEF IsPrefix, IsRex
    <3> QED BY <2>1, <2>2, <3>1
  <2> QED BY <2>1, <2>2 DEF Number
<1>2. CASE size = BYTE
  <2>1. Sized(code, size) = <<code - 1>> /\ code - 1 \in Int
    BY <1>2 DEF Sized, Plain
  <2>2. Number(Sized(code, size)) = code - 1
    BY <1>1, <2>1 DEF Plain
  <2> QED BY <1>2, <2>1, <2>2 DEF InTable, SizedRow, Plain
<1>3. CASE size # BYTE
  <2>1. Sized(code, size) = <<code>> /\ code \in Int
    BY <1>3 DEF Sized, Plain
  <2>2. Number(Sized(code, size)) = code
    BY <1>1, <2>1 DEF Plain
  <2> QED BY <1>3, <2>1, <2>2 DEF InTable, SizedRow, Plain
<1> QED BY <1>2, <1>3

-----------------------------------------------------------------------------
(* Instructions between two operands of one size. *)
TwoShown ==
  /\ DOMAIN written.ops = {1, 2}
  /\ Shows(src, written.ops[1]) /\ Shows(dest, written.ops[2])
  /\ inst.op = written.op /\ inst.suffix \in 0 .. 3
  /\ ~OtherSize => inst.suffix = Size
  /\ src.type = "reg" => src.regtype = Exact(1, inst.suffix)
  /\ dest.type = "reg" => dest.regtype = inst.suffix
  /\ ~(src.type = "mem" /\ dest.type = "mem") /\ dest.type # "imm"

LEMMA ReadyTwo ==
  ASSUME Ready, written.op \in Binary \cup Shifts \cup Extensions \cup {"lea"}
  PROVE  TwoShown
<1> DEFINE s == inst.suffix
<1>1. /\ inst.op = written.op /\ s \in 0 .. 3 /\ Agreed(s)
      /\ \A i \in DOMAIN written.ops : Shows(inst.ops[i], written.ops[i])
  BY ReadyFacts
<1>2. /\ DOMAIN written.ops = {1, 2}
      /\ ~(src.type = "mem" /\ dest.type = "mem") /\ dest.type # "imm"
  BY <1>1 DEF Agreed
<1>3. /\ ~OtherSize => s = Size
      /\ \A i \in DOMAIN written.ops : inst.ops[i].type = "reg" => inst.ops[i].regtype = Exact(i, s)
  BY <1>1 DEF Agreed
<1>4. Exact(2, s) = s
  BY DEF Exact
<1> HIDE DEF s
<1>5. Shows(src, written.ops[1]) /\ Shows(dest, written.ops[2])
  BY <1>1, <1>2 DEF src, dest
<1>6. (src.type = "reg" => src.regtype = Exact(1, s)) /\ (dest.type = "reg" => dest.regtype = s)
  BY <1>2, <1>3, <1>4 DEF src, dest
<1> QED BY <1>1, <1>2, <1>3, <1>5, <1>6 DEF TwoShown, s

LEMMA MeansTwo ==
  ASSUME DOMAIN written.ops = {1, 2},
         Decoded(bin) = [op |-> written.op, size |-> Size,
                         ops |-> <<Denotes(written.ops[1]), Denotes(written.ops[2])>>, length |-> Len(bin)]
  PROVE  Means
  BY TwoMeant DEF Means, Meaning

LEMMA MeansOne ==
  ASSUME DOMAIN written.ops = {1},
         Decoded(bin) = [op |-> written.op, size |-> Size,
                         ops |-> <<Denotes(written.ops[1])>>, length |-> Len(bin)]
  PROVE  Means
  BY OneMeant DEF Means, Meaning

LEMMA ShowsRm ==
  ASSUME NEW p, NEW o, Shows(p, o), p.type \in {"reg", "mem"}
  PROVE  IsRm(p) /\ p.regcode \in 0 .. 15
  BY DEF Shows, IsRm, IsOp

(* From a register. *)
LEMMA StoreMeans ==
  ASSUME Ready, TwoShown, ~OtherSize, NEW s, s = inst.suffix, s = BYTE => written.op \in {"mov", "cmp"},
         Exact(1, s) = s, src.type = "reg", dest.type \in {"reg", "mem"},
         NEW code, \A d \in 0 .. 7 : InTable(written.op, code, d, "to"), Plain(code),
         NEW required \in BOOLEAN, Clear(src, s, required), Clear(dest, s, required),
         Encoding = Instr(s, Sized(code, s), src.regcode, dest, required, << >>),
         written.op # "cltd"
  PROVE  Means
<1> DEFINE reg == src.regcode
           digit == reg % 8
           row == SizedRow(written.op, code, digit, "to", s)
           opcode == Sized(code, s)
<1>1. /\ DOMAIN written.ops = {1, 2} /\ Shows(src, written.ops[1]) /\ Shows(dest, written.ops[2])
      /\ s \in 0 .. 3 /\ s = Size /\ src.regtype = s /\ (dest.type = "reg" => dest.regtype = s)
  BY DEF TwoShown
<1>2. IsRm(dest) /\ reg \in 0 .. 15
  BY <1>1, ShowsRm
<1>3. digit \in 0 .. 7
  BY <1>2, Octal
<1>4. IsOpcode(opcode) /\ Only(Number(opcode), digit, row)
  <2>1. InTable(written.op, code, digit, "to")
    BY <1>3
  <2> HIDE DEF digit
  <2> QED BY <2>1, TableRow
<1>5. /\ row.op = written.op /\ row.form = "to" /\ row.size = IF s = BYTE THEN BYTE ELSE None
      /\ HasModRM(row)
  BY DEF SizedRow, Row, HasModRM
<1>6. << >> \in Seq(Int) /\ Len(<< >>) = ImmLen(row, s)
  BY <1>5, Empties DEF ImmLen
<1>7. Encoding = Instr(s, opcode, reg, dest, required, << >>)
  OBVIOUS
<1> HIDE DEF row, opcode, reg
<1>8. InstrReads(row, s, opcode, reg, dest, required, << >>)
  <2>1. Only(Number(opcode), reg % 8, row)
    BY <1>4
  <2> QED BY <1>1, <1>2, <1>4, <1>5, <1>6, <1>7, <2>1, InstrDecoded
<1>9. RM(bin, s) = Denotes(written.ops[2])
  BY <1>1, <1>8, RmRead
<1>10. InReg(bin, s) = Denotes(written.ops[1])
  <2>1. Clear(src, src.regtype, required)
    BY <1>1
  <2>2. InReg(bin, src.regtype) = Denotes(written.ops[1])
    BY <1>1, <1>8, <2>1, RegRead DEF reg
  <2> QED BY <1>1, <2>2
<1>11. /\ SizeOf(bin, row) = s
       /\ Decoded(bin) = [op |-> row.op, size |-> s, ops |-> OperandsOf(bin, row), length |-> Len(bin)]
  BY <1>8 DEF InstrReads
<1>12. OperandsOf(bin, row) = <<InReg(bin, s), RM(bin, s)>>
  BY <1>5, <1>11 DEF OperandsOf
<1> QED BY <1>1, <1>5, <1>9, <1>10, <1>11, <1>12, MeansTwo

(* To a register, from memory or from a register that may be smaller. *)
LEMMA LoadMeans ==
  ASSUME Ready, TwoShown, ~OtherSize, NEW s, s = inst.suffix,
         src.type \in {"reg", "mem"}, dest.type = "reg",
         NEW row, row.form = "from", row.op = written.op, row.op # "cltd",
         \/ row.size = None /\ s # BYTE
         \/ row.size = BYTE /\ s = BYTE,
         NEW f, f = IF row.from = None THEN s ELSE row.from, src.type = "reg" => src.regtype = f,
         NEW opcode, IsOpcode(opcode), \A d \in 0 .. 7 : Only(Number(opcode), d, row),
         NEW required \in BOOLEAN, Clear(src, f, required), Clear(dest, s, required),
         Encoding = Instr(s, opcode, dest.regcode, src, required, << >>)
  PROVE  Means
<1> DEFINE reg == dest.regcode
           digit == reg % 8
<1>1. /\ DOMAIN written.ops = {1, 2} /\ Shows(src, written.ops[1]) /\ Shows(dest, written.ops[2])
      /\ s \in 0 .. 3 /\ s = Size /\ dest.regtype = s
  BY DEF TwoShown
<1>2. IsRm(src) /\ reg \in 0 .. 15
  BY <1>1, ShowsRm
<1>3. digit \in 0 .. 7
  BY <1>2, Octal
<1>4. Only(Number(opcode), digit, row)
  BY <1>3
<1>5. HasModRM(row)
  BY DEF HasModRM
<1>6. << >> \in Seq(Int) /\ Len(<< >>) = ImmLen(row, s)
  BY Empties DEF ImmLen
<1>7. Encoding = Instr(s, opcode, reg, src, required, << >>)
  OBVIOUS
<1> HIDE DEF reg
<1>8. InstrReads(row, s, opcode, reg, src, required, << >>)
  <2>1. Only(Number(opcode), reg % 8, row)
    BY <1>4
  <2> QED BY <1>1, <1>2, <1>5, <1>6, <1>7, <2>1, InstrDecoded
<1>9. RM(bin, f) = Denotes(written.ops[1])
  BY <1>1, <1>8, RmRead
<1>10. InReg(bin, s) = Denotes(written.ops[2])
  <2>1. Clear(dest, dest.regtype, required)
    BY <1>1
  <2>2. InReg(bin, dest.regtype) = Denotes(written.ops[2])
    BY <1>1, <1>8, <2>1, RegRead DEF reg
  <2> QED BY <1>1, <2>2
<1>11. /\ SizeOf(bin, row) = s
       /\ Decoded(bin) = [op |-> row.op, size |-> s, ops |-> OperandsOf(bin, row), length |-> Len(bin)]
  BY <1>8 DEF InstrReads
<1>12. OperandsOf(bin, row) = <<RM(bin, f), InReg(bin, s)>>
  BY <1>11 DEF OperandsOf
<1> QED BY <1>1, <1>9, <1>10, <1>11, <1>12, MeansTwo

(* An immediate. *)
LEMMA ImmediateMeans ==
  ASSUME Ready, TwoShown, ~OtherSize, ~LargeImmediate,
         NEW s, s = inst.suffix, s = BYTE => written.op \in {"mov", "cmp"},
         src.type = "imm", dest.type \in {"reg", "mem"},
         NEW code, NEW digit \in 0 .. 7, InTable(written.op, code, digit, "imm"), Plain(code),
         NEW required \in BOOLEAN, Clear(dest, s, required),
         Encoding = Instr(s, Sized(code, s), digit, dest, required, Imm(s)),
         written.op # "cltd"
  PROVE  Means
<1> DEFINE row == SizedRow(written.op, code, digit, "imm", s)
           opcode == Sized(code, s)
           imm == Imm(s)
<1>1. /\ DOMAIN written.ops = {1, 2} /\ Shows(src, written.ops[1]) /\ Shows(dest, written.ops[2])
      /\ s \in 0 .. 3 /\ s = Size /\ (dest.type = "reg" => dest.regtype = s)
  BY DEF TwoShown
<1>2. IsRm(dest)
  BY <1>1, ShowsRm
<1>3. IsOpcode(opcode) /\ Only(Number(opcode), digit, row)
  BY TableRow
<1>4. digit % 8 = digit /\ digit \in 0 .. 15
  OBVIOUS
<1>5. /\ row.op = written.op /\ row.form = "imm" /\ row.size = IF s = BYTE THEN BYTE ELSE None
      /\ HasModRM(row)
  BY DEF SizedRow, Row, HasModRM
<1>6. /\ written.ops[1].kind = "imm"
      /\ written.ops[1].imm \in [1 .. 8 -> 0 .. 255]
      /\ src.imm = SubSeq(written.ops[1].imm, 1, 4)
  BY <1>1 DEF Shows
<1>7. imm = gen_imm(s, src.imm)
  BY DEF Imm
<1>8. imm \in Seq(Int) /\ Len(imm) = ImmSize(s)
  BY <1>1, <1>6, <1>7, ImmBytes
<1>9. s = QUAD => written.ops[1].imm = Extended(SubSeq(written.ops[1].imm, 1, 4))
  BY <1>1, <1>6 DEF LargeImmediate
<1>10. Encoding = Instr(s, opcode, digit, dest, required, imm)
  OBVIOUS
<1> HIDE DEF row, opcode, imm
<1>11. ImmLen(row, s) = ImmSize(s)
  BY <1>5 DEF ImmLen, ImmSize
<1>12. InstrReads(row, s, opcode, digit, dest, required, imm)
  <2>1. Only(Number(opcode), digit % 8, row) /\ Len(imm) = ImmLen(row, s)
    BY <1>3, <1>4, <1>8, <1>11
  <2> QED BY <1>1, <1>2, <1>3, <1>4, <1>5, <1>8, <1>10, <2>1, InstrDecoded
<1>13. RM(bin, s) = Denotes(written.ops[2])
  BY <1>1, <1>12, RmRead
<1>14. /\ SizeOf(bin, row) = s
       /\ Decoded(bin) = [op |-> row.op, size |-> s, ops |-> OperandsOf(bin, row), length |-> Len(bin)]
  BY <1>12 DEF InstrReads
<1>15. SubSeq(bin, Len(bin) - ImmLen(row, s) + 1, Len(bin)) = imm
  <2>1. SubSeq(bin, Len(bin) - Len(imm) + 1, Len(bin)) = imm
    BY <1>12 DEF InstrReads, InstrHolds
  <2> QED BY <1>8, <1>11, <2>1
<1>16. OperandsOf(bin, row) = <<Num(IF s = QUAD THEN Extended(imm) ELSE imm), RM(bin, s)>>
  BY <1>5, <1>14, <1>15 DEF OperandsOf
<1>17. Num(IF s = QUAD THEN Extended(imm) ELSE imm) = Denotes(written.ops[1])
  BY <1>1, <1>7, <1>9, ImmRead
<1> QED BY <1>1, <1>5, <1>13, <1>14, <1>16, <1>17, MeansTwo

(* What as_encode makes of such an instruction: nothing, or these.         *)
HasTable(o, immediate, digit, store, load) ==
  /\ digit \in 0 .. 7
  /\ InTable(o, immediate, digit, "imm") /\ Plain(immediate)
  /\ \A d \in 0 .. 7 : InTable(o, store, d, "to")
  /\ Plain(store)
  /\ \A d \in 0 .. 7 : InTable(o, load, d, "from")
  /\ Plain(load)

LEMMA RexRequired ==
  ASSUME NEW p, NEW s, NEW required, s = BYTE /\ NeedsRex(p) => required
  PROVE  Clear(p, s, required)
  BY DEF Clear, NeedsRex, SP

LEMMA NothingMeans ==
  ASSUME Ready, Encoding = Nothing
  PROVE  Means
<1> DEFINE c == Encoding
<1>1. c.bytes = << >>
  BY DEF Nothing, Code
<1>2. bin = << >>
  <2>1. c.bytes \in Seq(Int) /\ Encoding = c
    BY <1>1, Empties
  <2> HIDE DEF c
  <2> QED BY <1>1, <2>1, Appended
<1> QED BY <1>2 DEF Means

LEMMA TwoOperandsMean ==
  ASSUME Ready, written.op \in Binary, ~LargeImmediate,
         NEW sizes, BYTE \in sizes => written.op \in {"mov", "cmp"},
         NEW immediate, NEW digit, NEW store, NEW load, HasTable(written.op, immediate, digit, store, load),
         Encoding = TwoOperands(sizes, immediate, digit, store, load)
  PROVE  Means
<1> DEFINE s == inst.suffix
           Required(operands) == s = BYTE /\ \E o \in operands : NeedsRex(o)
<1>1. TwoShown /\ ~OtherSize /\ written.op # "cltd"
  <2>1. written.op \notin Sets \cup {"lea", "cqto", "leave", "ret", "cltd"}
    BY DEF Binary, Sets
  <2> QED BY <2>1, ReadyTwo DEF OtherSize
<1>2. Exact(1, s) = s
  BY DEF Exact, Binary
<1>3. src.type = "reg" => src.regtype = s
  BY <1>1, <1>2 DEF TwoShown
<1>4. CASE s \notin sizes
  <2>1. Encoding = Nothing
    BY <1>4 DEF TwoOperands
  <2> QED BY <2>1, NothingMeans
<1>5. CASE s \in sizes /\ src.type = "imm" /\ dest.type \in {"reg", "mem"}
  <2> DEFINE required == Required({dest})
  <2>1. Encoding = Instr(s, Sized(immediate, s), digit, dest, required, Imm(s))
    BY <1>5 DEF TwoOperands
  <2>2. required \in BOOLEAN /\ Clear(dest, s, required)
    BY RexRequired
  <2>3. InTable(written.op, immediate, digit, "imm") /\ Plain(immediate) /\ digit \in 0 .. 7
    BY DEF HasTable
  <2>4. s = inst.suffix /\ (s = BYTE => written.op \in {"mov", "cmp"})
    BY <1>5
  <2> HIDE DEF required, s
  <2> QED BY <1>1, <1>5, <2>1, <2>2, <2>3, <2>4, ImmediateMeans
<1>6. CASE s \in sizes /\ src.type = "reg" /\ dest.type \in {"reg", "mem"}
  <2> DEFINE required == Required({src, dest})
  <2>1. Encoding = Instr(s, Sized(store, s), src.regcode, dest, required, << >>)
    BY <1>6 DEF TwoOperands
  <2>2. required \in BOOLEAN /\ Clear(src, s, required) /\ Clear(dest, s, required)
    BY RexRequired
  <2>3. (\A d \in 0 .. 7 : InTable(written.op, store, d, "to")) /\ Plain(store)
    BY DEF HasTable
  <2>4. s = inst.suffix /\ (s = BYTE => written.op \in {"mov", "cmp"})
    BY <1>6
  <2> HIDE DEF required, s
  <2> QED BY <1>1, <1>2, <1>6, <2>1, <2>2, <2>3, <2>4, StoreMeans
<1>7. CASE s \in sizes /\ src.type = "mem" /\ dest.type = "reg"
  <2> DEFINE required == Required({dest})
             opcode   == Sized(load, s)
             row      == SizedRow(written.op, load, None, "from", s)
  <2>1. Encoding = Instr(s, opcode, dest.regcode, src, required, << >>)
    BY <1>7 DEF TwoOperands
  <2>2. required \in BOOLEAN /\ Clear(dest, s, required)
    BY RexRequired
  <2>3. Clear(src, s, required)
    BY <1>7 DEF Clear
  <2>4. s = inst.suffix /\ (s = BYTE => written.op \in {"mov", "cmp"})
    BY <1>7
  <2>5. /\ row.op = written.op /\ row.form = "from" /\ row.from = None
        /\ row.size = IF s = BYTE THEN BYTE ELSE None
    BY DEF SizedRow, Row
  <2>6. Plain(load) /\ \A d \in 0 .. 7 : InTable(written.op, load, d, "from")
    BY DEF HasTable
  <2>7. ASSUME NEW d \in 0 .. 7
        PROVE  IsOpcode(opcode) /\ Only(Number(opcode), d, row)
    <3>1. InTable(written.op, load, d, "from")
      BY <2>6
    <3>2. IsOpcode(Sized(load, s)) /\ Only(Number(Sized(load, s)), d, SizedRow(written.op, load, d, "from", s))
      <4> HIDE DEF s
      <4> QED BY <2>4, <2>6, <3>1, TableRow
    <3>3. SizedRow(written.op, load, d, "from", s) = row
      BY DEF SizedRow
    <3> QED BY <3>2, <3>3
  <2>8. IsOpcode(opcode) /\ \A d \in 0 .. 7 : Only(Number(opcode), d, row)
    <3>1. 0 \in 0 .. 7
      OBVIOUS
    <3> QED BY <2>7, <3>1
  <2>9. s = IF row.from = None THEN s ELSE row.from
    BY <2>5
  <2>10. \/ row.size = None /\ s # BYTE
         \/ row.size = BYTE /\ s = BYTE
    BY <2>5
  <2> HIDE DEF required, s, opcode, row
  <2>11. src.type \in {"reg", "mem"} /\ dest.type = "reg" /\ row.op # "cltd"
    BY <1>1, <1>7, <2>5
  <2> QED BY <1>1, <1>3, <2>1, <2>2, <2>3, <2>4, <2>5, <2>8, <2>9, <2>10, <2>11, LoadMeans
<1>8. CASE /\ s \in sizes
           /\ ~(src.type = "imm" /\ dest.type \in {"reg", "mem"})
           /\ ~(src.type = "reg" /\ dest.type \in {"reg", "mem"})
           /\ ~(src.type = "mem" /\ dest.type = "reg")
  <2>1. Encoding = Nothing
    BY <1>8 DEF TwoOperands
  <2> QED BY <2>1, NothingMeans
<1> QED BY <1>4, <1>5, <1>6, <1>7, <1>8

(* Extensions, of registers that have a name without REX. *)
LEMMA ExtensionMeans ==
  ASSUME Ready, written.op \in Extensions, ~FromByteRegister,
         NEW sizes, BYTE \notin sizes, NEW opcode, IsOpcode(opcode),
         NEW row, row.form = "from", row.op = written.op, row.size = None,
         \A d \in 0 .. 7 : Only(Number(opcode), d, row),
         row.from = IF written.op \in {"movzb", "movsb"} THEN BYTE
                    ELSE IF written.op \in {"movzw", "movsw"} THEN WORD ELSE LONG,
         Encoding = Extension(sizes, opcode)
  PROVE  Means
<1> DEFINE s == inst.suffix
           f == IF row.from = None THEN s ELSE row.from
<1>1. TwoShown /\ ~OtherSize /\ written.op # "cltd"
  <2>1. written.op \notin Sets \cup {"lea", "cqto", "leave", "ret", "cltd"}
    BY DEF Extensions, Sets
  <2> QED BY <2>1, ReadyTwo DEF OtherSize
<1>2. f = row.from /\ f = Exact(1, s)
  BY DEF Exact, Extensions, None, BYTE, WORD, LONG
<1>3. src.type = "reg" => src.regtype = f
  BY <1>1, <1>2 DEF TwoShown
<1>4. CASE ~(s \in sizes /\ src.type \in {"reg", "mem"} /\ dest.type = "reg")
  <2>1. Encoding = Nothing
    BY <1>4 DEF Extension
  <2> QED BY <2>1, NothingMeans
<1>5. CASE s \in sizes /\ src.type \in {"reg", "mem"} /\ dest.type = "reg"
  <2>1. Encoding = Instr(s, opcode, dest.regcode, src, FALSE, << >>)
    BY <1>5 DEF Extension
  <2>2. s # BYTE
    BY <1>5
  <2>3. Clear(src, f, FALSE)
    <3> SUFFICES ASSUME src.type = "reg", f = BYTE, src.regcode \in 4 .. 7 PROVE FALSE
      BY DEF Clear
    <3>1. written.op \in {"movzb", "movsb"}
      BY <1>2 DEF Extensions, BYTE, WORD, LONG
    <3>2. written.ops[1].kind = "reg" /\ Denotes(written.ops[1]) = Reg(src.regtype, src.regcode)
      BY <1>1 DEF TwoShown, Shows
    <3>3. written.ops[1].reg.code = src.regcode
      BY <3>2 DEF Denotes, Reg
    <3> QED BY <3>1, <3>2, <3>3 DEF FromByteRegister
  <2>4. Clear(dest, s, FALSE)
    BY <2>2 DEF Clear
  <2>5. s = inst.suffix /\ FALSE \in BOOLEAN /\ f = IF row.from = None THEN s ELSE row.from
    OBVIOUS
  <2> HIDE DEF s, f
  <2>6. row.op # "cltd" /\ (row.size = None /\ s # BYTE)
    BY <1>1, <2>2
  <2> DEFINE no == FALSE
  <2> HIDE DEF no
  <2>7. /\ no \in BOOLEAN /\ Clear(src, f, no) /\ Clear(dest, s, no)
        /\ Encoding = Instr(s, opcode, dest.regcode, src, no, << >>)
    BY <2>1, <2>3, <2>4 DEF no
  <2> QED BY <1>1, <1>3, <1>5, <2>5, <2>6, <2>7, LoadMeans
<1> QED BY <1>4, <1>5

(* The address of memory. *)
LEMMA LeaMeans ==
  ASSUME Ready, written.op = "lea", ~OtherSize, Encoding = gen_lea
  PROVE  Means
<1> DEFINE s == inst.suffix
           row == Row("lea", \h8D, None, "from", None, None)
           opcode == <<\h8D>>
           no == FALSE
<1>1. TwoShown
  BY ReadyTwo
<1>2. s = QUAD
  BY <1>1 DEF TwoShown, OtherSize
<1>3. src.type = "mem" /\ dest.type = "reg"
  BY ReadyFacts DEF Agreed
<1>4. Encoding = Instr(s, opcode, dest.regcode, src, no, << >>)
  BY <1>2 DEF gen_lea
<1>5. Clear(src, s, no) /\ Clear(dest, s, no) /\ no \in BOOLEAN
  BY <1>2 DEF Clear, QUAD, BYTE
<1>6. /\ row.form = "from" /\ row.op = "lea" /\ row.size = None /\ row.from = None
      /\ s = IF row.from = None THEN s ELSE row.from
      /\ s # BYTE
  BY <1>2 DEF Row, QUAD, BYTE
<1>7. IsOpcode(opcode) /\ Number(opcode) = \h8D
  BY DEF IsOpcode, Number
<1>8. \A d \in 0 .. 7 : Only(Number(opcode), d, row)
  BY <1>7, ExtensionRows
<1>9. row.op # "cltd" /\ row.op = written.op /\ s = inst.suffix
  BY <1>6
<1> HIDE DEF s, row, opcode, no
<1>10. src.type \in {"reg", "mem"} /\ (src.type = "reg" => src.regtype = s)
  BY <1>3
<1> QED BY <1>1, <1>3, <1>4, <1>5, <1>6, <1>7, <1>8, <1>9, <1>10, LoadMeans

-----------------------------------------------------------------------------
(* Instructions with a digit and an operand in the r/m field. *)
LEMMA DigitReads ==
  ASSUME Ready, NEW s \in 0 .. 3, NEW opcode, IsOpcode(opcode), NEW digit \in 0 .. 7,
         NEW rm, NEW o, Shows(rm, o), rm.type \in {"reg", "mem"}, rm.type = "reg" => rm.regtype = s,
         NEW required \in BOOLEAN, Clear(rm, s, required),
         NEW row, Only(Number(opcode), digit, row), row.form \in {"one", "set", "cl"}, row.op # "cltd",
         \/ row.size = None /\ s # BYTE
         \/ row.size = BYTE /\ s = BYTE,
         Encoding = Instr(s, opcode, digit, rm, required, << >>)
  PROVE  /\ RM(bin, s) = Denotes(o)
         /\ SizeOf(bin, row) = s
         /\ Decoded(bin) = [op |-> row.op, size |-> s, ops |-> OperandsOf(bin, row), length |-> Len(bin)]
<1>1. IsRm(rm)
  BY ShowsRm
<1>2. digit % 8 = digit /\ digit \in 0 .. 15
  OBVIOUS
<1>3. HasModRM(row)
  BY DEF HasModRM
<1>4. << >> \in Seq(Int) /\ Len(<< >>) = ImmLen(row, s)
  BY Empties DEF ImmLen
<1>5. InstrReads(row, s, opcode, digit, rm, required, << >>)
  <2>1. Only(Number(opcode), digit % 8, row)
    BY <1>2
  <2> QED BY <1>1, <1>2, <1>3, <1>4, <2>1, InstrDecoded
<1>6. RM(bin, s) = Denotes(o)
  BY <1>5, RmRead
<1> QED BY <1>5, <1>6 DEF InstrReads

OneShown ==
  /\ DOMAIN written.ops = {1}
  /\ Shows(op, written.ops[1])
  /\ inst.op = written.op /\ inst.suffix \in 0 .. 3
  /\ ~OtherSize => inst.suffix = Size
  /\ op.type = "reg" => op.regtype = inst.suffix

LEMMA ReadyOne ==
  ASSUME Ready, written.op \in Stack \cup Unary \cup Jumps \cup Sets
  PROVE  OneShown
<1> DEFINE s == inst.suffix
<1>1. /\ inst.op = written.op /\ s \in 0 .. 3 /\ Agreed(s)
      /\ \A i \in DOMAIN written.ops : Shows(inst.ops[i], written.ops[i])
  BY ReadyFacts
<1>2. DOMAIN written.ops = {1}
  BY <1>1 DEF Agreed
<1>3. /\ ~OtherSize => s = Size
      /\ \A i \in DOMAIN written.ops : inst.ops[i].type = "reg" => inst.ops[i].regtype = Exact(i, s)
  BY <1>1 DEF Agreed
<1>4. Exact(1, s) = s
  BY DEF Exact, Stack, Unary, Jumps, Sets
<1> HIDE DEF s
<1>5. Shows(op, written.ops[1])
  BY <1>1, <1>2 DEF op
<1>6. op.type = "reg" => op.regtype = s
  BY <1>2, <1>3, <1>4 DEF op
<1> QED BY <1>1, <1>2, <1>3, <1>5, <1>6 DEF OneShown, s

LEMMA UnaryMeans ==
  ASSUME Ready, written.op \in Unary, NEW code, IsOpcode(<<code>>), NEW digit \in 0 .. 7,
         NEW row, Only(Number(<<code>>), digit, row), row.form = "one", row.op = written.op, row.size = None,
         Encoding = OneOperand(code, digit, op)
  PROVE  Means
<1> DEFINE s == inst.suffix
           no == FALSE
           opcode == <<code>>
<1>1. OneShown /\ ~OtherSize /\ written.op # "cltd"
  <2>1. written.op \notin Sets \cup {"lea", "cqto", "leave", "ret", "cltd"}
    BY DEF Unary, Sets
  <2> QED BY <2>1, ReadyOne DEF OtherSize
<1>2. CASE ~(s \in {LONG, QUAD} /\ op.type \in {"reg", "mem"})
  <2>1. Encoding = Nothing
    BY <1>2 DEF OneOperand
  <2> QED BY <2>1, NothingMeans
<1>3. CASE s \in {LONG, QUAD} /\ op.type \in {"reg", "mem"}
  <2>1. Encoding = Instr(s, opcode, digit, op, no, << >>)
    BY <1>3 DEF OneOperand
  <2>2. s # BYTE /\ s \in 0 .. 3
    BY <1>3 DEF BYTE, LONG, QUAD
  <2>3. Clear(op, s, no) /\ no \in BOOLEAN
    BY <2>2 DEF Clear
  <2>4. /\ DOMAIN written.ops = {1} /\ Shows(op, written.ops[1]) /\ s = Size
        /\ (op.type = "reg" => op.regtype = s)
    BY <1>1 DEF OneShown
  <2> HIDE DEF s, no, opcode
  <2>5. /\ row.form \in {"one", "set", "cl"} /\ row.op # "cltd" /\ row.size = None /\ s # BYTE
        /\ IsOpcode(opcode) /\ Only(Number(opcode), digit, row)
    BY <1>1, <2>2 DEF opcode
  <2>6. /\ RM(bin, s) = Denotes(written.ops[1])
        /\ SizeOf(bin, row) = s
        /\ Decoded(bin) = [op |-> row.op, size |-> s, ops |-> OperandsOf(bin, row), length |-> Len(bin)]
    BY <1>3, <2>1, <2>2, <2>3, <2>4, <2>5, DigitReads
  <2>7. OperandsOf(bin, row) = <<RM(bin, s)>>
    BY <2>6 DEF OperandsOf
  <2> QED BY <2>4, <2>6, <2>7, MeansOne
<1> QED BY <1>2, <1>3

(* The count of a shift is in cl. *)
LEMMA ShiftMeans ==
  ASSUME Ready, written.op \in Shifts, NEW code, IsOpcode(<<code>>), NEW digit \in 0 .. 7,
         NEW row, Only(Number(<<code>>), digit, row), row.form = "cl", row.op = written.op, row.size = None,
         Encoding = OneOperand(code, digit, dest)
  PROVE  Means
<1> DEFINE s == inst.suffix
           no == FALSE
           opcode == <<code>>
<1>1. TwoShown /\ ~OtherSize /\ written.op # "cltd"
  <2>1. written.op \notin Sets \cup {"lea", "cqto", "leave", "ret", "cltd"}
    BY DEF Shifts, Sets
  <2> QED BY <2>1, ReadyTwo DEF OtherSize
<1>2. CASE ~(s \in {LONG, QUAD} /\ dest.type \in {"reg", "mem"})
  <2>1. Encoding = Nothing
    BY <1>2 DEF OneOperand
  <2> QED BY <2>1, NothingMeans
<1>3. CASE s \in {LONG, QUAD} /\ dest.type \in {"reg", "mem"}
  <2>1. Encoding = Instr(s, opcode, digit, dest, no, << >>)
    BY <1>3 DEF OneOperand
  <2>2. s # BYTE /\ s \in 0 .. 3
    BY <1>3 DEF BYTE, LONG, QUAD
  <2>3. Clear(dest, s, no) /\ no \in BOOLEAN
    BY <2>2 DEF Clear
  <2>4. /\ DOMAIN written.ops = {1, 2} /\ Shows(src, written.ops[1]) /\ Shows(dest, written.ops[2])
        /\ s = Size /\ (dest.type = "reg" => dest.regtype = s)
        /\ (src.type = "reg" => src.regtype = Exact(1, s))
    BY <1>1 DEF TwoShown
  <2>5. src.type = "reg" /\ src.regcode = 1
    BY ReadyFacts DEF Agreed
  <2>6. Exact(1, s) = BYTE
    BY DEF Exact, Shifts
  <2>7. Denotes(written.ops[1]) = Reg(BYTE, 1)
    BY <2>4, <2>5, <2>6 DEF Shows
  <2> HIDE DEF s, no, opcode
  <2>8. /\ row.form \in {"one", "set", "cl"} /\ row.op # "cltd" /\ row.size = None /\ s # BYTE
        /\ IsOpcode(opcode) /\ Only(Number(opcode), digit, row)
    BY <1>1, <2>2 DEF opcode
  <2>9. /\ RM(bin, s) = Denotes(written.ops[2])
        /\ SizeOf(bin, row) = s
        /\ Decoded(bin) = [op |-> row.op, size |-> s, ops |-> OperandsOf(bin, row), length |-> Len(bin)]
    BY <1>3, <2>1, <2>2, <2>3, <2>4, <2>8, DigitReads
  <2>10. OperandsOf(bin, row) = <<Reg(BYTE, 1), RM(bin, s)>>
    BY <2>9 DEF OperandsOf
  <2> QED BY <2>4, <2>7, <2>9, <2>10, MeansTwo
<1> QED BY <1>2, <1>3

(* A condition into a byte. *)
LEMMA SetMeans ==
  ASSUME Ready, written.op \in Sets, ~OtherSize, NEW code, IsOpcode(<<\h0F, code>>),
         NEW row, Only(Number(<<\h0F, code>>), 0, row), row.form = "set", row.op = written.op, row.size = BYTE,
         Encoding = SetByte(code)
  PROVE  Means
<1> DEFINE s == BYTE
           digit == 0
           opcode == <<\h0F, code>>
           required == NeedsRex(op)
<1>1. OneShown /\ written.op # "cltd"
  <2>1. written.op # "cltd"
    BY DEF Sets
  <2> QED BY <2>1, ReadyOne
<1>2. CASE ~(op.type \in {"reg", "mem"})
  <2>1. Encoding = Nothing
    BY <1>2 DEF SetByte
  <2> QED BY <2>1, NothingMeans
<1>3. CASE op.type \in {"reg", "mem"}
  <2>1. Encoding = Instr(s, opcode, digit, op, required, << >>)
    BY <1>3 DEF SetByte
  <2>2. s = BYTE /\ s \in 0 .. 3 /\ digit \in 0 .. 7
    BY DEF BYTE
  <2>3. Clear(op, s, required) /\ required \in BOOLEAN
    BY RexRequired DEF NeedsRex
  <2>4. inst.suffix = Size /\ Size = BYTE
    BY <1>1 DEF OneShown, OtherSize
  <2>5. /\ DOMAIN written.ops = {1} /\ Shows(op, written.ops[1]) /\ s = Size
        /\ (op.type = "reg" => op.regtype = s)
    BY <1>1, <2>4 DEF OneShown
  <2> HIDE DEF s, digit, opcode, required
  <2>6. /\ row.form \in {"one", "set", "cl"} /\ row.op # "cltd" /\ row.size = BYTE
        /\ IsOpcode(opcode) /\ Only(Number(opcode), digit, row)
    BY <1>1 DEF opcode, digit
  <2>7. /\ RM(bin, s) = Denotes(written.ops[1])
        /\ SizeOf(bin, row) = s
        /\ Decoded(bin) = [op |-> row.op, size |-> s, ops |-> OperandsOf(bin, row), length |-> Len(bin)]
    BY <1>3, <2>1, <2>2, <2>3, <2>5, <2>6, DigitReads
  <2>8. OperandsOf(bin, row) = <<RM(bin, s)>>
    BY <2>2, <2>7 DEF OperandsOf
  <2> QED BY <2>5, <2>7, <2>8, MeansOne
<1> QED BY <1>2, <1>3

-----------------------------------------------------------------------------
(* Instructions without a byte ModR/M. *)
PlainReads(x, c, t, row) ==
  /\ ~Word(bin) /\ (HasRex(bin) <=> x # << >>) /\ Rex(bin) = RexOf(x)
  /\ Opcode(bin) = Number(c)
  /\ HeadLen(bin) = Len(x) + Len(c)
  /\ Decoded(bin) = [op     |-> IF row.op = "cltd" /\ SizeOf(bin, row) = QUAD THEN "cqto" ELSE row.op,
                     size   |-> SizeOf(bin, row),
                     ops    |-> OperandsOf(bin, row),
                     length |-> Len(bin)]

LEMMA PlainDecoded ==
  ASSUME Ready, NEW x, IsRex(x), NEW c, IsOpcode(c), NEW t \in Seq(Int), NEW code, Encoding = code,
         code.bytes = x \o c \o t,
         NEW row, ~HasModRM(row), \A d \in Int : Only(Number(c), d, row),
         Len(t) = IF row.form = "rel" THEN 4 ELSE 0
  PROVE  PlainReads(x, c, t, row)
<1> DEFINE p == << >>
<1>1. IsPrefix(p)
  BY DEF IsPrefix
<1>2. /\ p \in Seq(Int) /\ x \in Seq(Int) /\ c \in Seq(Int)
      /\ Len(x) \in 0 .. 1 /\ Len(c) \in 1 .. 2 /\ Len(p) = 0
  BY <1>1, HeadTypes
<1>3. x \o c \in Seq(Int)
  BY <1>2, Joined
<1>4. code.bytes \in Seq(Int)
  BY <1>3, Joined
<1>5. bin = code.bytes
  BY <1>4, Appended
<1>6. bin = p \o x \o c \o t
  BY <1>2, <1>5, NoneBefore
<1>7. p = << >>
  OBVIOUS
<1> HIDE DEF p
<1>8. Splits(bin, p, x, c, t)
  BY <1>1, <1>6, HeadDecoded
<1>9. /\ ~Word(bin) /\ (HasRex(bin) <=> x # << >>) /\ Rex(bin) = RexOf(x)
      /\ Opcode(bin) = Number(c)
  BY <1>7, <1>8 DEF Splits
<1> DEFINE i == Len(x)
           j == Len(c)
           k == Len(t)
<1>10. HeadLen(bin) = i + j /\ Len(bin) = i + j + k /\ i \in Nat /\ j \in Nat /\ k \in Nat
  <2>1. Len(bin) = Len(p) + i + j + k /\ HeadLen(bin) = Len(p) + i + j
    BY <1>8 DEF Splits
  <2>2. Len(p) = 0 /\ i \in Nat /\ j \in Nat
    BY <1>2
  <2>3. k \in Nat
    BY LenProperties
  <2> HIDE DEF i, j, k
  <2> QED BY <2>1, <2>2, <2>3
<1>11. k = IF row.form = "rel" THEN 4 ELSE 0
  OBVIOUS
<1> HIDE DEF i, j, k
<1>12. LengthOf(bin, row) = Len(bin)
  BY <1>10, <1>11 DEF LengthOf
<1>13. RegField(Body(bin)) \in Int
  <2>1. Body(bin) = t
    BY <1>8 DEF Splits
  <2>2. At(t, 1) \in Int
    <3>1. 1 \in 1 .. Len(t) => t[1] \in Int
      BY ElementOfSeq
    <3> QED BY <3>1 DEF At
  <2> QED BY <2>1, <2>2 DEF RegField
<1>14. Only(Opcode(bin), RegField(Body(bin)), row)
  BY <1>9, <1>13
<1>15. Decoded(bin) = [op     |-> IF row.op = "cltd" /\ SizeOf(bin, row) = QUAD THEN "cqto" ELSE row.op,
                       size   |-> SizeOf(bin, row),
                       ops    |-> OperandsOf(bin, row),
                       length |-> Len(bin)]
  BY <1>12, <1>14, RowFound
<1> QED BY <1>9, <1>10, <1>15 DEF PlainReads, i, j

(* A register in the opcode. *)
StackRow(o, base) ==
  \A d \in Int, k \in 0 .. 7 : Only(base + k, d, Row(o, base + k, None, "opcode", QUAD, None))

LEMMA StackMeans ==
  ASSUME Ready, written.op \in Stack, NEW base \in {\h50, \h58}, StackRow(written.op, base),
         Encoding = Code(gen_rex(0, 0, 0, op.regcode, FALSE) \o gen_opcode_reg(base, op.regcode), {})
  PROVE  Means
<1> DEFINE code == Encoding
           reg == op.regcode
           k == reg % 8
           x == gen_rex(0, 0, 0, reg, FALSE)
           c == <<base + k>>
           row == Row(written.op, base + k, None, "opcode", QUAD, None)
           t == << >>
<1>0. Encoding = code
  OBVIOUS
<1>1. OneShown /\ ~OtherSize /\ written.op # "cltd"
  <2>1. written.op \notin Sets \cup {"lea", "cqto", "leave", "ret", "cltd"}
    BY DEF Stack, Sets
  <2> QED BY <2>1, ReadyOne DEF OtherSize
<1>2. op.type = "reg" /\ inst.suffix = QUAD
  BY ReadyFacts DEF Agreed
<1>3. Size = QUAD /\ op.regtype = QUAD /\ Shows(op, written.ops[1]) /\ DOMAIN written.ops = {1}
  BY <1>1, <1>2 DEF OneShown
<1>4. reg \in 0 .. 15
  BY <1>3 DEF Shows, IsOp
<1>5. k \in 0 .. 7
  BY <1>4, Octal
<1>6. RexHolds(x, 0, 0, 0, reg, FALSE)
  <2> DEFINE zero == 0
             no == FALSE
  <2>1. zero \in {0, 1} /\ zero \in 0 .. 15 /\ no \in BOOLEAN /\ x = gen_rex(zero, zero, zero, reg, no)
    OBVIOUS
  <2> HIDE DEF zero, no, x, reg
  <2>2. RexHolds(x, zero, zero, zero, reg, no)
    BY <1>4, <2>1, RexBits, SMTT(40)
  <2> QED BY <2>2 DEF zero, no
<1>7. IsOpcode(c) /\ Number(c) = base + k
  <2>1. base + k \in 0 .. 255 /\ base + k \notin {\h0F, \h66} /\ base + k \notin \h40 .. \h4F
    BY <1>5
  <2>2. c[1] = base + k
    OBVIOUS
  <2> HIDE DEF k
  <2> QED BY <2>1, <2>2 DEF IsOpcode, Number
<1>8. code.bytes = x \o c \o t
  <2>1. code.bytes = x \o c
    BY DEF Code, gen_opcode_reg
  <2>2. x \in Seq(Int) /\ c \in Seq(Int)
    <3>1. IsRex(x)
      BY <1>6 DEF RexHolds
    <3> HIDE DEF x, c
    <3> QED BY <1>7, <3>1, HeadTypes DEF IsPrefix
  <2>3. x \o c \in Seq(Int)
    BY <2>2, Joined
  <2> QED BY <2>1, <2>3, ConcatEmptySeq
<1>9. /\ row.op = written.op /\ row.form = "opcode" /\ row.size = QUAD /\ ~HasModRM(row)
      /\ \A d \in Int : Only(Number(c), d, row)
  BY <1>5, <1>7 DEF Row, HasModRM, StackRow
<1>10. t \in Seq(Int) /\ Len(t) = IF row.form = "rel" THEN 4 ELSE 0
  BY <1>9, Empties
<1>11. IsRex(x) /\ 8 * (RexOf(x) % 2) = 8 * (reg \div 8)
  BY <1>6 DEF RexHolds
<1>12. (base + k) % 8 = k
  <2> HIDE DEF k
  <2>1. \A m \in 0 .. 7 : (\h50 + m) % 8 = m /\ (\h58 + m) % 8 = m
    BY SMT
  <2> QED BY <1>5, <2>1
<1>13. k + 8 * (reg \div 8) = reg
  BY <1>4, Octal
<1> HIDE DEF code, x, c, row, t, reg, k
<1>14. PlainReads(x, c, t, row)
  <2>1. IsRex(x) /\ IsOpcode(c) /\ t \in Seq(Int) /\ ~HasModRM(row)
    BY <1>7, <1>9, <1>10, <1>11
  <2>2. (\A d \in Int : Only(Number(c), d, row)) /\ Len(t) = IF row.form = "rel" THEN 4 ELSE 0
    BY <1>9, <1>10
  <2> QED BY ONLY Ready, <1>0, <1>8, <2>1, <2>2, PlainDecoded
<1>15. SizeOf(bin, row) = QUAD
  BY <1>9 DEF SizeOf, QUAD, None
<1>16. OperandsOf(bin, row) = <<Reg(QUAD, reg)>>
  <2>1. Opcode(bin) % 8 = k
    BY <1>7, <1>12, <1>14 DEF PlainReads
  <2>2. B(bin) = 8 * (reg \div 8)
    BY <1>11, <1>14 DEF PlainReads, B
  <2> QED BY <1>9, <1>13, <2>1, <2>2 DEF OperandsOf
<1>17. Denotes(written.ops[1]) = Reg(QUAD, reg)
  BY <1>2, <1>3 DEF Shows, reg
<1>18. Decoded(bin) = [op |-> written.op, size |-> Size,
                       ops |-> <<Denotes(written.ops[1])>>, length |-> Len(bin)]
  BY <1>1, <1>3, <1>9, <1>14, <1>15, <1>16, <1>17 DEF PlainReads
<1> QED BY <1>3, <1>18, MeansOne

(* The address of a symbol, which a relocation puts after the opcode. *)
LEMMA JumpMeans ==
  ASSUME Ready, written.op \in Jumps, NEW c, IsOpcode(c),
         NEW row, \A d \in Int : Only(Number(c), d, row),
         row.op = written.op, row.form = "rel", row.size = QUAD,
         Encoding = gen_rel32(c, op.ident)
  PROVE  Means
<1> DEFINE code == Encoding
           ident == op.ident
           x == << >>
           t == LowBytes(0, 4)
           n == Len(c)
<1>0. Encoding = code
  OBVIOUS
<1>1. OneShown /\ ~OtherSize /\ written.op # "cltd"
  <2>1. written.op \notin Sets \cup {"lea", "cqto", "leave", "ret", "cltd"}
    BY DEF Jumps, Sets
  <2> QED BY <2>1, ReadyOne DEF OtherSize
<1>2. op.type = "sym" /\ inst.suffix = QUAD
  BY ReadyFacts DEF Agreed
<1>3. Size = QUAD /\ Shows(op, written.ops[1]) /\ DOMAIN written.ops = {1}
  BY <1>1, <1>2 DEF OneShown
<1>4. Denotes(written.ops[1]) = Sym("sym", ident)
  BY <1>2, <1>3 DEF Shows
<1>5. IsRex(x) /\ IsPrefix(x)
  BY DEF IsRex, IsPrefix
<1>6. c \in Seq(Int) /\ n \in Nat /\ Len(x) = 0
  <2> HIDE DEF x
  <2>1. c \in Seq(Int) /\ Len(c) \in 1 .. 2
    BY <1>5, HeadTypes
  <2> QED BY <2>1, Empties DEF x
<1>7. t \in Seq(Int) /\ Len(t) = 4
  <2>1. 0 \in Int32
    BY DEF Int32
  <2>2. 0 \in Nat
    OBVIOUS
  <2> QED BY ONLY <2>1, <2>2, FourHold
<1>8. code.bytes = x \o c \o t
  <2>1. code.bytes = c \o t
    BY DEF gen_rel32, Code
  <2>2. x \o c = c
    BY <1>6, NoneBefore
  <2> QED BY <2>1, <2>2
<1>9. code.refs = {[offset |-> n, ident |-> ident]}
  BY DEF gen_rel32, Code
<1>10. ~HasModRM(row) /\ Len(t) = IF row.form = "rel" THEN 4 ELSE 0
  BY <1>7 DEF HasModRM
<1> HIDE DEF code, ident, x, t, n
<1>11. PlainReads(x, c, t, row)
  BY ONLY Ready, <1>0, <1>5, IsOpcode(c), <1>7, <1>8, <1>10, \A d \in Int : Only(Number(c), d, row),
     PlainDecoded
<1>12. HeadLen(bin) = n
  <2>1. HeadLen(bin) = Len(x) + n
    BY <1>11 DEF PlainReads, n
  <2> QED BY <1>6, <2>1
<1>13. relocs = {[offset |-> n, ident |-> ident]}
  <2>1. x \o c \in Seq(Int)
    BY <1>6, NoneBefore DEF x
  <2>2. code.bytes \in Seq(Int)
    BY <1>7, <1>8, <2>1, Joined
  <2> QED BY <1>0, <1>6, <1>9, <2>2, Appended
<1>14. Relocated(HeadLen(bin) + 1) = ident
  <2> DEFINE r == [offset |-> n, ident |-> ident]
  <2>1. relocs = {r} /\ r.offset = (n + 1) - 1 /\ r.ident = ident
    BY <1>6, <1>13
  <2> HIDE DEF r
  <2>2. Relocated(n + 1) = ident
    BY <2>1 DEF Relocated
  <2> QED BY <1>12, <2>2
<1>15. SizeOf(bin, row) = QUAD
  BY DEF SizeOf, QUAD, None
<1>16. OperandsOf(bin, row) = <<Sym("sym", ident)>>
  BY <1>14 DEF OperandsOf
<1>17. Decoded(bin) = [op |-> written.op, size |-> Size,
                       ops |-> <<Denotes(written.ops[1])>>, length |-> Len(bin)]
  BY <1>1, <1>3, <1>4, <1>11, <1>15, <1>16 DEF PlainReads
<1> QED BY <1>3, <1>17, MeansOne

(* No operand at all. *)
LEMMA BareMeans ==
  ASSUME Ready, written.op \in NoOperand, ~OtherSize, NEW x, IsRex(x), NEW c, IsOpcode(c),
         NEW row, \A d \in Int : Only(Number(c), d, row), row.form = "none",
         NEW size, size = IF row.size # None THEN row.size ELSE IF RexOf(x) \div 8 = 1 THEN QUAD ELSE LONG,
         size = IF written.op = "cltd" THEN LONG ELSE QUAD,
         written.op = IF row.op = "cltd" /\ size = QUAD THEN "cqto" ELSE row.op,
         Encoding = Code(x \o c, {})
  PROVE  Means
<1> DEFINE code == Encoding
           t == << >>
<1>0. Encoding = code
  OBVIOUS
<1>1. DOMAIN written.ops = {}
  BY ReadyFacts DEF Agreed
<1>2. Size = size
  BY DEF OtherSize, NoOperand
<1>3. x \o c \in Seq(Int)
  <2>1. x \in Seq(Int) /\ c \in Seq(Int)
    BY HeadTypes DEF IsPrefix
  <2> QED BY <2>1, Joined
<1>4. code.bytes = x \o c \o t
  <2>1. code.bytes = x \o c
    BY DEF Code
  <2> QED BY <1>3, <2>1, ConcatEmptySeq
<1>5. t \in Seq(Int) /\ ~HasModRM(row) /\ Len(t) = IF row.form = "rel" THEN 4 ELSE 0
  BY Empties DEF HasModRM
<1> HIDE DEF code, t
<1>6. PlainReads(x, c, t, row)
  BY ONLY Ready, <1>0, IsRex(x), IsOpcode(c), <1>4, <1>5, \A d \in Int : Only(Number(c), d, row),
     PlainDecoded
<1>7. SizeOf(bin, row) = size
  BY <1>6 DEF PlainReads, SizeOf, W
<1>8. OperandsOf(bin, row) = << >>
  BY DEF OperandsOf
<1>9. [i \in DOMAIN written.ops |-> Denotes(written.ops[i])] = << >>
  BY <1>1
<1>10. Decoded(bin) = [op |-> written.op, size |-> Size, ops |-> << >>, length |-> Len(bin)]
  BY <1>2, <1>6, <1>7, <1>8 DEF PlainReads
<1> QED BY <1>9, <1>10 DEF Means, Meaning

-----------------------------------------------------------------------------
(* Every instruction means what was written. *)
LEMMA TablesOf ==
  /\ HasTable("mov", \hC7, 0, \h89, \h8B)
  /\ HasTable("add", \h81, 0, \h01, \h03)
  /\ HasTable("sub", \h81, 5, \h29, \h2B)
  /\ HasTable("and", \h81, 4, \h21, \h23)
  /\ HasTable("xor", \h81, 6, \h31, \h33)
  /\ HasTable("or", \h81, 1, \h09, \h0B)
  /\ HasTable("cmp", \h81, 7, \h39, \h3B)
<1>1. /\ Plain(\hC7) /\ Plain(\h89) /\ Plain(\h8B) /\ Plain(\h81)
      /\ Plain(\h01) /\ Plain(\h03)
      /\ Plain(\h29) /\ Plain(\h2B)
      /\ Plain(\h21) /\ Plain(\h23)
      /\ Plain(\h31) /\ Plain(\h33)
      /\ Plain(\h09) /\ Plain(\h0B)
      /\ Plain(\h39) /\ Plain(\h3B)
  BY DEF Plain, IsOpcode
<1>2. HasTable("mov", \hC7, 0, \h89, \h8B)
  BY <1>1, MovRows DEF HasTable
<1>3. HasTable("add", \h81, 0, \h01, \h03)
  BY <1>1, AddRows DEF HasTable
<1>4. HasTable("sub", \h81, 5, \h29, \h2B)
  BY <1>1, SubRows DEF HasTable
<1>5. HasTable("and", \h81, 4, \h21, \h23)
  BY <1>1, AndRows DEF HasTable
<1>6. HasTable("xor", \h81, 6, \h31, \h33)
  BY <1>1, XorRows DEF HasTable
<1>7. HasTable("or", \h81, 1, \h09, \h0B)
  BY <1>1, OrRows DEF HasTable
<1>8. HasTable("cmp", \h81, 7, \h39, \h3B)
  BY <1>1, CmpRows DEF HasTable
<1> QED BY <1>2, <1>3, <1>4, <1>5, <1>6, <1>7, <1>8

LEMMA BinaryMeans ==
  ASSUME Ready, written.op \in Binary, ~LargeImmediate
  PROVE  Means
<1>1. inst.op = written.op
  BY ReadyFacts
<1>2. BYTE \notin {LONG, QUAD}
  BY DEF BYTE, LONG, QUAD
<1>3. CASE written.op = "mov"
  <2>1. Encoding = gen_mov
    BY <1>1, <1>3 DEF Encoding
  <2>2. Encoding = TwoOperands({BYTE, WORD, LONG, QUAD}, \hC7, 0, \h89, \h8B)
    BY <2>1 DEF gen_mov
  <2>3. HasTable(written.op, \hC7, 0, \h89, \h8B)
    BY <1>3, TablesOf
  <2> QED BY ONLY Ready, written.op \in Binary, ~LargeImmediate, <1>2, <1>3, <2>2, <2>3, TwoOperandsMean
<1>4. CASE written.op = "add"
  <2>1. Encoding = gen_add
    BY <1>1, <1>4 DEF Encoding
  <2>2. Encoding = TwoOperands({LONG, QUAD}, \h81, 0, \h01, \h03)
    BY <2>1 DEF gen_add
  <2>3. HasTable(written.op, \h81, 0, \h01, \h03)
    BY <1>4, TablesOf
  <2> QED BY ONLY Ready, written.op \in Binary, ~LargeImmediate, <1>2, <1>4, <2>2, <2>3, TwoOperandsMean
<1>5. CASE written.op = "sub"
  <2>1. Encoding = gen_sub
    BY <1>1, <1>5 DEF Encoding
  <2>2. Encoding = TwoOperands({LONG, QUAD}, \h81, 5, \h29, \h2B)
    BY <2>1 DEF gen_sub
  <2>3. HasTable(written.op, \h81, 5, \h29, \h2B)
    BY <1>5, TablesOf
  <2> QED BY ONLY Ready, written.op \in Binary, ~LargeImmediate, <1>2, <1>5, <2>2, <2>3, TwoOperandsMean
<1>6. CASE written.op = "and"
  <2>1. Encoding = gen_and
    BY <1>1, <1>6 DEF Encoding
  <2>2. Encoding = TwoOperands({LONG, QUAD}, \h81, 4, \h21, \h23)
    BY <2>1 DEF gen_and
  <2>3. HasTable(written.op, \h81, 4, \h21, \h23)
    BY <1>6, TablesOf
  <2> QED BY ONLY Ready, written.op \in Binary, ~LargeImmediate, <1>2, <1>6, <2>2, <2>3, TwoOperandsMean
<1>7. CASE written.op = "xor"
  <2>1. Encoding = gen_xor
    BY <1>1, <1>7 DEF Encoding
  <2>2. Encoding = TwoOperands({LONG, QUAD}, \h81, 6, \h31, \h33)
    BY <2>1 DEF gen_xor
  <2>3. HasTable(written.op, \h81, 6, \h31, \h33)
    BY <1>7, TablesOf
  <2> QED BY ONLY Ready, written.op \in Binary, ~LargeImmediate, <1>2, <1>7, <2>2, <2>3, TwoOperandsMean
<1>8. CASE written.op = "or"
  <2>1. Encoding = gen_or
    BY <1>1, <1>8 DEF Encoding
  <2>2. Encoding = TwoOperands({LONG, QUAD}, \h81, 1, \h09, \h0B)
    BY <2>1 DEF gen_or
  <2>3. HasTable(written.op, \h81, 1, \h09, \h0B)
    BY <1>8, TablesOf
  <2> QED BY ONLY Ready, written.op \in Binary, ~LargeImmediate, <1>2, <1>8, <2>2, <2>3, TwoOperandsMean
<1>9. CASE written.op = "cmp"
  <2>1. Encoding = gen_cmp
    BY <1>1, <1>9 DEF Encoding
  <2>2. Encoding = TwoOperands({BYTE, WORD, LONG, QUAD}, \h81, 7, \h39, \h3B)
    BY <2>1 DEF gen_cmp
  <2>3. HasTable(written.op, \h81, 7, \h39, \h3B)
    BY <1>9, TablesOf
  <2> QED BY ONLY Ready, written.op \in Binary, ~LargeImmediate, <1>2, <1>9, <2>2, <2>3, TwoOperandsMean
<1> QED BY <1>3, <1>4, <1>5, <1>6, <1>7, <1>8, <1>9 DEF Binary

LEMMA ExtensionsMean ==
  ASSUME Ready, written.op \in Extensions, ~FromByteRegister
  PROVE  Means
<1>1. inst.op = written.op
  BY ReadyFacts
<1>2. BYTE \notin {WORD, LONG, QUAD} /\ BYTE \notin {LONG, QUAD} /\ BYTE \notin {QUAD}
  BY DEF BYTE, WORD, LONG, QUAD
<1>3. CASE written.op = "movzb"
  <2> DEFINE opcode == <<\h0F, \hB6>>
             row == Row("movzb", \h0FB6, None, "from", None, BYTE)
             sizes == {WORD, LONG, QUAD}
  <2>1. Encoding = gen_movzb
    BY <1>1, <1>3 DEF Encoding
  <2>2. Encoding = Extension(sizes, opcode) /\ BYTE \notin sizes
    BY <1>2, <2>1 DEF gen_movzb
  <2>3. IsOpcode(opcode) /\ Number(opcode) = \h0FB6
    BY DEF IsOpcode, Number
  <2>4. \A d \in 0 .. 7 : Only(Number(opcode), d, row)
    BY <2>3, ExtensionRows
  <2>5. row.form = "from" /\ row.op = written.op /\ row.size = None /\ row.from = BYTE
    BY <1>3 DEF Row
  <2> HIDE DEF opcode, row, sizes
  <2>6. row.from = IF written.op \in {"movzb", "movsb"} THEN BYTE
                   ELSE IF written.op \in {"movzw", "movsw"} THEN WORD ELSE LONG
    BY <1>3, <2>5
  <2> QED BY <2>2, <2>3, <2>4, <2>5, <2>6, ExtensionMeans
<1>4. CASE written.op = "movzw"
  <2> DEFINE opcode == <<\h0F, \hB7>>
             row == Row("movzw", \h0FB7, None, "from", None, WORD)
  <2>1. Encoding = gen_movzw
    BY <1>1, <1>4 DEF Encoding
  <2>2. Encoding = Extension({LONG, QUAD}, opcode)
    BY <2>1 DEF gen_movzw
  <2>3. IsOpcode(opcode) /\ Number(opcode) = \h0FB7
    BY DEF IsOpcode, Number
  <2>4. \A d \in 0 .. 7 : Only(Number(opcode), d, row)
    BY <2>3, ExtensionRows
  <2>5. row.form = "from" /\ row.op = written.op /\ row.size = None /\ row.from = WORD
    BY <1>4 DEF Row
  <2> HIDE DEF opcode, row
  <2>6. row.from = IF written.op \in {"movzb", "movsb"} THEN BYTE
                   ELSE IF written.op \in {"movzw", "movsw"} THEN WORD ELSE LONG
    BY <1>4, <2>5
  <2> QED BY <1>2, <2>2, <2>3, <2>4, <2>5, <2>6, ExtensionMeans
<1>5. CASE written.op = "movsb"
  <2> DEFINE opcode == <<\h0F, \hBE>>
             row == Row("movsb", \h0FBE, None, "from", None, BYTE)
             sizes == {WORD, LONG, QUAD}
  <2>1. Encoding = gen_movsb
    BY <1>1, <1>5 DEF Encoding
  <2>2. Encoding = Extension(sizes, opcode) /\ BYTE \notin sizes
    BY <1>2, <2>1 DEF gen_movsb
  <2>3. IsOpcode(opcode) /\ Number(opcode) = \h0FBE
    BY DEF IsOpcode, Number
  <2>4. \A d \in 0 .. 7 : Only(Number(opcode), d, row)
    BY <2>3, ExtensionRows
  <2>5. row.form = "from" /\ row.op = written.op /\ row.size = None /\ row.from = BYTE
    BY <1>5 DEF Row
  <2> HIDE DEF opcode, row, sizes
  <2>6. row.from = IF written.op \in {"movzb", "movsb"} THEN BYTE
                   ELSE IF written.op \in {"movzw", "movsw"} THEN WORD ELSE LONG
    BY <1>5, <2>5
  <2> QED BY <2>2, <2>3, <2>4, <2>5, <2>6, ExtensionMeans
<1>6. CASE written.op = "movsw"
  <2> DEFINE opcode == <<\h0F, \hBF>>
             row == Row("movsw", \h0FBF, None, "from", None, WORD)
  <2>1. Encoding = gen_movsw
    BY <1>1, <1>6 DEF Encoding
  <2>2. Encoding = Extension({LONG, QUAD}, opcode)
    BY <2>1 DEF gen_movsw
  <2>3. IsOpcode(opcode) /\ Number(opcode) = \h0FBF
    BY DEF IsOpcode, Number
  <2>4. \A d \in 0 .. 7 : Only(Number(opcode), d, row)
    BY <2>3, ExtensionRows
  <2>5. row.form = "from" /\ row.op = written.op /\ row.size = None /\ row.from = WORD
    BY <1>6 DEF Row
  <2> HIDE DEF opcode, row
  <2>6. row.from = IF written.op \in {"movzb", "movsb"} THEN BYTE
                   ELSE IF written.op \in {"movzw", "movsw"} THEN WORD ELSE LONG
    BY <1>6, <2>5
  <2> QED BY <1>2, <2>2, <2>3, <2>4, <2>5, <2>6, ExtensionMeans
<1>7. CASE written.op = "movsl"
  <2> DEFINE opcode == <<\h63>>
             row == Row("movsl", \h63, None, "from", None, LONG)
  <2>1. Encoding = gen_movsl
    BY <1>1, <1>7 DEF Encoding
  <2>2. Encoding = Extension({QUAD}, opcode)
    BY <2>1 DEF gen_movsl
  <2>3. IsOpcode(opcode) /\ Number(opcode) = \h63
    BY DEF IsOpcode, Number
  <2>4. \A d \in 0 .. 7 : Only(Number(opcode), d, row)
    BY <2>3, ExtensionRows
  <2>5. row.form = "from" /\ row.op = written.op /\ row.size = None /\ row.from = LONG
    BY <1>7 DEF Row
  <2> HIDE DEF opcode, row
  <2>6. row.from = IF written.op \in {"movzb", "movsb"} THEN BYTE
                   ELSE IF written.op \in {"movzw", "movsw"} THEN WORD ELSE LONG
    BY <1>7, <2>5
  <2> QED BY <1>2, <2>2, <2>3, <2>4, <2>5, <2>6, ExtensionMeans
<1> QED BY <1>3, <1>4, <1>5, <1>6, <1>7 DEF Extensions

LEMMA UnariesMean ==
  ASSUME Ready, written.op \in Unary
  PROVE  Means
<1>1. inst.op = written.op
  BY ReadyFacts
<1>2. CASE written.op = "not"
  <2> DEFINE code == \hF7
             digit == 2
             row == Row("not", \hF7, 2, "one", None, None)
  <2>1. Encoding = gen_not
    BY <1>1, <1>2 DEF Encoding
  <2>2. Encoding = OneOperand(code, digit, op)
    BY <2>1 DEF gen_not
  <2>3. IsOpcode(<<code>>) /\ Number(<<code>>) = code /\ digit \in 0 .. 7
    BY DEF IsOpcode, Number
  <2>4. Only(Number(<<code>>), digit, row)
    BY <2>3, UnaryRows
  <2>5. row.form = "one" /\ row.op = written.op /\ row.size = None
    BY <1>2 DEF Row
  <2> HIDE DEF code, digit, row
  <2> QED BY <2>2, <2>3, <2>4, <2>5, UnaryMeans
<1>3. CASE written.op = "neg"
  <2> DEFINE code == \hF7
             digit == 3
             row == Row("neg", \hF7, 3, "one", None, None)
  <2>1. Encoding = gen_neg
    BY <1>1, <1>3 DEF Encoding
  <2>2. Encoding = OneOperand(code, digit, op)
    BY <2>1 DEF gen_neg
  <2>3. IsOpcode(<<code>>) /\ Number(<<code>>) = code /\ digit \in 0 .. 7
    BY DEF IsOpcode, Number
  <2>4. Only(Number(<<code>>), digit, row)
    BY <2>3, UnaryRows
  <2>5. row.form = "one" /\ row.op = written.op /\ row.size = None
    BY <1>3 DEF Row
  <2> HIDE DEF code, digit, row
  <2> QED BY <2>2, <2>3, <2>4, <2>5, UnaryMeans
<1>4. CASE written.op = "mul"
  <2> DEFINE code == \hF7
             digit == 4
             row == Row("mul", \hF7, 4, "one", None, None)
  <2>1. Encoding = gen_mul
    BY <1>1, <1>4 DEF Encoding
  <2>2. Encoding = OneOperand(code, digit, op)
    BY <2>1 DEF gen_mul
  <2>3. IsOpcode(<<code>>) /\ Number(<<code>>) = code /\ digit \in 0 .. 7
    BY DEF IsOpcode, Number
  <2>4. Only(Number(<<code>>), digit, row)
    BY <2>3, UnaryRows
  <2>5. row.form = "one" /\ row.op = written.op /\ row.size = None
    BY <1>4 DEF Row
  <2> HIDE DEF code, digit, row
  <2> QED BY <2>2, <2>3, <2>4, <2>5, UnaryMeans
<1>5. CASE written.op = "imul"
  <2> DEFINE code == \hF7
             digit == 5
             row == Row("imul", \hF7, 5, "one", None, None)
  <2>1. Encoding = gen_imul
    BY <1>1, <1>5 DEF Encoding
  <2>2. Encoding = OneOperand(code, digit, op)
    BY <2>1 DEF gen_imul
  <2>3. IsOpcode(<<code>>) /\ Number(<<code>>) = code /\ digit \in 0 .. 7
    BY DEF IsOpcode, Number
  <2>4. Only(Number(<<code>>), digit, row)
    BY <2>3, UnaryRows
  <2>5. row.form = "one" /\ row.op = written.op /\ row.size = None
    BY <1>5 DEF Row
  <2> HIDE DEF code, digit, row
  <2> QED BY <2>2, <2>3, <2>4, <2>5, UnaryMeans
<1>6. CASE written.op = "div"
  <2> DEFINE code == \hF7
             digit == 6
             row == Row("div", \hF7, 6, "one", None, None)
  <2>1. Encoding = gen_div
    BY <1>1, <1>6 DEF Encoding
  <2>2. Encoding = OneOperand(code, digit, op)
    BY <2>1 DEF gen_div
  <2>3. IsOpcode(<<code>>) /\ Number(<<code>>) = code /\ digit \in 0 .. 7
    BY DEF IsOpcode, Number
  <2>4. Only(Number(<<code>>), digit, row)
    BY <2>3, UnaryRows
  <2>5. row.form = "one" /\ row.op = written.op /\ row.size = None
    BY <1>6 DEF Row
  <2> HIDE DEF code, digit, row
  <2> QED BY <2>2, <2>3, <2>4, <2>5, UnaryMeans
<1>7. CASE written.op = "idiv"
  <2> DEFINE code == \hF7
             digit == 7
             row == Row("idiv", \hF7, 7, "one", None, None)
  <2>1. Encoding = gen_idiv
    BY <1>1, <1>7 DEF Encoding
  <2>2. Encoding = OneOperand(code, digit, op)
    BY <2>1 DEF gen_idiv
  <2>3. IsOpcode(<<code>>) /\ Number(<<code>>) = code /\ digit \in 0 .. 7
    BY DEF IsOpcode, Number
  <2>4. Only(Number(<<code>>), digit, row)
    BY <2>3, UnaryRows
  <2>5. row.form = "one" /\ row.op = written.op /\ row.size = None
    BY <1>7 DEF Row
  <2> HIDE DEF code, digit, row
  <2> QED BY <2>2, <2>3, <2>4, <2>5, UnaryMeans
<1> QED BY <1>2, <1>3, <1>4, <1>5, <1>6, <1>7 DEF Unary

LEMMA ShiftsMean ==
  ASSUME Ready, written.op \in Shifts
  PROVE  Means
<1>1. inst.op = written.op
  BY ReadyFacts
<1>2. CASE written.op = "sal"
  <2> DEFINE code == \hD3
             digit == 4
             row == Row("sal", \hD3, 4, "cl", None, None)
  <2>1. Encoding = gen_sal
    BY <1>1, <1>2 DEF Encoding
  <2>2. Encoding = OneOperand(code, digit, dest)
    BY <2>1 DEF gen_sal
  <2>3. IsOpcode(<<code>>) /\ Number(<<code>>) = code /\ digit \in 0 .. 7
    BY DEF IsOpcode, Number
  <2>4. Only(Number(<<code>>), digit, row)
    BY <2>3, UnaryRows
  <2>5. row.form = "cl" /\ row.op = written.op /\ row.size = None
    BY <1>2 DEF Row
  <2> HIDE DEF code, digit, row
  <2> QED BY <2>2, <2>3, <2>4, <2>5, ShiftMeans
<1>3. CASE written.op = "sar"
  <2> DEFINE code == \hD3
             digit == 7
             row == Row("sar", \hD3, 7, "cl", None, None)
  <2>1. Encoding = gen_sar
    BY <1>1, <1>3 DEF Encoding
  <2>2. Encoding = OneOperand(code, digit, dest)
    BY <2>1 DEF gen_sar
  <2>3. IsOpcode(<<code>>) /\ Number(<<code>>) = code /\ digit \in 0 .. 7
    BY DEF IsOpcode, Number
  <2>4. Only(Number(<<code>>), digit, row)
    BY <2>3, UnaryRows
  <2>5. row.form = "cl" /\ row.op = written.op /\ row.size = None
    BY <1>3 DEF Row
  <2> HIDE DEF code, digit, row
  <2> QED BY <2>2, <2>3, <2>4, <2>5, ShiftMeans
<1> QED BY <1>2, <1>3 DEF Shifts

LEMMA SetsMean ==
  ASSUME Ready, written.op \in Sets, ~OtherSize
  PROVE  Means
<1>1. inst.op = written.op
  BY ReadyFacts
<1>2. CASE written.op = "setb"
  <2> DEFINE code == \h92
             row == Row("setb", \h0F90 + 2, None, "set", BYTE, None)
  <2>1. Encoding = gen_setb
    BY <1>1, <1>2 DEF Encoding
  <2>2. Encoding = SetByte(code)
    BY <2>1 DEF gen_setb
  <2>3. IsOpcode(<<\h0F, code>>) /\ Number(<<\h0F, code>>) = \h0F00 + code
    BY DEF IsOpcode, Number
  <2>4. Only(Number(<<\h0F, code>>), 0, row)
    BY <2>3, SetRows
  <2>5. row.form = "set" /\ row.op = written.op /\ row.size = BYTE
    BY <1>2 DEF Row
  <2> HIDE DEF code, row
  <2> QED BY <2>2, <2>3, <2>4, <2>5, SetMeans
<1>3. CASE written.op = "sete"
  <2> DEFINE code == \h94
             row == Row("sete", \h0F90 + 4, None, "set", BYTE, None)
  <2>1. Encoding = gen_sete
    BY <1>1, <1>3 DEF Encoding
  <2>2. Encoding = SetByte(code)
    BY <2>1 DEF gen_sete
  <2>3. IsOpcode(<<\h0F, code>>) /\ Number(<<\h0F, code>>) = \h0F00 + code
    BY DEF IsOpcode, Number
  <2>4. Only(Number(<<\h0F, code>>), 0, row)
    BY <2>3, SetRows
  <2>5. row.form = "set" /\ row.op = written.op /\ row.size = BYTE
    BY <1>3 DEF Row
  <2> HIDE DEF code, row
  <2> QED BY <2>2, <2>3, <2>4, <2>5, SetMeans
<1>4. CASE written.op = "setne"
  <2> DEFINE code == \h95
             row == Row("setne", \h0F90 + 5, None, "set", BYTE, None)
  <2>1. Encoding = gen_setne
    BY <1>1, <1>4 DEF Encoding
  <2>2. Encoding = SetByte(code)
    BY <2>1 DEF gen_setne
  <2>3. IsOpcode(<<\h0F, code>>) /\ Number(<<\h0F, code>>) = \h0F00 + code
    BY DEF IsOpcode, Number
  <2>4. Only(Number(<<\h0F, code>>), 0, row)
    BY <2>3, SetRows
  <2>5. row.form = "set" /\ row.op = written.op /\ row.size = BYTE
    BY <1>4 DEF Row
  <2> HIDE DEF code, row
  <2> QED BY <2>2, <2>3, <2>4, <2>5, SetMeans
<1>5. CASE written.op = "setbe"
  <2> DEFINE code == \h96
             row == Row("setbe", \h0F90 + 6, None, "set", BYTE, None)
  <2>1. Encoding = gen_setbe
    BY <1>1, <1>5 DEF Encoding
  <2>2. Encoding = SetByte(code)
    BY <2>1 DEF gen_setbe
  <2>3. IsOpcode(<<\h0F, code>>) /\ Number(<<\h0F, code>>) = \h0F00 + code
    BY DEF IsOpcode, Number
  <2>4. Only(Number(<<\h0F, code>>), 0, row)
    BY <2>3, SetRows
  <2>5. row.form = "set" /\ row.op = written.op /\ row.size = BYTE
    BY <1>5 DEF Row
  <2> HIDE DEF code, row
  <2> QED BY <2>2, <2>3, <2>4, <2>5, SetMeans
<1>6. CASE written.op = "setl"
  <2> DEFINE code == \h9C
             row == Row("setl", \h0F90 + 12, None, "set", BYTE, None)
  <2>1. Encoding = gen_setl
    BY <1>1, <1>6 DEF Encoding
  <2>2. Encoding = SetByte(code)
    BY <2>1 DEF gen_setl
  <2>3. IsOpcode(<<\h0F, code>>) /\ Number(<<\h0F, code>>) = \h0F00 + code
    BY DEF IsOpcode, Number
  <2>4. Only(Number(<<\h0F, code>>), 0, row)
    BY <2>3, SetRows
  <2>5. row.form = "set" /\ row.op = written.op /\ row.size = BYTE
    BY <1>6 DEF Row
  <2> HIDE DEF code, row
  <2> QED BY <2>2, <2>3, <2>4, <2>5, SetMeans
<1>7. CASE written.op = "setge"
  <2> DEFINE code == \h9D
             row == Row("setge", \h0F90 + 13, None, "set", BYTE, None)
  <2>1. Encoding = gen_setge
    BY <1>1, <1>7 DEF Encoding
  <2>2. Encoding = SetByte(code)
    BY <2>1 DEF gen_setge
  <2>3. IsOpcode(<<\h0F, code>>) /\ Number(<<\h0F, code>>) = \h0F00 + code
    BY DEF IsOpcode, Number
  <2>4. Only(Number(<<\h0F, code>>), 0, row)
    BY <2>3, SetRows
  <2>5. row.form = "set" /\ row.op = written.op /\ row.size = BYTE
    BY <1>7 DEF Row
  <2> HIDE DEF code, row
  <2> QED BY <2>2, <2>3, <2>4, <2>5, SetMeans
<1>8. CASE written.op = "setle"
  <2> DEFINE code == \h9E
             row == Row("setle", \h0F90 + 14, None, "set", BYTE, None)
  <2>1. Encoding = gen_setle
    BY <1>1, <1>8 DEF Encoding
  <2>2. Encoding = SetByte(code)
    BY <2>1 DEF gen_setle
  <2>3. IsOpcode(<<\h0F, code>>) /\ Number(<<\h0F, code>>) = \h0F00 + code
    BY DEF IsOpcode, Number
  <2>4. Only(Number(<<\h0F, code>>), 0, row)
    BY <2>3, SetRows
  <2>5. row.form = "set" /\ row.op = written.op /\ row.size = BYTE
    BY <1>8 DEF Row
  <2> HIDE DEF code, row
  <2> QED BY <2>2, <2>3, <2>4, <2>5, SetMeans
<1>9. CASE written.op = "setg"
  <2> DEFINE code == \h9F
             row == Row("setg", \h0F90 + 15, None, "set", BYTE, None)
  <2>1. Encoding = gen_setg
    BY <1>1, <1>9 DEF Encoding
  <2>2. Encoding = SetByte(code)
    BY <2>1 DEF gen_setg
  <2>3. IsOpcode(<<\h0F, code>>) /\ Number(<<\h0F, code>>) = \h0F00 + code
    BY DEF IsOpcode, Number
  <2>4. Only(Number(<<\h0F, code>>), 0, row)
    BY <2>3, SetRows
  <2>5. row.form = "set" /\ row.op = written.op /\ row.size = BYTE
    BY <1>9 DEF Row
  <2> HIDE DEF code, row
  <2> QED BY <2>2, <2>3, <2>4, <2>5, SetMeans
<1> QED BY <1>2, <1>3, <1>4, <1>5, <1>6, <1>7, <1>8, <1>9 DEF Sets

LEMMA StacksMean ==
  ASSUME Ready, written.op \in Stack
  PROVE  Means
<1>1. inst.op = written.op
  BY ReadyFacts
<1>2. CASE written.op = "push"
  <2> DEFINE base == \h50
  <2>1. Encoding = gen_push
    BY <1>1, <1>2 DEF Encoding
  <2>2. Encoding = Code(gen_rex(0, 0, 0, op.regcode, FALSE) \o gen_opcode_reg(base, op.regcode), {})
    BY <2>1 DEF gen_push
  <2>3. StackRow(written.op, base)
    BY <1>2, StackRows DEF StackRow
  <2>4. base \in {\h50, \h58}
    OBVIOUS
  <2> HIDE DEF base
  <2> QED BY <2>2, <2>3, <2>4, StackMeans
<1>3. CASE written.op = "pop"
  <2> DEFINE base == \h58
  <2>1. Encoding = gen_pop
    BY <1>1, <1>3 DEF Encoding
  <2>2. Encoding = Code(gen_rex(0, 0, 0, op.regcode, FALSE) \o gen_opcode_reg(base, op.regcode), {})
    BY <2>1 DEF gen_pop
  <2>3. StackRow(written.op, base)
    BY <1>3, StackRows DEF StackRow
  <2>4. base \in {\h50, \h58}
    OBVIOUS
  <2> HIDE DEF base
  <2> QED BY <2>2, <2>3, <2>4, StackMeans
<1> QED BY <1>2, <1>3 DEF Stack

LEMMA JumpsMean ==
  ASSUME Ready, written.op \in Jumps
  PROVE  Means
<1>1. inst.op = written.op
  BY ReadyFacts
<1>2. CASE written.op = "jmp"
  <2> DEFINE opcode == <<\hE9>>
             row == Row("jmp", \hE9, None, "rel", QUAD, None)
  <2>1. Encoding = gen_jmp
    BY <1>1, <1>2 DEF Encoding
  <2>2. Encoding = gen_rel32(opcode, op.ident)
    BY <2>1 DEF gen_jmp
  <2>3. IsOpcode(opcode) /\ Number(opcode) = \hE9
    BY DEF IsOpcode, Number
  <2>4. \A d \in Int : Only(Number(opcode), d, row)
    BY <2>3, BareRows
  <2>5. row.form = "rel" /\ row.op = written.op /\ row.size = QUAD
    BY <1>2 DEF Row
  <2> HIDE DEF opcode, row
  <2> QED BY <2>2, <2>3, <2>4, <2>5, JumpMeans
<1>3. CASE written.op = "call"
  <2> DEFINE opcode == <<\hE8>>
             row == Row("call", \hE8, None, "rel", QUAD, None)
  <2>1. Encoding = gen_call
    BY <1>1, <1>3 DEF Encoding
  <2>2. Encoding = gen_rel32(opcode, op.ident)
    BY <2>1 DEF gen_call
  <2>3. IsOpcode(opcode) /\ Number(opcode) = \hE8
    BY DEF IsOpcode, Number
  <2>4. \A d \in Int : Only(Number(opcode), d, row)
    BY <2>3, BareRows
  <2>5. row.form = "rel" /\ row.op = written.op /\ row.size = QUAD
    BY <1>3 DEF Row
  <2> HIDE DEF opcode, row
  <2> QED BY <2>2, <2>3, <2>4, <2>5, JumpMeans
<1>4. CASE written.op = "je"
  <2> DEFINE opcode == <<\h0F, \h84>>
             row == Row("je", \h0F84, None, "rel", QUAD, None)
  <2>1. Encoding = gen_je
    BY <1>1, <1>4 DEF Encoding
  <2>2. Encoding = gen_rel32(opcode, op.ident)
    BY <2>1 DEF gen_je
  <2>3. IsOpcode(opcode) /\ Number(opcode) = \h0F84
    BY DEF IsOpcode, Number
  <2>4. \A d \in Int : Only(Number(opcode), d, row)
    BY <2>3, BareRows
  <2>5. row.form = "rel" /\ row.op = written.op /\ row.size = QUAD
    BY <1>4 DEF Row
  <2> HIDE DEF opcode, row
  <2> QED BY <2>2, <2>3, <2>4, <2>5, JumpMeans
<1>5. CASE written.op = "jne"
  <2> DEFINE opcode == <<\h0F, \h85>>
             row == Row("jne", \h0F85, None, "rel", QUAD, None)
  <2>1. Encoding = gen_jne
    BY <1>1, <1>5 DEF Encoding
  <2>2. Encoding = gen_rel32(opcode, op.ident)
    BY <2>1 DEF gen_jne
  <2>3. IsOpcode(opcode) /\ Number(opcode) = \h0F85
    BY DEF IsOpcode, Number
  <2>4. \A d \in Int : Only(Number(opcode), d, row)
    BY <2>3, BareRows
  <2>5. row.form = "rel" /\ row.op = written.op /\ row.size = QUAD
    BY <1>5 DEF Row
  <2> HIDE DEF opcode, row
  <2> QED BY <2>2, <2>3, <2>4, <2>5, JumpMeans
<1> QED BY <1>2, <1>3, <1>4, <1>5 DEF Jumps

LEMMA BaresMean ==
  ASSUME Ready, written.op \in NoOperand, ~OtherSize
  PROVE  Means
<1>1. inst.op = written.op
  BY ReadyFacts
<1>2. CASE written.op = "cltd"
  <2> DEFINE x == << >>
             c == <<\h99>>
             row == Row("cltd", \h99, None, "none", None, None)
             size == LONG
  <2>1. Encoding = gen_cltd
    BY <1>1, <1>2 DEF Encoding
  <2>2. IsRex(x) /\ RexOf(x) \div 8 = 0
    BY DEF IsRex, RexOf
  <2>3. IsOpcode(c) /\ Number(c) = \h99
    BY DEF IsOpcode, Number
  <2>4. Encoding = Code(x \o c, {})
    <3>1. x \o c = c
      OBVIOUS
    <3> QED BY <2>1, <3>1 DEF gen_cltd
  <2>5. \A d \in Int : Only(Number(c), d, row)
    BY <2>3, BareRows
  <2>6. /\ row.form = "none"
        /\ size = IF row.size # None THEN row.size ELSE IF RexOf(x) \div 8 = 1 THEN QUAD ELSE LONG
        /\ size = IF written.op = "cltd" THEN LONG ELSE QUAD
        /\ written.op = IF row.op = "cltd" /\ size = QUAD THEN "cqto" ELSE row.op
    BY <1>2, <2>2 DEF Row, None, QUAD, LONG
  <2> HIDE DEF x, c, row, size
  <2> QED BY <2>2, <2>3, <2>4, <2>5, <2>6, BareMeans
<1>3. CASE written.op = "cqto"
  <2> DEFINE x == <<\h48>>
             c == <<\h99>>
             row == Row("cltd", \h99, None, "none", None, None)
             size == QUAD
  <2>1. Encoding = gen_cqto
    BY <1>1, <1>3 DEF Encoding
  <2>2. IsRex(x) /\ RexOf(x) \div 8 = 1
    BY DEF IsRex, RexOf
  <2>3. IsOpcode(c) /\ Number(c) = \h99
    BY DEF IsOpcode, Number
  <2>4. Encoding = Code(x \o c, {})
    <3>1. gen_rex(1, 0, 0, 0, FALSE) = x
      BY DEF gen_rex
    <3> QED BY <2>1, <3>1 DEF gen_cqto
  <2>5. \A d \in Int : Only(Number(c), d, row)
    BY <2>3, BareRows
  <2>6. /\ row.form = "none"
        /\ size = IF row.size # None THEN row.size ELSE IF RexOf(x) \div 8 = 1 THEN QUAD ELSE LONG
        /\ size = IF written.op = "cltd" THEN LONG ELSE QUAD
        /\ written.op = IF row.op = "cltd" /\ size = QUAD THEN "cqto" ELSE row.op
    BY <1>3, <2>2 DEF Row, None, QUAD, LONG
  <2> HIDE DEF x, c, row, size
  <2> QED BY <2>2, <2>3, <2>4, <2>5, <2>6, BareMeans
<1>4. CASE written.op = "leave"
  <2> DEFINE x == << >>
             c == <<\hC9>>
             row == Row("leave", \hC9, None, "none", QUAD, None)
             size == QUAD
  <2>1. Encoding = gen_leave
    BY <1>1, <1>4 DEF Encoding
  <2>2. IsRex(x) /\ RexOf(x) \div 8 = 0
    BY DEF IsRex, RexOf
  <2>3. IsOpcode(c) /\ Number(c) = \hC9
    BY DEF IsOpcode, Number
  <2>4. Encoding = Code(x \o c, {})
    <3>1. x \o c = c
      OBVIOUS
    <3> QED BY <2>1, <3>1 DEF gen_leave
  <2>5. \A d \in Int : Only(Number(c), d, row)
    BY <2>3, BareRows
  <2>6. /\ row.form = "none"
        /\ size = IF row.size # None THEN row.size ELSE IF RexOf(x) \div 8 = 1 THEN QUAD ELSE LONG
        /\ size = IF written.op = "cltd" THEN LONG ELSE QUAD
        /\ written.op = IF row.op = "cltd" /\ size = QUAD THEN "cqto" ELSE row.op
    BY <1>4, <2>2 DEF Row, None, QUAD, LONG
  <2> HIDE DEF x, c, row, size
  <2> QED BY <2>2, <2>3, <2>4, <2>5, <2>6, BareMeans
<1>5. CASE written.op = "ret"
  <2> DEFINE x == << >>
             c == <<\hC3>>
             row == Row("ret", \hC3, None, "none", QUAD, None)
             size == QUAD
  <2>1. Encoding = gen_ret
    BY <1>1, <1>5 DEF Encoding
  <2>2. IsRex(x) /\ RexOf(x) \div 8 = 0
    BY DEF IsRex, RexOf
  <2>3. IsOpcode(c) /\ Number(c) = \hC3
    BY DEF IsOpcode, Number
  <2>4. Encoding = Code(x \o c, {})
    <3>1. x \o c = c
      OBVIOUS
    <3> QED BY <2>1, <3>1 DEF gen_ret
  <2>5. \A d \in Int : Only(Number(c), d, row)
    BY <2>3, BareRows
  <2>6. /\ row.form = "none"
        /\ size = IF row.size # None THEN row.size ELSE IF RexOf(x) \div 8 = 1 THEN QUAD ELSE LONG
        /\ size = IF written.op = "cltd" THEN LONG ELSE QUAD
        /\ written.op = IF row.op = "cltd" /\ size = QUAD THEN "cqto" ELSE row.op
    BY <1>5, <2>2 DEF Row, None, QUAD, LONG
  <2> HIDE DEF x, c, row, size
  <2> QED BY <2>2, <2>3, <2>4, <2>5, <2>6, BareMeans
<1> QED BY <1>2, <1>3, <1>4, <1>5 DEF NoOperand

LEMMA EncodedMeans ==
  ASSUME IInv
  PROVE  EncodesMeaning
<1> SUFFICES ASSUME phase = "encoded", ~FromByteRegister, ~LargeImmediate, ~OtherSize
             PROVE  Means
  BY DEF EncodesMeaning
<1>1. Ready
  BY DEF Ready
<1>2. written.op \in Mnemonics
  BY WrittenType
<1>3. written.op \in Binary \cup Extensions \cup Unary \cup Shifts \cup Sets \cup Stack \cup Jumps
                     \cup NoOperand \cup {"lea"}
  BY <1>2 DEF Mnemonics, Binary, Extensions, Unary, Shifts, Sets, Stack, Jumps, NoOperand
<1>4. CASE written.op = "lea"
  <2>1. inst.op = written.op
    BY <1>1, ReadyFacts
  <2>2. Encoding = gen_lea
    BY <1>4, <2>1 DEF Encoding
  <2> QED BY <1>1, <1>4, <2>2, LeaMeans
<1> QED BY <1>1, <1>3, <1>4, BinaryMeans, ExtensionsMean, UnariesMean, ShiftsMean, SetsMean,
           StacksMean, JumpsMean, BaresMean

(* The processor does what was written, for every instruction of every     *)
(* operand the assembler can be given, with the three exceptions that the  *)
(* property names.                                                         *)
THEOREM BytesMean == Spec => []EncodesMeaning
<1>1. IInv => EncodesMeaning
  BY EncodedMeans
<1> QED BY <1>1, Invariant, PTL

-----------------------------------------------------------------------------
(* What gen.c prints becomes bytes. *)
LEMMA OpcodeTypes ==
  ASSUME NEW x, IsRex(x), NEW c, IsOpcode(c)
  PROVE  /\ x \in Seq(Int) /\ c \in Seq(Int) /\ Len(c) \in 1 .. 2
         /\ Number(c) # -1
<1> DEFINE p == << >>
<1>1. IsPrefix(p)
  BY DEF IsPrefix
<1> HIDE DEF p
<1>2. /\ x \in Seq(Int) /\ c \in Seq(Int) /\ Len(c) \in 1 .. 2
      /\ c[1] \in 0 .. 255 /\ (c[1] = \h0F => c[2] \in 0 .. 255)
  BY <1>1, HeadTypes
<1>3. Number(c) # -1
  <2> DEFINE a == c[1]
             b == c[2]
  <2>1. Number(c) = IF a = \h0F THEN \h0F00 + b ELSE a
    BY DEF Number
  <2>2. a \in 0 .. 255 /\ (a = \h0F => b \in 0 .. 255)
    BY <1>2
  <2> HIDE DEF a, b
  <2> QED BY <2>1, <2>2
<1> QED BY <1>2, <1>3

LEMMA NoOpcode == Opcode(<< >>) = -1
<1>1. \A k \in Int : At(<< >>, k) = -1
  <2>1. \A k \in Int : k \notin 1 .. Len(<< >>)
    BY Empties
  <2> QED BY <2>1 DEF At
<1>2. Flag(Word(<< >>)) \in Int /\ Flag(HasRex(<< >>)) \in Int
  BY DEF Flag
<1>3. First(<< >>) \in Int
  BY <1>2 DEF First
<1> QED BY <1>1, <1>3 DEF Opcode, Escaped

LEMMA InstrSome ==
  ASSUME Ready, NEW size \in 0 .. 3, NEW opcode, IsOpcode(opcode), NEW reg \in 0 .. 15,
         NEW rm, IsRm(rm), NEW required \in BOOLEAN, NEW imm \in Seq(Int),
         Encoding = Instr(size, opcode, reg, rm, required, imm)
  PROVE  bin # << >>
<1> DEFINE c == Instr(size, opcode, reg, rm, required, imm)
<1>0. c = Instr(size, opcode, reg, rm, required, imm) /\ Encoding = c
  OBVIOUS
<1> HIDE DEF c
<1>1. InstrHolds(c.bytes, size, opcode, reg, rm, required, imm)
  BY <1>0, InstrBytes
<1>2. c.bytes \in Seq(Int)
  BY <1>1 DEF InstrHolds
<1>3. bin = c.bytes
  BY <1>0, <1>2, Appended
<1>4. Opcode(bin) = Number(opcode)
  BY <1>1, <1>3 DEF InstrHolds
<1>5. Opcode(bin) # -1
  <2> DEFINE x == << >>
  <2>1. IsRex(x)
    BY DEF IsRex
  <2> HIDE DEF x
  <2>2. Number(opcode) # -1
    BY <2>1, OpcodeTypes
  <2> QED BY <1>4, <2>2
<1> QED BY <1>5, NoOpcode

LEMMA HeadSome ==
  ASSUME Ready, NEW x, IsRex(x), NEW c, IsOpcode(c), NEW t \in Seq(Int), NEW code, Encoding = code,
         code.bytes = x \o c \o t
  PROVE  bin # << >>
<1>1. x \in Seq(Int) /\ c \in Seq(Int) /\ Len(c) \in 1 .. 2
  BY OpcodeTypes
<1>2. x \o c \in Seq(Int) /\ Len(x \o c) = Len(x) + Len(c) /\ Len(x) \in Nat
  BY <1>1, Joined
<1>3. code.bytes \in Seq(Int) /\ Len(code.bytes) = Len(x \o c) + Len(t) /\ Len(t) \in Nat
  BY <1>2, Joined
<1>4. bin = code.bytes
  BY <1>3, Appended
<1> DEFINE n == Len(bin)
<1>5. n # 0
  <2> DEFINE i == Len(x)
             j == Len(c)
             k == Len(t)
  <2>1. n = (i + j) + k /\ i \in Nat /\ j \in 1 .. 2 /\ k \in Nat
    BY <1>1, <1>2, <1>3, <1>4
  <2> HIDE DEF n, i, j, k
  <2> QED BY <2>1
<1> QED BY <1>5, Empties

LEMMA BinarySome ==
  ASSUME Ready, TwoShown, NEW sizes, inst.suffix \in sizes,
         src.type \in {"imm", "reg", "mem"}, dest.type \in {"reg", "mem"},
         NEW immediate, NEW digit, NEW store, NEW load, HasTable(written.op, immediate, digit, store, load),
         Encoding = TwoOperands(sizes, immediate, digit, store, load)
  PROVE  bin # << >>
<1> DEFINE s == inst.suffix
           Required(operands) == s = BYTE /\ \E o \in operands : NeedsRex(o)
<1>1. /\ s \in 0 .. 3 /\ IsRm(dest) /\ dest.regcode \in 0 .. 15
      /\ Shows(src, written.ops[1]) /\ ~(src.type = "mem" /\ dest.type = "mem")
  BY ShowsRm DEF TwoShown
<1>2. digit \in 0 .. 15
  BY DEF HasTable
<1>3. IsOpcode(Sized(immediate, s)) /\ IsOpcode(Sized(store, s)) /\ IsOpcode(Sized(load, s))
  BY DEF HasTable, Plain, Sized
<1>4. CASE src.type = "imm"
  <2> DEFINE required == Required({dest})
             imm == Imm(s)
             opcode == Sized(immediate, s)
  <2>1. Encoding = Instr(s, opcode, digit, dest, required, imm) /\ required \in BOOLEAN
    BY <1>4 DEF TwoOperands
  <2>2. imm \in Seq(Int)
    <3>1. /\ written.ops[1].imm \in [1 .. 8 -> 0 .. 255]
          /\ src.imm = SubSeq(written.ops[1].imm, 1, 4)
      BY <1>1, <1>4 DEF Shows
    <3>2. imm = gen_imm(s, src.imm)
      BY DEF Imm
    <3> HIDE DEF imm, s
    <3> QED BY <1>1, <3>1, <3>2, ImmBytes
  <2> HIDE DEF s, required, imm, opcode
  <2> QED BY <1>1, <1>2, <1>3, <2>1, <2>2, InstrSome DEF opcode
<1>5. CASE src.type = "reg"
  <2> DEFINE required == Required({src, dest})
             opcode == Sized(store, s)
             reg == src.regcode
             imm == << >>
  <2>1. Encoding = Instr(s, opcode, reg, dest, required, imm) /\ required \in BOOLEAN
    BY <1>5 DEF TwoOperands
  <2>2. reg \in 0 .. 15 /\ imm \in Seq(Int)
    BY <1>1, <1>5, ShowsRm, Empties
  <2>3. IsOpcode(opcode)
    BY <1>3
  <2> HIDE DEF s, required, imm, opcode, reg
  <2> QED BY <1>1, <2>1, <2>2, <2>3, InstrSome
<1>6. CASE src.type = "mem"
  <2> DEFINE required == Required({dest})
             opcode == Sized(load, s)
             reg == dest.regcode
             imm == << >>
  <2>1. Encoding = Instr(s, opcode, reg, src, required, imm) /\ required \in BOOLEAN
    BY <1>1, <1>6 DEF TwoOperands
  <2>2. reg \in 0 .. 15 /\ imm \in Seq(Int) /\ IsRm(src)
    BY <1>1, <1>6, ShowsRm, Empties
  <2>3. IsOpcode(opcode)
    BY <1>3
  <2> HIDE DEF s, required, imm, opcode, reg
  <2> QED BY <1>1, <2>1, <2>2, <2>3, InstrSome
<1> QED BY <1>4, <1>5, <1>6

LEMMA ExtensionSome ==
  ASSUME Ready, TwoShown, NEW sizes, inst.suffix \in sizes, src.type = "reg", dest.type = "reg",
         NEW opcode, IsOpcode(opcode), Encoding = Extension(sizes, opcode)
  PROVE  bin # << >>
<1> DEFINE s == inst.suffix
           no == FALSE
           reg == dest.regcode
           imm == << >>
<1>1. s \in 0 .. 3 /\ IsRm(src) /\ reg \in 0 .. 15
  BY ShowsRm DEF TwoShown
<1>2. Encoding = Instr(s, opcode, reg, src, no, imm) /\ no \in BOOLEAN /\ imm \in Seq(Int)
  BY Empties DEF Extension
<1> HIDE DEF s, no, reg, imm
<1> QED BY <1>1, <1>2, InstrSome

LEMMA DigitSome ==
  ASSUME Ready, inst.suffix \in {LONG, QUAD}, NEW o, IsRm(o), o.type = "reg",
         NEW code, IsOpcode(<<code>>), NEW digit \in 0 .. 7, Encoding = OneOperand(code, digit, o)
  PROVE  bin # << >>
<1> DEFINE s == inst.suffix
           no == FALSE
           opcode == <<code>>
           imm == << >>
<1>1. s \in 0 .. 3 /\ digit \in 0 .. 15 /\ IsOpcode(opcode)
  BY DEF LONG, QUAD
<1>2. Encoding = Instr(s, opcode, digit, o, no, imm) /\ no \in BOOLEAN /\ imm \in Seq(Int)
  BY Empties DEF OneOperand
<1> HIDE DEF s, no, opcode, imm
<1> QED BY <1>1, <1>2, InstrSome

(* What the printed forms leave in inst. *)
LEMMA TypeShown ==
  ASSUME Ready, NEW i \in DOMAIN written.ops
  PROVE  inst.ops[i].type = IF written.ops[i].kind = "rip" THEN "mem" ELSE written.ops[i].kind
<1>1. IInv /\ Addresses /\ inst.ops = Parsed
  BY ReadyFacts DEF Ready
<1> QED BY <1>1, ParsedKind

LEMMA SuffixKept ==
  ASSUME Ready, written.suffix \in 0 .. 3, ~OtherSize
  PROVE  inst.suffix = written.suffix
<1>1. ~OtherSize => inst.suffix = Size
  BY ReadyFacts DEF Agreed
<1> QED BY <1>1 DEF Size, None

LEMMA PrintedTwoShown ==
  ASSUME Ready, PrintedTwo
  PROVE  /\ TwoShown
         /\ src.type = IF written.ops[1].kind = "rip" THEN "mem" ELSE written.ops[1].kind
         /\ dest.type = IF written.ops[2].kind = "rip" THEN "mem" ELSE written.ops[2].kind
         /\ written.op # "lea" => inst.suffix = written.suffix
<1>1. written.op \in Binary \cup Shifts \cup Extensions \cup {"lea"}
  BY DEF PrintedTwo, Binary, Shifts
<1>2. TwoShown
  BY <1>1, ReadyTwo
<1>3. 1 \in DOMAIN written.ops /\ 2 \in DOMAIN written.ops
  BY DEF PrintedTwo
<1>4. written.op # "lea" => ~OtherSize
  BY <1>1 DEF Binary, Shifts, Extensions, OtherSize, Sets
<1>5. written.suffix \in 0 .. 3
  BY DEF PrintedTwo
<1>6. written.op # "lea" => inst.suffix = written.suffix
  BY <1>4, <1>5, SuffixKept
<1> QED BY <1>2, <1>3, <1>6, TypeShown DEF src, dest

LEMMA PrintedOneShown ==
  ASSUME Ready, PrintedOne
  PROVE  /\ OneShown
         /\ op.type = written.ops[1].kind
         /\ written.op \in Unary => inst.suffix \in {LONG, QUAD}
<1>1. written.op \in Stack \cup Unary \cup Jumps \cup Sets
  BY DEF PrintedOne
<1>2. OneShown
  BY <1>1, ReadyOne
<1>3. 1 \in DOMAIN written.ops /\ written.ops[1].kind # "rip"
  BY DEF PrintedOne
<1>4. written.op \in Unary => inst.suffix \in {LONG, QUAD}
  <2> SUFFICES ASSUME written.op \in Unary PROVE inst.suffix \in {LONG, QUAD}
    OBVIOUS
  <2>1. written.suffix \in {LONG, QUAD}
    BY DEF PrintedOne, Unary, Stack, Sets, Jumps
  <2>2. ~OtherSize
    BY DEF Unary, OtherSize, Sets
  <2>3. written.suffix \in 0 .. 3
    BY <2>1 DEF LONG, QUAD
  <2> QED BY <2>1, <2>2, <2>3, SuffixKept
<1> QED BY <1>2, <1>3, <1>4, TypeShown DEF op

LEMMA PrintedBinarySome ==
  ASSUME Ready, PrintedTwo, written.op \in Binary
  PROVE  bin # << >>
<1>1. /\ TwoShown /\ inst.op = written.op
      /\ src.type \in {"imm", "reg", "mem"} /\ dest.type \in {"reg", "mem"}
      /\ inst.suffix = written.suffix
  <2>1. written.op # "lea"
    BY DEF Binary
  <2> QED BY <2>1, PrintedTwoShown DEF PrintedTwo, TwoShown
<1>2. /\ inst.suffix \in {BYTE, WORD, LONG, QUAD}
      /\ written.op \in {"add", "sub", "and", "or", "xor"} => inst.suffix \in {LONG, QUAD}
  BY <1>1 DEF PrintedTwo, Extensions, BYTE, WORD, LONG, QUAD
<1>3. CASE written.op = "mov"
  <2> DEFINE sizes == {BYTE, WORD, LONG, QUAD}
  <2>1. Encoding = gen_mov
    BY <1>1, <1>3 DEF Encoding
  <2>2. Encoding = TwoOperands(sizes, \hC7, 0, \h89, \h8B)
    BY <2>1 DEF gen_mov
  <2>3. HasTable(written.op, \hC7, 0, \h89, \h8B)
    BY <1>3, TablesOf
  <2>4. inst.suffix \in sizes
    BY <1>2, <1>3
  <2> HIDE DEF sizes
  <2> QED BY ONLY Ready, <1>1, <2>2, <2>3, <2>4, BinarySome
<1>4. CASE written.op = "add"
  <2> DEFINE sizes == {LONG, QUAD}
  <2>1. Encoding = gen_add
    BY <1>1, <1>4 DEF Encoding
  <2>2. Encoding = TwoOperands(sizes, \h81, 0, \h01, \h03)
    BY <2>1 DEF gen_add
  <2>3. HasTable(written.op, \h81, 0, \h01, \h03)
    BY <1>4, TablesOf
  <2>4. inst.suffix \in sizes
    BY <1>2, <1>4
  <2> HIDE DEF sizes
  <2> QED BY ONLY Ready, <1>1, <2>2, <2>3, <2>4, BinarySome
<1>5. CASE written.op = "sub"
  <2> DEFINE sizes == {LONG, QUAD}
  <2>1. Encoding = gen_sub
    BY <1>1, <1>5 DEF Encoding
  <2>2. Encoding = TwoOperands(sizes, \h81, 5, \h29, \h2B)
    BY <2>1 DEF gen_sub
  <2>3. HasTable(written.op, \h81, 5, \h29, \h2B)
    BY <1>5, TablesOf
  <2>4. inst.suffix \in sizes
    BY <1>2, <1>5
  <2> HIDE DEF sizes
  <2> QED BY ONLY Ready, <1>1, <2>2, <2>3, <2>4, BinarySome
<1>6. CASE written.op = "and"
  <2> DEFINE sizes == {LONG, QUAD}
  <2>1. Encoding = gen_and
    BY <1>1, <1>6 DEF Encoding
  <2>2. Encoding = TwoOperands(sizes, \h81, 4, \h21, \h23)
    BY <2>1 DEF gen_and
  <2>3. HasTable(written.op, \h81, 4, \h21, \h23)
    BY <1>6, TablesOf
  <2>4. inst.suffix \in sizes
    BY <1>2, <1>6
  <2> HIDE DEF sizes
  <2> QED BY ONLY Ready, <1>1, <2>2, <2>3, <2>4, BinarySome
<1>7. CASE written.op = "xor"
  <2> DEFINE sizes == {LONG, QUAD}
  <2>1. Encoding = gen_xor
    BY <1>1, <1>7 DEF Encoding
  <2>2. Encoding = TwoOperands(sizes, \h81, 6, \h31, \h33)
    BY <2>1 DEF gen_xor
  <2>3. HasTable(written.op, \h81, 6, \h31, \h33)
    BY <1>7, TablesOf
  <2>4. inst.suffix \in sizes
    BY <1>2, <1>7
  <2> HIDE DEF sizes
  <2> QED BY ONLY Ready, <1>1, <2>2, <2>3, <2>4, BinarySome
<1>8. CASE written.op = "or"
  <2> DEFINE sizes == {LONG, QUAD}
  <2>1. Encoding = gen_or
    BY <1>1, <1>8 DEF Encoding
  <2>2. Encoding = TwoOperands(sizes, \h81, 1, \h09, \h0B)
    BY <2>1 DEF gen_or
  <2>3. HasTable(written.op, \h81, 1, \h09, \h0B)
    BY <1>8, TablesOf
  <2>4. inst.suffix \in sizes
    BY <1>2, <1>8
  <2> HIDE DEF sizes
  <2> QED BY ONLY Ready, <1>1, <2>2, <2>3, <2>4, BinarySome
<1>9. CASE written.op = "cmp"
  <2> DEFINE sizes == {BYTE, WORD, LONG, QUAD}
  <2>1. Encoding = gen_cmp
    BY <1>1, <1>9 DEF Encoding
  <2>2. Encoding = TwoOperands(sizes, \h81, 7, \h39, \h3B)
    BY <2>1 DEF gen_cmp
  <2>3. HasTable(written.op, \h81, 7, \h39, \h3B)
    BY <1>9, TablesOf
  <2>4. inst.suffix \in sizes
    BY <1>2, <1>9
  <2> HIDE DEF sizes
  <2> QED BY ONLY Ready, <1>1, <2>2, <2>3, <2>4, BinarySome
<1> QED BY <1>3, <1>4, <1>5, <1>6, <1>7, <1>8, <1>9 DEF Binary

LEMMA PrintedExtensionSome ==
  ASSUME Ready, PrintedTwo, written.op \in Extensions
  PROVE  bin # << >>
<1>1. /\ TwoShown /\ inst.op = written.op /\ inst.suffix = written.suffix
      /\ src.type = "reg" /\ dest.type = "reg"
  <2>1. written.op # "lea" /\ written.ops[1].kind = "reg" /\ written.ops[2].kind = "reg"
    BY DEF PrintedTwo, Extensions
  <2> QED BY <2>1, PrintedTwoShown DEF TwoShown
<1>2. /\ written.op \in {"movzb", "movsb"} => inst.suffix \in {WORD, LONG, QUAD}
      /\ written.op \in {"movzw", "movsw"} => inst.suffix \in {LONG, QUAD}
      /\ written.op = "movsl" => inst.suffix \in {QUAD}
  BY <1>1 DEF PrintedTwo, Extensions, BYTE, WORD, LONG, QUAD
<1>3. CASE written.op = "movzb"
  <2> DEFINE opcode == <<\h0F, \hB6>>
             sizes == {WORD, LONG, QUAD}
  <2>1. Encoding = gen_movzb
    BY <1>1, <1>3 DEF Encoding
  <2>2. Encoding = Extension(sizes, opcode)
    BY <2>1 DEF gen_movzb
  <2>3. IsOpcode(opcode)
    BY DEF IsOpcode
  <2>4. inst.suffix \in sizes
    BY <1>2, <1>3
  <2> HIDE DEF opcode, sizes
  <2> QED BY <1>1, <2>2, <2>3, <2>4, ExtensionSome
<1>4. CASE written.op = "movzw"
  <2> DEFINE opcode == <<\h0F, \hB7>>
             sizes == {LONG, QUAD}
  <2>1. Encoding = gen_movzw
    BY <1>1, <1>4 DEF Encoding
  <2>2. Encoding = Extension(sizes, opcode)
    BY <2>1 DEF gen_movzw
  <2>3. IsOpcode(opcode)
    BY DEF IsOpcode
  <2>4. inst.suffix \in sizes
    BY <1>2, <1>4
  <2> HIDE DEF opcode, sizes
  <2> QED BY <1>1, <2>2, <2>3, <2>4, ExtensionSome
<1>5. CASE written.op = "movsb"
  <2> DEFINE opcode == <<\h0F, \hBE>>
             sizes == {WORD, LONG, QUAD}
  <2>1. Encoding = gen_movsb
    BY <1>1, <1>5 DEF Encoding
  <2>2. Encoding = Extension(sizes, opcode)
    BY <2>1 DEF gen_movsb
  <2>3. IsOpcode(opcode)
    BY DEF IsOpcode
  <2>4. inst.suffix \in sizes
    BY <1>2, <1>5
  <2> HIDE DEF opcode, sizes
  <2> QED BY <1>1, <2>2, <2>3, <2>4, ExtensionSome
<1>6. CASE written.op = "movsw"
  <2> DEFINE opcode == <<\h0F, \hBF>>
             sizes == {LONG, QUAD}
  <2>1. Encoding = gen_movsw
    BY <1>1, <1>6 DEF Encoding
  <2>2. Encoding = Extension(sizes, opcode)
    BY <2>1 DEF gen_movsw
  <2>3. IsOpcode(opcode)
    BY DEF IsOpcode
  <2>4. inst.suffix \in sizes
    BY <1>2, <1>6
  <2> HIDE DEF opcode, sizes
  <2> QED BY <1>1, <2>2, <2>3, <2>4, ExtensionSome
<1>7. CASE written.op = "movsl"
  <2> DEFINE opcode == <<\h63>>
             sizes == {QUAD}
  <2>1. Encoding = gen_movsl
    BY <1>1, <1>7 DEF Encoding
  <2>2. Encoding = Extension(sizes, opcode)
    BY <2>1 DEF gen_movsl
  <2>3. IsOpcode(opcode)
    BY DEF IsOpcode
  <2>4. inst.suffix \in sizes
    BY <1>2, <1>7
  <2> HIDE DEF opcode, sizes
  <2> QED BY <1>1, <2>2, <2>3, <2>4, ExtensionSome
<1> QED BY <1>3, <1>4, <1>5, <1>6, <1>7 DEF Extensions

LEMMA PrintedUnarySome ==
  ASSUME Ready, PrintedOne, written.op \in Unary
  PROVE  bin # << >>
<1>1. inst.op = written.op /\ inst.suffix \in {LONG, QUAD} /\ IsRm(op) /\ op.type = "reg"
  <2>1. written.ops[1].kind = "reg"
    BY DEF PrintedOne, Unary, Jumps
  <2>2. OneShown /\ op.type = "reg" /\ inst.suffix \in {LONG, QUAD}
    BY <2>1, PrintedOneShown
  <2> QED BY <2>2, ShowsRm DEF OneShown
<1>2. CASE written.op = "not"
  <2> DEFINE code == \hF7
             digit == 2
  <2>1. Encoding = gen_not
    BY <1>1, <1>2 DEF Encoding
  <2>2. Encoding = OneOperand(code, digit, op) /\ digit \in 0 .. 7
    BY <2>1 DEF gen_not
  <2>3. IsOpcode(<<code>>)
    BY DEF IsOpcode
  <2> HIDE DEF code, digit
  <2> QED BY <1>1, <2>2, <2>3, DigitSome
<1>3. CASE written.op = "neg"
  <2> DEFINE code == \hF7
             digit == 3
  <2>1. Encoding = gen_neg
    BY <1>1, <1>3 DEF Encoding
  <2>2. Encoding = OneOperand(code, digit, op) /\ digit \in 0 .. 7
    BY <2>1 DEF gen_neg
  <2>3. IsOpcode(<<code>>)
    BY DEF IsOpcode
  <2> HIDE DEF code, digit
  <2> QED BY <1>1, <2>2, <2>3, DigitSome
<1>4. CASE written.op = "mul"
  <2> DEFINE code == \hF7
             digit == 4
  <2>1. Encoding = gen_mul
    BY <1>1, <1>4 DEF Encoding
  <2>2. Encoding = OneOperand(code, digit, op) /\ digit \in 0 .. 7
    BY <2>1 DEF gen_mul
  <2>3. IsOpcode(<<code>>)
    BY DEF IsOpcode
  <2> HIDE DEF code, digit
  <2> QED BY <1>1, <2>2, <2>3, DigitSome
<1>5. CASE written.op = "imul"
  <2> DEFINE code == \hF7
             digit == 5
  <2>1. Encoding = gen_imul
    BY <1>1, <1>5 DEF Encoding
  <2>2. Encoding = OneOperand(code, digit, op) /\ digit \in 0 .. 7
    BY <2>1 DEF gen_imul
  <2>3. IsOpcode(<<code>>)
    BY DEF IsOpcode
  <2> HIDE DEF code, digit
  <2> QED BY <1>1, <2>2, <2>3, DigitSome
<1>6. CASE written.op = "div"
  <2> DEFINE code == \hF7
             digit == 6
  <2>1. Encoding = gen_div
    BY <1>1, <1>6 DEF Encoding
  <2>2. Encoding = OneOperand(code, digit, op) /\ digit \in 0 .. 7
    BY <2>1 DEF gen_div
  <2>3. IsOpcode(<<code>>)
    BY DEF IsOpcode
  <2> HIDE DEF code, digit
  <2> QED BY <1>1, <2>2, <2>3, DigitSome
<1>7. CASE written.op = "idiv"
  <2> DEFINE code == \hF7
             digit == 7
  <2>1. Encoding = gen_idiv
    BY <1>1, <1>7 DEF Encoding
  <2>2. Encoding = OneOperand(code, digit, op) /\ digit \in 0 .. 7
    BY <2>1 DEF gen_idiv
  <2>3. IsOpcode(<<code>>)
    BY DEF IsOpcode
  <2> HIDE DEF code, digit
  <2> QED BY <1>1, <2>2, <2>3, DigitSome
<1> QED BY <1>2, <1>3, <1>4, <1>5, <1>6, <1>7 DEF Unary

LEMMA PrintedShiftSome ==
  ASSUME Ready, PrintedTwo, written.op \in Shifts
  PROVE  bin # << >>
<1>1. inst.op = written.op /\ inst.suffix \in {LONG, QUAD} /\ IsRm(dest) /\ dest.type = "reg"
  <2>1. written.ops[2].kind = "reg" /\ written.suffix \in {LONG, QUAD} /\ written.op # "lea"
    BY DEF PrintedTwo, Shifts, Extensions
  <2>2. TwoShown /\ dest.type = "reg" /\ inst.suffix \in {LONG, QUAD}
    BY <2>1, PrintedTwoShown
  <2> QED BY <2>2, ShowsRm DEF TwoShown
<1>2. CASE written.op = "sal"
  <2> DEFINE code == \hD3
             digit == 4
  <2>1. Encoding = gen_sal
    BY <1>1, <1>2 DEF Encoding
  <2>2. Encoding = OneOperand(code, digit, dest) /\ digit \in 0 .. 7
    BY <2>1 DEF gen_sal
  <2>3. IsOpcode(<<code>>)
    BY DEF IsOpcode
  <2> HIDE DEF code, digit
  <2> QED BY <1>1, <2>2, <2>3, DigitSome
<1>3. CASE written.op = "sar"
  <2> DEFINE code == \hD3
             digit == 7
  <2>1. Encoding = gen_sar
    BY <1>1, <1>3 DEF Encoding
  <2>2. Encoding = OneOperand(code, digit, dest) /\ digit \in 0 .. 7
    BY <2>1 DEF gen_sar
  <2>3. IsOpcode(<<code>>)
    BY DEF IsOpcode
  <2> HIDE DEF code, digit
  <2> QED BY <1>1, <2>2, <2>3, DigitSome
<1> QED BY <1>2, <1>3 DEF Shifts

LEMMA SetSome ==
  ASSUME Ready, op.type = "reg", IsRm(op), NEW code, IsOpcode(<<\h0F, code>>), Encoding = SetByte(code)
  PROVE  bin # << >>
<1> DEFINE s == BYTE
           required == NeedsRex(op)
           opcode == <<\h0F, code>>
           zero == 0
           imm == << >>
<1>1. s \in 0 .. 3 /\ zero \in 0 .. 15 /\ IsOpcode(opcode)
  BY DEF BYTE
<1>2. Encoding = Instr(s, opcode, zero, op, required, imm) /\ required \in BOOLEAN /\ imm \in Seq(Int)
  BY Empties DEF SetByte, NeedsRex
<1> HIDE DEF s, required, opcode, zero, imm
<1> QED BY <1>1, <1>2, InstrSome

LEMMA PrintedSetSome ==
  ASSUME Ready, PrintedOne, written.op \in Sets
  PROVE  bin # << >>
<1>1. inst.op = written.op /\ IsRm(op) /\ op.type = "reg"
  <2>1. written.ops[1].kind = "reg"
    BY DEF PrintedOne, Sets, Jumps
  <2>2. OneShown /\ op.type = "reg"
    BY <2>1, PrintedOneShown
  <2> QED BY <2>2, ShowsRm DEF OneShown
<1>2. CASE written.op = "setb"
  <2> DEFINE code == \h92
  <2>1. Encoding = gen_setb
    BY <1>1, <1>2 DEF Encoding
  <2>2. Encoding = SetByte(code)
    BY <2>1 DEF gen_setb
  <2>3. IsOpcode(<<\h0F, code>>)
    BY DEF IsOpcode
  <2> HIDE DEF code
  <2> QED BY <1>1, <2>2, <2>3, SetSome
<1>3. CASE written.op = "sete"
  <2> DEFINE code == \h94
  <2>1. Encoding = gen_sete
    BY <1>1, <1>3 DEF Encoding
  <2>2. Encoding = SetByte(code)
    BY <2>1 DEF gen_sete
  <2>3. IsOpcode(<<\h0F, code>>)
    BY DEF IsOpcode
  <2> HIDE DEF code
  <2> QED BY <1>1, <2>2, <2>3, SetSome
<1>4. CASE written.op = "setne"
  <2> DEFINE code == \h95
  <2>1. Encoding = gen_setne
    BY <1>1, <1>4 DEF Encoding
  <2>2. Encoding = SetByte(code)
    BY <2>1 DEF gen_setne
  <2>3. IsOpcode(<<\h0F, code>>)
    BY DEF IsOpcode
  <2> HIDE DEF code
  <2> QED BY <1>1, <2>2, <2>3, SetSome
<1>5. CASE written.op = "setbe"
  <2> DEFINE code == \h96
  <2>1. Encoding = gen_setbe
    BY <1>1, <1>5 DEF Encoding
  <2>2. Encoding = SetByte(code)
    BY <2>1 DEF gen_setbe
  <2>3. IsOpcode(<<\h0F, code>>)
    BY DEF IsOpcode
  <2> HIDE DEF code
  <2> QED BY <1>1, <2>2, <2>3, SetSome
<1>6. CASE written.op = "setl"
  <2> DEFINE code == \h9C
  <2>1. Encoding = gen_setl
    BY <1>1, <1>6 DEF Encoding
  <2>2. Encoding = SetByte(code)
    BY <2>1 DEF gen_setl
  <2>3. IsOpcode(<<\h0F, code>>)
    BY DEF IsOpcode
  <2> HIDE DEF code
  <2> QED BY <1>1, <2>2, <2>3, SetSome
<1>7. CASE written.op = "setge"
  <2> DEFINE code == \h9D
  <2>1. Encoding = gen_setge
    BY <1>1, <1>7 DEF Encoding
  <2>2. Encoding = SetByte(code)
    BY <2>1 DEF gen_setge
  <2>3. IsOpcode(<<\h0F, code>>)
    BY DEF IsOpcode
  <2> HIDE DEF code
  <2> QED BY <1>1, <2>2, <2>3, SetSome
<1>8. CASE written.op = "setle"
  <2> DEFINE code == \h9E
  <2>1. Encoding = gen_setle
    BY <1>1, <1>8 DEF Encoding
  <2>2. Encoding = SetByte(code)
    BY <2>1 DEF gen_setle
  <2>3. IsOpcode(<<\h0F, code>>)
    BY DEF IsOpcode
  <2> HIDE DEF code
  <2> QED BY <1>1, <2>2, <2>3, SetSome
<1>9. CASE written.op = "setg"
  <2> DEFINE code == \h9F
  <2>1. Encoding = gen_setg
    BY <1>1, <1>9 DEF Encoding
  <2>2. Encoding = SetByte(code)
    BY <2>1 DEF gen_setg
  <2>3. IsOpcode(<<\h0F, code>>)
    BY DEF IsOpcode
  <2> HIDE DEF code
  <2> QED BY <1>1, <2>2, <2>3, SetSome
<1> QED BY <1>2, <1>3, <1>4, <1>5, <1>6, <1>7, <1>8, <1>9 DEF Sets

LEMMA PrintedLeaSome ==
  ASSUME Ready, PrintedTwo, written.op = "lea"
  PROVE  bin # << >>
<1> DEFINE s == QUAD
           no == FALSE
           opcode == <<\h8D>>
           reg == dest.regcode
           imm == << >>
<1>1. inst.op = written.op /\ IsRm(src) /\ reg \in 0 .. 15
  <2>1. written.ops[1].kind \in {"mem", "rip"} /\ written.ops[2].kind = "reg"
    BY DEF PrintedTwo, Extensions
  <2>2. TwoShown /\ src.type = "mem" /\ dest.type = "reg"
    BY <2>1, PrintedTwoShown
  <2> QED BY <2>2, ShowsRm DEF TwoShown
<1>2. Encoding = gen_lea
  BY <1>1 DEF Encoding
<1>3. Encoding = Instr(s, opcode, reg, src, no, imm) /\ no \in BOOLEAN /\ imm \in Seq(Int)
  BY <1>2, Empties DEF gen_lea
<1>4. s \in 0 .. 3 /\ IsOpcode(opcode)
  BY DEF QUAD, IsOpcode
<1> HIDE DEF s, no, opcode, reg, imm
<1> QED BY <1>1, <1>3, <1>4, InstrSome

LEMMA BareSome ==
  ASSUME Ready, NEW x, IsRex(x), NEW c, IsOpcode(c), Encoding = Code(x \o c, {})
  PROVE  bin # << >>
<1> DEFINE code == Encoding
           t == << >>
<1>1. code.bytes = x \o c /\ Encoding = code /\ t = << >>
  BY DEF Code
<1> HIDE DEF code, t
<1>2. x \o c \in Seq(Int)
  <2>1. x \in Seq(Int) /\ c \in Seq(Int)
    BY OpcodeTypes
  <2> QED BY <2>1, Joined
<1>3. code.bytes = x \o c \o t /\ t \in Seq(Int)
  BY <1>1, <1>2, ConcatEmptySeq, Empties
<1> QED BY <1>1, <1>3, HeadSome

LEMMA StackSome ==
  ASSUME Ready, op.regcode \in 0 .. 15, NEW base \in {\h50, \h58},
         Encoding = Code(gen_rex(0, 0, 0, op.regcode, FALSE) \o gen_opcode_reg(base, op.regcode), {})
  PROVE  bin # << >>
<1> DEFINE reg == op.regcode
           k == reg % 8
           x == gen_rex(0, 0, 0, reg, FALSE)
           c == <<base + k>>
<1>1. k \in 0 .. 7
  BY Octal
<1>2. IsRex(x)
  <2> DEFINE zero == 0
             no == FALSE
  <2>1. zero \in {0, 1} /\ zero \in 0 .. 15 /\ no \in BOOLEAN /\ x = gen_rex(zero, zero, zero, reg, no)
    OBVIOUS
  <2> HIDE DEF zero, no, x, reg
  <2>2. RexHolds(x, zero, zero, zero, reg, no)
    BY <2>1, RexBits, SMTT(40) DEF reg
  <2> QED BY <2>2 DEF RexHolds
<1>3. IsOpcode(c)
  <2>1. base + k \in 0 .. 255 /\ base + k \notin {\h0F, \h66} /\ base + k \notin \h40 .. \h4F
    BY <1>1
  <2> HIDE DEF k
  <2> QED BY <2>1 DEF IsOpcode
<1>4. Encoding = Code(x \o c, {})
  BY DEF gen_opcode_reg
<1> HIDE DEF x, c, reg, k
<1> QED BY <1>2, <1>3, <1>4, BareSome

LEMMA PrintedStackSome ==
  ASSUME Ready, PrintedOne, written.op \in Stack
  PROVE  bin # << >>
<1>1. inst.op = written.op /\ op.regcode \in 0 .. 15
  <2>1. OneShown
    BY PrintedOneShown
  <2> QED BY <2>1 DEF OneShown, Shows, IsOp
<1>2. CASE written.op = "push"
  <2> DEFINE base == \h50
  <2>1. Encoding = gen_push
    BY <1>1, <1>2 DEF Encoding
  <2>2. Encoding = Code(gen_rex(0, 0, 0, op.regcode, FALSE) \o gen_opcode_reg(base, op.regcode), {})
    BY <2>1 DEF gen_push
  <2>3. base \in {\h50, \h58}
    OBVIOUS
  <2> HIDE DEF base
  <2> QED BY <1>1, <2>2, <2>3, StackSome
<1>3. CASE written.op = "pop"
  <2> DEFINE base == \h58
  <2>1. Encoding = gen_pop
    BY <1>1, <1>3 DEF Encoding
  <2>2. Encoding = Code(gen_rex(0, 0, 0, op.regcode, FALSE) \o gen_opcode_reg(base, op.regcode), {})
    BY <2>1 DEF gen_pop
  <2>3. base \in {\h50, \h58}
    OBVIOUS
  <2> HIDE DEF base
  <2> QED BY <1>1, <2>2, <2>3, StackSome
<1> QED BY <1>2, <1>3 DEF Stack

LEMMA JumpSome ==
  ASSUME Ready, NEW c, IsOpcode(c), Encoding = gen_rel32(c, op.ident)
  PROVE  bin # << >>
<1> DEFINE code == Encoding
           x == << >>
           t == LowBytes(0, 4)
<1>1. IsRex(x) /\ x = << >>
  BY DEF IsRex
<1>2. t \in Seq(Int)
  <2>1. 0 \in Int32
    BY DEF Int32
  <2>2. 0 \in Nat
    OBVIOUS
  <2> QED BY ONLY <2>1, <2>2, FourHold
<1>3. code.bytes = c \o t /\ Encoding = code
  BY DEF gen_rel32, Code
<1> HIDE DEF code, x, t
<1>4. x \o c = c
  <2>1. c \in Seq(Int)
    BY <1>1, OpcodeTypes
  <2> QED BY <1>1, <2>1, NoneBefore
<1>5. code.bytes = x \o c \o t
  BY <1>3, <1>4
<1> QED BY <1>1, <1>2, <1>3, <1>5, HeadSome

LEMMA PrintedJumpSome ==
  ASSUME Ready, written.op \in Jumps
  PROVE  bin # << >>
<1>1. inst.op = written.op
  BY ReadyFacts
<1>2. /\ IsOpcode(<<\hE9>>) /\ IsOpcode(<<\hE8>>)
      /\ IsOpcode(<<\h0F, \h84>>) /\ IsOpcode(<<\h0F, \h85>>)
  BY DEF IsOpcode
<1>3. CASE written.op = "jmp"
  <2>1. Encoding = gen_jmp
    BY <1>1, <1>3 DEF Encoding
  <2> QED BY <1>2, <2>1, JumpSome DEF gen_jmp
<1>4. CASE written.op = "je"
  <2>1. Encoding = gen_je
    BY <1>1, <1>4 DEF Encoding
  <2> QED BY <1>2, <2>1, JumpSome DEF gen_je
<1>5. CASE written.op = "jne"
  <2>1. Encoding = gen_jne
    BY <1>1, <1>5 DEF Encoding
  <2> QED BY <1>2, <2>1, JumpSome DEF gen_jne
<1>6. CASE written.op = "call"
  <2>1. Encoding = gen_call
    BY <1>1, <1>6 DEF Encoding
  <2> QED BY <1>2, <2>1, JumpSome DEF gen_call
<1> QED BY <1>3, <1>4, <1>5, <1>6 DEF Jumps

LEMMA PrintedBareSome ==
  ASSUME Ready, written.op \in NoOperand
  PROVE  bin # << >>
<1>1. inst.op = written.op
  BY ReadyFacts
<1>2. CASE written.op = "cqto"
  <2> DEFINE x == <<\h48>>
             c == <<\h99>>
  <2>1. Encoding = gen_cqto
    BY <1>1, <1>2 DEF Encoding
  <2>2. gen_rex(1, 0, 0, 0, FALSE) = x
    BY DEF gen_rex
  <2>3. Encoding = Code(x \o c, {})
    BY <2>1, <2>2 DEF gen_cqto
  <2>4. IsRex(x) /\ IsOpcode(c)
    BY DEF IsRex, IsOpcode
  <2> HIDE DEF x, c
  <2> QED BY <2>3, <2>4, BareSome
<1>3. CASE written.op # "cqto"
  <2> DEFINE x == << >>
  <2>1. PICK c \in {<<\h99>>, <<\hC9>>, <<\hC3>>} : Encoding = Code(c, {})
    <3>1. written.op \in {"cltd", "leave", "ret"}
      BY <1>3 DEF NoOperand
    <3>2. Encoding \in {gen_cltd, gen_leave, gen_ret}
      BY <1>1, <3>1 DEF Encoding
    <3> QED BY <3>2, Zenon DEF gen_cltd, gen_leave, gen_ret
  <2>2. IsRex(x) /\ IsOpcode(c)
    BY DEF IsRex, IsOpcode
  <2>3. Encoding = Code(x \o c, {})
    <3>1. x \o c = c
      OBVIOUS
    <3> QED BY <2>1, <3>1
  <2> HIDE DEF x
  <2> QED BY <2>2, <2>3, BareSome
<1> QED BY <1>2, <1>3

LEMMA PrintedSome ==
  ASSUME Ready, Printed
  PROVE  bin # << >>
<1>1. CASE PrintedTwo
  <2>1. written.op \in Binary \cup Shifts \cup Extensions \cup {"lea"}
    BY <1>1 DEF PrintedTwo, Binary, Shifts
  <2> QED BY <1>1, <2>1, PrintedBinarySome, PrintedShiftSome, PrintedExtensionSome, PrintedLeaSome
<1>2. CASE PrintedOne
  <2>1. written.op \in Unary \cup Stack \cup Sets \cup Jumps
    BY <1>2 DEF PrintedOne
  <2> QED BY <1>2, <2>1, PrintedUnarySome, PrintedStackSome, PrintedSetSome, PrintedJumpSome
<1>3. CASE PrintedNone
  BY <1>3, PrintedBareSome DEF PrintedNone
<1> QED BY <1>1, <1>2, <1>3, PrintedShape

(* The code generator and the assembler agree on a language: an            *)
(* instruction of a form that gen.c prints, of whatever registers,         *)
(* displacement, symbol or number, is never refused by the parser or by    *)
(* as_sema, and as_encode has bytes for it (gen.c:62-943,                  *)
(* as_sema.c:136-261, as_encode.c:239-1503).                               *)
THEOREM PrintedAccepted == Spec => []AcceptsPrinted
<1>1. ASSUME IInv
      PROVE  AcceptsPrinted
  <2>1. phase = "error" => ~Printed
    BY <1>1 DEF IInv
  <2>2. phase = "encoded" /\ Printed => bin # << >>
    BY <1>1, PrintedSome DEF Ready
  <2> QED BY <2>1, <2>2 DEF AcceptsPrinted
<1> QED BY <1>1, Invariant, PTL

=============================================================================
