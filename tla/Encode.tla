--------------------------------- MODULE Encode -------------------------------
(***************************************************************************)
(* One instruction on its way through the assembler: as_parse.c builds the *)
(* operands, as_sema.c decides on the suffix, as_encode.c appends the      *)
(* bytes.  Each of them may stop the assembler with an error.              *)
(*                                                                         *)
(* A register is [size, code] with size 0 .. 3 for byte, word, long and    *)
(* quad, the numbers regtype and InstSuffix have in C, and -1 is no suffix  *)
(* and no scale; an index register is a sequence, empty without one.       *)
(* A number after a $ is the sequence of its eight bytes, the lowest first; *)
(* a token keeps the lowest four (as_lex.c:222-234).                       *)
(***************************************************************************)
EXTENDS Integers, Sequences

CONSTANT Written   \* the instructions: [op, suffix, ops]

(* create_insts: each with every suffix and without. *)
Mnemonics ==
  {"push", "pop", "cltd", "cqto", "mov", "movzb", "movzw", "movsb", "movsw", "movsl", "lea", "neg",
   "not", "add", "sub", "mul", "imul", "div", "idiv", "and", "xor", "or", "sal", "sar", "cmp",
   "sete", "setne", "setb", "setl", "setg", "setbe", "setle", "setge",
   "jmp", "je", "jne", "call", "leave", "ret"}

Register == [size : 0 .. 3, code : 0 .. 15]

(* The numbers of 32 bits: a sign fits into the highest byte. *)
Int32 == {n \in Int : n \div 16777216 \in -128 .. 127}

Operand ==
  [kind : {"reg"}, reg : Register]
  \cup [kind : {"mem"}, base : Register, index : {<< >>} \cup {<<r>> : r \in Register},
        scale : Int, disp : Int32]
  \cup [kind : {"rip", "sym"}, ident : STRING]
  \cup [kind : {"imm"}, imm : [1 .. 8 -> 0 .. 255]]

ASSUME EncodeAssumption ==
  \A w \in Written : w \in [op : Mnemonics, suffix : -1 .. 3, ops : Seq(Operand)]

VARIABLES phase,    \* "written", "parsed", "checked", "encoded" or "error"
          written,  \* the instruction in the source
          inst,     \* Inst: what the parser made of it
          bin,      \* the bytes of the text section
          relocs    \* the relocations of the text section

vars == <<phase, written, inst, bin, relocs>>

None == -1
BYTE == 0
WORD == 1
LONG == 2
QUAD == 3

SP == 4
BP == 5
R12 == 12
R13 == 13

-----------------------------------------------------------------------------
(* as_parse.c: operands as calloc and the constructors leave them. *)
op_new(type) ==
  [type |-> type, regtype |-> BYTE, regcode |-> 0, rip |-> FALSE, sib |-> FALSE,
   scale |-> 0, index |-> 0, base |-> 0, disp |-> 0, ident |-> "none", imm |-> << >>]

parse_reg(o) == [op_new("reg") EXCEPT !.regtype = o.reg.size, !.regcode = o.reg.code]

op_mem_base(o) == [op_new("mem") EXCEPT !.base = o.base.code, !.disp = o.disp]

(* The number of a scale that is written, and of one that is left out.     *)
ScaleOf(scale) == IF scale = None THEN 0 ELSE CHOOSE k \in 0 .. 3 : scale = 2 ^ k

op_mem_sib(o) ==
  [op_mem_base(o) EXCEPT !.sib = TRUE, !.scale = ScaleOf(o.scale), !.index = o.index[1].code]

memory_ok(o) ==
  /\ o.base.size = QUAD
  /\ o.index # << >> =>
       /\ o.index[1].size = QUAD
       /\ o.index[1].code # SP
       /\ o.scale \in {None, 1, 2, 4, 8}

parse_memory(o) == IF o.index = << >> THEN op_mem_base(o) ELSE op_mem_sib(o)

parse_symbol(o) ==
  IF o.kind = "rip" THEN [op_new("mem") EXCEPT !.rip = TRUE, !.ident = o.ident]
  ELSE [op_new("sym") EXCEPT !.ident = o.ident]

parse_immediate(o) == [op_new("imm") EXCEPT !.imm = SubSeq(o.imm, 1, 4)]

parse_op(o) ==
  CASE o.kind = "reg" -> parse_reg(o)
    [] o.kind = "mem" -> parse_memory(o)
    [] o.kind \in {"rip", "sym"} -> parse_symbol(o)
    [] o.kind = "imm" -> parse_immediate(o)

Fail ==
  /\ phase' = "error"
  /\ UNCHANGED <<written, inst, bin, relocs>>

parse_inst ==
  /\ phase = "written"
  /\ \/ /\ \A i \in DOMAIN written.ops : written.ops[i].kind = "mem" => memory_ok(written.ops[i])
        /\ inst' = [op |-> written.op, suffix |-> written.suffix,
                    ops |-> [i \in DOMAIN written.ops |-> parse_op(written.ops[i])]]
        /\ phase' = "parsed"
        /\ UNCHANGED <<written, bin, relocs>>
     \/ /\ \E i \in DOMAIN written.ops : written.ops[i].kind = "mem" /\ ~memory_ok(written.ops[i])
        /\ Fail

-----------------------------------------------------------------------------
(* as_sema.c *)
operand_suffix(op) == IF op.type = "reg" THEN op.regtype ELSE None

(* The suffix that is written, else the size of an operand, else the        *)
(* default; wrong if an operand has another size.                          *)
Suffix(first, operands, default) ==
  LET known == {s \in {first} \cup {operand_suffix(op) : op \in operands} : s # None}
  IN  [ok     |-> known \cup {default} # {None} /\ \A s, t \in known : s = t,
       suffix |-> IF known = {} THEN default ELSE CHOOSE s \in known : TRUE]

Wrong == [ok |-> FALSE, suffix |-> None]

sema_inst_op0(default) ==
  IF Len(inst.ops) # 0 THEN Wrong ELSE Suffix(inst.suffix, {}, default)

sema_inst_op1(default) ==
  IF Len(inst.ops) # 1 THEN Wrong ELSE Suffix(inst.suffix, {inst.ops[1]}, default)

op   == inst.ops[1]
src  == inst.ops[1]
dest == inst.ops[2]

Two == Len(inst.ops) = 2 /\ ~(src.type = "mem" /\ dest.type = "mem") /\ dest.type # "imm"

sema_inst_op2(default) ==
  IF ~Two THEN Wrong ELSE Suffix(inst.suffix, {src, dest}, default)

(* Variant: the source decides on the suffix too. *)
sema_inst_src_dest_Same(src_suffix, default) ==
  IF ~Two \/ operand_suffix(src) \notin {None, src_suffix} THEN Wrong
  ELSE Suffix(inst.suffix, {src, dest}, default)

sema_inst_src_dest(src_suffix, default) ==
  IF ~Two \/ operand_suffix(src) \notin {None, src_suffix} THEN Wrong
  ELSE Suffix(inst.suffix, {dest}, default)

(* A result that must also satisfy a condition of the instruction. *)
With(result, condition) == [result EXCEPT !.ok = result.ok /\ condition]

Sets == {"sete", "setne", "setb", "setl", "setg", "setbe", "setle", "setge"}

Checked ==
  CASE inst.op = "cltd" -> sema_inst_op0(LONG)
    [] inst.op \in {"cqto", "leave", "ret"} -> sema_inst_op0(QUAD)
    [] inst.op \in {"push", "pop"} ->
         LET r == sema_inst_op1(QUAD)
         IN  IF r.ok THEN With(r, op.type = "reg" /\ op.regtype = QUAD) ELSE r
    [] inst.op \in {"neg", "not", "mul", "imul", "div", "idiv"} -> sema_inst_op1(None)
    [] inst.op \in {"jmp", "je", "jne", "call"} ->
         LET r == sema_inst_op1(QUAD)
         IN  IF r.ok THEN With(r, op.type = "sym" /\ r.suffix = QUAD) ELSE r
    [] inst.op \in Sets -> sema_inst_op1(BYTE)
    [] inst.op \in {"mov", "add", "sub", "and", "xor", "or", "cmp"} -> sema_inst_op2(None)
    [] inst.op = "lea" ->
         LET r == sema_inst_op2(None)
         IN  IF r.ok THEN With(r, src.type = "mem" /\ dest.type = "reg") ELSE r
    [] inst.op \in {"sal", "sar"} ->
         LET r == sema_inst_src_dest(BYTE, None)
         IN  IF r.ok THEN With(r, src.regcode = 1) ELSE r
    [] inst.op \in {"movzb", "movsb"} ->
         LET r == sema_inst_src_dest(BYTE, None) IN With(r, r.suffix # BYTE)
    [] inst.op \in {"movzw", "movsw"} ->
         LET r == sema_inst_src_dest(WORD, None) IN With(r, r.suffix \notin {BYTE, WORD})
    [] inst.op = "movsl" ->
         LET r == sema_inst_src_dest(LONG, None) IN With(r, r.suffix \notin {BYTE, WORD, LONG})

as_sema ==
  /\ phase = "parsed"
  /\ \/ /\ Checked.ok
        /\ inst' = [inst EXCEPT !.suffix = Checked.suffix]
        /\ phase' = "checked"
        /\ UNCHANGED <<written, bin, relocs>>
     \/ /\ ~Checked.ok
        /\ Fail

-----------------------------------------------------------------------------
(* as_encode.c: the parts of an instruction. *)
LowBytes(n, count) == [k \in 1 .. count |-> (n \div 256 ^ (k - 1)) % 256]

gen_rex(w, reg, index, base, required) ==
  LET wrxb == 8 * w + 4 * (reg \div 8) + 2 * (index \div 8) + base \div 8
  IN  IF required \/ wrxb # 0 THEN <<\h40 + wrxb>> ELSE << >>

gen_opcode_reg(opcode, reg) == <<opcode + (reg % 8)>>

(* Variant: every base may go without a displacement. *)
mod_mem_NoDisp(disp, base) ==
  CASE disp = 0 -> 0
    [] disp # 0 /\ disp \in -128 .. 127 -> 1
    [] OTHER -> 2

mod_mem(disp, base) ==
  CASE disp = 0 /\ base \notin {BP, R13} -> 0
    [] (disp # 0 \/ base \in {BP, R13}) /\ disp \in -128 .. 127 -> 1
    [] OTHER -> 2

gen_mod_rm(mod, reg, rm) == <<64 * mod + 8 * (reg % 8) + (rm % 8)>>

gen_sib(scale, index, base) == <<64 * scale + 8 * (index % 8) + (base % 8)>>

gen_disp(mod, disp) == LowBytes(disp, IF mod = 0 THEN 0 ELSE IF mod = 1 THEN 1 ELSE 4)

gen_imm(size, imm) ==
  SubSeq(imm, 1, CASE size = BYTE -> 1 [] size = WORD -> 2 [] size \in {LONG, QUAD} -> 4)

gen_ops(reg, rm) ==
  IF rm.type = "reg" THEN gen_mod_rm(3, reg, rm.regcode)
  ELSE IF rm.rip THEN gen_mod_rm(0, reg, 5) \o LowBytes(0, 4)
  ELSE LET mod == mod_mem(rm.disp, rm.base)
       IN  (IF rm.sib THEN gen_mod_rm(mod, reg, 4) \o gen_sib(rm.scale, rm.index, rm.base)
            ELSE gen_mod_rm(mod, reg, rm.base)
                 \o (IF rm.base \in {SP, R12} THEN gen_sib(0, 4, rm.base) ELSE << >>))
           \o gen_disp(mod, rm.disp)

(* What an instruction appends: bytes, and the symbols to be relocated.    *)
Code(bytes, refs) == [bytes |-> bytes, refs |-> refs]

Nothing == Code(<< >>, {})

(* gen_rel32: a relocation where the next four bytes begin. *)
gen_rel32(opcode, ident) ==
  Code(opcode \o LowBytes(0, 4), {[offset |-> Len(opcode), ident |-> ident]})

(* Prefix, REX, opcode, operands and immediate, in this order. *)
InstrHead(size, opcode, reg, rm, required) ==
  (IF size = WORD THEN <<\h66>> ELSE << >>)
  \o gen_rex(IF size = QUAD THEN 1 ELSE 0, reg, rm.index,
             IF rm.type = "reg" THEN rm.regcode ELSE rm.base, required)
  \o opcode

Instr(size, opcode, reg, rm, required, imm) ==
  LET head == InstrHead(size, opcode, reg, rm, required)
  IN  Code(head \o gen_ops(reg, rm) \o imm,
           IF rm.rip THEN {[offset |-> Len(head) + 1, ident |-> rm.ident]} ELSE {})

(* spl, bpl, sil and dil, which without REX would be ah, ch, dh and bh. *)
NeedsRex(o) == o.type = "reg" /\ o.regcode \in SP .. 7

-----------------------------------------------------------------------------
(* as_encode.c: the instructions, by the kind of table they share. *)
Imm(size) == gen_imm(size, src.imm)

(* An opcode for bytes is one less than that for the other sizes.          *)
Sized(opcode, size) == IF size = BYTE THEN <<opcode - 1>> ELSE <<opcode>>

(* From an immediate (opcode /digit), from a register, from memory.        *)
TwoOperands(sizes, immediate, digit, store, load) ==
  LET size == inst.suffix
      Required(operands) == size = BYTE /\ \E o \in operands : NeedsRex(o)
  IN  CASE size \notin sizes -> Nothing
        [] size \in sizes /\ src.type = "imm" /\ dest.type \in {"reg", "mem"} ->
             Instr(size, Sized(immediate, size), digit, dest, Required({dest}), Imm(size))
        [] size \in sizes /\ src.type = "reg" /\ dest.type \in {"reg", "mem"} ->
             Instr(size, Sized(store, size), src.regcode, dest, Required({src, dest}), << >>)
        [] size \in sizes /\ src.type = "mem" /\ dest.type = "reg" ->
             Instr(size, Sized(load, size), dest.regcode, src, Required({dest}), << >>)
        [] OTHER -> Nothing

(* To a register, from a smaller one or from memory.                       *)
Extension(sizes, opcode) ==
  IF inst.suffix \in sizes /\ src.type \in {"reg", "mem"} /\ dest.type = "reg"
  THEN Instr(inst.suffix, opcode, dest.regcode, src, FALSE, << >>)
  ELSE Nothing

(* One operand, and a digit that is part of the opcode.                    *)
OneOperand(opcode, digit, o) ==
  IF inst.suffix \in {LONG, QUAD} /\ o.type \in {"reg", "mem"}
  THEN Instr(inst.suffix, <<opcode>>, digit, o, FALSE, << >>)
  ELSE Nothing

SetByte(opcode) ==
  IF op.type \in {"reg", "mem"}
  THEN Instr(BYTE, <<\h0F, opcode>>, 0, op, NeedsRex(op), << >>)
  ELSE Nothing

gen_push == Code(gen_rex(0, 0, 0, op.regcode, FALSE) \o gen_opcode_reg(\h50, op.regcode), {})
gen_pop  == Code(gen_rex(0, 0, 0, op.regcode, FALSE) \o gen_opcode_reg(\h58, op.regcode), {})

gen_cltd == Code(<<\h99>>, {})
gen_cqto == Code(gen_rex(1, 0, 0, 0, FALSE) \o <<\h99>>, {})

gen_mov == TwoOperands({BYTE, WORD, LONG, QUAD}, \hC7, 0, \h89, \h8B)
gen_add == TwoOperands({LONG, QUAD}, \h81, 0, \h01, \h03)
gen_sub == TwoOperands({LONG, QUAD}, \h81, 5, \h29, \h2B)
gen_and == TwoOperands({LONG, QUAD}, \h81, 4, \h21, \h23)
gen_xor == TwoOperands({LONG, QUAD}, \h81, 6, \h31, \h33)
gen_or  == TwoOperands({LONG, QUAD}, \h81, 1, \h09, \h0B)
gen_cmp == TwoOperands({BYTE, WORD, LONG, QUAD}, \h81, 7, \h39, \h3B)

gen_movzb == Extension({WORD, LONG, QUAD}, <<\h0F, \hB6>>)
gen_movzw == Extension({LONG, QUAD}, <<\h0F, \hB7>>)
gen_movsb == Extension({WORD, LONG, QUAD}, <<\h0F, \hBE>>)
gen_movsw == Extension({LONG, QUAD}, <<\h0F, \hBF>>)
gen_movsl == Extension({QUAD}, <<\h63>>)

gen_lea == Instr(QUAD, <<\h8D>>, dest.regcode, src, FALSE, << >>)

gen_not  == OneOperand(\hF7, 2, op)
gen_neg  == OneOperand(\hF7, 3, op)
gen_mul  == OneOperand(\hF7, 4, op)
gen_imul == OneOperand(\hF7, 5, op)
gen_div  == OneOperand(\hF7, 6, op)
gen_idiv == OneOperand(\hF7, 7, op)
gen_sal  == OneOperand(\hD3, 4, dest)
gen_sar  == OneOperand(\hD3, 7, dest)

gen_setb  == SetByte(\h92)
gen_sete  == SetByte(\h94)
gen_setne == SetByte(\h95)
gen_setbe == SetByte(\h96)
gen_setl  == SetByte(\h9C)
gen_setge == SetByte(\h9D)
gen_setle == SetByte(\h9E)
gen_setg  == SetByte(\h9F)

gen_jmp  == gen_rel32(<<\hE9>>, op.ident)
gen_je   == gen_rel32(<<\h0F, \h84>>, op.ident)
gen_jne  == gen_rel32(<<\h0F, \h85>>, op.ident)
gen_call == gen_rel32(<<\hE8>>, op.ident)

gen_leave == Code(<<\hC9>>, {})
gen_ret   == Code(<<\hC3>>, {})

Encoding ==
  CASE inst.op = "push"  -> gen_push  [] inst.op = "pop"   -> gen_pop
    [] inst.op = "cltd"  -> gen_cltd  [] inst.op = "cqto"  -> gen_cqto
    [] inst.op = "mov"   -> gen_mov   [] inst.op = "lea"   -> gen_lea
    [] inst.op = "movzb" -> gen_movzb [] inst.op = "movzw" -> gen_movzw
    [] inst.op = "movsb" -> gen_movsb [] inst.op = "movsw" -> gen_movsw
    [] inst.op = "movsl" -> gen_movsl [] inst.op = "cmp"   -> gen_cmp
    [] inst.op = "neg"   -> gen_neg   [] inst.op = "not"   -> gen_not
    [] inst.op = "add"   -> gen_add   [] inst.op = "sub"   -> gen_sub
    [] inst.op = "mul"   -> gen_mul   [] inst.op = "imul"  -> gen_imul
    [] inst.op = "div"   -> gen_div   [] inst.op = "idiv"  -> gen_idiv
    [] inst.op = "and"   -> gen_and   [] inst.op = "xor"   -> gen_xor
    [] inst.op = "or"    -> gen_or    [] inst.op = "sal"   -> gen_sal
    [] inst.op = "sar"   -> gen_sar   [] inst.op = "sete"  -> gen_sete
    [] inst.op = "setne" -> gen_setne [] inst.op = "setb"  -> gen_setb
    [] inst.op = "setl"  -> gen_setl  [] inst.op = "setg"  -> gen_setg
    [] inst.op = "setbe" -> gen_setbe [] inst.op = "setle" -> gen_setle
    [] inst.op = "setge" -> gen_setge [] inst.op = "jmp"   -> gen_jmp
    [] inst.op = "je"    -> gen_je    [] inst.op = "jne"   -> gen_jne
    [] inst.op = "call"  -> gen_call  [] inst.op = "leave" -> gen_leave
    [] inst.op = "ret"   -> gen_ret

as_encode ==
  /\ phase = "checked"
  /\ bin' = bin \o Encoding.bytes
  /\ relocs' = relocs \cup {[r EXCEPT !.offset = Len(bin) + @] : r \in Encoding.refs}
  /\ phase' = "encoded"
  /\ UNCHANGED <<written, inst>>

Init ==
  /\ phase = "written"
  /\ written \in Written
  /\ inst = [op |-> "none", suffix |-> None, ops |-> << >>]
  /\ bin = << >>
  /\ relocs = {}

Next == parse_inst \/ as_sema \/ as_encode

Spec == Init /\ [][Next]_vars

=============================================================================
