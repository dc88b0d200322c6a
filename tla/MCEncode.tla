-------------------------------- MODULE MCEncode ------------------------------
EXTENDS X86

AReg(size, code) == [size |-> size, code |-> code]

RegOp(size, code) == [kind |-> "reg", reg |-> AReg(size, code)]

MemOp(base, index, scale, disp) ==
  [kind |-> "mem", base |-> base, index |-> index, scale |-> scale, disp |-> disp]

RegOps == {RegOp(s, c) : s \in 0 .. 3, c \in {1, 4, 13}}

(* One address of every shape. *)
SomeMem ==
  {MemOp(AReg(3, b), << >>, None, d) : b \in {0, 12}, d \in {0, -129}}
  \cup {MemOp(AReg(3, 13), <<AReg(3, 9)>>, 8, 0), MemOp(AReg(3, 5), << >>, None, 0)}

(* Every address around the exceptions of the encoding. *)
AllMem ==
  {MemOp(AReg(3, b), << >>, None, d) : b \in 0 .. 15, d \in {0, 127, 128, -128, -129}}
  \cup {MemOp(AReg(3, b), <<AReg(3, i)>>, s, d) :
          b \in {0, 4, 5, 12, 13}, i \in {0, 4, 5, 12, 13}, s \in {None, 2, 3, 8}, d \in {0, 127, 128}}
  \cup {MemOp(AReg(2, 0), << >>, None, 0), MemOp(AReg(3, 0), <<AReg(2, 0)>>, 1, 0)}

Byte8(low, high) == <<low, 0, 0, high, 0, 0, 0, 0>>

(* 1, -1, 2147483648, and 4294967296. *)
Imms == {[kind |-> "imm", imm |-> v] : v \in
           {Byte8(1, 0), [k \in 1 .. 8 |-> 255], Byte8(0, 128), <<0, 0, 0, 0, 1, 0, 0, 0>>}}

Others == {[kind |-> "rip", ident |-> "s"], [kind |-> "sym", ident |-> "s"]}

Operands == RegOps \cup SomeMem \cup Imms \cup Others

OneOf == {"push", "pop", "neg", "not", "mul", "imul", "div", "idiv", "jmp", "je", "jne", "call"} \cup Sets

NoneOf == {"cltd", "cqto", "leave", "ret"}

Lists ==
  {<< >>} \cup {<<x>> : x \in Operands} \cup (Operands \X Operands)
  \cup (AllMem \X {RegOp(3, 0), RegOp(3, 8)}) \cup {<<RegOp(3, c)>> : c \in 0 .. 15}

Arity(o) == IF o \in NoneOf THEN {0, 1} ELSE IF o \in OneOf THEN {1} ELSE {2}

Small(ops) == \A i \in DOMAIN ops : ops[i] \in Operands

(* Every address with movq and leaq, every register with pushq and popq,   *)
(* and the others with everything else.                                    *)
MCWritten ==
  {w \in [op : Mnemonics, suffix : -1 .. 3, ops : Lists] :
     /\ Len(w.ops) \in Arity(w.op)
     /\ ~Small(w.ops) => w.suffix = QUAD /\ w.op \in {"mov", "lea", "push", "pop"}}
=============================================================================
