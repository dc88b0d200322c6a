------------------------------- MODULE GenStack -------------------------------
(***************************************************************************)
(* The stack discipline of gen.c.  gen_expr and gen_lvalue call each other *)
(* recursively and print code that keeps every intermediate value on the   *)
(* run-time stack; the only record of how deep that stack is when a line   *)
(* is printed is the global stack_depth, from which gen_call computes the  *)
(* padding that aligns %rsp at a call instruction.                         *)
(*                                                                         *)
(* The state is the recursion of the generator (frames), stack_depth, and  *)
(* the run-time stack of the generated function as the printed pushq,      *)
(* popq, subq and addq build it (slots), with the registers that carry     *)
(* popped operands.  The shape of the expression tree is chosen as the     *)
(* recursion goes, so every tree of at most MaxFrames levels is covered.   *)
(* Opcodes, types and constants do not matter to the stack: functions of   *)
(* gen.c that print the same pushes and pops share one form.               *)
(***************************************************************************)
EXTENDS Integers, Sequences

CONSTANTS StackSizes,  \* the func->stack_size values of the functions compiled
          Arities,     \* the numbers of arguments of the calls compiled
          MaxFrames    \* bound on the depth of the recursion of gen_expr

(* put_variable (sema.c) rounds every local up to a multiple of 8, and the *)
(* register save area of a variadic function is 176 bytes.                 *)
ASSUME GenStackAssumption ==
  /\ StackSizes \subseteq Nat
  /\ \A s \in StackSizes : s % 8 = 0
  /\ Arities \subseteq Nat
  /\ MaxFrames \in Nat \ {0, 1}

VARIABLES frames,      \* the activations of gen_expr and gen_lvalue, innermost last
          stack_depth, \* the global of gen.c
          slots,       \* the 8-byte slots of the run-time stack, top last
          regs,        \* the value each register the generator pops into holds
          stack_size   \* func->stack_size of the function under way, or NoFunc

vars == <<frames, stack_depth, slots, regs, stack_size>>

NoFunc == -1

Pos(n) == IF n > 0 THEN n ELSE 0

Lesser(m, n) == IF m <= n THEN m ELSE n

-----------------------------------------------------------------------------
(* What a slot or register holds: operand k of the activation at level l.  *)
(* Level 0 stands for what is not the value of an expression.              *)
Operand(l, k) == <<l, k>>

ReturnAddress == <<0, 0>>
SavedRbp      == <<0, 1>>
Local         == <<0, 2>>
Padding       == <<0, 3>>
Unknown       == <<0, 4>>

(* The registers of the first six arguments. *)
arg_reg == <<"rdi", "rsi", "rdx", "rcx", "r8", "r9">>

Registers == {"rax", "rdi", "rsi", "rdx", "rcx", "r8", "r9"}

NoRegs == [r \in Registers |-> Unknown]

(* The forms of expression, by the functions that print the same pushes:   *)
(*   leaf       gen_integer, gen_string, gen_va_end                        *)
(*   load       gen_identifier, gen_dot, gen_indirect, gen_va_start, va_arg *)
(*   unary      gen_uminus, gen_not, gen_lnot, gen_cast                    *)
(*   address    gen_address                                                *)
(*   binary     the functions that use GEN_OP2                             *)
(*   pointer    gen_add and gen_sub on pointers                            *)
(*   logical    gen_land, gen_lor                                          *)
ExprForms == {"leaf", "load", "unary", "address", "binary", "pointer", "logical",
              "condition", "assign", "comma", "call"}

LvalueForms == {"identifier", "indirect", "dot"}

(* The statement level, where an expression is evaluated by GEN_EVAL or    *)
(* GEN_OP and nothing else is on the stack.                                *)
StmtForms == {"eval", "op"}

Forms == ExprForms \cup LvalueForms \cup StmtForms

PCs == {"begin", "second", "third", "got", "op", "test1", "test2", "test3", "drop",
        "tail", "args", "pops", "call", "restore"}

Frame == [form : Forms, pc : PCs, n : Nat, i : Nat, pad : Nat,
          base : Nat, operand : Nat, joins : SUBSET Int]

-----------------------------------------------------------------------------
Level == Len(frames)
Top   == frames[Level]

At(form, pc) == frames # << >> /\ Top.form = form /\ Top.pc = pc

(* The value the activation at the top is to leave on the stack. *)
Result == Operand(Level - 1, Top.operand)

Activation(form, operand, n) ==
  [form |-> form, pc |-> "begin", n |-> n, i |-> n, pad |-> 0,
   base |-> stack_depth, operand |-> operand, joins |-> {}]

(* The expressions and lvalues a call that runs at level l can be made on: *)
(* at the bound only those that need no call of their own.                 *)
Exprs(operand, l) ==
  IF l < MaxFrames
    THEN {Activation(f, operand, 0) : f \in ExprForms \ {"call"}}
           \cup {Activation("call", operand, n) : n \in Arities}
    ELSE {Activation("leaf", operand, 0), Activation("call", operand, 0)}

Lvalues(operand, l) ==
  {Activation(f, operand, 0) : f \in IF l < MaxFrames THEN LvalueForms ELSE {"identifier"}}

(* A recursive call on operand k; the caller continues at pc. *)
CallOn(callees, pc) ==
  /\ \E f \in callees : frames' = Append([frames EXCEPT ![Level].pc = pc], f)
  /\ regs' = NoRegs
  /\ UNCHANGED <<stack_depth, slots, stack_size>>

(* A call in tail position: its value is the value of the caller. *)
TailCall(callees) ==
  /\ \E f \in callees : frames' = [frames EXCEPT ![Level] = f]
  /\ regs' = NoRegs
  /\ UNCHANGED <<stack_depth, slots, stack_size>>

Goto(pc) == frames' = [frames EXCEPT ![Level].pc = pc]

Drop(n) == SubSeq(slots, 1, Len(slots) - n)

Fill(n, v) == [i \in 1 .. n |-> v]

(* GEN_PUSH and GEN_PUSH_GARBAGE: the value and a return to the caller. *)
GEN_PUSH ==
  /\ stack_depth' = stack_depth + 8
  /\ slots' = Append(slots, Result)
  /\ frames' = SubSeq(frames, 1, Level - 1)
  /\ regs' = NoRegs
  /\ UNCHANGED stack_size

(* GEN_POP into one register. *)
GEN_POP(r) ==
  /\ stack_depth' = stack_depth - 8
  /\ regs' = [NoRegs EXCEPT ![r] = slots[Len(slots)]]
  /\ slots' = Drop(1)
  /\ UNCHANGED stack_size

(* Variant: the operands come out in the other order. *)
GEN_POP2_Swapped(r, q) ==
  /\ stack_depth' = stack_depth - 16
  /\ regs' = [NoRegs EXCEPT ![q] = slots[Len(slots)], ![r] = slots[Len(slots) - 1]]
  /\ slots' = Drop(2)
  /\ UNCHANGED stack_size

(* Two GEN_POPs, into r and then into q. *)
GEN_POP2(r, q) ==
  /\ stack_depth' = stack_depth - 16
  /\ regs' = [NoRegs EXCEPT ![r] = slots[Len(slots)], ![q] = slots[Len(slots) - 1]]
  /\ slots' = Drop(2)
  /\ UNCHANGED stack_size

(* Variant: stack_depth is not told of the addq. *)
GEN_POP_DISCARD_Silent ==
  /\ slots' = Drop(1)
  /\ UNCHANGED <<stack_depth, regs, stack_size>>

(* GEN_POP_DISCARD. *)
GEN_POP_DISCARD ==
  /\ stack_depth' = stack_depth - 8
  /\ slots' = Drop(1)
  /\ UNCHANGED <<regs, stack_size>>

-----------------------------------------------------------------------------
(* A value that needs no operand: one instruction and a push. *)
gen_leaf ==
  /\ At("leaf", "begin") \/ At("identifier", "begin")
  /\ GEN_PUSH

(* gen_load and va_start, va_arg: an address is popped and a value pushed. *)
gen_load ==
  \/ /\ At("load", "begin") \/ At("dot", "begin")
     /\ CallOn(Lvalues(1, Level + 1), "got")
  \/ /\ At("load", "got") \/ At("dot", "got")
     /\ GEN_POP("rax")
     /\ Goto("op")
  \/ /\ At("load", "op") \/ At("dot", "op")
     /\ GEN_PUSH

(* gen_uminus, gen_not, gen_lnot and gen_cast: GEN_OP, then a push. *)
gen_unary ==
  \/ /\ At("unary", "begin")
     /\ CallOn(Exprs(1, Level + 1), "got")
  \/ /\ At("unary", "got")
     /\ GEN_POP("rax")
     /\ Goto("op")
  \/ /\ At("unary", "op")
     /\ GEN_PUSH

(* gen_address leaves what gen_lvalue pushed; the lvalue of *p is p. *)
gen_address  == At("address", "begin")  /\ TailCall(Lvalues(Top.operand, Level))
gen_indirect == At("indirect", "begin") /\ TailCall(Exprs(Top.operand, Level))

(* GEN_OP2(lhs, rhs, "rax", "rcx"): the right operand is popped first. *)
gen_binary ==
  \/ /\ At("binary", "begin")
     /\ CallOn(Exprs(1, Level + 1), "second")
  \/ /\ At("binary", "second")
     /\ CallOn(Exprs(2, Level + 1), "got")
  \/ /\ At("binary", "got")
     /\ GEN_POP2("rcx", "rax")
     /\ Goto("op")
  \/ /\ At("binary", "op")
     /\ GEN_PUSH

(* Pointer arithmetic pops the index into rax, scales it, and pops the     *)
(* pointer into rcx.                                                       *)
gen_pointer ==
  \/ /\ At("pointer", "begin")
     /\ CallOn(Exprs(1, Level + 1), "second")
  \/ /\ At("pointer", "second")
     /\ CallOn(Exprs(2, Level + 1), "got")
  \/ /\ At("pointer", "got")
     /\ GEN_POP2("rax", "rcx")
     /\ Goto("op")
  \/ /\ At("pointer", "op")
     /\ GEN_PUSH

(* gen_assign: the address stays on the stack while the value is computed. *)
gen_assign ==
  \/ /\ At("assign", "begin")
     /\ CallOn(Lvalues(1, Level + 1), "second")
  \/ /\ At("assign", "second")
     /\ CallOn(Exprs(2, Level + 1), "got")
  \/ /\ At("assign", "got")
     /\ GEN_POP2("rax", "rcx")
     /\ Goto("op")
  \/ /\ At("assign", "op")
     /\ GEN_PUSH

(* Variant: the jump is printed before the pop. *)
PopAndJump_Early(pc) ==
  /\ GEN_POP("rax")
  /\ frames' = [frames EXCEPT ![Level].pc = pc, ![Level].joins = @ \cup {stack_depth}]

(* Pop a condition and print a jump: the depth at the jump is the depth    *)
(* the target label is reached with.                                       *)
PopAndJump(pc) ==
  /\ GEN_POP("rax")
  /\ frames' = [frames EXCEPT ![Level].pc = pc, ![Level].joins = @ \cup {stack_depth - 8}]

(* gen_land and gen_lor: each operand is popped before the jump to         *)
(* label_false, and the labels stand before the push of the result.        *)
gen_logical ==
  \/ /\ At("logical", "begin")
     /\ CallOn(Exprs(1, Level + 1), "test1")
  \/ /\ At("logical", "test1")
     /\ PopAndJump("second")
  \/ /\ At("logical", "second")
     /\ CallOn(Exprs(2, Level + 1), "test2")
  \/ /\ At("logical", "test2")
     /\ PopAndJump("op")
  \/ /\ At("logical", "op")
     /\ GEN_PUSH

(* gen_condition: one of the two branches runs, and both meet at label_end. *)
gen_condition ==
  \/ /\ At("condition", "begin")
     /\ CallOn(Exprs(1, Level + 1), "test1")
  \/ /\ At("condition", "test1")
     /\ PopAndJump("second")
  \/ /\ At("condition", "second")
     /\ CallOn(Exprs(2, Level + 1), "test2")
  \/ /\ At("condition", "test2")
     /\ PopAndJump("third")
  \/ /\ At("condition", "third")
     /\ CallOn(Exprs(3, Level + 1), "test3")
  \/ /\ At("condition", "test3")
     /\ PopAndJump("op")
  \/ /\ At("condition", "op")
     /\ GEN_PUSH

(* Variant: the left operand stays on the stack. *)
gen_comma_Keeps ==
  \/ /\ At("comma", "begin")
     /\ CallOn(Exprs(1, Level + 1), "drop")
  \/ /\ At("comma", "drop")
     /\ Goto("tail")
     /\ UNCHANGED <<stack_depth, slots, regs, stack_size>>
  \/ /\ At("comma", "tail")
     /\ TailCall(Exprs(Top.operand, Level))

(* gen_comma drops its left operand; its value is that of the right one. *)
gen_comma ==
  \/ /\ At("comma", "begin")
     /\ CallOn(Exprs(1, Level + 1), "drop")
  \/ /\ At("comma", "drop")
     /\ GEN_POP_DISCARD
     /\ Goto("tail")
  \/ /\ At("comma", "tail")
     /\ TailCall(Exprs(Top.operand, Level))

-----------------------------------------------------------------------------
(* gen_call. *)
StackArgs(n) == Pos(n - 6)

(* Variants: the stack arguments are left out of the sum; the padding is   *)
(* taken with the wrong sign.                                              *)
PaddingFor_RegsOnly(depth, n) ==
  IF depth % 16 # 0 THEN 16 - (depth % 16) ELSE 0

PaddingFor_Signed(depth, n) ==
  LET stack_top == depth + StackArgs(n) * 8
  IN  IF stack_top % 16 # 0 THEN (stack_top % 16) - 16 ELSE 0

(* The padding that makes the depth at the call instruction 16-byte        *)
(* aligned, computed before the arguments are evaluated.                   *)
PaddingFor(depth, n) ==
  LET stack_top == depth + StackArgs(n) * 8
  IN  IF stack_top % 16 # 0 THEN 16 - (stack_top % 16) ELSE 0

(* subq $padding, %rsp *)
gen_call_pad ==
  /\ At("call", "begin")
  /\ LET padding == PaddingFor(stack_depth, Top.n)
     IN  /\ stack_depth' = stack_depth + padding
         /\ slots' = slots \o Fill(padding \div 8, Padding)
         /\ frames' = [frames EXCEPT ![Level].pc = "args", ![Level].pad = padding]
  /\ UNCHANGED <<regs, stack_size>>

(* Variant: the arguments are evaluated from the first to the last. *)
gen_call_arg_Forward ==
  /\ At("call", "args")
  /\ Top.i > 0
  /\ \E f \in Exprs(Top.n - Top.i + 1, Level + 1) :
       frames' = Append([frames EXCEPT ![Level].i = @ - 1], f)
  /\ regs' = NoRegs
  /\ UNCHANGED <<stack_depth, slots, stack_size>>

(* The arguments are evaluated from the last to the first. *)
gen_call_arg ==
  /\ At("call", "args")
  /\ Top.i > 0
  /\ \E f \in Exprs(Top.i, Level + 1) :
       frames' = Append([frames EXCEPT ![Level].i = @ - 1], f)
  /\ regs' = NoRegs
  /\ UNCHANGED <<stack_depth, slots, stack_size>>

(* The first six arguments are popped into the registers of the ABI. *)
gen_call_pops ==
  /\ At("call", "args")
  /\ Top.i = 0
  /\ LET inRegs == Lesser(Top.n, 6)
     IN  /\ stack_depth' = stack_depth - 8 * inRegs
         /\ regs' = [r \in Registers |->
                       IF \E k \in 1 .. inRegs : arg_reg[k] = r
                         THEN slots[Len(slots) + 1 - (CHOOSE k \in 1 .. inRegs : arg_reg[k] = r)]
                         ELSE Unknown]
         /\ slots' = Drop(inRegs)
  /\ Goto("call")
  /\ UNCHANGED stack_size

(* call: the callee clobbers the registers and leaves its result in rax. *)
gen_call_call ==
  /\ At("call", "call")
  /\ regs' = NoRegs
  /\ Goto("restore")
  /\ UNCHANGED <<stack_depth, slots, stack_size>>

(* Variant: one slot too many is given back. *)
gen_call_restore_Greedy ==
  /\ At("call", "restore")
  /\ LET bytes == Top.pad + StackArgs(Top.n) * 8 + 8
     IN  /\ stack_depth' = stack_depth - bytes
         /\ slots' = Drop(bytes \div 8)
  /\ Goto("op")
  /\ UNCHANGED <<regs, stack_size>>

(* addq $(padding + stack_args * 8), %rsp *)
gen_call_restore ==
  /\ At("call", "restore")
  /\ LET bytes == Top.pad + StackArgs(Top.n) * 8
     IN  /\ stack_depth' = stack_depth - bytes
         /\ slots' = Drop(bytes \div 8)
  /\ Goto("op")
  /\ UNCHANGED <<regs, stack_size>>

gen_call_push ==
  /\ At("call", "op")
  /\ GEN_PUSH

gen_call == gen_call_pad \/ gen_call_arg \/ gen_call_pops \/ gen_call_call
            \/ gen_call_restore \/ gen_call_push

-----------------------------------------------------------------------------
(* gen_func prints the prologue: the return address is already there. *)
gen_func(size) ==
  /\ stack_size = NoFunc
  /\ stack_size' = size
  /\ stack_depth' = 8 + 8 + size
  /\ slots' = <<ReturnAddress, SavedRbp>> \o Fill(size \div 8, Local)
  /\ UNCHANGED <<frames, regs>>

(* The statements of the body print their expressions one by one: by       *)
(* GEN_EVAL (value dropped) or by GEN_OP (value in rax, for a condition,   *)
(* an initializer or a return).                                            *)
gen_stmt ==
  \/ /\ stack_size # NoFunc
     /\ frames = << >>
     /\ \E form \in StmtForms : frames' = <<Activation(form, 0, 0)>>
     /\ UNCHANGED <<stack_depth, slots, regs, stack_size>>
  \/ /\ At("eval", "begin") \/ At("op", "begin")
     /\ CallOn(Exprs(1, Level + 1), "got")
  \/ /\ At("eval", "got")
     /\ GEN_POP_DISCARD
     /\ frames' = << >>
  \/ /\ At("op", "got")
     /\ GEN_POP("rax")
     /\ Goto("op")
  \/ /\ At("op", "op")
     /\ frames' = << >>
     /\ regs' = NoRegs
     /\ UNCHANGED <<stack_depth, slots, stack_size>>

(* leave; ret.  stack_depth is set again by the next gen_func. *)
gen_func_end ==
  /\ stack_size # NoFunc
  /\ frames = << >>
  /\ slots' = << >>
  /\ stack_size' = NoFunc
  /\ UNCHANGED <<frames, stack_depth, regs>>

Init ==
  /\ frames = << >>
  /\ stack_depth = 0
  /\ slots = << >>
  /\ regs = NoRegs
  /\ stack_size = NoFunc

gen_expr == gen_leaf \/ gen_load \/ gen_unary \/ gen_address \/ gen_indirect
            \/ gen_binary \/ gen_pointer \/ gen_assign \/ gen_logical
            \/ gen_condition \/ gen_comma \/ gen_call

Next ==
  \/ \E size \in StackSizes : gen_func(size)
  \/ gen_stmt
  \/ gen_expr
  \/ gen_func_end

Spec == Init /\ [][Next]_vars

-----------------------------------------------------------------------------
Items == (Nat \X Nat)

TypeOK ==
  /\ frames \in Seq(Frame)
  /\ stack_depth \in Nat
  /\ slots \in Seq(Items)
  /\ regs \in [Registers -> Items]
  /\ stack_size \in StackSizes \cup {NoFunc}

(* stack_depth, which the GEN_ macros and gen_call maintain by hand, is    *)
(* the distance %rsp has really moved since the caller's call, through     *)
(* nested calls, paddings and discarded values (gen.c:62-114, 339-368).    *)
DepthIsRsp == stack_size # NoFunc => stack_depth = 8 * Len(slots)

(* At every call instruction, also one printed while the arguments of      *)
(* other calls are on the stack, %rsp is a multiple of 16, as the comment  *)
(* of gen_call requires (gen.c:317, 337-343).                              *)
CallAligned == At("call", "call") => stack_depth % 16 = 0

(* At a call instruction argument k is in the k-th argument register for   *)
(* k <= 6, argument 7 is on top of the stack, argument 8 under it and so   *)
(* on, then the padding, then what the caller had (gen.c:320-334).         *)
ArgsInPlace ==
  At("call", "call") =>
    LET s   == StackArgs(Top.n)
        pad == Top.pad \div 8
        top == Len(slots)
    IN  /\ \A k \in 1 .. Lesser(Top.n, 6) : regs[arg_reg[k]] = Operand(Level, k)
        /\ \A k \in 1 .. s : slots[top - k + 1] = Operand(Level, 6 + k)
        /\ \A k \in 1 .. pad : slots[top - s - k + 1] = Padding
        /\ 8 * (top - s - pad) = Top.base

(* When an instruction is printed its operands are in the registers it     *)
(* names, whatever code the operands themselves needed in between: left in *)
(* rax and right in rcx, but pointer or address in rcx and value in rax    *)
(* for pointer arithmetic and assignment (gen.c:109-114, 591-600, 893-898). *)
OperandsInPlace ==
  /\ At("binary", "op") =>
       regs["rax"] = Operand(Level, 1) /\ regs["rcx"] = Operand(Level, 2)
  /\ At("pointer", "op") \/ At("assign", "op") =>
       regs["rcx"] = Operand(Level, 1) /\ regs["rax"] = Operand(Level, 2)
  /\ At("load", "op") \/ At("dot", "op") \/ At("unary", "op") \/ At("op", "op") =>
       regs["rax"] = Operand(Level, 1)
  /\ At("logical", "second") \/ At("condition", "second") =>
       regs["rax"] = Operand(Level, 1)
  /\ At("logical", "op") => regs["rax"] = Operand(Level, 2)
  /\ At("condition", "op") => regs["rax"] = Operand(Level, 3)

(* The jumps of gen_land, gen_lor and gen_condition leave with the depth   *)
(* their labels are printed at, so %rsp is the same on every path to a     *)
(* label although the operands are evaluated one after the other           *)
(* (gen.c:831-891).                                                        *)
JumpsMeet ==
  /\ \A k \in 1 .. Level : frames[k].joins \subseteq {frames[k].base}
  /\ At("logical", "op") \/ At("condition", "op") => stack_depth = Top.base

(* Between statements the stack is the frame the prologue built, so that a *)
(* break, goto or return may jump from any statement to any other          *)
(* (gen.c:972-1149).                                                       *)
BalancedStmts ==
  stack_size # NoFunc /\ frames = << >> =>
    /\ stack_depth = 16 + stack_size
    /\ slots = <<ReturnAddress, SavedRbp>> \o Fill(stack_size \div 8, Local)

(* A step leaves the first n slots as they are. *)
Untouched(n) == Len(slots') >= n /\ SubSeq(slots', 1, n) = SubSeq(slots, 1, n)

(* The code of a subexpression never pops or overwrites a slot that was on *)
(* the stack when it started: neither a waiting operand nor a local        *)
(* (gen.c:62-114, 313-369).                                                *)
BelowUntouched ==
  [][ \A k \in 1 .. Len(frames) : Untouched(frames[k].base \div 8) ]_vars
=============================================================================
