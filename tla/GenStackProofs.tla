---------------------------- MODULE GenStackProofs ----------------------------
(***************************************************************************)
(* For every frame size, every number of arguments and every depth of the  *)
(* expression tree: stack_depth is the depth of the run-time stack, a call *)
(* finds the stack aligned and its arguments where the ABI wants them.     *)
(*                                                                         *)
(* The inductive invariant says what each activation of the generator has  *)
(* on the stack above the depth it started at, as a function of the place  *)
(* it has reached: how many slots (Count) and which operand in each (Val). *)
(* The slots of the activations follow one another: an activation starts   *)
(* where the slots of its caller end.                                      *)
(***************************************************************************)
EXTENDS GenStack, SequenceTheorems, TLAPS

One == {"load", "dot", "unary", "eval", "op"}
Two == {"binary", "pointer", "assign"}

FormPCs(form) ==
  IF form \in One THEN {"begin", "got", "op"}
  ELSE IF form \in Two THEN {"begin", "second", "got", "op"}
  ELSE IF form = "logical" THEN {"begin", "test1", "second", "test2", "op"}
  ELSE IF form = "condition"
    THEN {"begin", "test1", "second", "test2", "third", "test3", "op"}
  ELSE IF form = "comma" THEN {"begin", "drop", "tail"}
  ELSE IF form = "call" THEN {"begin", "args", "call", "restore", "op"}
  ELSE {"begin"}

(* The number of slots an activation has pushed when it gets to run. *)
Count(f) ==
  IF f.form = "call"
    THEN IF f.pc = "args" THEN (f.pad \div 8) + f.n - f.i
         ELSE IF f.pc \in {"call", "restore"} THEN (f.pad \div 8) + StackArgs(f.n)
         ELSE 0
  ELSE IF f.form \in Two
    THEN IF f.pc = "second" THEN 1 ELSE IF f.pc = "got" THEN 2 ELSE 0
  ELSE IF f.pc \in {"got", "test1", "test2", "test3", "drop"} THEN 1
  ELSE 0

(* What is in the j-th of them, for an activation at level k. *)
Val(f, k, j) ==
  IF f.form = "call"
    THEN IF j <= f.pad \div 8 THEN Padding ELSE Operand(k, f.n - (j - (f.pad \div 8)) + 1)
  ELSE IF f.pc = "test2" THEN Operand(k, 2)
  ELSE IF f.pc = "test3" THEN Operand(k, 3)
  ELSE Operand(k, j)

(* The places where an activation waits for the value of a recursive call. *)
Waiting(f) == /\ f.pc \in {"second", "got", "test1", "test2", "test3", "drop", "args"}
              /\ Count(f) >= 1

(* The value a waiting activation lacks is the last of its slots. *)
Present == [k \in 1 .. Level |->
              IF k = Level THEN Count(frames[k]) ELSE Count(frames[k]) - 1]

First == 2 + (stack_size \div 8)

FrameOK(f) ==
  /\ f.pc \in FormPCs(f.form)
  /\ f.base % 8 = 0
  /\ f.pad % 8 = 0
  /\ f.i <= f.n
  /\ f.joins \subseteq {f.base}
  /\ f.form = "call" /\ f.pc = "begin" => f.i = f.n
  /\ f.form = "call" /\ f.pc # "begin" =>
       (f.base + f.pad + 8 * StackArgs(f.n)) % 16 = 0

FramesOK ==
  \A k \in 1 .. Level : /\ FrameOK(frames[k])
                        /\ k = 1 <=> frames[k].form \in StmtForms
                        /\ k < Level => Waiting(frames[k])

LinksOK ==
  \A k \in 1 .. Level - 1 :
     Val(frames[k], k, Count(frames[k])) = Operand(k, frames[k + 1].operand)

Slot == [k \in 1 .. Level |-> frames[k].base \div 8]

ChainOK ==
  /\ stack_size = NoFunc => frames = << >>
  /\ stack_size # NoFunc => /\ frames = << >> => Len(slots) = First
                            /\ frames # << >> => /\ Slot[1] = First
                                                 /\ Len(slots) = Slot[Level] + Present[Level]
  /\ \A k \in 1 .. Level - 1 : Slot[k + 1] = Slot[k] + Present[k]
  /\ \A k, m \in 1 .. Level : k < m => Slot[k] + Present[k] <= Slot[m]

ContentOK ==
  /\ \A k \in 1 .. Level : \A j \in 1 .. Present[k] :
        slots[Slot[k] + j] = Val(frames[k], k, j)
  /\ stack_size # NoFunc =>
        \A j \in 1 .. First :
           slots[j] = (IF j = 1 THEN ReturnAddress ELSE IF j = 2 THEN SavedRbp ELSE Local)

RegsOK ==
  /\ OperandsInPlace
  /\ At("call", "call") =>
       \A k \in 1 .. Lesser(Top.n, 6) : regs[arg_reg[k]] = Operand(Level, k)

IInv == TypeOK /\ DepthIsRsp /\ FramesOK /\ LinksOK /\ ChainOK /\ ContentOK /\ RegsOK

-----------------------------------------------------------------------------
(* Bytes and slots. *)
LEMMA Div8 ==
  /\ \A n \in Nat : (n \div 8) \in Nat
  /\ \A n \in Nat : n % 8 = 0 => 8 * (n \div 8) = n
  /\ \A n \in Nat : (8 * n) \div 8 = n /\ (8 * n) % 8 = 0
OBVIOUS

LEMMA CountNat ==
  ASSUME NEW f \in Frame, FrameOK(f)
  PROVE  Count(f) \in Nat
<1>1. f.pad \in Nat /\ f.n \in Nat /\ f.i \in Nat /\ f.i <= f.n /\ StackArgs(f.n) \in Nat
  BY DEF Frame, FrameOK, StackArgs, Pos
<1>2. (f.pad \div 8) \in Nat
  BY <1>1, Div8
<1>3. QED
  BY <1>1, <1>2 DEF Count

(* What the invariant says of the slots when an activation is at the top.  *)
LEMMA TopFacts ==
  ASSUME IInv, frames # << >>
  PROVE  /\ Level \in Nat \ {0} /\ Top \in Frame /\ FrameOK(Top)
         /\ \A k \in 1 .. Level : /\ frames[k] \in Frame /\ FrameOK(frames[k])
                                   /\ Count(frames[k]) \in Nat /\ Present[k] \in Nat
                                   /\ Slot[k] \in Nat /\ 8 * Slot[k] = frames[k].base
         /\ Present[Level] = Count(Top)
         /\ stack_size # NoFunc
         /\ stack_depth = 8 * Len(slots) /\ Len(slots) \in Nat
         /\ Len(slots) = Slot[Level] + Count(Top)
         /\ stack_depth = Top.base + 8 * Count(Top)
         /\ \A k \in 1 .. Level : Slot[k] + Present[k] <= Len(slots)
         /\ First \in Nat /\ First <= Slot[Level]
<1>1. Level \in Nat \ {0} /\ \A k \in 1 .. Level : frames[k] \in Frame
  BY DEF IInv, TypeOK, Level
<1>2. \A k \in 1 .. Level : FrameOK(frames[k]) /\ Count(frames[k]) \in Nat
  BY <1>1, CountNat DEF IInv, FramesOK
<1>3. \A k \in 1 .. Level : Slot[k] \in Nat /\ 8 * Slot[k] = frames[k].base
  BY <1>1, <1>2, Div8 DEF FrameOK, Frame, Slot
<1>4. \A k \in 1 .. Level : Present[k] \in Nat
  BY <1>1, <1>2 DEF IInv, FramesOK, Present, Waiting
<1>5. /\ Top \in Frame /\ FrameOK(Top) /\ Present[Level] = Count(Top) /\ Count(Top) \in Nat
      /\ Slot[Level] \in Nat /\ 8 * Slot[Level] = Top.base
  <2>1. Level \in 1 .. Level
    BY <1>1
  <2>2. Top = frames[Level]
    BY DEF Top
  <2>3. QED BY <1>1, <1>2, <1>3, <2>1, <2>2 DEF Present
<1>6. stack_size # NoFunc /\ stack_depth = 8 * Len(slots) /\ Len(slots) \in Nat
      /\ Len(slots) = Slot[Level] + Count(Top) /\ Slot[1] = First
  BY <1>5 DEF IInv, ChainOK, DepthIsRsp, TypeOK
<1>7. stack_depth = Top.base + 8 * Count(Top)
  BY <1>5, <1>6
<1>8. \A k \in 1 .. Level : Slot[k] + Present[k] <= Len(slots)
  <2> SUFFICES ASSUME NEW k \in 1 .. Level PROVE Slot[k] + Present[k] <= Len(slots)
    OBVIOUS
  <2>1. CASE k = Level
    BY <1>5, <1>6, <2>1
  <2>2. CASE k # Level
    <3>1. Slot[k] + Present[k] <= Slot[Level]
      BY <1>1, <2>2 DEF IInv, ChainOK
    <3>2. QED BY <1>3, <1>4, <1>5, <1>6, <3>1
  <2>3. QED BY <2>1, <2>2
<1>9. First \in Nat /\ First <= Slot[Level]
  <2>1. CASE Level = 1
    BY <1>1, <1>3, <1>6, <2>1
  <2>2. CASE Level # 1
    <3>1. Slot[1] + Present[1] <= Slot[Level]
      BY <1>1, <2>2 DEF IInv, ChainOK
    <3>2. QED BY <1>1, <1>3, <1>4, <1>6, <3>1
  <2>3. QED BY <2>1, <2>2
<1>10. QED
  BY <1>1, <1>2, <1>3, <1>4, <1>5, <1>6, <1>7, <1>8, <1>9

(* A recursive call: the caller now waits for one more value, the callee   *)
(* has pushed nothing yet.                                                 *)
LEMMA CallStep ==
  ASSUME IInv, frames # << >>,
         NEW f \in Frame, FrameOK(f), Waiting(f), f.base = Top.base,
         Level = 1 <=> f.form \in StmtForms,
         f.operand = Top.operand,
         Count(f) = Count(Top) + 1,
         \A j \in 1 .. Count(Top) : Val(f, Level, j) = Val(Top, Level, j),
         NEW c \in Frame, FrameOK(c), c.base = stack_depth, c.pc = "begin",
         c.form \notin StmtForms, Count(c) = 0,
         Val(f, Level, Count(f)) = Operand(Level, c.operand),
         frames' = Append([frames EXCEPT ![Level] = f], c),
         regs' = NoRegs,
         UNCHANGED <<stack_depth, slots, stack_size>>
  PROVE  IInv'
<1> DEFINE L == Level
<1>0. /\ L \in Nat \ {0} /\ L = Len(frames)
      /\ frames \in Seq(Frame)
  BY TopFacts DEF IInv, TypeOK, Level
<1>1. /\ frames' \in Seq(Frame) /\ Level' = L + 1
      /\ \A k \in 1 .. L - 1 : frames'[k] = frames[k]
      /\ frames'[L] = f /\ frames'[L + 1] = c
      /\ frames' # << >> /\ Top' = c
  BY <1>0 DEF Level, Top
<1>2. /\ \A k \in 1 .. L : Slot'[k] = Slot[k] /\ Present'[k] = Present[k]
      /\ Slot'[L + 1] = Len(slots) /\ Present'[L + 1] = 0
  <2>1. \A k \in 1 .. L : Slot'[k] = Slot[k]
    BY <1>0, <1>1 DEF Slot, Top
  <2>2. \A k \in 1 .. L - 1 : Present'[k] = Present[k]
    BY <1>0, <1>1 DEF Present
  <2>3. Present'[L] = Present[L]
    <3>1. Present'[L] = Count(f) - 1
      BY <1>0, <1>1 DEF Present
    <3>2. QED BY <3>1, TopFacts, CountNat
  <2>4. Slot'[L + 1] = Len(slots)
    <3>1. Slot'[L + 1] = c.base \div 8
      BY <1>0, <1>1 DEF Slot
    <3>2. c.base = 8 * Len(slots) /\ Len(slots) \in Nat
      BY TopFacts
    <3>3. QED BY <3>1, <3>2, Div8
  <2>5. Present'[L + 1] = 0
    BY <1>0, <1>1 DEF Present
  <2>6. QED BY <1>0, <2>1, <2>2, <2>3, <2>4, <2>5
<1>3. TypeOK'
  BY <1>1 DEF IInv, TypeOK, NoRegs, Items, Unknown
<1>4. DepthIsRsp'
  BY DEF IInv, DepthIsRsp
<1>5. FramesOK'
  <2> SUFFICES ASSUME NEW k \in 1 .. L + 1
               PROVE  /\ FrameOK(frames'[k])
                      /\ k = 1 <=> frames'[k].form \in StmtForms
                      /\ k < L + 1 => Waiting(frames'[k])
    BY <1>1 DEF FramesOK
  <2>1. CASE k \in 1 .. L - 1
    BY <1>0, <1>1, <2>1 DEF IInv, FramesOK
  <2>2. CASE k = L
    BY <1>0, <1>1, <2>2
  <2>3. CASE k = L + 1
    BY <1>0, <1>1, <2>3
  <2>4. QED BY <1>0, <2>1, <2>2, <2>3
<1>6. LinksOK'
  <2> SUFFICES ASSUME NEW k \in 1 .. L
               PROVE  Val(frames'[k], k, Count(frames'[k])) = Operand(k, frames'[k + 1].operand)
    BY <1>0, <1>1, Level' - 1 = L DEF LinksOK
  <2>1. CASE k \in 1 .. L - 2
    BY <1>0, <1>1, <2>1 DEF IInv, LinksOK
  <2>2. CASE k = L - 1
    BY <1>0, <1>1, <2>2 DEF IInv, LinksOK, Top
  <2>3. CASE k = L
    BY <1>0, <1>1, <2>3
  <2>4. QED BY <1>0, <2>1, <2>2, <2>3
<1>7. ChainOK'
  <2>1. stack_size' # NoFunc
    BY TopFacts
  <2>2. Slot'[1] = First' /\ Len(slots') = Slot'[L + 1] + Present'[L + 1]
    BY <1>0, <1>1, <1>2, TopFacts DEF IInv, ChainOK, First
  <2>3. ASSUME NEW k \in 1 .. L PROVE Slot'[k + 1] = Slot'[k] + Present'[k]
    <3>1. CASE k < L
      BY <1>0, <1>2, <3>1 DEF IInv, ChainOK
    <3>2. CASE k = L
      BY <1>0, <1>2, <3>2, TopFacts
    <3>3. QED BY <1>0, <3>1, <3>2
  <2>4. ASSUME NEW k \in 1 .. L + 1, NEW m \in 1 .. L + 1, k < m
        PROVE  Slot'[k] + Present'[k] <= Slot'[m]
    <3>1. CASE m <= L
      BY <1>0, <1>2, <2>4, <3>1 DEF IInv, ChainOK
    <3>2. CASE m = L + 1
      BY <1>0, <1>2, <2>4, <3>2, TopFacts, SMTT(30)
    <3>3. QED BY <1>0, <3>1, <3>2
  <2>5. QED BY <1>0, <1>1, <2>1, <2>2, <2>3, <2>4 DEF ChainOK
<1>8. ContentOK'
  <2>1. ASSUME NEW k \in 1 .. L, NEW j \in 1 .. Present[k]
        PROVE  slots[Slot[k] + j] = Val(frames'[k], k, j)
    <3>1. slots[Slot[k] + j] = Val(frames[k], k, j)
      BY <1>0, <2>1 DEF IInv, ContentOK
    <3>2. CASE k \in 1 .. L - 1
      BY <1>0, <1>1, <3>1, <3>2
    <3>3. CASE k = L
      <4>1. j \in 1 .. Count(Top) /\ frames[k] = Top /\ frames'[k] = f
        BY <1>0, <1>1, <2>1, <3>3, TopFacts DEF Top
      <4>2. QED BY <3>1, <3>3, <4>1
    <3>4. QED BY <1>0, <3>2, <3>3
  <2>2. ASSUME NEW k \in 1 .. L + 1, NEW j \in 1 .. Present'[k]
        PROVE  slots'[Slot'[k] + j] = Val(frames'[k], k, j)
    <3>1. CASE k \in 1 .. L
      <4>1. Present'[k] = Present[k] /\ Slot'[k] = Slot[k]
        BY <1>2, <3>1
      <4>2. QED BY <2>1, <2>2, <3>1, <4>1
    <3>2. CASE k = L + 1
      <4>1. Present'[k] = 0
        BY <1>0, <1>1, <3>2 DEF Present
      <4>2. QED BY <2>2, <4>1
    <3>3. QED BY <1>0, <3>1, <3>2
  <2>3. QED BY <1>0, <1>1, <2>2 DEF IInv, ContentOK, First
<1>9. RegsOK'
  BY <1>1 DEF RegsOK, OperandsInPlace, At
<1>10. QED BY <1>3, <1>4, <1>5, <1>6, <1>7, <1>8, <1>9 DEF IInv

(* A return: the value pushed is the one the caller waits for. *)
LEMMA ReturnStep ==
  ASSUME IInv, frames # << >>, Top.form \notin StmtForms, Count(Top) = 0, GEN_PUSH
  PROVE  IInv'
<1> DEFINE L == Level
           P == frames[L - 1]
<1>t. /\ L \in Nat \ {0} /\ Top \in Frame /\ Top = frames[L] /\ stack_size # NoFunc
      /\ Len(slots) \in Nat /\ stack_depth = 8 * Len(slots)
      /\ Len(slots) = Slot[L] + Count(Top) /\ Count(Top) \in Nat
      /\ Present[L] = Count(Top) /\ First \in Nat /\ First <= Slot[L] /\ Slot[L] \in Nat
  <2>1. Top = frames[L] /\ (L \in Nat \ {0} => L \in 1 .. L)
    BY DEF Top
  <2>2. QED BY <2>1, TopFacts
<1>u. \A k \in 1 .. L : /\ Slot[k] \in Nat /\ Present[k] \in Nat /\ Count(frames[k]) \in Nat
                        /\ Slot[k] + Present[k] <= Len(slots)
  BY TopFacts
<1>c. /\ Slot[1] = First
      /\ \A k \in 1 .. L - 1 : Slot[k + 1] = Slot[k] + Present[k]
      /\ \A k, q \in 1 .. L : k < q => Slot[k] + Present[k] <= Slot[q]
  BY <1>t DEF IInv, ChainOK
<1>0. /\ L \in Nat \ {0, 1} /\ L = Len(frames)
      /\ frames \in Seq(Frame) /\ slots \in Seq(Items)
  BY <1>t DEF IInv, TypeOK, FramesOK, Level
<1>1. /\ frames' \in Seq(Frame) /\ Level' = L - 1
      /\ \A k \in 1 .. L - 1 : frames'[k] = frames[k]
      /\ frames' # << >> /\ Top' = P
      /\ slots' = Append(slots, Result) /\ stack_depth' = stack_depth + 8
      /\ stack_size' = stack_size /\ regs' = NoRegs
  <2>1. /\ slots' = Append(slots, Result) /\ stack_depth' = stack_depth + 8
        /\ stack_size' = stack_size /\ regs' = NoRegs
        /\ frames' = SubSeq(frames, 1, L - 1)
    BY DEF GEN_PUSH
  <2>2. /\ frames' \in Seq(Frame) /\ Len(frames') = L - 1
        /\ \A k \in 1 .. L - 1 : frames'[k] = frames[k]
    BY <1>0, <2>1
  <2>3. Level' = L - 1
    BY <2>2 DEF Level
  <2>4. Top' = P /\ frames' # << >>
    BY <1>0, <2>2, <2>3 DEF Top
  <2>5. QED BY <2>1, <2>2, <2>3, <2>4
<1>2. /\ slots \in Seq(Items) /\ Result \in Items /\ Result = Operand(L - 1, Top.operand)
      /\ slots' \in Seq(Items) /\ Len(slots') = Len(slots) + 1
      /\ \A j \in 1 .. Len(slots) : slots'[j] = slots[j]
      /\ slots'[Len(slots) + 1] = Result
  <2>1. Result \in Items
    <3>1. L - 1 \in Nat /\ Top.operand \in Nat
      <4>1. Top.operand \in Nat
        BY <1>t DEF Frame
      <4>2. QED BY <1>0, <4>1
    <3>2. QED BY <3>1 DEF Result, Operand, Items
  <2>2. Result = Operand(L - 1, Top.operand)
    BY DEF Result
  <2>3. QED BY <1>0, <1>1, <2>1, <2>2
<1>3. /\ \A k \in 1 .. L - 1 : Slot'[k] = Slot[k]
      /\ \A k \in 1 .. L - 2 : Present'[k] = Present[k]
      /\ Present'[L - 1] = Present[L - 1] + 1
      /\ Present'[L - 1] = Count(P)
  <2>1. \A k \in 1 .. L - 1 : Slot'[k] = Slot[k]
    BY <1>0, <1>1 DEF Slot
  <2>2. \A k \in 1 .. L - 2 : Present'[k] = Present[k]
    BY <1>0, <1>1 DEF Present
  <2>0. L - 1 \in 1 .. L /\ L - 1 \in 1 .. L - 1 /\ L - 1 # L
    BY <1>0
  <2>3. Present'[L - 1] = Count(P)
    BY <1>1, <2>0 DEF Present
  <2>4. Present[L - 1] = Count(P) - 1 /\ Count(P) \in Nat
    BY <1>u, <2>0 DEF Present
  <2>5. QED BY <2>1, <2>2, <2>3, <2>4
<1>4. Len(slots) = Slot[L - 1] + Present[L - 1] /\ Slot[L - 1] \in Nat /\ Present[L - 1] \in Nat
  <2>1. L - 1 \in 1 .. L - 1 /\ L - 1 \in 1 .. L /\ (L - 1) + 1 = L
    BY <1>0
  <2>2. Slot[L] = Slot[L - 1] + Present[L - 1]
    BY <1>c, <2>1
  <2>3. QED BY <1>t, <1>u, <2>1, <2>2
<1>5. TypeOK'
  BY <1>1, <1>2 DEF IInv, TypeOK, NoRegs, Items, Unknown
<1>6. DepthIsRsp'
  BY <1>1, <1>2, <1>t DEF DepthIsRsp
<1>7. FramesOK'
  BY <1>0, <1>1, SMTT(30) DEF IInv, FramesOK
<1>8. LinksOK'
  <2> SUFFICES ASSUME NEW k \in 1 .. L - 2
               PROVE  Val(frames'[k], k, Count(frames'[k])) = Operand(k, frames'[k + 1].operand)
    BY <1>0, <1>1 DEF LinksOK
  <2>1. k \in 1 .. L - 1 /\ k + 1 \in 1 .. L - 1
    BY <1>0
  <2>2. QED BY <1>1, <2>1 DEF IInv, LinksOK
<1>9. ChainOK'
  <2>1. stack_size' # NoFunc
    BY <1>1, <1>t
  <2>2. Slot'[1] = First' /\ Len(slots') = Slot'[L - 1] + Present'[L - 1]
    <3>1. Slot'[1] = Slot[1] /\ First' = First
      BY <1>0, <1>1, <1>3 DEF First
    <3>2. Len(slots') = Slot'[L - 1] + Present'[L - 1]
      <4>1. Slot'[L - 1] = Slot[L - 1]
        BY <1>0, <1>3
      <4>2. QED BY <1>2, <1>3, <1>4, <4>1
    <3>3. QED BY <3>1, <3>2, <1>c
  <2>3. ASSUME NEW k \in 1 .. L - 2 PROVE Slot'[k + 1] = Slot'[k] + Present'[k]
    BY <1>0, <1>3, <1>c
  <2>4. ASSUME NEW k \in 1 .. L - 1, NEW m \in 1 .. L - 1, k < m
        PROVE  Slot'[k] + Present'[k] <= Slot'[m]
    <3>1. k \in 1 .. L - 2 /\ k \in 1 .. L /\ m \in 1 .. L
      BY <1>0, <2>4
    <3>2. QED BY <1>3, <1>c, <2>4, <3>1
  <2>5. QED BY <1>0, <1>1, <2>1, <2>2, <2>3, <2>4 DEF ChainOK
<1>10. ContentOK'
  <2>1. ASSUME NEW k \in 1 .. L - 1, NEW j \in 1 .. Present'[k]
        PROVE  slots'[Slot'[k] + j] = Val(frames'[k], k, j)
    <3>1. CASE j \in 1 .. Present[k]
      <4>1. slots[Slot[k] + j] = Val(frames[k], k, j)
        BY <1>0, <3>1 DEF IInv, ContentOK
      <4>2. Slot[k] + j \in 1 .. Len(slots)
        <5>1. k \in 1 .. L
          BY <1>0
        <5>2. QED BY <1>t, <1>u, <3>1, <5>1, SMTT(30)
      <4>3. QED BY <1>0, <1>1, <1>2, <1>3, <4>1, <4>2, SMTT(30)
    <3>2. CASE j \notin 1 .. Present[k]
      <4>1. k = L - 1 /\ j = Count(P)
        <5>1. CASE k = L - 1
          BY <1>0, <1>3, <1>4, <2>1, <3>2, <5>1
        <5>2. CASE k # L - 1
          BY <1>0, <1>3, <2>1, <3>2, <5>2
        <5>3. QED BY <5>1, <5>2
      <4>2. Slot'[k] + j = Len(slots) + 1
        BY <1>0, <1>3, <1>4, <4>1, SMTT(30)
      <4>3. Val(P, L - 1, Count(P)) = Operand(L - 1, Top.operand)
        <5>1. Val(frames[L - 1], L - 1, Count(frames[L - 1]))
                = Operand(L - 1, frames[(L - 1) + 1].operand)
          BY <1>0 DEF IInv, LinksOK
        <5>2. (L - 1) + 1 = L
          BY <1>0
        <5>3. QED BY <5>1, <5>2 DEF Top
      <4>4. frames'[k] = P
        BY <1>0, <1>1, <4>1
      <4>5. QED BY <1>2, <4>1, <4>2, <4>3, <4>4
    <3>3. QED BY <3>1, <3>2
  <2>2. ASSUME NEW j \in 1 .. First
        PROVE  slots'[j] = slots[j]
    <3>1. j \in 1 .. Len(slots)
      BY <1>t
    <3>2. QED BY <1>2, <3>1
  <2>3. QED BY <1>0, <1>1, <2>1, <2>2, ZenonT(30) DEF IInv, ContentOK, First
<1>11. RegsOK'
  <2>1. Waiting(P)
    BY <1>0 DEF IInv, FramesOK
  <2>2. P.pc \notin {"op", "call"} /\ (P.pc = "second" => P.form \notin {"logical", "condition"})
    BY <2>1 DEF Waiting, Count, Two
  <2>3. QED BY <1>1, <2>2 DEF RegsOK, OperandsInPlace, At
<1>12. QED BY <1>5, <1>6, <1>7, <1>8, <1>9, <1>10, <1>11 DEF IInv

(* The activation at the top pops m of its slots, or none, and goes on. *)
LEMMA LocalStep ==
  ASSUME IInv, frames # << >>,
         NEW f \in Frame, FrameOK(f), f.base = Top.base, f.operand = Top.operand,
         Level = 1 <=> f.form \in StmtForms,
         NEW m \in Nat, m <= Count(Top), Count(f) = Count(Top) - m,
         \A j \in 1 .. Count(f) : Val(f, Level, j) = Val(Top, Level, j),
         frames' = [frames EXCEPT ![Level] = f],
         slots' = Drop(m),
         stack_depth' = stack_depth - 8 * m,
         UNCHANGED stack_size,
         regs' \in [Registers -> Items],
         RegsOK'
  PROVE  IInv'
<1> DEFINE L == Level
<1>t. /\ L \in Nat \ {0} /\ Top \in Frame /\ Top = frames[L] /\ stack_size # NoFunc
      /\ Len(slots) \in Nat /\ stack_depth = 8 * Len(slots)
      /\ Len(slots) = Slot[L] + Count(Top) /\ Count(Top) \in Nat
      /\ Present[L] = Count(Top) /\ First \in Nat /\ First <= Slot[L] /\ Slot[L] \in Nat
  <2>1. Top = frames[L] /\ (L \in Nat \ {0} => L \in 1 .. L)
    BY DEF Top
  <2>2. QED BY <2>1, TopFacts
<1>u. \A k \in 1 .. L : /\ Slot[k] \in Nat /\ Present[k] \in Nat /\ Count(frames[k]) \in Nat
                        /\ Slot[k] + Present[k] <= Len(slots)
  BY TopFacts
<1>c. /\ Slot[1] = First
      /\ \A k \in 1 .. L - 1 : Slot[k + 1] = Slot[k] + Present[k]
      /\ \A k, q \in 1 .. L : k < q => Slot[k] + Present[k] <= Slot[q]
  BY <1>t DEF IInv, ChainOK
<1>0. /\ L \in Nat \ {0} /\ L = Len(frames)
      /\ frames \in Seq(Frame) /\ slots \in Seq(Items)
  BY <1>t DEF IInv, TypeOK, Level
<1>1. /\ frames' \in Seq(Frame) /\ Level' = L
      /\ \A k \in 1 .. L - 1 : frames'[k] = frames[k]
      /\ frames'[L] = f /\ frames' # << >> /\ Top' = f
  BY <1>0 DEF Level, Top
<1>2. /\ Len(slots) - m \in Nat /\ slots' \in Seq(Items)
      /\ Len(slots') = Len(slots) - m
      /\ \A j \in 1 .. Len(slots) - m : slots'[j] = slots[j]
  <2>1. Len(slots) - m \in Nat /\ Len(slots) - m <= Len(slots)
    BY <1>t, SMTT(30)
  <2>2. slots' = SubSeq(slots, 1, Len(slots) - m)
    BY DEF Drop
  <2>3. QED BY <1>0, <2>1, <2>2, SMTT(30)
<1>3. /\ \A k \in 1 .. L : Slot'[k] = Slot[k]
      /\ \A k \in 1 .. L - 1 : Present'[k] = Present[k]
      /\ Present'[L] = Count(f) /\ Count(f) \in Nat
  <2>1. \A k \in 1 .. L : Slot'[k] = Slot[k]
    BY <1>0, <1>1 DEF Slot, Top
  <2>2. \A k \in 1 .. L - 1 : Present'[k] = Present[k]
    BY <1>0, <1>1 DEF Present
  <2>3. Present'[L] = Count(f)
    BY <1>0, <1>1 DEF Present
  <2>4. QED BY <2>1, <2>2, <2>3, CountNat
<1>4. TypeOK'
  <2>1. stack_depth' \in Nat
    BY <1>2, <1>t, SMTT(30)
  <2>2. QED BY <1>1, <1>2, <2>1 DEF IInv, TypeOK
<1>5. DepthIsRsp'
  BY <1>2, <1>t DEF DepthIsRsp
<1>6. FramesOK'
  <2> SUFFICES ASSUME NEW k \in 1 .. L
               PROVE  /\ FrameOK(frames'[k])
                      /\ k = 1 <=> frames'[k].form \in StmtForms
                      /\ k < L => Waiting(frames'[k])
    BY <1>1 DEF FramesOK
  <2>1. CASE k \in 1 .. L - 1
    BY <1>0, <1>1, <2>1 DEF IInv, FramesOK
  <2>2. CASE k = L
    BY <1>0, <1>1, <2>2
  <2>3. QED BY <1>0, <2>1, <2>2
<1>7. LinksOK'
  <2> SUFFICES ASSUME NEW k \in 1 .. L - 1
               PROVE  Val(frames'[k], k, Count(frames'[k])) = Operand(k, frames'[k + 1].operand)
    BY <1>0, <1>1 DEF LinksOK
  <2>1. CASE k \in 1 .. L - 2
    BY <1>0, <1>1, <2>1 DEF IInv, LinksOK
  <2>2. CASE k = L - 1
    BY <1>0, <1>1, <2>2 DEF IInv, LinksOK, Top
  <2>3. QED BY <1>0, <2>1, <2>2
<1>8. ChainOK'
  <2>1. stack_size' # NoFunc
    BY <1>t
  <2>2. Slot'[1] = First' /\ Len(slots') = Slot'[L] + Present'[L]
    <3>1. Slot'[1] = Slot[1] /\ First' = First /\ Slot'[L] = Slot[L]
      BY <1>0, <1>1, <1>3 DEF First
    <3>2. QED BY <1>2, <1>3, <1>t, <1>c, <3>1, SMTT(30)
  <2>3. ASSUME NEW k \in 1 .. L - 1 PROVE Slot'[k + 1] = Slot'[k] + Present'[k]
    BY <1>0, <1>3, <1>c
  <2>4. ASSUME NEW k \in 1 .. L, NEW q \in 1 .. L, k < q
        PROVE  Slot'[k] + Present'[k] <= Slot'[q]
    <3>1. k \in 1 .. L - 1
      BY <1>0, <2>4
    <3>2. QED BY <1>3, <1>c, <2>4, <3>1
  <2>5. QED BY <1>0, <1>1, <2>1, <2>2, <2>3, <2>4 DEF ChainOK
<1>9. ContentOK'
  <2>1. ASSUME NEW k \in 1 .. L, NEW j \in 1 .. Present'[k]
        PROVE  slots'[Slot'[k] + j] = Val(frames'[k], k, j)
    <3>1. CASE k \in 1 .. L - 1
      <4>1. slots[Slot[k] + j] = Val(frames[k], k, j)
        BY <1>0, <1>3, <2>1, <3>1 DEF IInv, ContentOK
      <4>2. Slot[k] + Present[k] <= Slot[L]
        BY <1>0, <3>1, <1>c
      <4>3. Slot[k] + j \in 1 .. Len(slots) - m
        <5>1. Present'[k] = Present[k] /\ Present[k] \in Nat /\ Slot[k] \in Nat
          BY <1>0, <1>3, <1>u, <3>1
        <5>2. Slot[L] <= Len(slots) - m /\ Slot[L] \in Nat
          BY <1>t, <1>u, SMTT(30)
        <5>3. j \in 1 .. Present[k]
          BY <2>1, <5>1
        <5>4. j \in Nat \ {0} /\ j <= Present[k]
          BY <5>1, <5>3
        <5>5. Len(slots) - m \in Nat /\ Slot[k] + j <= Len(slots) - m /\ Slot[k] + j \in Nat \ {0}
          BY <1>2, <4>2, <5>1, <5>2, <5>4, SMTT(30)
        <5>6. QED BY <5>5
      <4>4. QED BY <1>0, <1>1, <1>2, <1>3, <3>1, <4>1, <4>3
    <3>2. CASE k = L
      <4>1. j \in 1 .. Count(f) /\ j \in 1 .. Present[L] /\ Top = frames[L]
        BY <1>0, <1>3, <2>1, <3>2, <1>t, SMTT(30)
      <4>2. slots[Slot[L] + j] = Val(f, L, j)
        BY <1>0, <4>1 DEF IInv, ContentOK
      <4>3. Slot[L] + j \in 1 .. Len(slots) - m
        <5>1. j \in Nat \ {0} /\ j <= Count(Top) - m
          BY <1>3, <4>1
        <5>2. Slot[L] \in Nat /\ Len(slots) - m = Slot[L] + (Count(Top) - m)
          BY <1>t, SMTT(30)
        <5>3. Slot[L] + j \in Nat \ {0} /\ Slot[L] + j <= Len(slots) - m
          <6>1. Count(Top) - m \in Int
            BY <1>t
          <6>2. QED BY <5>1, <5>2, <6>1
        <5>4. QED BY <1>2, <5>3
      <4>4. QED BY <1>0, <1>1, <1>2, <1>3, <3>2, <4>2, <4>3
    <3>3. QED BY <1>0, <3>1, <3>2
  <2>2. ASSUME NEW j \in 1 .. First
        PROVE  slots'[j] = slots[j]
    <3>1. j \in 1 .. Len(slots) - m
      BY <1>2, <1>t, SMTT(30)
    <3>2. QED BY <1>2, <3>1
  <2>3. QED BY <1>0, <1>1, <2>1, <2>2 DEF IInv, ContentOK, First
<1>10. QED BY <1>4, <1>5, <1>6, <1>7, <1>8, <1>9 DEF IInv

(* The activation at the top, which has pushed nothing yet, reserves p     *)
(* slots of padding.                                                       *)
LEMMA PadStep ==
  ASSUME IInv, frames # << >>, Count(Top) = 0,
         NEW f \in Frame, FrameOK(f), f.base = Top.base, f.operand = Top.operand,
         Level = 1 <=> f.form \in StmtForms,
         NEW p \in Nat, Count(f) = p,
         \A j \in 1 .. p : Val(f, Level, j) = Padding,
         frames' = [frames EXCEPT ![Level] = f],
         slots' = slots \o Fill(p, Padding),
         stack_depth' = stack_depth + 8 * p,
         UNCHANGED <<regs, stack_size>>,
         RegsOK'
  PROVE  IInv'
<1> DEFINE L == Level
<1>t. /\ L \in Nat \ {0} /\ Top \in Frame /\ Top = frames[L] /\ stack_size # NoFunc
      /\ Len(slots) \in Nat /\ stack_depth = 8 * Len(slots)
      /\ Len(slots) = Slot[L] /\ Present[L] = 0
      /\ First \in Nat /\ First <= Slot[L] /\ Slot[L] \in Nat
  <2>1. Top = frames[L] /\ (L \in Nat \ {0} => L \in 1 .. L)
    BY DEF Top
  <2>2. QED BY <2>1, TopFacts
<1>u. \A k \in 1 .. L : /\ Slot[k] \in Nat /\ Present[k] \in Nat /\ Count(frames[k]) \in Nat
                        /\ Slot[k] + Present[k] <= Len(slots)
  BY TopFacts
<1>c. /\ Slot[1] = First
      /\ \A k \in 1 .. L - 1 : Slot[k + 1] = Slot[k] + Present[k]
      /\ \A k, q \in 1 .. L : k < q => Slot[k] + Present[k] <= Slot[q]
  BY <1>t DEF IInv, ChainOK
<1>0. /\ L \in Nat \ {0} /\ L = Len(frames)
      /\ frames \in Seq(Frame) /\ slots \in Seq(Items)
  BY <1>t DEF IInv, TypeOK, Level
<1>1. /\ frames' \in Seq(Frame) /\ Level' = L
      /\ \A k \in 1 .. L - 1 : frames'[k] = frames[k]
      /\ frames'[L] = f /\ frames' # << >> /\ Top' = f
  BY <1>0 DEF Level, Top
<1>2. /\ slots' \in Seq(Items)
      /\ Len(slots') = Len(slots) + p
      /\ \A j \in 1 .. Len(slots) : slots'[j] = slots[j]
      /\ \A j \in 1 .. p : slots'[Len(slots) + j] = Padding
  <2>1. /\ Fill(p, Padding) \in Seq(Items) /\ Len(Fill(p, Padding)) = p
        /\ \A j \in 1 .. p : Fill(p, Padding)[j] = Padding
    BY DEF Fill, Padding, Items
  <2> DEFINE F == Fill(p, Padding)
  <2>2. F \in Seq(Items) /\ Len(F) = p /\ slots' = slots \o F /\ \A j \in 1 .. p : F[j] = Padding
    BY <2>1
  <2> HIDE DEF F
  <2>3. slots' \in Seq(Items) /\ Len(slots') = Len(slots) + p
    <3>1. slots \o F \in Seq(Items) /\ Len(slots \o F) = Len(slots) + Len(F)
      BY <1>0, <2>2, ConcatProperties
    <3>2. QED BY <2>2, <3>1
  <2>4. ASSUME NEW j \in 1 .. Len(slots) PROVE slots'[j] = slots[j]
    BY <1>0, <2>2
  <2>5. ASSUME NEW j \in 1 .. p PROVE slots'[Len(slots) + j] = Padding
    <3>1. Len(slots) + j \in 1 .. Len(slots) + p /\ Len(slots) + j > Len(slots)
      BY <1>t, SMTT(30)
    <3>2. (slots \o F)[Len(slots) + j] = F[(Len(slots) + j) - Len(slots)]
      BY <1>0, <2>2, <3>1
    <3>3. (Len(slots) + j) - Len(slots) = j
      BY <1>t
    <3>4. QED BY <2>2, <3>2, <3>3
  <2>6. QED BY <2>3, <2>4, <2>5
<1>3. /\ \A k \in 1 .. L : Slot'[k] = Slot[k]
      /\ \A k \in 1 .. L - 1 : Present'[k] = Present[k]
      /\ Present'[L] = p
  <2>1. \A k \in 1 .. L : Slot'[k] = Slot[k]
    BY <1>0, <1>1 DEF Slot, Top
  <2>2. \A k \in 1 .. L - 1 : Present'[k] = Present[k]
    BY <1>0, <1>1 DEF Present
  <2>3. Present'[L] = p
    BY <1>0, <1>1 DEF Present
  <2>4. QED BY <2>1, <2>2, <2>3
<1>4. TypeOK'
  <2>1. stack_depth' \in Nat
    BY <1>t
  <2>2. QED BY <1>1, <1>2, <2>1 DEF IInv, TypeOK
<1>5. DepthIsRsp'
  BY <1>2, <1>t DEF DepthIsRsp
<1>6. FramesOK'
  <2> SUFFICES ASSUME NEW k \in 1 .. L
               PROVE  /\ FrameOK(frames'[k])
                      /\ k = 1 <=> frames'[k].form \in StmtForms
                      /\ k < L => Waiting(frames'[k])
    BY <1>1 DEF FramesOK
  <2>1. CASE k \in 1 .. L - 1
    BY <1>0, <1>1, <2>1 DEF IInv, FramesOK
  <2>2. CASE k = L
    BY <1>0, <1>1, <2>2
  <2>3. QED BY <1>0, <2>1, <2>2
<1>7. LinksOK'
  <2> SUFFICES ASSUME NEW k \in 1 .. L - 1
               PROVE  Val(frames'[k], k, Count(frames'[k])) = Operand(k, frames'[k + 1].operand)
    BY <1>0, <1>1 DEF LinksOK
  <2>1. CASE k \in 1 .. L - 2
    BY <1>0, <1>1, <2>1 DEF IInv, LinksOK
  <2>2. CASE k = L - 1
    BY <1>0, <1>1, <2>2 DEF IInv, LinksOK, Top
  <2>3. QED BY <1>0, <2>1, <2>2
<1>8. ChainOK'
  <2>1. stack_size' # NoFunc
    BY <1>t
  <2>2. Slot'[1] = First' /\ Len(slots') = Slot'[L] + Present'[L]
    <3>1. Slot'[1] = Slot[1] /\ First' = First /\ Slot'[L] = Slot[L]
      BY <1>0, <1>1, <1>3 DEF First
    <3>2. QED BY <1>2, <1>3, <1>t, <1>c, <3>1
  <2>3. ASSUME NEW k \in 1 .. L - 1 PROVE Slot'[k + 1] = Slot'[k] + Present'[k]
    BY <1>0, <1>3, <1>c, SMTT(30)
  <2>4. ASSUME NEW k \in 1 .. L, NEW q \in 1 .. L, k < q
        PROVE  Slot'[k] + Present'[k] <= Slot'[q]
    <3>1. k \in 1 .. L - 1
      BY <1>0, <2>4
    <3>2. QED BY <1>3, <1>c, <2>4, <3>1
  <2>5. QED BY <1>0, <1>1, <2>1, <2>2, <2>3, <2>4 DEF ChainOK
<1>9. ContentOK'
  <2>1. ASSUME NEW k \in 1 .. L, NEW j \in 1 .. Present'[k]
        PROVE  slots'[Slot'[k] + j] = Val(frames'[k], k, j)
    <3>1. CASE k \in 1 .. L - 1
      <4>1. slots[Slot[k] + j] = Val(frames[k], k, j)
        BY <1>0, <1>3, <2>1, <3>1 DEF IInv, ContentOK
      <4>2. Present'[k] = Present[k] /\ Slot[k] \in Nat /\ Present[k] \in Nat
            /\ Slot[k] + Present[k] <= Len(slots)
        BY <1>0, <1>3, <1>u, <3>1
      <4>3. Slot[k] + j \in 1 .. Len(slots)
        <5>1. j \in Nat \ {0} /\ j <= Present[k]
          BY <2>1, <4>2
        <5>2. QED BY <4>2, <5>1, <1>t, SMTT(30)
      <4>4. Slot'[k] = Slot[k] /\ frames'[k] = frames[k] /\ slots'[Slot[k] + j] = slots[Slot[k] + j]
        BY <1>1, <1>2, <1>3, <3>1, <4>3
      <4>5. QED BY <4>1, <4>4
    <3>2. CASE k = L
      <4>1. j \in 1 .. p
        BY <1>0, <1>3, <2>1, <3>2
      <4>2. Slot'[k] = Len(slots) /\ frames'[k] = f
        BY <1>0, <1>1, <1>3, <1>t, <3>2
      <4>3. slots'[Len(slots) + j] = Padding /\ Val(f, L, j) = Padding
        BY <1>2, <4>1
      <4>4. Val(frames'[k], k, j) = Val(f, L, j)
        BY <3>2, <4>2
      <4>5. slots'[Slot'[k] + j] = slots'[Len(slots) + j]
        BY <4>2
      <4>6. QED BY <4>3, <4>4, <4>5
    <3>3. k = L \/ k \in 1 .. L - 1
      BY <1>0
    <3>4. QED BY <3>1, <3>2, <3>3
  <2>2. ASSUME NEW j \in 1 .. First
        PROVE  slots'[j] = slots[j]
    <3>1. j \in 1 .. Len(slots)
      BY <1>t
    <3>2. QED BY <1>2, <3>1
  <2>3. First' = First /\ Level' = L /\ stack_size' = stack_size
    BY <1>1 DEF First
  <2>4. QED BY <2>1, <2>2, <2>3, ZenonT(30) DEF IInv, ContentOK
<1>10. QED BY <1>4, <1>5, <1>6, <1>7, <1>8, <1>9 DEF IInv

-----------------------------------------------------------------------------
(* The forms the steps of the invariant take when an activation makes a    *)
(* recursive call, pops, goes on, or passes its value to a tail call.      *)

LEMMA TopContent ==
  ASSUME IInv, frames # << >>
  PROVE  /\ Level = 1 <=> Top.form \in StmtForms
         /\ Top = frames[Level]
         /\ \A j \in 1 .. Count(Top) : slots[Slot[Level] + j] = Val(Top, Level, j)
         /\ \A j \in 1 .. Len(slots) : slots[j] \in Items
<1>1. Level \in 1 .. Level /\ Top = frames[Level] /\ Present[Level] = Count(Top)
  <2>1. Level \in Nat \ {0} /\ Present[Level] = Count(Top)
    BY TopFacts
  <2>2. QED BY <2>1 DEF Top
<1>2. slots \in Seq(Items)
  BY DEF IInv, TypeOK
<1>3. Level = 1 <=> Top.form \in StmtForms
  BY <1>1 DEF IInv, FramesOK
<1>4. \A j \in 1 .. Count(Top) : slots[Slot[Level] + j] = Val(Top, Level, j)
  BY <1>1 DEF IInv, ContentOK
<1>5. QED BY <1>1, <1>2, <1>3, <1>4

LEMMA CalleeFacts ==
  ASSUME IInv, stack_size # NoFunc, NEW k \in Nat, NEW l, NEW c \in Exprs(k, l) \cup Lvalues(k, l)
  PROVE  /\ c \in Frame /\ FrameOK(c) /\ c.base = stack_depth /\ c.pc = "begin"
         /\ c.form \notin StmtForms /\ Count(c) = 0 /\ c.operand = k
         /\ c.form \in {"call"} \cup LvalueForms \cup ExprForms
<1>1. PICK form \in ExprForms \cup LvalueForms, n \in Nat : c = Activation(form, k, n)
  BY GenStackAssumption DEF Exprs, Lvalues, ExprForms, LvalueForms
<1>2. stack_depth \in Nat
  BY DEF IInv, TypeOK
<1>3. c \in Frame
  BY <1>1, <1>2 DEF Activation, Frame, Forms, PCs
<1>4. stack_depth % 8 = 0
  BY Div8 DEF IInv, DepthIsRsp, TypeOK
<1>5. FrameOK(c)
  BY <1>1, <1>2, <1>3, <1>4
     DEF Activation, FrameOK, FormPCs, ExprForms, LvalueForms, One, Two
<1>6. QED
  BY <1>1, <1>3, <1>5 DEF Activation, Count, ExprForms, LvalueForms, StmtForms, Two

(* The top activation at another place. *)
LEMMA Moved ==
  ASSUME IInv, frames # << >>, NEW pc \in FormPCs(Top.form),
         Top.form # "call"
  PROVE  LET f == [Top EXCEPT !.pc = pc]
         IN  /\ f \in Frame /\ FrameOK(f) /\ f.base = Top.base /\ f.operand = Top.operand
             /\ f.form = Top.form /\ f.pc = pc
             /\ frames \in Seq(Frame) /\ Level \in 1 .. Len(frames)
             /\ [frames EXCEPT ![Level].pc = pc] = [frames EXCEPT ![Level] = f]
<1> DEFINE f == [Top EXCEPT !.pc = pc]
<1>1. Top \in Frame /\ FrameOK(Top) /\ Top = frames[Level] /\ Level \in 1 .. Len(frames)
      /\ frames \in Seq(Frame)
  BY TopFacts, TopContent DEF Level, IInv, TypeOK
<1>2. pc \in PCs
  BY DEF FormPCs, PCs
<1>3. f \in Frame /\ f.base = Top.base /\ f.operand = Top.operand /\ f.form = Top.form
      /\ f.pc = pc /\ f.pad = Top.pad /\ f.i = Top.i /\ f.n = Top.n /\ f.joins = Top.joins
  BY <1>1, <1>2 DEF Frame
<1>4. FrameOK(f)
  BY <1>1, <1>3 DEF FrameOK
<1>5. [frames EXCEPT ![Level].pc = pc] = [frames EXCEPT ![Level] = f]
  BY <1>1
<1>6. QED BY <1>1, <1>3, <1>4, <1>5

(* A recursive call made by another form than gen_call. *)
LEMMA CallOnStep ==
  ASSUME IInv, frames # << >>, Top.form # "call",
         NEW pc \in FormPCs(Top.form), NEW k \in Nat, NEW l,
         CallOn(Exprs(k, l), pc) \/ CallOn(Lvalues(k, l), pc),
         pc \in {"second", "got", "test1", "test2", "test3", "drop"},
         Count([Top EXCEPT !.pc = pc]) = Count(Top) + 1,
         \A j \in 1 .. Count(Top) : Val([Top EXCEPT !.pc = pc], Level, j) = Val(Top, Level, j),
         Val([Top EXCEPT !.pc = pc], Level, Count(Top) + 1) = Operand(Level, k)
  PROVE  IInv'
<1> DEFINE f == [Top EXCEPT !.pc = pc]
<1>1. PICK c \in Exprs(k, l) \cup Lvalues(k, l) :
         frames' = Append([frames EXCEPT ![Level].pc = pc], c)
  BY DEF CallOn
<1>2. regs' = NoRegs /\ UNCHANGED <<stack_depth, slots, stack_size>>
  BY DEF CallOn
<1>3. stack_size # NoFunc /\ Count(Top) \in Nat /\ (Level = 1 <=> Top.form \in StmtForms)
  <2>1. Level \in 1 .. Level /\ Top = frames[Level]
    BY TopFacts, TopContent
  <2>2. QED BY <2>1, TopFacts, TopContent
<1>4. /\ c \in Frame /\ FrameOK(c) /\ c.base = stack_depth /\ c.pc = "begin"
      /\ c.form \notin StmtForms /\ Count(c) = 0 /\ c.operand = k
  BY <1>1, <1>3, CalleeFacts
<1>5. /\ f \in Frame /\ FrameOK(f) /\ f.base = Top.base /\ f.operand = Top.operand
      /\ f.form = Top.form /\ f.pc = pc
      /\ frames' = Append([frames EXCEPT ![Level] = f], c)
  BY <1>1, Moved
<1>6. Waiting(f)
  <2>1. Count(f) >= 1
    BY <1>3
  <2>2. QED BY <1>5, <2>1 DEF Waiting
<1>7. /\ Val(f, Level, Count(f)) = Operand(Level, c.operand)
      /\ Level = 1 <=> f.form \in StmtForms
  BY <1>3, <1>4, <1>5
<1> HIDE DEF f
<1>8. Count(f) = Count(Top) + 1 /\ \A j \in 1 .. Count(Top) : Val(f, Level, j) = Val(Top, Level, j)
  BY DEF f
<1>9. QED BY <1>2, <1>4, <1>5, <1>6, <1>7, <1>8, CallStep

(* The activation at the top goes on after popping m slots. *)
LEMMA GoOnStep ==
  ASSUME IInv, frames # << >>, Top.form # "call",
         NEW pc \in FormPCs(Top.form), Goto(pc),
         NEW m \in Nat, m <= Count(Top), Count([Top EXCEPT !.pc = pc]) = Count(Top) - m,
         \A j \in 1 .. Count(Top) - m : Val([Top EXCEPT !.pc = pc], Level, j) = Val(Top, Level, j),
         slots' = Drop(m), stack_depth' = stack_depth - 8 * m, UNCHANGED stack_size,
         regs' \in [Registers -> Items], RegsOK'
  PROVE  IInv'
<1> DEFINE f == [Top EXCEPT !.pc = pc]
<1>1. frames' = [frames EXCEPT ![Level].pc = pc]
  BY DEF Goto
<1>2. /\ f \in Frame /\ FrameOK(f) /\ f.base = Top.base /\ f.operand = Top.operand
      /\ f.form = Top.form /\ frames' = [frames EXCEPT ![Level] = f]
  BY <1>1, Moved
<1>3. Level = 1 <=> f.form \in StmtForms
  BY <1>2, TopContent
<1> HIDE DEF f
<1>4. /\ Count(f) = Count(Top) - m
      /\ \A j \in 1 .. Count(f) : Val(f, Level, j) = Val(Top, Level, j)
  BY DEF f
<1>5. QED BY <1>2, <1>3, <1>4, LocalStep

(* Another activation takes the place of the one at the top. *)
LEMMA TailCallStep ==
  ASSUME IInv, frames # << >>, Top.form \notin StmtForms, Count(Top) = 0,
         stack_depth = Top.base,
         NEW l, TailCall(Exprs(Top.operand, l)) \/ TailCall(Lvalues(Top.operand, l))
  PROVE  IInv'
<1>1. stack_size # NoFunc /\ Top.operand \in Nat
  <2>1. Level \in 1 .. Level /\ Top = frames[Level]
    BY TopFacts, TopContent
  <2>2. QED BY <2>1, TopFacts DEF Frame
<1>2. PICK c \in Exprs(Top.operand, l) \cup Lvalues(Top.operand, l) :
         frames' = [frames EXCEPT ![Level] = c]
  BY DEF TailCall
<1>3. regs' = NoRegs /\ UNCHANGED <<stack_depth, slots, stack_size>>
  BY DEF TailCall
<1>4. /\ c \in Frame /\ FrameOK(c) /\ c.base = stack_depth /\ c.pc = "begin"
      /\ c.form \notin StmtForms /\ Count(c) = 0 /\ c.operand = Top.operand
  BY <1>1, <1>2, CalleeFacts
<1>5. Level = 1 <=> c.form \in StmtForms
  BY <1>4, TopContent
<1>6. slots' = Drop(0) /\ stack_depth' = stack_depth - 8 * 0
  BY <1>3 DEF Drop, IInv, TypeOK
<1>7. regs' \in [Registers -> Items]
  BY <1>3 DEF NoRegs, Unknown, Items
<1>8. Top' = c
  BY <1>2, TopFacts DEF Top, Level, IInv, TypeOK
<1>9. RegsOK'
  BY <1>4, <1>8 DEF RegsOK, OperandsInPlace, At
<1>10. \A j \in 1 .. Count(c) : Val(c, Level, j) = Val(Top, Level, j)
  BY <1>4
<1>11. 0 \in Nat /\ 0 <= Count(Top) /\ Count(c) = Count(Top) - 0
  BY <1>4
<1>12. QED BY <1>2, <1>3, <1>4, <1>5, <1>6, <1>7, <1>9, <1>10, <1>11, LocalStep

(* What the pops find: the last operands of the activation at the top. *)
LEMMA PopFacts ==
  ASSUME IInv, frames # << >>, Count(Top) >= 1
  PROVE  /\ slots[Len(slots)] = Val(Top, Level, Count(Top)) /\ slots[Len(slots)] \in Items
         /\ Count(Top) >= 2 => /\ slots[Len(slots) - 1] = Val(Top, Level, Count(Top) - 1)
                               /\ slots[Len(slots) - 1] \in Items
<1>1. /\ Count(Top) \in Nat /\ Len(slots) = Slot[Level] + Count(Top)
      /\ Slot[Level] \in Nat /\ Len(slots) \in Nat
  <2>1. Level \in 1 .. Level /\ Top = frames[Level]
    BY TopFacts, TopContent
  <2>2. QED BY <2>1, TopFacts
<1>2. Count(Top) \in 1 .. Count(Top) /\ Len(slots) \in 1 .. Len(slots)
  BY <1>1
<1>3. slots[Len(slots)] = Val(Top, Level, Count(Top)) /\ slots[Len(slots)] \in Items
  BY <1>1, <1>2, TopContent
<1>4. CASE Count(Top) >= 2
  <2>1. Count(Top) - 1 \in 1 .. Count(Top) /\ Len(slots) - 1 \in 1 .. Len(slots)
        /\ Len(slots) - 1 = Slot[Level] + (Count(Top) - 1)
    BY <1>1, <1>4, SMTT(30)
  <2>2. QED BY <1>3, <2>1, TopContent
<1>5. QED BY <1>3, <1>4

(* GEN_OP and GEN_OP2: the pops of an activation and where it goes on. *)
LEMMA OpStep ==
  ASSUME IInv, frames # << >>,
         \/ /\ Top.form \in {"load", "dot", "unary", "op"} /\ Top.pc = "got" /\ GEN_POP("rax")
         \/ /\ Top.form = "binary" /\ Top.pc = "got" /\ GEN_POP2("rcx", "rax")
         \/ /\ Top.form \in {"pointer", "assign"} /\ Top.pc = "got" /\ GEN_POP2("rax", "rcx"),
         Goto("op"), Top.form \in One \cup Two
  PROVE  IInv'
<1> DEFINE f == [Top EXCEPT !.pc = "op"]
           m == IF Top.form \in Two THEN 2 ELSE 1
<1>1. /\ Top.form # "call" /\ "op" \in FormPCs(Top.form) /\ Count(Top) = m
      /\ \A j \in 1 .. m : Val(Top, Level, j) = Operand(Level, j)
  BY DEF One, Two, FormPCs, Count, Val
<1>2. /\ f \in Frame /\ f.form = Top.form /\ f.pc = "op"
      /\ frames' = [frames EXCEPT ![Level] = f]
      /\ frames \in Seq(Frame) /\ Level \in 1 .. Len(frames)
  BY <1>1, Moved DEF Goto
<1>3. Count(f) = 0
  BY <1>2 DEF One, Two, Count
<1>4. Top' = f /\ Level' = Level
  BY <1>2 DEF Top, Level
<1>5. /\ slots[Len(slots)] = Operand(Level, m) /\ slots[Len(slots)] \in Items
      /\ m = 2 => slots[Len(slots) - 1] = Operand(Level, 1) /\ slots[Len(slots) - 1] \in Items
  BY <1>1, PopFacts
<1>6. /\ Top.form \in {"load", "dot", "unary", "op"} =>
           regs' = [NoRegs EXCEPT !["rax"] = slots[Len(slots)]]
      /\ Top.form = "binary" =>
           regs' = [NoRegs EXCEPT !["rcx"] = slots[Len(slots)], !["rax"] = slots[Len(slots) - 1]]
      /\ Top.form \in {"pointer", "assign"} =>
           regs' = [NoRegs EXCEPT !["rax"] = slots[Len(slots)], !["rcx"] = slots[Len(slots) - 1]]
      /\ slots' = Drop(m) /\ stack_depth' = stack_depth - 8 * m /\ UNCHANGED stack_size
  BY DEF GEN_POP, GEN_POP2, Two
<1>7. regs' \in [Registers -> Items]
  <2>1. NoRegs \in [Registers -> Items]
    BY DEF NoRegs, Items, Unknown
  <2>2. m = 1 \/ m = 2
    OBVIOUS
  <2>3. m = 2 <=> Top.form \in Two
    OBVIOUS
  <2>4. QED BY <1>5, <1>6, <2>1, <2>2, <2>3 DEF One, Two
<1>8. RegsOK'
  BY <1>2, <1>4, <1>5, <1>6 DEF RegsOK, OperandsInPlace, At, NoRegs, Registers, One, Two
<1>9. m \in Nat /\ m <= Count(Top) /\ Count(f) = Count(Top) - m /\ Count(Top) - m = 0
  BY <1>1, <1>3
<1>10. \A j \in 1 .. Count(Top) - m : Val([Top EXCEPT !.pc = "op"], Level, j) = Val(Top, Level, j)
  BY <1>9
<1> HIDE DEF m
<1>11. QED BY <1>1, <1>6, <1>7, <1>8, <1>9, <1>10, GoOnStep

(* A condition is popped and a jump printed, at the depth of the label. *)
LEMMA JumpStep ==
  ASSUME IInv, frames # << >>, NEW pc \in {"second", "third", "op"},
         \/ /\ Top.form = "logical" /\ \/ Top.pc = "test1" /\ pc = "second"
                                       \/ Top.pc = "test2" /\ pc = "op"
         \/ /\ Top.form = "condition" /\ \/ Top.pc = "test1" /\ pc = "second"
                                         \/ Top.pc = "test2" /\ pc = "third"
                                         \/ Top.pc = "test3" /\ pc = "op",
         PopAndJump(pc)
  PROVE  IInv'
<1> DEFINE f == [Top EXCEPT !.pc = pc, !.joins = @ \cup {stack_depth - 8}]
<1>1. Level \in 1 .. Level /\ Top = frames[Level]
  BY TopFacts, TopContent
<1>2. Count(Top) = 1 /\ pc \in FormPCs(Top.form)
      /\ Val(Top, Level, 1) = Operand(Level, IF Top.pc = "test3" THEN 3
                                             ELSE IF Top.pc = "test2" THEN 2 ELSE 1)
  BY DEF Count, Two, One, FormPCs, Val
<1>3. /\ Top \in Frame /\ FrameOK(Top) /\ stack_depth - 8 = Top.base
      /\ frames \in Seq(Frame) /\ Level \in 1 .. Len(frames)
  <2>1. Top.base \in Nat /\ stack_depth = Top.base + 8 * Count(Top)
    BY <1>1, TopFacts DEF Frame
  <2>2. QED BY <1>1, <1>2, <2>1, TopFacts DEF IInv, TypeOK, Level
<1>4. /\ f \in Frame /\ f.base = Top.base /\ f.operand = Top.operand /\ f.form = Top.form
      /\ f.pc = pc /\ f.pad = Top.pad /\ f.i = Top.i /\ f.n = Top.n /\ f.joins \subseteq {Top.base}
  <2>1. pc \in PCs
    BY DEF PCs
  <2>2. Top.joins \subseteq {Top.base} /\ Top.base \in Int
    BY <1>3 DEF FrameOK, Frame
  <2>3. QED BY <1>3, <2>1, <2>2 DEF Frame
<1>5. FrameOK(f)
  BY <1>2, <1>3, <1>4 DEF FrameOK
<1>6. frames' = [frames EXCEPT ![Level] = f]
  BY <1>1, <1>3 DEF PopAndJump
<1> HIDE DEF f
<1>7. Top' = f /\ Level' = Level
  BY <1>3, <1>6 DEF Top, Level
<1>8. /\ regs' = [NoRegs EXCEPT !["rax"] = slots[Len(slots)]]
      /\ slots' = Drop(1) /\ stack_depth' = stack_depth - 8 * 1 /\ UNCHANGED stack_size
  BY DEF PopAndJump, GEN_POP
<1>9. slots[Len(slots)] = Val(Top, Level, 1) /\ slots[Len(slots)] \in Items
  BY <1>2, PopFacts
<1>10. NoRegs \in [Registers -> Items]
  BY DEF NoRegs, Items, Unknown
<1>11. regs' \in [Registers -> Items]
  BY <1>8, <1>9, <1>10
<1>12. RegsOK'
  BY <1>2, <1>4, <1>7, <1>8, <1>9 DEF RegsOK, OperandsInPlace, At, NoRegs, Registers
<1>13. Count(f) = 0
  BY <1>4 DEF Count, Two
<1>14. 1 \in Nat /\ 1 <= Count(Top) /\ Count(f) = Count(Top) - 1
       /\ \A j \in 1 .. Count(f) : Val(f, Level, j) = Val(Top, Level, j)
  BY <1>2, <1>13
<1>15. Level = 1 <=> f.form \in StmtForms
  BY <1>4, TopContent
<1>16. QED BY <1>4, <1>5, <1>6, <1>8, <1>11, <1>12, <1>14, <1>15, LocalStep

(* A value pushed by an activation that has nothing on the stack. *)
LEMMA ExprStep ==
  ASSUME IInv, gen_leaf \/ gen_load \/ gen_unary \/ gen_binary \/ gen_pointer \/ gen_assign
  PROVE  IInv'
<1>1. CASE gen_leaf
  <2>1. Count(Top) = 0 /\ Top.form \notin StmtForms
    BY <1>1 DEF gen_leaf, At, Count, Two, StmtForms
  <2>2. QED BY <1>1, <2>1, ReturnStep DEF gen_leaf, At
<1>2. CASE gen_load \/ gen_unary
  <2>1. ASSUME At("load", "begin") \/ At("dot", "begin") \/ At("unary", "begin"),
               CallOn(Lvalues(1, Level + 1), "got") \/ CallOn(Exprs(1, Level + 1), "got")
        PROVE  IInv'
    <3>1. frames # << >> /\ Top.form \in {"load", "dot", "unary"} /\ Top.pc = "begin"
      BY <2>1 DEF At
    <3>2. /\ [Top EXCEPT !.pc = "got"].form = Top.form
          /\ [Top EXCEPT !.pc = "got"].pc = "got"
      BY <3>1, TopFacts DEF Frame
    <3>3. Count(Top) = 0 /\ Count([Top EXCEPT !.pc = "got"]) = 1
          /\ "got" \in FormPCs(Top.form)
          /\ Val([Top EXCEPT !.pc = "got"], Level, 1) = Operand(Level, 1)
      BY <3>1, <3>2 DEF Count, Two, One, FormPCs, Val
    <3>4. QED BY <2>1, <3>1, <3>3, CallOnStep
  <2>2. ASSUME At("load", "got") \/ At("dot", "got") \/ At("unary", "got"),
               GEN_POP("rax"), Goto("op")
        PROVE  IInv'
    BY <2>2, OpStep DEF At, One
  <2>3. ASSUME At("load", "op") \/ At("dot", "op") \/ At("unary", "op"), GEN_PUSH
        PROVE  IInv'
    <3>1. frames # << >> /\ Count(Top) = 0 /\ Top.form \notin StmtForms
      BY <2>3 DEF At, Count, Two, StmtForms
    <3>2. QED BY <2>3, <3>1, ReturnStep
  <2>4. QED BY <1>2, <2>1, <2>2, <2>3 DEF gen_load, gen_unary
<1>3. CASE gen_binary \/ gen_pointer \/ gen_assign
  <2>1. ASSUME At("binary", "begin") \/ At("pointer", "begin") \/ At("assign", "begin"),
               CallOn(Lvalues(1, Level + 1), "second") \/ CallOn(Exprs(1, Level + 1), "second")
        PROVE  IInv'
    <3>1. frames # << >> /\ Top.form \in Two /\ Top.form # "call" /\ Top.pc = "begin"
      BY <2>1 DEF At, Two
    <3>2. /\ [Top EXCEPT !.pc = "second"].form = Top.form
          /\ [Top EXCEPT !.pc = "second"].pc = "second"
      BY <3>1, TopFacts DEF Frame
    <3>3. Count(Top) = 0 /\ Count([Top EXCEPT !.pc = "second"]) = 1
          /\ "second" \in FormPCs(Top.form)
          /\ Val([Top EXCEPT !.pc = "second"], Level, 1) = Operand(Level, 1)
      BY <3>1, <3>2 DEF Count, Two, One, FormPCs, Val
    <3>4. QED BY <2>1, <3>1, <3>3, CallOnStep
  <2>2. ASSUME At("binary", "second") \/ At("pointer", "second") \/ At("assign", "second"),
               CallOn(Exprs(2, Level + 1), "got")
        PROVE  IInv'
    <3>1. frames # << >> /\ Top.form \in Two /\ Top.form # "call" /\ Top.pc = "second"
      BY <2>2 DEF At, Two
    <3>2. /\ [Top EXCEPT !.pc = "got"].form = Top.form
          /\ [Top EXCEPT !.pc = "got"].pc = "got"
      BY <3>1, TopFacts DEF Frame
    <3>3. Count(Top) = 1 /\ Count([Top EXCEPT !.pc = "got"]) = 2
          /\ "got" \in FormPCs(Top.form)
          /\ \A j \in 1 .. 2 : Val([Top EXCEPT !.pc = "got"], Level, j) = Operand(Level, j)
          /\ Val(Top, Level, 1) = Operand(Level, 1)
      BY <3>1, <3>2 DEF Count, Two, One, FormPCs, Val
    <3>4. QED BY <2>2, <3>1, <3>3, CallOnStep
  <2>3. ASSUME \/ At("binary", "got") /\ GEN_POP2("rcx", "rax")
               \/ At("pointer", "got") /\ GEN_POP2("rax", "rcx")
               \/ At("assign", "got") /\ GEN_POP2("rax", "rcx"),
               Goto("op")
        PROVE  IInv'
    BY <2>3, OpStep DEF At, Two
  <2>4. ASSUME At("binary", "op") \/ At("pointer", "op") \/ At("assign", "op"), GEN_PUSH
        PROVE  IInv'
    <3>1. frames # << >> /\ Count(Top) = 0 /\ Top.form \notin StmtForms
      BY <2>4 DEF At, Count, Two, StmtForms
    <3>2. QED BY <2>4, <3>1, ReturnStep
  <2>5. QED BY <1>3, <2>1, <2>2, <2>3, <2>4 DEF gen_binary, gen_pointer, gen_assign
<1>4. QED BY <1>1, <1>2, <1>3

LEMMA BranchStep ==
  ASSUME IInv, gen_logical \/ gen_condition
  PROVE  IInv'
<1>1. ASSUME At("logical", "begin") \/ At("condition", "begin"),
             CallOn(Exprs(1, Level + 1), "test1")
      PROVE  IInv'
  <2>1. frames # << >> /\ Top.form \in {"logical", "condition"} /\ Top.pc = "begin"
    BY <1>1 DEF At
  <2>2. /\ [Top EXCEPT !.pc = "test1"].form = Top.form
        /\ [Top EXCEPT !.pc = "test1"].pc = "test1"
    BY <2>1, TopFacts DEF Frame
  <2>3. Count(Top) = 0 /\ Count([Top EXCEPT !.pc = "test1"]) = 1
        /\ "test1" \in FormPCs(Top.form)
        /\ Val([Top EXCEPT !.pc = "test1"], Level, 1) = Operand(Level, 1)
    BY <2>1, <2>2 DEF Count, Two, One, FormPCs, Val
  <2>4. QED BY <1>1, <2>1, <2>3, CallOnStep
<1>2. ASSUME At("logical", "second") \/ At("condition", "second"),
             CallOn(Exprs(2, Level + 1), "test2")
      PROVE  IInv'
  <2>1. frames # << >> /\ Top.form \in {"logical", "condition"} /\ Top.pc = "second"
    BY <1>2 DEF At
  <2>2. /\ [Top EXCEPT !.pc = "test2"].form = Top.form
        /\ [Top EXCEPT !.pc = "test2"].pc = "test2"
    BY <2>1, TopFacts DEF Frame
  <2>3. Count(Top) = 0 /\ Count([Top EXCEPT !.pc = "test2"]) = 1
        /\ "test2" \in FormPCs(Top.form)
        /\ Val([Top EXCEPT !.pc = "test2"], Level, 1) = Operand(Level, 2)
    BY <2>1, <2>2 DEF Count, Two, One, FormPCs, Val
  <2>4. QED BY <1>2, <2>1, <2>3, CallOnStep
<1>3. ASSUME At("condition", "third"), CallOn(Exprs(3, Level + 1), "test3")
      PROVE  IInv'
  <2>1. frames # << >> /\ Top.form = "condition" /\ Top.pc = "third"
    BY <1>3 DEF At
  <2>2. /\ [Top EXCEPT !.pc = "test3"].form = Top.form
        /\ [Top EXCEPT !.pc = "test3"].pc = "test3"
    BY <2>1, TopFacts DEF Frame
  <2>3. Count(Top) = 0 /\ Count([Top EXCEPT !.pc = "test3"]) = 1
        /\ "test3" \in FormPCs(Top.form)
        /\ Val([Top EXCEPT !.pc = "test3"], Level, 1) = Operand(Level, 3)
    BY <2>1, <2>2 DEF Count, Two, One, FormPCs, Val
  <2>4. QED BY <1>3, <2>1, <2>3, CallOnStep
<1>4. ASSUME \/ At("logical", "test1") /\ PopAndJump("second")
             \/ At("logical", "test2") /\ PopAndJump("op")
             \/ At("condition", "test1") /\ PopAndJump("second")
             \/ At("condition", "test2") /\ PopAndJump("third")
             \/ At("condition", "test3") /\ PopAndJump("op")
      PROVE  IInv'
  BY <1>4, JumpStep DEF At
<1>5. ASSUME At("logical", "op") \/ At("condition", "op"), GEN_PUSH
      PROVE  IInv'
  <2>1. frames # << >> /\ Count(Top) = 0 /\ Top.form \notin StmtForms
    BY <1>5 DEF At, Count, Two, StmtForms
  <2>2. QED BY <1>5, <2>1, ReturnStep
<1>6. QED BY <1>1, <1>2, <1>3, <1>4, <1>5 DEF gen_logical, gen_condition

LEMMA TailStep ==
  ASSUME IInv, gen_address \/ gen_indirect \/ gen_comma
  PROVE  IInv'
<1>1. ASSUME At("address", "begin") \/ At("indirect", "begin") \/ At("comma", "tail"),
             TailCall(Lvalues(Top.operand, Level)) \/ TailCall(Exprs(Top.operand, Level))
      PROVE  IInv'
  <2>1. frames # << >> /\ Count(Top) = 0 /\ Top.form \notin StmtForms
    BY <1>1 DEF At, Count, Two, StmtForms
  <2>2. stack_depth = Top.base
    <3>1. Level \in 1 .. Level /\ Top = frames[Level]
      BY <2>1, TopFacts, TopContent
    <3>2. Top.base \in Nat /\ stack_depth = Top.base + 8 * Count(Top)
      BY <2>1, <3>1, TopFacts DEF Frame
    <3>3. QED BY <2>1, <3>2
  <2>3. QED BY <1>1, <2>1, <2>2, TailCallStep
<1>2. ASSUME At("comma", "begin"), CallOn(Exprs(1, Level + 1), "drop")
      PROVE  IInv'
  <2>1. frames # << >> /\ Top.form = "comma" /\ Top.pc = "begin"
    BY <1>2 DEF At
  <2>2. /\ [Top EXCEPT !.pc = "drop"].form = Top.form
        /\ [Top EXCEPT !.pc = "drop"].pc = "drop"
    BY <2>1, TopFacts DEF Frame
  <2>3. Count(Top) = 0 /\ Count([Top EXCEPT !.pc = "drop"]) = 1
        /\ "drop" \in FormPCs(Top.form)
        /\ Val([Top EXCEPT !.pc = "drop"], Level, 1) = Operand(Level, 1)
    BY <2>1, <2>2 DEF Count, Two, One, FormPCs, Val
  <2>4. QED BY <1>2, <2>1, <2>3, CallOnStep
<1>3. ASSUME At("comma", "drop"), GEN_POP_DISCARD, Goto("tail")
      PROVE  IInv'
  <2>1. frames # << >> /\ Top.form = "comma" /\ Top.pc = "drop"
    BY <1>3 DEF At
  <2>2. /\ [Top EXCEPT !.pc = "tail"].form = Top.form
        /\ [Top EXCEPT !.pc = "tail"].pc = "tail"
    BY <2>1, TopFacts DEF Frame
  <2>3. Count(Top) = 1 /\ Count([Top EXCEPT !.pc = "tail"]) = 0 /\ "tail" \in FormPCs(Top.form)
    BY <2>1, <2>2 DEF Count, Two, One, FormPCs
  <2>4. Top' = [Top EXCEPT !.pc = "tail"]
    <3>1. Level \in 1 .. Len(frames) /\ frames \in Seq(Frame) /\ Top = frames[Level]
      BY <2>1, TopFacts, TopContent DEF IInv, TypeOK, Level
    <3>2. QED BY <1>3, <3>1 DEF Goto, Top, Level
  <2>5. RegsOK'
    BY <2>1, <2>2, <2>4 DEF RegsOK, OperandsInPlace, At
  <2>6. regs' \in [Registers -> Items] /\ UNCHANGED stack_size
        /\ slots' = Drop(1) /\ stack_depth' = stack_depth - 8 * 1
    BY <1>3 DEF GEN_POP_DISCARD, IInv, TypeOK
  <2>7. 1 \in Nat /\ 1 <= Count(Top) /\ Count([Top EXCEPT !.pc = "tail"]) = Count(Top) - 1
        /\ \A j \in 1 .. Count(Top) - 1 :
              Val([Top EXCEPT !.pc = "tail"], Level, j) = Val(Top, Level, j)
    BY <2>3
  <2>8. QED BY <1>3, <2>1, <2>3, <2>5, <2>6, <2>7, GoOnStep
<1>4. QED BY <1>1, <1>2, <1>3 DEF gen_address, gen_indirect, gen_comma

-----------------------------------------------------------------------------
(* gen_call.  The padding aligns the depth the call is made at. *)
LEMMA PaddingAligns ==
  ASSUME NEW depth \in Nat, depth % 8 = 0, NEW n \in Nat
  PROVE  /\ PaddingFor(depth, n) \in Nat /\ PaddingFor(depth, n) % 8 = 0
         /\ (depth + PaddingFor(depth, n) + 8 * StackArgs(n)) % 16 = 0
         /\ StackArgs(n) \in Nat
<1>1. StackArgs(n) \in Nat
  BY DEF StackArgs, Pos
<1>2. QED BY <1>1, SMTT(30) DEF PaddingFor

LEMMA CallArgStep ==
  ASSUME IInv, gen_call_arg
  PROVE  IInv'
<1> DEFINE f == [Top EXCEPT !.i = @ - 1]
           p == Top.pad \div 8
<1>1. frames # << >> /\ Top.form = "call" /\ Top.pc = "args" /\ Top.i > 0
  BY DEF gen_call_arg, At
<1>2. Level \in 1 .. Level /\ Top = frames[Level] /\ (Level = 1 <=> Top.form \in StmtForms)
  BY <1>1, TopFacts, TopContent
<1>3. /\ Top \in Frame /\ FrameOK(Top) /\ stack_size # NoFunc
      /\ frames \in Seq(Frame) /\ Level \in 1 .. Len(frames)
      /\ Top.i \in Nat /\ Top.n \in Nat /\ Top.pad \in Nat /\ Top.i <= Top.n /\ p \in Nat
  BY <1>1, <1>2, TopFacts, Div8 DEF IInv, TypeOK, Level, Frame, FrameOK
<1>4. PICK c \in Exprs(Top.i, Level + 1) : frames' = Append([frames EXCEPT ![Level].i = @ - 1], c)
  BY DEF gen_call_arg
<1>5. /\ c \in Frame /\ FrameOK(c) /\ c.base = stack_depth /\ c.pc = "begin"
      /\ c.form \notin StmtForms /\ Count(c) = 0 /\ c.operand = Top.i
  BY <1>3, <1>4, CalleeFacts
<1>6. /\ f \in Frame /\ f.form = "call" /\ f.pc = "args" /\ f.n = Top.n /\ f.i = Top.i - 1
      /\ f.pad = Top.pad /\ f.base = Top.base /\ f.operand = Top.operand /\ f.joins = Top.joins
  <2>1. Top.i - 1 \in Nat
    BY <1>1, <1>3
  <2>2. QED BY <1>1, <1>3, <2>1 DEF Frame
<1>7. FrameOK(f)
  BY <1>1, <1>3, <1>6, SMTT(30) DEF FrameOK
<1>8. frames' = Append([frames EXCEPT ![Level] = f], c)
  BY <1>2, <1>3, <1>4
<1>9. /\ Count(Top) = p + Top.n - Top.i /\ Count(f) = Count(Top) + 1
      /\ Count(f) = p + Top.n - Top.i + 1
  BY <1>1, <1>3, <1>6 DEF Count
<1>10. Waiting(f)
  <2>1. Count(f) >= 1
    BY <1>3, <1>9, SMTT(30)
  <2>2. QED BY <1>6, <2>1 DEF Waiting
<1>11. Val(f, Level, Count(f)) = Operand(Level, c.operand)
  <2>1. ~(Count(f) <= p) /\ f.n - (Count(f) - p) + 1 = Top.i
    <3>1. /\ p \in Nat /\ Top.n \in Nat /\ Top.i \in Nat /\ Top.i <= Top.n /\ f.n = Top.n
          /\ Count(f) = p + Top.n - Top.i + 1
      BY <1>3, <1>6, <1>9
    <3> HIDE DEF p, f
    <3>2. QED BY <3>1
  <2>2. Val(f, Level, Count(f)) = Operand(Level, f.n - (Count(f) - p) + 1)
    BY <1>6, <2>1 DEF Val
  <2>3. QED BY <1>5, <2>1, <2>2
<1>12. \A j \in 1 .. Count(Top) : Val(f, Level, j) = Val(Top, Level, j)
  BY <1>1, <1>6 DEF Val
<1>13. Level = 1 <=> f.form \in StmtForms
  BY <1>1, <1>2, <1>6
<1>14. regs' = NoRegs /\ UNCHANGED <<stack_depth, slots, stack_size>>
  BY DEF gen_call_arg
<1> HIDE DEF f, p
<1>15. QED
  BY <1>1, <1>5, <1>6, <1>7, <1>8, <1>9, <1>10, <1>11, <1>12, <1>13, <1>14, CallStep

LEMMA CallPadStep ==
  ASSUME IInv, gen_call_pad
  PROVE  IInv'
<1> DEFINE pad == PaddingFor(stack_depth, Top.n)
           f == [Top EXCEPT !.pc = "args", !.pad = pad]
           p == pad \div 8
<1>1. frames # << >> /\ Top.form = "call" /\ Top.pc = "begin"
  BY DEF gen_call_pad, At
<1>2. Level \in 1 .. Level /\ Top = frames[Level] /\ (Level = 1 <=> Top.form \in StmtForms)
  BY <1>1, TopFacts, TopContent
<1>3. /\ Top \in Frame /\ FrameOK(Top) /\ Top.n \in Nat /\ Top.i = Top.n
      /\ frames \in Seq(Frame) /\ Level \in 1 .. Len(frames)
  BY <1>1, <1>2, TopFacts DEF IInv, TypeOK, Level, Frame, FrameOK
<1>4. Count(Top) = 0 /\ stack_depth \in Nat /\ stack_depth = Top.base /\ stack_depth % 8 = 0
  <2>1. Count(Top) = 0
    BY <1>1 DEF Count
  <2>2. stack_depth = Top.base + 8 * Count(Top) /\ Top.base \in Nat /\ Top.base % 8 = 0
    BY <1>1, <1>3, TopFacts DEF Frame, FrameOK
  <2>3. QED BY <2>1, <2>2
<1>5. /\ pad \in Nat /\ pad % 8 = 0 /\ StackArgs(Top.n) \in Nat /\ p \in Nat /\ 8 * p = pad
      /\ (Top.base + pad + 8 * StackArgs(Top.n)) % 16 = 0
  <2>1. /\ pad \in Nat /\ pad % 8 = 0 /\ StackArgs(Top.n) \in Nat
        /\ (Top.base + pad + 8 * StackArgs(Top.n)) % 16 = 0
    BY <1>3, <1>4, PaddingAligns
  <2> HIDE DEF pad
  <2>2. QED BY <2>1, Div8
<1>6. /\ stack_depth' = stack_depth + pad
      /\ slots' = slots \o Fill(p, Padding)
      /\ frames' = [frames EXCEPT ![Level].pc = "args", ![Level].pad = pad]
      /\ UNCHANGED <<regs, stack_size>>
  BY DEF gen_call_pad
<1> HIDE DEF pad
<1>7. /\ f \in Frame /\ f.form = "call" /\ f.pc = "args" /\ f.n = Top.n /\ f.i = Top.n
      /\ f.pad = pad /\ f.base = Top.base /\ f.operand = Top.operand /\ f.joins = Top.joins
  BY <1>1, <1>3, <1>5 DEF Frame, PCs
<1>8. FrameOK(f)
  <2>1. "args" \in FormPCs("call")
    BY DEF FormPCs, One, Two
  <2>2. QED BY <1>1, <1>3, <1>5, <1>7, <2>1 DEF FrameOK
<1>9. frames' = [frames EXCEPT ![Level] = f]
  BY <1>2, <1>3, <1>6
<1> HIDE DEF f, p
<1>10. Count(f) = p
  <2>1. Count(f) = p + Top.n - Top.n
    BY <1>7 DEF Count, p
  <2>2. QED BY <1>3, <1>5, <2>1
<1>11. \A j \in 1 .. p : Val(f, Level, j) = Padding
  BY <1>7 DEF Val, p
<1>12. RegsOK'
  <2>1. Top' = f
    BY <1>3, <1>9 DEF Top, Level
  <2>2. QED BY <1>7, <2>1 DEF RegsOK, OperandsInPlace, At
<1>13. stack_depth' = stack_depth + 8 * p /\ (Level = 1 <=> f.form \in StmtForms)
  BY <1>1, <1>2, <1>5, <1>6, <1>7
<1>14. QED BY <1>1, <1>4, <1>5, <1>6, <1>7, <1>8, <1>9, <1>10, <1>11, <1>12, <1>13, PadStep

(* The pops into the argument registers. *)
LEMMA CallPopsStep ==
  ASSUME IInv, gen_call_pops
  PROVE  IInv'
<1> DEFINE f == [Top EXCEPT !.pc = "call"]
           p == Top.pad \div 8
           m == Lesser(Top.n, 6)
<1>1. frames # << >> /\ Top.form = "call" /\ Top.pc = "args" /\ Top.i = 0
  BY DEF gen_call_pops, At
<1>2. /\ Level \in 1 .. Level /\ Top = frames[Level] /\ (Level = 1 <=> Top.form \in StmtForms)
      /\ \A j \in 1 .. Count(Top) : slots[Slot[Level] + j] = Val(Top, Level, j)
      /\ \A j \in 1 .. Len(slots) : slots[j] \in Items
  BY <1>1, TopFacts, TopContent
<1>3. /\ Top \in Frame /\ FrameOK(Top) /\ Top.n \in Nat /\ p \in Nat
      /\ frames \in Seq(Frame) /\ Level \in 1 .. Len(frames)
      /\ Len(slots) = Slot[Level] + Count(Top) /\ Slot[Level] \in Nat /\ Len(slots) \in Nat
  BY <1>1, <1>2, TopFacts, Div8 DEF IInv, TypeOK, Level, Frame, FrameOK
<1>4. Count(Top) = p + Top.n
  <2>1. Count(Top) = p + Top.n - 0
    BY <1>1 DEF Count
  <2>2. QED BY <1>3, <2>1
<1>5. m \in Nat /\ m <= 6 /\ m <= Top.n /\ Top.n - m = StackArgs(Top.n)
  BY <1>3 DEF Lesser, StackArgs, Pos
<1>6. /\ f \in Frame /\ f.form = "call" /\ f.pc = "call" /\ f.n = Top.n /\ f.i = Top.i
      /\ f.pad = Top.pad /\ f.base = Top.base /\ f.operand = Top.operand /\ f.joins = Top.joins
  BY <1>1, <1>3 DEF Frame, PCs
<1>7. FrameOK(f)
  <2>1. "call" \in FormPCs("call")
    BY DEF FormPCs, One, Two
  <2>2. QED BY <1>1, <1>3, <1>6, <2>1 DEF FrameOK
<1>8. frames' = [frames EXCEPT ![Level] = f]
  BY <1>2, <1>3 DEF gen_call_pops, Goto
<1>9. /\ slots' = Drop(m) /\ stack_depth' = stack_depth - 8 * m /\ UNCHANGED stack_size
      /\ regs' = [r \in Registers |->
                       IF \E k \in 1 .. m : arg_reg[k] = r
                         THEN slots[Len(slots) + 1 - (CHOOSE k \in 1 .. m : arg_reg[k] = r)]
                         ELSE Unknown]
  BY DEF gen_call_pops
<1>10. Count(f) = p + StackArgs(Top.n)
  BY <1>6 DEF Count
<1> HIDE DEF f, p, m
<1>11. Count(f) = Count(Top) - m /\ m <= Count(Top) /\ Count(Top) \in Nat
  BY <1>3, <1>4, <1>5, <1>10
<1>12. \A j \in 1 .. Count(f) : Val(f, Level, j) = Val(Top, Level, j)
  BY <1>1, <1>6 DEF Val
<1>13. ASSUME NEW k \in 1 .. m
       PROVE  /\ slots[Len(slots) + 1 - k] = Operand(Level, k)
              /\ slots[Len(slots) + 1 - k] \in Items
  <2>1. k \in Nat \ {0} /\ k <= m
    BY <1>5
  <2> DEFINE j == p + Top.n + 1 - k
  <2>2. /\ j \in 1 .. Count(Top) /\ Len(slots) + 1 - k \in 1 .. Len(slots)
        /\ Len(slots) + 1 - k = Slot[Level] + j
        /\ ~(j <= p) /\ Top.n - (j - p) + 1 = k
    <3>1. k <= Top.n /\ Top.n \in Nat /\ p \in Nat /\ Slot[Level] \in Nat
      BY <1>3, <1>5, <2>1
    <3>2. Count(Top) = p + Top.n /\ Len(slots) = Slot[Level] + (p + Top.n)
      BY <1>3, <1>4
    <3>3. j \in Nat \ {0} /\ j <= Count(Top) /\ j > p
      BY <2>1, <3>1, <3>2
    <3>4. Len(slots) + 1 - k \in 1 .. Len(slots) /\ Len(slots) + 1 - k = Slot[Level] + j
      BY <2>1, <3>1, <3>2, SMTT(30)
    <3>5. Top.n - (j - p) + 1 = k
      BY <2>1, <3>1
    <3>6. j \in 1 .. Count(Top) /\ ~(j <= p)
      BY <3>1, <3>2, <3>3
    <3>7. QED BY <3>4, <3>5, <3>6
  <2> HIDE DEF j
  <2>3. Val(Top, Level, j) = Operand(Level, Top.n - (j - p) + 1)
    BY <1>1, <2>2 DEF Val, p
  <2>4. QED BY <1>2, <2>2, <2>3
<1>14. regs' \in [Registers -> Items]
  <2>1. ASSUME NEW r \in Registers PROVE regs'[r] \in Items
    <3>1. CASE \E k \in 1 .. m : arg_reg[k] = r
      <4> DEFINE k0 == CHOOSE k \in 1 .. m : arg_reg[k] = r
      <4>1. k0 \in 1 .. m
        BY <3>1
      <4>2. regs'[r] = slots[Len(slots) + 1 - k0]
        BY <1>9, <3>1
      <4> HIDE DEF k0
      <4>3. QED BY <1>13, <4>1, <4>2
    <3>2. CASE ~\E k \in 1 .. m : arg_reg[k] = r
      BY <1>9, <3>2 DEF Unknown, Items
    <3>3. QED BY <3>1, <3>2
  <2>2. regs' = [r \in Registers |-> regs'[r]]
    BY <1>9
  <2>3. QED BY <2>1, <2>2
<1>15. ASSUME NEW k \in 1 .. m PROVE regs'[arg_reg[k]] = Operand(Level, k)
  <2> DEFINE k0 == CHOOSE q \in 1 .. m : arg_reg[q] = arg_reg[k]
  <2>1. k \in 1 .. 6
    BY <1>5
  <2>2. arg_reg[k] \in Registers
    BY <2>1 DEF arg_reg, Registers
  <2>3. k0 \in 1 .. m /\ arg_reg[k0] = arg_reg[k]
    OBVIOUS
  <2>4. regs'[arg_reg[k]] = slots[Len(slots) + 1 - k0]
    BY <1>9, <2>2
  <2> HIDE DEF k0
  <2>5. k0 = k
    <3>1. k0 \in 1 .. 6
      BY <1>5, <2>3
    <3>2. QED BY <2>1, <2>3, <3>1 DEF arg_reg
  <2>6. QED BY <1>13, <2>4, <2>5
<1>16. RegsOK'
  <2>1. Top' = f /\ Level' = Level
    BY <1>3, <1>8 DEF Top, Level
  <2>2. OperandsInPlace'
    BY <1>6, <2>1 DEF OperandsInPlace, At
  <2>3. Lesser(f.n, 6) = m
    BY <1>6 DEF m
  <2>4. QED BY <1>15, <2>1, <2>2, <2>3 DEF RegsOK
<1>17. Level = 1 <=> f.form \in StmtForms
  BY <1>1, <1>2, <1>6
<1>18. QED
  BY <1>1, <1>5, <1>6, <1>7, <1>8, <1>9, <1>11, <1>12, <1>14, <1>16, <1>17, LocalStep

LEMMA CallEndStep ==
  ASSUME IInv, gen_call_call \/ gen_call_restore \/ gen_call_push
  PROVE  IInv'
<1>1. CASE gen_call_push
  <2>1. frames # << >> /\ Count(Top) = 0 /\ Top.form \notin StmtForms
    BY <1>1 DEF gen_call_push, At, Count, StmtForms
  <2>2. QED BY <1>1, <2>1, ReturnStep DEF gen_call_push
<1>2. ASSUME NEW pc \in {"restore", "op"}, gen_call_call \/ gen_call_restore,
             gen_call_call => pc = "restore", gen_call_restore => pc = "op",
             Goto(pc)
      PROVE  IInv'
  <2> DEFINE f == [Top EXCEPT !.pc = pc]
             p == Top.pad \div 8
             m == IF pc = "op" THEN p + StackArgs(Top.n) ELSE 0
  <2>1. /\ frames # << >> /\ Top.form = "call"
        /\ pc = "restore" => Top.pc = "call"
        /\ pc = "op" => Top.pc = "restore"
    BY <1>2 DEF gen_call_call, gen_call_restore, At
  <2>2. /\ Level \in 1 .. Level /\ Top = frames[Level] /\ (Level = 1 <=> Top.form \in StmtForms)
    BY <2>1, TopFacts, TopContent
  <2>3. /\ Top \in Frame /\ FrameOK(Top) /\ Top.n \in Nat /\ p \in Nat /\ 8 * p = Top.pad
        /\ frames \in Seq(Frame) /\ Level \in 1 .. Len(frames) /\ Top.pad \in Nat
    BY <2>1, <2>2, TopFacts, Div8 DEF IInv, TypeOK, Level, Frame, FrameOK
  <2>4. StackArgs(Top.n) \in Nat
    BY <2>3 DEF StackArgs, Pos
  <2>5. Count(Top) = p + StackArgs(Top.n)
    BY <2>1 DEF Count
  <2>6. /\ f \in Frame /\ f.form = "call" /\ f.pc = pc /\ f.n = Top.n /\ f.i = Top.i
        /\ f.pad = Top.pad /\ f.base = Top.base /\ f.operand = Top.operand /\ f.joins = Top.joins
    BY <2>1, <2>3 DEF Frame, PCs
  <2>7. FrameOK(f)
    <3>1. pc \in FormPCs("call")
      BY DEF FormPCs, One, Two
    <3>2. QED BY <2>1, <2>3, <2>6, <3>1 DEF FrameOK
  <2>8. frames' = [frames EXCEPT ![Level] = f]
    BY <1>2, <2>2, <2>3 DEF Goto
  <2>9. /\ gen_call_restore => /\ stack_depth' = stack_depth - (Top.pad + StackArgs(Top.n) * 8)
                               /\ slots' = Drop((Top.pad + StackArgs(Top.n) * 8) \div 8)
                               /\ UNCHANGED <<regs, stack_size>>
        /\ gen_call_call => UNCHANGED <<stack_depth, slots, stack_size>> /\ regs' = NoRegs
    BY DEF gen_call_restore, gen_call_call
  <2>10. Count(f) = IF pc = "op" THEN 0 ELSE p + StackArgs(Top.n)
    BY <2>6 DEF Count
  <2> HIDE DEF f, p
  <2>11. m \in Nat /\ m <= Count(Top) /\ Count(f) = Count(Top) - m
    BY <2>3, <2>4, <2>5, <2>10
  <2>12. /\ slots' = Drop(m) /\ stack_depth' = stack_depth - 8 * m /\ UNCHANGED stack_size
    <3>1. CASE gen_call_restore
      <4>1. m = p + StackArgs(Top.n) /\ Top.pad + StackArgs(Top.n) * 8 = 8 * m
        BY <1>2, <2>3, <2>4, <3>1
      <4> HIDE DEF m
      <4>2. (8 * m) \div 8 = m
        BY <2>11, Div8
      <4>3. QED BY <2>9, <3>1, <4>1, <4>2
    <3>2. CASE gen_call_call
      <4>1. m = 0
        BY <1>2, <3>2
      <4>2. slots = Drop(0) /\ stack_depth \in Nat
        BY DEF Drop, IInv, TypeOK
      <4>3. QED BY <2>9, <3>2, <4>1, <4>2
    <3>3. QED BY <1>2, <3>1, <3>2
  <2> HIDE DEF m
  <2>13. regs' \in [Registers -> Items]
    BY <1>2, <2>9 DEF NoRegs, Unknown, Items, IInv, TypeOK
  <2>14. RegsOK'
    <3>1. Top' = f
      BY <2>3, <2>8 DEF Top, Level
    <3>2. QED BY <2>6, <3>1 DEF RegsOK, OperandsInPlace, At
  <2>15. \A j \in 1 .. Count(f) : Val(f, Level, j) = Val(Top, Level, j)
    BY <2>1, <2>6 DEF Val
  <2>16. Level = 1 <=> f.form \in StmtForms
    BY <2>1, <2>2, <2>6
  <2>17. QED
    BY <2>1, <2>6, <2>7, <2>8, <2>11, <2>12, <2>13, <2>14, <2>15, <2>16, LocalStep
<1>3. gen_call_call => Goto("restore") /\ ~gen_call_restore
  BY DEF gen_call_call, gen_call_restore, At
<1>4. gen_call_restore => Goto("op")
  BY DEF gen_call_restore
<1>5. QED BY <1>1, <1>2, <1>3, <1>4

-----------------------------------------------------------------------------
(* The statement level and the function level. *)

(* A step after which there is no activation: the invariant then speaks of *)
(* the function's frame alone.                                             *)
LEMMA IdleStep ==
  ASSUME frames' = << >>, TypeOK', DepthIsRsp',
         stack_size' # NoFunc => Len(slots') = First',
         stack_size' # NoFunc =>
           \A j \in 1 .. First' :
              slots'[j] = (IF j = 1 THEN ReturnAddress ELSE IF j = 2 THEN SavedRbp ELSE Local)
  PROVE  IInv'
<1>1. Level' = 0
  BY DEF Level
<1>2. FramesOK' /\ LinksOK'
  BY <1>1 DEF FramesOK, LinksOK
<1>3. ChainOK'
  BY <1>1 DEF ChainOK
<1>4. ContentOK'
  BY <1>1 DEF ContentOK
<1>5. RegsOK'
  BY DEF RegsOK, OperandsInPlace, At
<1>6. QED BY <1>2, <1>3, <1>4, <1>5 DEF IInv

LEMMA InitIInv == Init => IInv
<1> SUFFICES ASSUME Init PROVE IInv
  OBVIOUS
<1>1. TypeOK
  BY DEF Init, TypeOK, NoRegs, Items, Unknown
<1>2. Level = 0 /\ frames = << >> /\ stack_size = NoFunc
  BY DEF Init, Level
<1>3. FramesOK /\ LinksOK /\ ChainOK /\ ContentOK
  BY <1>2 DEF FramesOK, LinksOK, ChainOK, ContentOK
<1>4. RegsOK /\ DepthIsRsp
  BY <1>2 DEF RegsOK, OperandsInPlace, At, DepthIsRsp
<1>5. QED BY <1>1, <1>3, <1>4 DEF IInv

LEMMA FuncStep ==
  ASSUME IInv, (\E size \in StackSizes : gen_func(size)) \/ gen_func_end
  PROVE  IInv'
<1>1. CASE gen_func_end
  <2>1. frames' = << >> /\ TypeOK' /\ DepthIsRsp' /\ stack_size' = NoFunc
    BY <1>1 DEF gen_func_end, IInv, TypeOK, DepthIsRsp
  <2>2. QED BY <2>1, IdleStep
<1>2. ASSUME NEW size \in StackSizes, gen_func(size) PROVE IInv'
  <2> DEFINE q == size \div 8
             F == Fill(q, Local)
  <2>1. size \in Nat /\ size % 8 = 0 /\ q \in Nat /\ 8 * q = size /\ size # NoFunc
    BY GenStackAssumption, Div8 DEF NoFunc
  <2>2. frames = << >>
    BY <1>2 DEF gen_func, IInv, ChainOK
  <2>3. F \in Seq(Items) /\ Len(F) = q /\ \A j \in 1 .. q : F[j] = Local
    BY <2>1 DEF Fill, Local, Items
  <2>4. /\ stack_size' = size /\ stack_depth' = 16 + size
        /\ slots' = <<ReturnAddress, SavedRbp>> \o F /\ UNCHANGED <<frames, regs>>
    BY <1>2, <2>1 DEF gen_func
  <2> HIDE DEF F, q
  <2>5. /\ <<ReturnAddress, SavedRbp>> \in Seq(Items) /\ Len(<<ReturnAddress, SavedRbp>>) = 2
        /\ <<ReturnAddress, SavedRbp>>[1] = ReturnAddress
        /\ <<ReturnAddress, SavedRbp>>[2] = SavedRbp
    BY DEF ReturnAddress, SavedRbp, Items
  <2>6. /\ slots' \in Seq(Items) /\ Len(slots') = 2 + q
        /\ \A j \in 1 .. 2 + q :
              slots'[j] = IF j <= 2 THEN <<ReturnAddress, SavedRbp>>[j] ELSE F[j - 2]
    BY <2>3, <2>4, <2>5, ConcatProperties
  <2>7. First' = 2 + q
    BY <2>4 DEF First, q
  <2>8. TypeOK'
    BY <2>1, <2>4, <2>6 DEF IInv, TypeOK
  <2>9. DepthIsRsp'
    <3>1. stack_depth' = 16 + size /\ Len(slots') = 2 + q
      BY <2>4, <2>6
    <3>2. stack_depth' = 8 * Len(slots')
      <4>1. 8 * (2 + q) = 16 + size
        BY <2>1
      <4>2. QED BY <3>1, <4>1
    <3>3. QED BY <3>2 DEF DepthIsRsp
  <2>10. ASSUME NEW j \in 1 .. 2 + q
         PROVE  slots'[j] = (IF j = 1 THEN ReturnAddress ELSE IF j = 2 THEN SavedRbp ELSE Local)
    <3>1. CASE j > 2
      <4>1. j - 2 \in 1 .. q /\ ~(j <= 2) /\ j # 1 /\ j # 2
        BY <2>1, <3>1
      <4>2. QED BY <2>3, <2>6, <4>1
    <3>2. CASE j = 1 \/ j = 2
      BY <2>5, <2>6, <3>2
    <3>3. QED BY <2>1, <3>1, <3>2
  <2>11. QED BY <2>2, <2>4, <2>6, <2>7, <2>8, <2>9, <2>10, IdleStep
<1>3. QED BY <1>1, <1>2

LEMMA StmtStep ==
  ASSUME IInv, gen_stmt
  PROVE  IInv'
<1>1. ASSUME stack_size # NoFunc, frames = << >>,
             NEW form \in StmtForms, frames' = <<Activation(form, 0, 0)>>,
             UNCHANGED <<stack_depth, slots, regs, stack_size>>
      PROVE  IInv'
  <2> DEFINE c == Activation(form, 0, 0)
  <2>1. stack_depth \in Nat /\ Len(slots) \in Nat /\ stack_depth = 8 * Len(slots)
        /\ Len(slots) = First
    BY <1>1 DEF IInv, TypeOK, DepthIsRsp, ChainOK
  <2>2. /\ c \in Frame /\ c.form = form /\ c.pc = "begin" /\ c.base = stack_depth
        /\ c.pad = 0 /\ c.i = 0 /\ c.n = 0 /\ c.joins = {}
    BY <2>1 DEF Activation, Frame, Forms, PCs
  <2>3. stack_depth % 8 = 0 /\ stack_depth \div 8 = Len(slots)
    BY <2>1, Div8
  <2>4. FrameOK(c)
    BY <2>2, <2>3 DEF FrameOK, FormPCs, StmtForms
  <2>5. Count(c) = 0
    BY <2>2 DEF Count, Two, StmtForms
  <2> HIDE DEF c
  <2>6. /\ frames' = <<c>> /\ frames' \in Seq(Frame) /\ Level' = 1 /\ frames'[1] = c
        /\ frames' # << >> /\ Top' = c
    BY <1>1, <2>2 DEF Level, Top, c
  <2>7. Present'[1] = 0 /\ Slot'[1] = Len(slots)
    BY <2>2, <2>3, <2>5, <2>6 DEF Present, Slot
  <2>8. TypeOK' /\ DepthIsRsp'
    BY <1>1, <2>6 DEF IInv, TypeOK, DepthIsRsp
  <2>9. FramesOK'
    BY <2>2, <2>4, <2>6 DEF FramesOK
  <2>10. LinksOK'
    BY <2>6 DEF LinksOK
  <2>11. ChainOK'
    <3>1. First' = First
      BY <1>1 DEF First
    <3>2. QED BY <1>1, <2>1, <2>6, <2>7, <3>1 DEF ChainOK
  <2>12. ContentOK'
    <3>1. First' = First
      BY <1>1 DEF First
    <3>2. QED BY <1>1, <2>6, <2>7, <3>1 DEF IInv, ContentOK
  <2>13. RegsOK'
    BY <2>2, <2>6 DEF RegsOK, OperandsInPlace, At
  <2>14. QED BY <2>8, <2>9, <2>10, <2>11, <2>12, <2>13 DEF IInv
<1>2. ASSUME At("eval", "begin") \/ At("op", "begin"), CallOn(Exprs(1, Level + 1), "got")
      PROVE  IInv'
  <2>1. frames # << >> /\ Top.form \in {"eval", "op"} /\ Top.pc = "begin"
    BY <1>2 DEF At
  <2>2. /\ [Top EXCEPT !.pc = "got"].form = Top.form
        /\ [Top EXCEPT !.pc = "got"].pc = "got"
    BY <2>1, TopFacts DEF Frame
  <2>3. Count(Top) = 0 /\ Count([Top EXCEPT !.pc = "got"]) = 1
        /\ "got" \in FormPCs(Top.form)
        /\ Val([Top EXCEPT !.pc = "got"], Level, 1) = Operand(Level, 1)
    BY <2>1, <2>2 DEF Count, Two, One, FormPCs, Val
  <2>4. QED BY <1>2, <2>1, <2>3, CallOnStep
<1>3. ASSUME At("op", "got"), GEN_POP("rax"), Goto("op")
      PROVE  IInv'
  BY <1>3, OpStep DEF At, One
<1>4. ASSUME \/ At("eval", "got") /\ GEN_POP_DISCARD
             \/ At("op", "op") /\ regs' = NoRegs /\ UNCHANGED <<stack_depth, slots, stack_size>>,
             frames' = << >>
      PROVE  IInv'
  <2> DEFINE m == IF Top.form = "eval" THEN 1 ELSE 0
  <2>1. frames # << >> /\ Top.form \in StmtForms /\ Count(Top) = m
    BY <1>4 DEF At, Count, Two, StmtForms
  <2>2. Level = 1
    BY <2>1, TopContent
  <2>3. /\ stack_size # NoFunc /\ First \in Nat /\ Slot[1] = First /\ Len(slots) = First + m
        /\ Len(slots) \in Nat /\ stack_depth = 8 * Len(slots)
    <3>1. Slot[1] = First
      BY <2>1, TopFacts DEF IInv, ChainOK
    <3>2. QED BY <2>1, <2>2, <3>1, TopFacts
  <2>4. m \in {0, 1}
    OBVIOUS
  <2>5. /\ stack_size' = stack_size /\ regs' \in [Registers -> Items]
        /\ slots' = Drop(m) /\ stack_depth' = stack_depth - 8 * m
    <3>1. CASE At("eval", "got") /\ GEN_POP_DISCARD
      BY <3>1 DEF GEN_POP_DISCARD, At, IInv, TypeOK
    <3>2. CASE At("op", "op") /\ regs' = NoRegs /\ UNCHANGED <<stack_depth, slots, stack_size>>
      <4>1. slots = Drop(0) /\ stack_depth \in Nat
        BY DEF Drop, IInv, TypeOK
      <4>2. NoRegs \in [Registers -> Items]
        BY DEF NoRegs, Items, Unknown
      <4>3. QED BY <3>2, <4>1, <4>2 DEF At
    <3>3. QED BY <1>4, <3>1, <3>2
  <2> HIDE DEF m
  <2>6. /\ slots' \in Seq(Items) /\ Len(slots') = First
        /\ \A j \in 1 .. First : slots'[j] = slots[j]
    <3>1. Len(slots) - m = First
      BY <2>3, <2>4
    <3>2. slots' = SubSeq(slots, 1, First)
      BY <2>5, <3>1 DEF Drop
    <3>3. slots \in Seq(Items) /\ First <= Len(slots)
      BY <2>3, <2>4 DEF IInv, TypeOK
    <3>4. QED BY <2>3, <3>2, <3>3
  <2>7. First' = First
    BY <2>5 DEF First
  <2>8. stack_depth' = 8 * First /\ stack_depth' \in Nat
    BY <2>3, <2>4, <2>5
  <2>9. TypeOK' /\ DepthIsRsp'
    BY <1>4, <2>5, <2>6, <2>8 DEF IInv, TypeOK, DepthIsRsp
  <2>10. \A j \in 1 .. First :
            slots[j] = (IF j = 1 THEN ReturnAddress ELSE IF j = 2 THEN SavedRbp ELSE Local)
    BY <2>3 DEF IInv, ContentOK
  <2>11. QED BY <1>4, <2>6, <2>7, <2>9, <2>10, IdleStep
<1>5. QED BY <1>1, <1>2, <1>3, <1>4 DEF gen_stmt

-----------------------------------------------------------------------------
LEMMA NextIInv == IInv /\ [Next]_vars => IInv'
<1> SUFFICES ASSUME IInv, [Next]_vars PROVE IInv'
  OBVIOUS
<1>1. CASE \E size \in StackSizes : gen_func(size)
  BY <1>1, FuncStep
<1>2. CASE gen_stmt
  BY <1>2, StmtStep
<1>3. CASE gen_expr
  <2>1. CASE gen_leaf \/ gen_load \/ gen_unary \/ gen_binary \/ gen_pointer \/ gen_assign
    BY <2>1, ExprStep
  <2>2. CASE gen_logical \/ gen_condition
    BY <2>2, BranchStep
  <2>3. CASE gen_address \/ gen_indirect \/ gen_comma
    BY <2>3, TailStep
  <2>4. CASE gen_call
    BY <2>4, CallPadStep, CallArgStep, CallPopsStep, CallEndStep DEF gen_call
  <2>5. QED BY <1>3, <2>1, <2>2, <2>3, <2>4 DEF gen_expr
<1>4. CASE gen_func_end
  BY <1>4, FuncStep
<1>5. CASE UNCHANGED vars
  <2>1. UNCHANGED <<frames, stack_depth, slots, regs, stack_size>>
    BY <1>5 DEF vars
  <2>2. Level' = Level /\ Top' = Top /\ First' = First /\ Slot' = Slot /\ Present' = Present
    BY <2>1 DEF Level, Top, First, Slot, Present
  <2>3. (TypeOK /\ DepthIsRsp)' /\ RegsOK'
    BY <2>1, <2>2 DEF IInv, TypeOK, DepthIsRsp, RegsOK, OperandsInPlace, At
  <2>4. FramesOK' /\ LinksOK'
    BY <2>1, <2>2 DEF IInv, FramesOK, LinksOK
  <2>5. ChainOK'
    BY <2>1, <2>2 DEF IInv, ChainOK
  <2>6. ContentOK'
    BY <2>1, <2>2 DEF IInv, ContentOK
  <2>7. QED BY <2>3, <2>4, <2>5, <2>6 DEF IInv
<1>6. QED BY <1>1, <1>2, <1>3, <1>4, <1>5 DEF Next

LEMMA GenStackIInv == Spec => []IInv
  BY InitIInv, NextIInv, PTL DEF Spec

(* The state of the generator and of the run-time stack stays well typed:  *)
(* in particular %rsp never rises above the frame (no pop of an empty      *)
(* stack) whatever expressions are compiled (gen.c:62-114).                *)
THEOREM GenStackTypeOK == Spec => []TypeOK
<1>1. IInv => TypeOK
  BY DEF IInv
<1>2. QED BY GenStackIInv, <1>1, PTL

(* For every expression and every frame size stack_depth is the depth of   *)
(* the run-time stack (gen.c:62-114, 339-368, 1196-1267).                  *)
THEOREM GenStackDepth == Spec => []DepthIsRsp
<1>1. IInv => DepthIsRsp
  BY DEF IInv
<1>2. QED BY GenStackIInv, <1>1, PTL

(* Every operator finds its operands in the registers its instructions     *)
(* name, however deep the operands' own code is (gen.c:109-114, 831-899).  *)
THEOREM GenStackOperands == Spec => []OperandsInPlace
<1>1. IInv => OperandsInPlace
  BY DEF IInv, RegsOK
<1>2. QED BY GenStackIInv, <1>1, PTL

(* Every call instruction, nested in the arguments of other calls or not,  *)
(* is reached with a 16-byte aligned stack (gen.c:317, 337-343).           *)
THEOREM GenStackAligned == Spec => []CallAligned
<1>1. IInv => CallAligned
  <2> SUFFICES ASSUME IInv, At("call", "call") PROVE stack_depth % 16 = 0
    BY DEF CallAligned
  <2>1. frames # << >> /\ Top.form = "call" /\ Top.pc = "call"
    BY DEF At
  <2>2. Level \in 1 .. Level /\ Top = frames[Level]
    BY <2>1, TopFacts, TopContent
  <2>3. /\ Top \in Frame /\ FrameOK(Top) /\ Top.base \in Nat /\ Top.pad \in Nat /\ Top.n \in Nat
        /\ stack_depth = Top.base + 8 * Count(Top)
    BY <2>1, <2>2, TopFacts DEF Frame
  <2>4. Count(Top) = (Top.pad \div 8) + StackArgs(Top.n)
    BY <2>1 DEF Count
  <2>5. StackArgs(Top.n) \in Nat /\ (Top.pad \div 8) \in Nat /\ 8 * (Top.pad \div 8) = Top.pad
    BY <2>3, Div8 DEF StackArgs, Pos, FrameOK
  <2>6. stack_depth = Top.base + Top.pad + 8 * StackArgs(Top.n)
    BY <2>3, <2>4, <2>5
  <2>7. QED BY <2>1, <2>3, <2>6 DEF FrameOK
<1>2. QED BY GenStackIInv, <1>1, PTL

(* At every call the arguments are where the ABI wants them (gen.c:320-334). *)
THEOREM GenStackArgs == Spec => []ArgsInPlace
<1>1. IInv => ArgsInPlace
  <2> SUFFICES ASSUME IInv, At("call", "call") PROVE ArgsInPlace
    BY DEF ArgsInPlace
  <2> DEFINE n == Top.n
             p == Top.pad \div 8
             s == StackArgs(n)
  <2>1. frames # << >> /\ Top.form = "call" /\ Top.pc = "call"
    BY DEF At
  <2>2. /\ Level \in 1 .. Level /\ Top = frames[Level]
        /\ \A j \in 1 .. Count(Top) : slots[Slot[Level] + j] = Val(Top, Level, j)
    BY <2>1, TopFacts, TopContent
  <2>3. /\ n \in Nat /\ p \in Nat /\ s \in Nat /\ s = Pos(n - 6)
        /\ Len(slots) = Slot[Level] + Count(Top) /\ Slot[Level] \in Nat
        /\ 8 * Slot[Level] = Top.base
    <3>1. Top \in Frame /\ Top.n \in Nat /\ Top.pad \in Nat
      BY <2>1, <2>2, TopFacts DEF Frame
    <3>2. p \in Nat
      BY <3>1, Div8
    <3>3. s \in Nat /\ s = Pos(n - 6)
      BY <3>1 DEF StackArgs, Pos
    <3>4. /\ Len(slots) = Slot[Level] + Count(Top) /\ Slot[Level] \in Nat
          /\ 8 * Slot[Level] = Top.base
      BY <2>1, <2>2, TopFacts
    <3> HIDE DEF p, s
    <3>5. QED BY <3>1, <3>2, <3>3, <3>4
  <2>4. Count(Top) = p + s
    BY <2>1 DEF Count
  <2>5. \A j \in 1 .. p + s :
           Val(Top, Level, j) = IF j <= p THEN Padding ELSE Operand(Level, n - (j - p) + 1)
    BY <2>1 DEF Val
  <2> HIDE DEF p, s, n
  <2>6. ASSUME NEW k \in 1 .. s PROVE slots[Len(slots) - k + 1] = Operand(Level, 6 + k)
    <3> DEFINE j == p + s - k + 1
    <3>1. n = 6 + s
      BY <2>3 DEF Pos
    <3>2. j \in 1 .. p + s /\ ~(j <= p) /\ Len(slots) - k + 1 = Slot[Level] + j
          /\ n - (j - p) + 1 = 6 + k
      <4>0. p \in Nat /\ s \in Nat /\ Slot[Level] \in Nat /\ Len(slots) = Slot[Level] + (p + s)
        BY <2>3, <2>4
      <4>1. k \in Nat \ {0} /\ k <= s
        BY <4>0
      <4>2. j \in Nat \ {0} /\ j <= p + s /\ ~(j <= p) /\ n - (j - p) + 1 = 6 + k
        BY <4>0, <3>1, <4>1
      <4>3. Len(slots) - k + 1 = Slot[Level] + j
        BY <4>0, <4>1
      <4>4. p + s \in Nat
        BY <2>3
      <4> HIDE DEF j
      <4>5. QED BY <4>2, <4>3, <4>4
    <3> HIDE DEF j
    <3>3. Val(Top, Level, j) = Operand(Level, 6 + k)
      BY <2>5, <3>2
    <3>4. slots[Slot[Level] + j] = Val(Top, Level, j)
      BY <2>2, <2>4, <3>2
    <3>5. QED BY <3>2, <3>3, <3>4
  <2>7. ASSUME NEW k \in 1 .. p PROVE slots[Len(slots) - s - k + 1] = Padding
    <3> DEFINE j == p - k + 1
    <3>1. j \in 1 .. p + s /\ j <= p /\ Len(slots) - s - k + 1 = Slot[Level] + j
      <4>0. p \in Nat /\ s \in Nat /\ Slot[Level] \in Nat /\ Len(slots) = Slot[Level] + (p + s)
        BY <2>3, <2>4
      <4>1. k \in Nat \ {0} /\ k <= p
        BY <4>0
      <4>2. j \in Nat \ {0} /\ j <= p + s /\ j <= p
        BY <4>0, <4>1
      <4>3. Len(slots) - s - k + 1 = Slot[Level] + j
        BY <4>0, <4>1, SMTT(30)
      <4>4. p + s \in Nat
        BY <2>3
      <4> HIDE DEF j
      <4>5. QED BY <4>2, <4>3, <4>4
    <3> HIDE DEF j
    <3>2. QED BY <2>2, <2>4, <2>5, <3>1
  <2>8. 8 * (Len(slots) - s - p) = Top.base
    <3>1. Len(slots) - s - p = Slot[Level]
      BY <2>3, <2>4, SMTT(30)
    <3>2. QED BY <2>3, <3>1
  <2>9. \A k \in 1 .. Lesser(n, 6) : regs[arg_reg[k]] = Operand(Level, k)
    BY DEF IInv, RegsOK, n
  <2>10. QED BY <2>6, <2>7, <2>8, <2>9 DEF ArgsInPlace, n, p, s
<1>2. QED BY GenStackIInv, <1>1, PTL

(* Every jump to a label of a logical or conditional operator leaves with  *)
(* the depth the label is printed at (gen.c:831-891).                      *)
THEOREM GenStackJumps == Spec => []JumpsMeet
<1>1. IInv => JumpsMeet
  <2> SUFFICES ASSUME IInv PROVE JumpsMeet
    OBVIOUS
  <2>1. \A k \in 1 .. Level : frames[k].joins \subseteq {frames[k].base}
    BY DEF IInv, FramesOK, FrameOK
  <2>2. ASSUME At("logical", "op") \/ At("condition", "op") PROVE stack_depth = Top.base
    <3>1. frames # << >> /\ Count(Top) = 0
      BY <2>2 DEF At, Count, Two
    <3>2. Level \in 1 .. Level /\ Top = frames[Level]
      BY <3>1, TopFacts, TopContent
    <3>3. Top.base \in Nat /\ stack_depth = Top.base + 8 * Count(Top)
      BY <3>1, <3>2, TopFacts DEF Frame
    <3>4. QED BY <3>1, <3>3
  <2>3. QED BY <2>1, <2>2 DEF JumpsMeet
<1>2. QED BY GenStackIInv, <1>1, PTL

(* Between statements the stack is exactly the frame of the prologue, so   *)
(* control may move from any statement to any other (gen.c:972-1149).      *)
THEOREM GenStackBalanced == Spec => []BalancedStmts
<1>1. IInv => BalancedStmts
  <2> SUFFICES ASSUME IInv, stack_size # NoFunc, frames = << >>
               PROVE  /\ stack_depth = 16 + stack_size
                      /\ slots = <<ReturnAddress, SavedRbp>> \o Fill(stack_size \div 8, Local)
    BY DEF BalancedStmts
  <2> DEFINE q == stack_size \div 8
             F == Fill(q, Local)
             H == <<ReturnAddress, SavedRbp>>
  <2>1. stack_size \in Nat /\ 8 * q = stack_size /\ q \in Nat
    <3>1. stack_size \in StackSizes
      BY DEF IInv, TypeOK
    <3>2. stack_size \in Nat /\ stack_size % 8 = 0
      BY <3>1, GenStackAssumption
    <3>3. QED BY <3>2, Div8
  <2>2. Len(slots) = 2 + q /\ slots \in Seq(Items) /\ stack_depth = 8 * Len(slots)
        /\ \A j \in 1 .. 2 + q :
              slots[j] = (IF j = 1 THEN ReturnAddress ELSE IF j = 2 THEN SavedRbp ELSE Local)
    BY DEF IInv, TypeOK, DepthIsRsp, ChainOK, ContentOK, First
  <2>3. F \in Seq(Items) /\ Len(F) = q /\ \A j \in 1 .. q : F[j] = Local
    BY <2>1 DEF Fill, Local, Items
  <2>4. H \in Seq(Items) /\ Len(H) = 2 /\ H[1] = ReturnAddress /\ H[2] = SavedRbp
    BY DEF ReturnAddress, SavedRbp, Items
  <2> HIDE DEF F, H
  <2>5. /\ H \o F \in Seq(Items) /\ Len(H \o F) = 2 + q
        /\ \A j \in 1 .. 2 + q : (H \o F)[j] = IF j <= 2 THEN H[j] ELSE F[j - 2]
    <3>1. /\ H \o F \in Seq(Items) /\ Len(H \o F) = Len(H) + Len(F)
          /\ \A j \in 1 .. Len(H) + Len(F) :
                (H \o F)[j] = IF j <= Len(H) THEN H[j] ELSE F[j - Len(H)]
      BY <2>3, <2>4, ConcatProperties
    <3> HIDE DEF q
    <3>2. QED BY <2>3, <2>4, <3>1
  <2> HIDE DEF q
  <2>6. ASSUME NEW j \in 1 .. 2 + q PROVE slots[j] = (H \o F)[j]
    <3>1. CASE j > 2
      <4>1. j - 2 \in 1 .. q /\ ~(j <= 2) /\ j # 1 /\ j # 2
        BY <2>1, <3>1
      <4>2. slots[j] = Local /\ F[j - 2] = Local
        BY <2>2, <2>3, <4>1
      <4>3. (H \o F)[j] = F[j - 2]
        BY <2>5, <4>1
      <4>4. QED BY <4>2, <4>3
    <3>2. CASE j = 1
      BY <2>2, <2>4, <2>5, <3>2
    <3>3. CASE j = 2
      BY <2>2, <2>4, <2>5, <3>3
    <3>4. j > 2 \/ j = 1 \/ j = 2
      BY <2>1
    <3>5. QED BY <3>1, <3>2, <3>3, <3>4
  <2>7. slots = H \o F
    BY <2>2, <2>5, <2>6, SeqEqual
  <2>8. stack_depth = 16 + stack_size
    BY <2>1, <2>2
  <2>9. QED BY <2>7, <2>8 DEF H, F, q
<1>2. QED BY GenStackIInv, <1>1, PTL

-----------------------------------------------------------------------------
(* What a step does to the slots under the activation at the top: what is  *)
(* kept up to some height is kept up to any lower one.                     *)
LEMMA KeepsPrefix ==
  ASSUME slots \in Seq(Items), slots' \in Seq(Items), NEW m \in Nat,
         m <= Len(slots), m <= Len(slots'),
         \A j \in 1 .. m : slots'[j] = slots[j]
  PROVE  \A k \in 0 .. m : Untouched(k)
<1> SUFFICES ASSUME NEW k \in 0 .. m PROVE Untouched(k)
  OBVIOUS
<1>1. SubSeq(slots', 1, k) = SubSeq(slots, 1, k)
  BY SubSeqProperties
<1> QED
  BY <1>1 DEF Untouched

(* The places where an activation takes back slots of its own. *)
LEMMA DropKeeps ==
  ASSUME IInv, IInv', frames # << >>, NEW n \in Nat, n <= Count(Top), slots' = Drop(n)
  PROVE  Len(slots') >= Slot[Level] /\ \A j \in 1 .. Slot[Level] : slots'[j] = slots[j]
<1>1. /\ slots \in Seq(Items) /\ Len(slots) \in Nat /\ Slot[Level] \in Nat
      /\ Count(Top) \in Nat /\ Len(slots) = Slot[Level] + Count(Top)
  BY TopFacts DEF IInv, TypeOK
<1>2. Len(slots) - n \in 0 .. Len(slots) /\ Slot[Level] <= Len(slots) - n
  BY <1>1
<1>3. slots' = SubSeq(slots, 1, Len(slots) - n)
  BY DEF Drop
<1>4. Len(slots') = Len(slots) - n /\ \A j \in 1 .. Len(slots) - n : slots'[j] = slots[j]
  BY <1>1, <1>2, <1>3
<1> QED
  BY <1>1, <1>2, <1>4

(* Every other step leaves the slots alone or puts some on top of them. *)
LEMMA GrowKeeps ==
  ASSUME IInv, frames # << >>, NEW t \in Seq(Items), slots' = slots \/ slots' = slots \o t
  PROVE  Len(slots') >= Slot[Level] /\ \A j \in 1 .. Slot[Level] : slots'[j] = slots[j]
<1>1. /\ slots \in Seq(Items) /\ Len(slots) \in Nat /\ Slot[Level] \in Nat
      /\ Count(Top) \in Nat /\ Len(slots) = Slot[Level] + Count(Top)
  BY TopFacts, SMTT(40) DEF IInv, TypeOK
<1> QED
  BY <1>1

Grows == slots' = slots \/ \E t \in Seq(Items) : slots' = slots \o t

Drops == \E n \in Nat : n <= Count(Top) /\ slots' = Drop(n)

LEMMA PushGrows ==
  ASSUME IInv, frames # << >>, GEN_PUSH
  PROVE  Grows
<1>1. Level \in Nat \ {0} /\ Top \in Frame
  BY TopFacts
<1>2. Result \in Items
  BY <1>1 DEF Result, Operand, Items, Frame
<1>3. slots' = slots \o <<Result>> /\ <<Result>> \in Seq(Items)
  BY <1>2 DEF GEN_PUSH, IInv, TypeOK
<1> QED
  BY <1>3 DEF Grows

LEMMA StmtKeeps ==
  ASSUME IInv, frames # << >>, gen_stmt
  PROVE  Grows \/ Drops
<1>1. CASE At("eval", "got") \/ At("op", "got")
  <2>1. Count(Top) = 1
    BY <1>1 DEF At, Count, Two
  <2>2. slots' = Drop(1)
    BY <1>1 DEF gen_stmt, At, GEN_POP_DISCARD, GEN_POP
  <2> QED
    BY <2>1, <2>2 DEF Drops
<1>2. CASE ~(At("eval", "got") \/ At("op", "got"))
  <2>1. slots' = slots
    BY <1>2 DEF gen_stmt, CallOn
  <2> QED
    BY <2>1 DEF Grows
<1> QED
  BY <1>1, <1>2

LEMMA ExprKeeps ==
  ASSUME IInv, frames # << >>,
         gen_leaf \/ gen_load \/ gen_unary \/ gen_binary \/ gen_pointer \/ gen_assign
  PROVE  Grows \/ Drops
<1>1. CASE At("load", "got") \/ At("dot", "got") \/ At("unary", "got")
  <2>1. Count(Top) = 1
    BY <1>1 DEF At, Count, Two
  <2>2. slots' = Drop(1)
    BY <1>1 DEF gen_leaf, gen_load, gen_unary, gen_binary, gen_pointer, gen_assign, At, GEN_POP
  <2> QED
    BY <2>1, <2>2 DEF Drops
<1>2. CASE At("binary", "got") \/ At("pointer", "got") \/ At("assign", "got")
  <2>1. Count(Top) = 2
    BY <1>2 DEF At, Count, Two
  <2>2. slots' = Drop(2)
    BY <1>2 DEF gen_leaf, gen_load, gen_unary, gen_binary, gen_pointer, gen_assign, At, GEN_POP2
  <2> QED
    BY <2>1, <2>2 DEF Drops
<1>3. CASE ~(Top.pc = "got")
  <2>1. slots' = slots \/ GEN_PUSH
    BY <1>3 DEF gen_leaf, gen_load, gen_unary, gen_binary, gen_pointer, gen_assign, At, CallOn
  <2> QED
    BY <2>1, PushGrows DEF Grows
<1> QED
  BY <1>1, <1>2, <1>3 DEF gen_leaf, gen_load, gen_unary, gen_binary, gen_pointer, gen_assign, At

LEMMA BranchKeeps ==
  ASSUME IInv, frames # << >>,
         gen_logical \/ gen_condition \/ gen_address \/ gen_indirect \/ gen_comma
  PROVE  Grows \/ Drops
<1>1. CASE Top.pc \in {"test1", "test2", "test3", "drop"}
  <2>1. Count(Top) = 1
    BY <1>1 DEF gen_logical, gen_condition, gen_address, gen_indirect, gen_comma, At, Count, Two
  <2>2. slots' = Drop(1)
    BY <1>1 DEF gen_logical, gen_condition, gen_address, gen_indirect, gen_comma, At,
                PopAndJump, GEN_POP, GEN_POP_DISCARD
  <2> QED
    BY <2>1, <2>2 DEF Drops
<1>2. CASE Top.pc \notin {"test1", "test2", "test3", "drop"}
  <2>1. slots' = slots \/ GEN_PUSH
    BY <1>2 DEF gen_logical, gen_condition, gen_address, gen_indirect, gen_comma, At,
                CallOn, TailCall
  <2> QED
    BY <2>1, PushGrows DEF Grows
<1> QED
  BY <1>1, <1>2

LEMMA CallKeeps ==
  ASSUME IInv, frames # << >>, gen_call
  PROVE  Grows \/ Drops
<1>1. /\ Top \in Frame /\ FrameOK(Top) /\ Count(Top) \in Nat
      /\ Top.n \in Nat /\ Top.pad \in Nat /\ Top.pad % 8 = 0 /\ (Top.pad \div 8) \in Nat
      /\ 8 * (Top.pad \div 8) = Top.pad
  <2>1. Top \in Frame /\ FrameOK(Top)
    BY TopFacts
  <2>2. Count(Top) \in Nat
    BY <2>1, CountNat
  <2>3. Top.n \in Nat /\ Top.pad \in Nat /\ Top.pad % 8 = 0
    BY <2>1 DEF Frame, FrameOK
  <2> QED
    BY <2>1, <2>2, <2>3, Div8
<1>2. CASE gen_call_pad
  <2> DEFINE padding == PaddingFor(stack_depth, Top.n)
  <2>1. padding \div 8 \in Nat
    <3>1. stack_depth \in Nat /\ stack_depth % 8 = 0
      BY TopFacts, Div8
    <3> QED
      BY <1>1, <3>1, PaddingAligns, Div8
  <2>2. Fill(padding \div 8, Padding) \in Seq(Items)
    <3> HIDE DEF padding
    <3> QED
      BY <2>1 DEF Fill, Padding, Items
  <2> QED
    BY <1>2, <2>2 DEF gen_call_pad, Grows
<1>3. CASE gen_call_pops
  <2> DEFINE n == Lesser(Top.n, 6)
  <2>1. Top.form = "call" /\ Top.pc = "args" /\ Top.i = 0
    BY <1>3 DEF gen_call_pops, At
  <2>2. Count(Top) = (Top.pad \div 8) + Top.n - 0
    BY <2>1 DEF Count
  <2>3. n \in Nat /\ n <= Count(Top)
    BY <1>1, <2>2 DEF Lesser
  <2>4. slots' = Drop(n)
    BY <1>3 DEF gen_call_pops
  <2> QED
    BY <2>3, <2>4 DEF Drops
<1>4. CASE gen_call_restore
  <2> DEFINE bytes == Top.pad + StackArgs(Top.n) * 8
  <2>1. Top.form = "call" /\ Top.pc = "restore"
    BY <1>4 DEF gen_call_restore, At
  <2>2. Count(Top) = (Top.pad \div 8) + StackArgs(Top.n) /\ StackArgs(Top.n) \in Nat
    BY <1>1, <2>1 DEF Count, StackArgs, Pos
  <2>3. bytes \div 8 = Count(Top)
    <3>1. bytes = 8 * Count(Top)
      BY <1>1, <2>2
    <3> QED
      BY <1>1, <3>1, Div8
  <2>4. slots' = Drop(Count(Top))
    BY <1>4, <2>3 DEF gen_call_restore
  <2>5. Count(Top) <= Count(Top)
    BY <1>1
  <2> QED
    BY <1>1, <2>4, <2>5 DEF Drops
<1>5. CASE gen_call_arg \/ gen_call_call
  BY <1>5 DEF gen_call_arg, gen_call_call, Grows
<1>6. CASE gen_call_push
  BY <1>6, PushGrows DEF gen_call_push
<1> QED
  BY <1>2, <1>3, <1>4, <1>5, <1>6 DEF gen_call

LEMMA NextKeeps ==
  ASSUME IInv, [Next]_vars
  PROVE  \A k \in 1 .. Level : Untouched(frames[k].base \div 8)
<1>1. CASE frames = << >>
  <2>1. 1 .. Level = {}
    BY <1>1 DEF Level
  <2> QED
    BY <2>1
<1>2. CASE frames # << >>
  <2>1. IInv'
    BY NextIInv
  <2>2. stack_size # NoFunc
    BY <1>2, TopFacts
  <2>3. Grows \/ Drops
    <3>1. CASE gen_stmt
      BY <1>2, <3>1, StmtKeeps
    <3>2. CASE gen_expr
      BY <1>2, <3>2, ExprKeeps, BranchKeeps, CallKeeps DEF gen_expr
    <3>3. CASE UNCHANGED vars
      BY <3>3 DEF vars, Grows
    <3>4. ~gen_func_end /\ \A size \in StackSizes : ~gen_func(size)
      BY <1>2, <2>2 DEF gen_func_end, gen_func
    <3> QED
      BY <3>1, <3>2, <3>3, <3>4 DEF Next
  <2>4. Len(slots') >= Slot[Level] /\ \A j \in 1 .. Slot[Level] : slots'[j] = slots[j]
    <3>1. CASE Drops
      BY <1>2, <2>1, <3>1, DropKeeps DEF Drops
    <3>2. CASE Grows
      <4>1. << >> \in Seq(Items)
        OBVIOUS
      <4> QED
        BY <1>2, <3>2, <4>1, GrowKeeps DEF Grows
    <3> QED
      BY <2>3, <3>1, <3>2
  <2>5. \A k \in 0 .. Slot[Level] : Untouched(k)
    <3>1. /\ Slot[Level] \in Nat /\ Len(slots) \in Nat /\ Count(Top) \in Nat
          /\ Len(slots) = Slot[Level] + Count(Top) /\ Len(slots') \in Nat
          /\ slots \in Seq(Items) /\ slots' \in Seq(Items)
      BY <1>2, <2>1, TopFacts, SMTT(40) DEF IInv, TypeOK
    <3>2. Slot[Level] <= Len(slots) /\ Slot[Level] <= Len(slots')
      BY <2>4, <3>1
    <3> QED
      BY <2>4, <3>1, <3>2, KeepsPrefix
  <2>6. ASSUME NEW k \in 1 .. Level PROVE Slot[k] \in 0 .. Slot[Level]
    <3>1. Level \in Nat \ {0} /\ Slot[k] \in Nat /\ Slot[Level] \in Nat /\ Present[k] \in Nat
      BY <1>2, TopFacts
    <3>2. k < Level => Slot[k] + Present[k] <= Slot[Level]
      BY <3>1 DEF IInv, ChainOK
    <3>3. k < Level \/ k = Level
      BY <3>1
    <3> QED
      BY <3>1, <3>2, <3>3
  <2> QED
    BY <2>5, <2>6 DEF Slot
<1> QED
  BY <1>1, <1>2

(* Whatever the depth of the tree, the code of a subexpression leaves the  *)
(* operands that wait for it, the arguments of the calls around it and the *)
(* locals as they are (gen.c:62-114, 313-369).                             *)
THEOREM GenStackBelow == Spec => BelowUntouched
<1>1. IInv /\ [Next]_vars => \A k \in 1 .. Len(frames) : Untouched(frames[k].base \div 8)
  BY NextKeeps DEF Level
<1> QED
  BY <1>1, GenStackIInv, PTL DEF Spec, BelowUntouched
=============================================================================
