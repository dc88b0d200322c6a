------------------------------ MODULE FrameProofs ------------------------------
(***************************************************************************)
(* For every number of parameters, of variables and of arguments, and for  *)
(* variables of every size: no two variables of a function share a cell,   *)
(* the saved %rbp and the return address survive, a va_list stays among    *)
(* the arguments of the call, and the frame does what C says.              *)
(*                                                                         *)
(* The inductive invariant IInv lays the variables out one above the other *)
(* (Layout), says at which argument each list stands as a function of the  *)
(* va_args made (Walk), and what is in the cells that no variable owns     *)
(* (Memory).                                                               *)
(***************************************************************************)
EXTENDS Frame, TLAPS

(* Where the variables begin: below the save area if there is one. *)
Base == IF ellipsis THEN SaveArea ELSE 0

(* What holds when the front end is done with a part of the function. *)
Progress ==
  /\ phase # "idle" => params \in Params /\ Len(symbols) <= params + MaxLocals
  /\ phase # "body" => nargs = 0 /\ \A l \in Lists : taken[l] = NotStarted
  /\ phase = "body" => /\ params <= Len(symbols)
                       /\ params <= nargs /\ nargs <= params + MaxExtra

Layout ==
  /\ stack_size % 8 = 0 /\ Base <= stack_size
  /\ \A k \in DOMAIN symbols :
       /\ symbols[k].offset % 8 = 0
       /\ Base + symbols[k].size <= symbols[k].offset
       /\ symbols[k].offset <= stack_size
  /\ \A j, k \in DOMAIN symbols :
       j < k => symbols[j].offset + symbols[k].size <= symbols[k].offset

Memory ==
  phase = "body" =>
    /\ Read(0) = Linkage("rbp") /\ Read(8) = Linkage("return address")
    /\ ellipsis => \A i \in params .. 5 : Read(i * 8 - SaveArea) = Arg(i + 1)
    /\ \A k \in 7 .. nargs : Read(16 + (k - 7) * 8) = Arg(k)

(* A list that has given n arguments, the named ones included. *)
Stands(l, n) ==
  /\ n <= nargs
  /\ ap[l].reg_save_area = 0 - SaveArea
  /\ ap[l].gp_offset = IF n <= 6 THEN 8 * n ELSE 48
  /\ ap[l].overflow_arg_area = IF n <= 6 THEN 16 ELSE 16 + 8 * (n - 6)

Walk ==
  \A l \in Lists : taken[l] # NotStarted => ellipsis /\ Stands(l, params + taken[l])

IInv == TypeOK /\ Progress /\ Layout /\ Memory /\ Walk

-----------------------------------------------------------------------------
(* The cells of a variable lie between its lowest and its highest byte. *)
LEMMA CellRange ==
  ASSUME NEW first \in Int, NEW size \in Nat \ {0}, NEW a \in Cells(first, size)
  PROVE  a \in Int /\ first <= a /\ a <= first + size - 1 /\ (first % 8 = 0 => a % 8 = 0)
<1>1. PICK k \in 0 .. (size - 1) \div 8 : a = first + 8 * k
  BY DEF Cells
<1> QED
  BY <1>1, SMT

(* A variable has at least one. *)
LEMMA CellFirst ==
  ASSUME NEW first \in Int, NEW size \in Nat \ {0}
  PROVE  first \in Cells(first, size)
<1>1. 0 \in 0 .. (size - 1) \div 8 /\ first = first + 8 * 0
  BY SMT
<1> QED
  BY <1>1 DEF Cells

(* Rounding up gives the next multiple of 8. *)
LEMMA Rounded ==
  ASSUME NEW n \in Nat
  PROVE  RoundUp(n) \in Nat /\ n <= RoundUp(n) /\ RoundUp(n) % 8 = 0
  BY SMT DEF RoundUp

(* The fields of a variable. *)
LEMMA SymbolTypes ==
  ASSUME TypeOK, NEW k \in DOMAIN symbols
  PROVE  /\ k \in 1 .. Len(symbols)
         /\ symbols[k] \in Symbol
         /\ symbols[k].size \in Nat \ {0} /\ symbols[k].offset \in Nat
<1>1. symbols \in Seq(Symbol)
  BY DEF TypeOK
<1>2. k \in 1 .. Len(symbols) /\ symbols[k] \in Symbol
  BY <1>1
<1>3. ParamSizes \cup LocalSizes \subseteq Nat \ {0}
  BY FrameAssumption
<1> QED
  BY <1>2, <1>3 DEF Symbol

(* Where the cells of one variable are. *)
LEMMA StorageRange ==
  ASSUME TypeOK, Layout, NEW k \in DOMAIN symbols, NEW a \in Storage(k)
  PROVE  /\ a \in Int
         /\ 0 - symbols[k].offset <= a
         /\ a <= symbols[k].size - symbols[k].offset - 1
         /\ 0 - stack_size <= a /\ a <= -8 /\ a <= -1 - Base
<1> DEFINE size == symbols[k].size
           off  == symbols[k].offset
<1>1. size \in Nat \ {0} /\ off \in Nat
  BY SymbolTypes
<1>2. stack_size \in Nat /\ Base \in Nat
  BY DEF TypeOK, Base, SaveArea
<1>3. off % 8 = 0 /\ Base + size <= off /\ off <= stack_size
  BY DEF Layout
<1>4. a \in Cells(0 - off, size)
  BY DEF Storage
<1> HIDE DEF size, off
<1>5. 0 - off \in Int /\ (0 - off) % 8 = 0
  BY <1>1, <1>3
<1>6. a \in Int /\ 0 - off <= a /\ a <= 0 - off + size - 1 /\ a % 8 = 0
  BY <1>1, <1>4, <1>5, CellRange
<1>7. /\ a <= size - off - 1
      /\ 0 - stack_size <= a /\ a <= -8 /\ a <= -1 - Base
  BY <1>1, <1>2, <1>3, <1>6
<1> QED
  BY <1>6, <1>7 DEF size, off

(* Two variables have no cell in common. *)
LEMMA StorageApart ==
  ASSUME TypeOK, Layout, NEW j \in DOMAIN symbols, NEW k \in DOMAIN symbols, j # k
  PROVE  Storage(j) \cap Storage(k) = {}
<1>1. ASSUME NEW m \in DOMAIN symbols, NEW n \in DOMAIN symbols, m < n,
             NEW a \in Storage(m), a \in Storage(n)
      PROVE  FALSE
  <2>1. symbols[m].offset + symbols[n].size <= symbols[n].offset
    BY <1>1 DEF Layout
  <2>2. /\ symbols[m].offset \in Nat
        /\ symbols[n].offset \in Nat /\ symbols[n].size \in Nat
    BY SymbolTypes
  <2>3. a \in Int /\ 0 - symbols[m].offset <= a
    BY StorageRange
  <2>4. a <= symbols[n].size - symbols[n].offset - 1
    BY <1>1, StorageRange
  <2> QED
    BY <2>1, <2>2, <2>3, <2>4
<1>2. j \in Nat /\ k \in Nat
  BY SymbolTypes
<1>3. j < k \/ k < j
  BY <1>2
<1> QED
  BY <1>1, <1>3

(* No variable owns a cell at or above %rbp, or of the save area. *)
LEMMA StorageBelow ==
  ASSUME TypeOK, Layout, NEW k \in DOMAIN symbols
  PROVE  /\ \A a \in Nat : a \notin Storage(k)
         /\ ellipsis => \A i \in 0 .. 5 : i * 8 - SaveArea \notin Storage(k)
<1>1. ASSUME NEW a \in Nat, a \in Storage(k) PROVE FALSE
  BY <1>1, StorageRange
<1>2. ASSUME ellipsis, NEW i \in 0 .. 5, i * 8 - SaveArea \in Storage(k) PROVE FALSE
  <2>1. i * 8 - SaveArea <= -1 - Base
    BY <1>2, StorageRange
  <2> QED
    BY <1>2, <2>1 DEF Base, SaveArea
<1> QED
  BY <1>1, <1>2

-----------------------------------------------------------------------------
(* The three properties of the frame follow from the invariant. *)
LEMMA Implied ==
  ASSUME IInv
  PROVE  VariablesApart /\ LinkageKept /\ ListsInBounds
<1> USE DEF IInv
<1>1. VariablesApart
  <2>1. ASSUME NEW k \in DOMAIN symbols, NEW a \in Storage(k)
        PROVE  a \in (0 - stack_size) .. -8
    BY <2>1, StorageRange DEF TypeOK
  <2>2. ASSUME ellipsis, NEW k \in DOMAIN symbols
        PROVE  Storage(k) \cap SaveCells = {}
    <3>1. ASSUME NEW i \in 0 .. 5 PROVE 0 - SaveArea + 8 * i \notin Storage(k)
      <4>1. 0 - SaveArea + 8 * i = i * 8 - SaveArea
        BY DEF SaveArea
      <4> QED
        BY <2>2, <4>1, StorageBelow
    <3> QED
      BY <3>1 DEF SaveCells
  <2> QED
    BY <2>1, <2>2, StorageApart DEF VariablesApart
<1>2. LinkageKept
  BY DEF LinkageKept, Memory
<1>3. ListsInBounds
  <2> SUFFICES ASSUME NEW l \in Lists, taken[l] # NotStarted
               PROVE  /\ ap[l].gp_offset <= 48 /\ ap[l].gp_offset % 8 = 0
                      /\ ap[l].overflow_arg_area > 16 + overflow_arg_area => ap[l].gp_offset = 48
                      /\ ap[l].gp_offset = 48 /\ params + taken[l] < nargs =>
                           ap[l].overflow_arg_area \in {16 + (k - 7) * 8 : k \in 7 .. nargs}
    BY DEF ListsInBounds
  <2> DEFINE n == params + taken[l]
             g == ap[l].gp_offset
             o == ap[l].overflow_arg_area
  <2>1. n \in Nat /\ nargs \in Nat /\ params \in Nat
    BY FrameAssumption DEF TypeOK
  <2>2. g = (IF n <= 6 THEN 8 * n ELSE 48) /\ o = (IF n <= 6 THEN 16 ELSE 16 + 8 * (n - 6))
    BY DEF Walk, Stands
  <2>3. params <= n
    BY FrameAssumption DEF TypeOK, NotStarted
  <2> HIDE DEF n, g, o
  <2>4. g <= 48 /\ g % 8 = 0
    BY <2>1, <2>2
  <2>5. o > 16 + overflow_arg_area => g = 48
    BY <2>1, <2>2, <2>3 DEF overflow_arg_area
  <2>6. ASSUME g = 48, n < nargs
        PROVE  o \in {16 + (k - 7) * 8 : k \in 7 .. nargs}
    <3>1. n + 1 \in 7 .. nargs /\ o = 16 + ((n + 1) - 7) * 8
      BY <2>1, <2>2, <2>6
    <3> QED
      BY <3>1
  <2> QED
    BY <2>4, <2>5, <2>6 DEF n, g, o
<1> QED
  BY <1>1, <1>2, <1>3

-----------------------------------------------------------------------------
(* It holds initially. *)
LEMMA InitIInv ==
  ASSUME Init
  PROVE  IInv
<1> USE DEF Init
<1>1. TypeOK
  <2>1. symbols \in Seq(Symbol)
    OBVIOUS
  <2>2. DOMAIN mem \subseteq Int
    OBVIOUS
  <2>3. ap \in [Lists -> VaList]
    BY DEF VaList
  <2>4. taken \in [Lists -> Nat \cup {NotStarted}]
    OBVIOUS
  <2> QED
    BY <2>1, <2>2, <2>3, <2>4 DEF TypeOK
<1>2. Progress /\ Memory /\ Walk
  BY DEF Progress, Memory, Walk
<1>3. Layout
  BY SMT DEF Layout, Base
<1> QED
  BY <1>1, <1>2, <1>3 DEF IInv

(* A variable is put above the others, and above the save area. *)
LEMMA PutLayout ==
  ASSUME TypeOK, Layout, NEW size \in ParamSizes \cup LocalSizes,
         put_variable(size), UNCHANGED ellipsis
  PROVE  /\ Layout'
         /\ stack_size' \in Nat /\ symbols' \in Seq(Symbol)
         /\ Len(symbols') = Len(symbols) + 1
<1> DEFINE offset == RoundUp(stack_size + size)
           new    == [size |-> size, offset |-> offset]
           last   == Len(symbols) + 1
<1>1. size \in Nat \ {0} /\ stack_size \in Nat /\ symbols \in Seq(Symbol)
  BY FrameAssumption DEF TypeOK
<1>2. offset \in Nat /\ stack_size + size <= offset /\ offset % 8 = 0
  <2>1. stack_size + size \in Nat
    BY <1>1
  <2> QED
    BY <2>1, Rounded
<1>3. stack_size' = offset /\ symbols' = Append(symbols, new)
  BY DEF put_variable
<1>4. new \in Symbol
  BY <1>2 DEF Symbol
<1> HIDE DEF offset
<1>5. /\ symbols' \in Seq(Symbol) /\ Len(symbols') = last
      /\ DOMAIN symbols' = 1 .. last /\ DOMAIN symbols = 1 .. Len(symbols)
      /\ symbols'[last] = new
      /\ \A k \in DOMAIN symbols : symbols'[k] = symbols[k]
  BY <1>1, <1>3, <1>4
<1>6. Len(symbols) \in Nat
  BY <1>1
<1>7. \A k \in DOMAIN symbols : symbols[k].offset \in Nat /\ symbols[k].size \in Nat \ {0}
  BY SymbolTypes
<1>8. Base' = Base /\ Base \in Nat /\ Base <= stack_size
  BY DEF Base, SaveArea, Layout
<1>9. \A k \in DOMAIN symbols : symbols[k].offset <= stack_size
  BY DEF Layout
<1>10. ASSUME NEW k \in DOMAIN symbols'
       PROVE  /\ symbols'[k].offset % 8 = 0
              /\ Base' + symbols'[k].size <= symbols'[k].offset
              /\ symbols'[k].offset <= stack_size'
  <2>1. CASE k = last
    BY <1>1, <1>2, <1>3, <1>5, <1>8, <2>1
  <2>2. CASE k # last
    <3>1. k \in DOMAIN symbols /\ symbols'[k] = symbols[k]
      BY <1>5, <1>6, <1>10, <2>2
    <3>2. /\ symbols[k].offset % 8 = 0
          /\ Base + symbols[k].size <= symbols[k].offset
          /\ symbols[k].offset <= stack_size
      BY <3>1 DEF Layout
    <3>3. symbols[k].offset <= offset
      BY <1>1, <1>2, <1>7, <3>1, <3>2
    <3> QED
      BY <1>3, <1>8, <3>1, <3>2, <3>3
  <2> QED
    BY <2>1, <2>2
<1>11. ASSUME NEW j \in DOMAIN symbols', NEW k \in DOMAIN symbols', j < k
       PROVE  symbols'[j].offset + symbols'[k].size <= symbols'[k].offset
  <2>1. j \in DOMAIN symbols /\ symbols'[j] = symbols[j]
    BY <1>5, <1>6, <1>11
  <2>2. CASE k = last
    <3>1. symbols[j].offset \in Nat /\ symbols[j].offset <= stack_size
      BY <1>7, <1>9, <2>1
    <3>2. symbols[j].offset + size <= offset
      BY <1>1, <1>2, <3>1
    <3>3. symbols'[k].size = size /\ symbols'[k].offset = offset
      BY <1>5, <2>2
    <3> QED
      BY <2>1, <3>2, <3>3
  <2>3. CASE k # last
    <3>1. k \in DOMAIN symbols /\ symbols'[k] = symbols[k]
      BY <1>5, <1>6, <1>11, <2>3
    <3> HIDE DEF last
    <3>2. symbols[j].offset + symbols[k].size <= symbols[k].offset
      BY <1>11, <2>1, <3>1 DEF Layout
    <3> QED
      BY <2>1, <3>1, <3>2
  <2> QED
    BY <2>2, <2>3
<1>12. stack_size' % 8 = 0 /\ Base' <= stack_size'
  BY <1>1, <1>2, <1>3, <1>8
<1> QED
  BY <1>2, <1>3, <1>5, <1>10, <1>11, <1>12 DEF Layout

LEMMA FuncStep ==
  ASSUME IInv, sema_func
  PROVE  IInv'
<1> USE DEF IInv
<1>1. PICK e \in BOOLEAN, p \in Params :
        ellipsis' = e /\ params' = p /\ stack_size' = IF e THEN SaveArea ELSE 0
  BY DEF sema_func
<1>2. /\ phase = "idle" /\ symbols' = << >> /\ phase' = "params"
      /\ UNCHANGED <<nargs, mem, ap, taken, ret>>
  BY DEF sema_func
<1>3. TypeOK'
  BY <1>1, <1>2 DEF TypeOK, SaveArea
<1>4. Progress'
  <2>1. Len(symbols') <= params' + MaxLocals
    BY <1>1, <1>2, FrameAssumption
  <2> QED
    BY <1>1, <1>2, <2>1 DEF Progress
<1>5. Layout'
  BY <1>1, <1>2, SMT DEF Layout, Base, SaveArea
<1>6. Memory' /\ Walk'
  BY <1>2 DEF Memory, Walk, Progress
<1> QED
  BY <1>3, <1>4, <1>5, <1>6

LEMMA VariableStep ==
  ASSUME IInv, sema_param \/ sema_decl
  PROVE  IInv'
<1> USE DEF IInv
<1>1. PICK size \in ParamSizes \cup LocalSizes : put_variable(size)
  BY DEF sema_param, sema_decl
<1>2. /\ phase \in {"params", "locals"} /\ phase' \in {"params", "locals"}
      /\ UNCHANGED <<ellipsis, params, nargs, mem, ap, taken, ret>>
      /\ Len(symbols) < params + MaxLocals
  <2>1. CASE sema_param
    BY <2>1, FrameAssumption DEF sema_param, TypeOK
  <2>2. CASE sema_decl
    BY <2>2 DEF sema_decl
  <2> QED
    BY <2>1, <2>2
<1>3. /\ Layout'
      /\ stack_size' \in Nat /\ symbols' \in Seq(Symbol)
      /\ Len(symbols') = Len(symbols) + 1
  BY <1>1, <1>2, PutLayout
<1>4. TypeOK'
  BY <1>2, <1>3 DEF TypeOK
<1>5. Progress'
  <2>1. params \in Nat /\ MaxLocals \in Nat /\ Len(symbols) \in Nat
    BY FrameAssumption DEF TypeOK
  <2>2. Len(symbols') <= params' + MaxLocals
    BY <1>2, <1>3, <2>1
  <2> QED
    BY <1>2, <2>2 DEF Progress
<1>6. Memory' /\ Walk'
  BY <1>2 DEF Memory, Walk, Progress
<1> QED
  BY <1>3, <1>4, <1>5, <1>6

-----------------------------------------------------------------------------
(* What a cell holds after some cells are written over others. *)
LEMMA ReadOver ==
  ASSUME NEW f, mem' = Over(f, mem), NEW a
  PROVE  Read(a)' = IF a \in DOMAIN f THEN f[a] ELSE Read(a)
  BY DEF Read, Over

LEMMA CallerHolds ==
  ASSUME NEW n \in Nat
  PROVE  /\ DOMAIN CallerCells(n) \subseteq Nat
         /\ 0 \in DOMAIN CallerCells(n) /\ CallerCells(n)[0] = Linkage("rbp")
         /\ 8 \in DOMAIN CallerCells(n) /\ CallerCells(n)[8] = Linkage("return address")
         /\ \A k \in 7 .. n : /\ 16 + (k - 7) * 8 \in DOMAIN CallerCells(n)
                              /\ CallerCells(n)[16 + (k - 7) * 8] = Arg(k)
<1>1. DOMAIN CallerCells(n) = {0, 8} \cup {16 + (k - 7) * 8 : k \in 7 .. n}
  BY DEF CallerCells
<1>2. DOMAIN CallerCells(n) \subseteq Nat
  BY <1>1, SMT
<1>3. ASSUME NEW k \in 7 .. n
      PROVE  /\ 16 + (k - 7) * 8 \in DOMAIN CallerCells(n)
             /\ CallerCells(n)[16 + (k - 7) * 8] = Arg(k)
  <2> DEFINE a == 16 + (k - 7) * 8
  <2>1. a # 0 /\ a # 8 /\ 7 + (a - 16) \div 8 = k
    BY SMT
  <2>2. a \in DOMAIN CallerCells(n)
    BY <1>1
  <2> HIDE DEF a
  <2>3. CallerCells(n)[a] = Arg(k)
    BY <1>1, <2>1, <2>2 DEF CallerCells
  <2> QED
    BY <2>2, <2>3 DEF a
<1>4. /\ 0 \in DOMAIN CallerCells(n) /\ CallerCells(n)[0] = Linkage("rbp")
      /\ 8 \in DOMAIN CallerCells(n) /\ CallerCells(n)[8] = Linkage("return address")
  BY DEF CallerCells
<1> QED
  BY <1>2, <1>3, <1>4

(* What the prologue leaves: every parameter is its argument, what no      *)
(* parameter owns is as the caller and the saved registers have it.        *)
LEMMA Prologue ==
  ASSUME TypeOK, Layout, NEW n \in Nat, params <= n, params <= Len(symbols),
         mem' = Over(ParamStores(CallerCells(n)), Over(SavedRegs, CallerCells(n)))
  PROVE  /\ \A k \in 1 .. params : \A a \in Storage(k) : Read(a)' = Arg(k)
         /\ \A k \in DOMAIN symbols : k > params => \A a \in Storage(k) : Read(a)' = Garbage
         /\ ellipsis => \A i \in params .. 5 : Read(i * 8 - SaveArea)' = Arg(i + 1)
         /\ \A a \in DOMAIN CallerCells(n) : Read(a)' = CallerCells(n)[a]
<1> DEFINE cells   == CallerCells(n)
           Written == UNION {Storage(k) : k \in 1 .. params}
           stores  == ParamStores(cells)
           Saved   == {i * 8 - SaveArea : i \in params .. 5}
<1>1. params \in Nat /\ Len(symbols) \in Nat /\ DOMAIN symbols = 1 .. Len(symbols)
  BY FrameAssumption DEF TypeOK
<1>2. 1 .. params \subseteq DOMAIN symbols
  BY <1>1
<1>3. DOMAIN cells \subseteq Nat
  BY CallerHolds
<1>4. /\ DOMAIN stores = Written
      /\ \A k \in 1 .. params : \A a \in Storage(k) : stores[a] = Arg(k)
  <2>1. ASSUME NEW k \in 1 .. params, NEW a \in Storage(k)
        PROVE  a \in Written /\ stores[a] = ParamValue(k, cells)
    <3>1. a \in Written
      OBVIOUS
    <3>2. {m \in 1 .. params : a \in Storage(m)} = {k}
      BY <1>2, StorageApart
    <3>3. (CHOOSE m \in {k} : \A j \in {k} : j <= m) = k
      BY <1>1
    <3> QED
      BY <3>1, <3>2, <3>3 DEF ParamStores
  <2>2. ASSUME NEW k \in 1 .. params PROVE ParamValue(k, cells) = Arg(k)
    <3>1. CASE k <= 6
      BY <3>1 DEF ParamValue
    <3>2. CASE k > 6
      <4>1. k \in 7 .. n
        BY <1>1, <3>2
      <4> QED
        BY <1>1, <3>2, <4>1, CallerHolds DEF ParamValue
    <3> QED
      BY <1>1, <3>1, <3>2
  <2>3. DOMAIN stores = Written
    BY DEF ParamStores
  <2> QED
    BY <2>1, <2>2, <2>3
<1>5. /\ DOMAIN SavedRegs \subseteq Saved
      /\ ellipsis => /\ DOMAIN SavedRegs = Saved
                     /\ \A i \in params .. 5 : SavedRegs[i * 8 - SaveArea] = Arg(i + 1)
  <2>1. CASE ellipsis
    <3>1. SavedRegs = [a \in Saved |-> Arg((a + SaveArea) \div 8 + 1)]
      BY <2>1 DEF SavedRegs
    <3>2. ASSUME NEW i \in params .. 5
          PROVE  i * 8 - SaveArea \in Saved /\ ((i * 8 - SaveArea) + SaveArea) \div 8 + 1 = i + 1
      BY <1>1, SMT DEF SaveArea
    <3> QED
      BY <3>1, <3>2
  <2>2. CASE ~ellipsis
    BY <2>2 DEF SavedRegs
  <2> QED
    BY <2>1, <2>2
<1>6. \A a \in Saved : a \in Int /\ a < 0
  BY <1>1, SMT DEF SaveArea
<1>7. ASSUME NEW a
      PROVE  Read(a)' = IF a \in Written THEN stores[a]
                        ELSE IF a \in DOMAIN SavedRegs THEN SavedRegs[a]
                        ELSE IF a \in DOMAIN cells THEN cells[a] ELSE Garbage
  <2>1. mem' = Over(stores, Over(SavedRegs, cells))
    OBVIOUS
  <2> HIDE DEF stores, cells, Written
  <2> QED
    BY <1>4, <2>1 DEF Over, Read
<1> HIDE DEF stores
<1>8. ASSUME NEW k \in 1 .. params, NEW a \in Storage(k) PROVE Read(a)' = Arg(k)
  <2>1. a \in Written
    OBVIOUS
  <2> QED
    BY <1>4, <1>7, <2>1
<1>9. ASSUME NEW k \in DOMAIN symbols, k > params, NEW a \in Storage(k)
      PROVE  Read(a)' = Garbage
  <2>1. a \notin Written
    <3>1. ASSUME NEW m \in 1 .. params PROVE a \notin Storage(m)
      BY <1>1, <1>2, <1>9, StorageApart
    <3> QED
      BY <3>1
  <2>2. a \notin DOMAIN cells
    BY <1>3, <1>9, StorageBelow
  <2>3. a \notin DOMAIN SavedRegs
    <3>1. CASE ellipsis
      BY <1>1, <1>5, <1>9, <3>1, StorageBelow
    <3>2. CASE ~ellipsis
      BY <3>2 DEF SavedRegs
    <3> QED
      BY <3>1, <3>2
  <2> QED
    BY <1>7, <2>1, <2>2, <2>3
<1>10. ASSUME ellipsis, NEW i \in params .. 5 PROVE Read(i * 8 - SaveArea)' = Arg(i + 1)
  <2>1. i * 8 - SaveArea \notin Written
    BY <1>1, <1>2, <1>10, StorageBelow
  <2>2. i * 8 - SaveArea \in DOMAIN SavedRegs
    BY <1>5, <1>10
  <2> QED
    BY <1>5, <1>7, <1>10, <2>1, <2>2
<1>11. ASSUME NEW a \in DOMAIN cells PROVE Read(a)' = cells[a]
  <2>1. a \notin Written
    BY <1>2, <1>3, StorageBelow
  <2>2. a \notin DOMAIN SavedRegs
    BY <1>3, <1>5, <1>6
  <2> QED
    BY <1>7, <2>1, <2>2
<1> QED
  BY <1>8, <1>9, <1>10, <1>11

LEMMA GenFuncStep ==
  ASSUME IInv, gen_func
  PROVE  IInv'
<1> USE DEF IInv
<1>1. PICK n \in params .. params + (IF ellipsis THEN MaxExtra ELSE 0) :
        /\ nargs' = n
        /\ mem' = Over(ParamStores(CallerCells(n)), Over(SavedRegs, CallerCells(n)))
  BY DEF gen_func
<1>2. /\ phase \in {"params", "locals"} /\ phase' = "body" /\ params <= Len(symbols)
      /\ UNCHANGED <<ellipsis, params, symbols, stack_size, ap, taken, ret>>
  BY <1>1 DEF gen_func, sema, TypeOK
<1>3. params \in Params /\ params \in Nat /\ MaxExtra \in Nat
  BY <1>2, FrameAssumption DEF Progress
<1>4. n \in Nat /\ params <= n /\ n <= params + MaxExtra
  BY <1>3
<1>5. /\ ellipsis => \A i \in params .. 5 : Read(i * 8 - SaveArea)' = Arg(i + 1)
      /\ \A a \in DOMAIN CallerCells(n) : Read(a)' = CallerCells(n)[a]
  BY <1>1, <1>2, <1>4, Prologue
<1>6. /\ Read(0)' = Linkage("rbp") /\ Read(8)' = Linkage("return address")
      /\ \A k \in 7 .. n : Read(16 + (k - 7) * 8)' = Arg(k)
  BY <1>4, <1>5, CallerHolds
<1>7. Memory'
  BY <1>1, <1>2, <1>5, <1>6 DEF Memory, Read
<1>8. DOMAIN mem' \subseteq Int
  <2>1. ASSUME NEW k \in 1 .. params, NEW a \in Storage(k) PROVE a \in Int
    <3>1. k \in DOMAIN symbols
      BY <1>2, <1>3 DEF TypeOK
    <3> QED
      BY <2>1, <3>1, StorageRange
  <2>2. DOMAIN ParamStores(CallerCells(n)) \subseteq Int
    BY <2>1 DEF ParamStores
  <2>3. DOMAIN SavedRegs \subseteq Int
    <3>1. CASE ellipsis
      BY <1>3, <3>1, SMT DEF SavedRegs, SaveArea
    <3>2. CASE ~ellipsis
      BY <3>2 DEF SavedRegs
    <3> QED
      BY <3>1, <3>2
  <2>4. DOMAIN CallerCells(n) \subseteq Int
    <3>1. DOMAIN CallerCells(n) \subseteq Nat
      BY <1>4, CallerHolds
    <3> QED
      BY <3>1
  <2> QED
    BY <1>1, <2>2, <2>3, <2>4 DEF Over
<1>9. TypeOK'
  BY <1>1, <1>2, <1>4, <1>8 DEF TypeOK
<1>10. Progress'
  BY <1>1, <1>2, <1>4 DEF Progress
<1>11. Layout'
  BY <1>2 DEF Layout, Base
<1>12. Walk'
  BY <1>2 DEF Walk, Progress
<1> QED
  BY <1>7, <1>9, <1>10, <1>11, <1>12

(* A cell is not changed by a store to a variable that does not own it. *)
LEMMA StoreElsewhere ==
  ASSUME NEW k, NEW x, gen_store_by_offset(k, x), NEW a
  PROVE  /\ a \in Storage(k) => Read(a)' = Own(x)
         /\ a \notin Storage(k) => Read(a)' = Read(a)
  BY ReadOver DEF gen_store_by_offset, Filled

LEMMA StoreStep ==
  ASSUME IInv, NEW k \in DOMAIN symbols, NEW x \in Values, gen_store_by_offset(k, x)
  PROVE  IInv'
<1> USE DEF IInv
<1>1. /\ phase = "body" /\ mem' = Over(Filled(Storage(k), Own(x)), mem)
      /\ UNCHANGED <<phase, ellipsis, params, symbols, stack_size, nargs, ap, taken, ret>>
  BY DEF gen_store_by_offset, sema
<1>2. params \in Nat /\ nargs \in Nat
  BY FrameAssumption DEF TypeOK
<1>3. TypeOK'
  <2>1. DOMAIN mem' = Storage(k) \cup DOMAIN mem
    BY <1>1 DEF Over, Filled
  <2>2. DOMAIN mem' \subseteq Int
    BY <2>1, StorageRange DEF TypeOK
  <2> QED
    BY <1>1, <2>2 DEF TypeOK
<1>4. \A a \in Nat : Read(a)' = Read(a)
  BY StorageBelow, StoreElsewhere
<1>5. ASSUME ellipsis, NEW i \in params .. 5
      PROVE  Read(i * 8 - SaveArea)' = Read(i * 8 - SaveArea)
  BY <1>2, <1>5, StorageBelow, StoreElsewhere
<1>6. Memory'
  <2>1. Read(0)' = Linkage("rbp") /\ Read(8)' = Linkage("return address")
    BY <1>1, <1>4 DEF Memory
  <2>2. ASSUME ellipsis, NEW i \in params .. 5
        PROVE  Read(i * 8 - SaveArea)' = Arg(i + 1)
    BY <1>1, <1>5, <2>2 DEF Memory
  <2>3. ASSUME NEW j \in 7 .. nargs PROVE Read(16 + (j - 7) * 8)' = Arg(j)
    <3>1. 16 + (j - 7) * 8 \in Nat
      BY <1>2
    <3> QED
      BY <1>1, <1>4, <3>1 DEF Memory
  <2> QED
    BY <1>1, <2>1, <2>2, <2>3 DEF Memory, Read
<1>7. Progress' /\ Layout' /\ Walk'
  BY <1>1 DEF Progress, Layout, Base, Walk, Stands
<1> QED
  BY <1>3, <1>6, <1>7

LEMMA StartStep ==
  ASSUME IInv, NEW l \in Lists, gen_va_start(l)
  PROVE  IInv'
<1> USE DEF IInv
<1> DEFINE start == [gp_offset |-> gp_offset,
                     overflow_arg_area |-> overflow_arg_area + 16,
                     reg_save_area |-> 0 - SaveArea]
<1>1. /\ phase = "body" /\ ellipsis
      /\ ap' = [ap EXCEPT ![l] = start] /\ taken' = [taken EXCEPT ![l] = 0]
      /\ UNCHANGED <<phase, ellipsis, params, symbols, stack_size, nargs, mem, ret>>
  BY DEF gen_va_start, sema
<1>2. params \in Nat /\ nargs \in Nat /\ params <= nargs
  BY <1>1, FrameAssumption DEF TypeOK, Progress
<1>3. /\ gp_offset = IF params <= 6 THEN 8 * params ELSE 48
      /\ overflow_arg_area + 16 = IF params <= 6 THEN 16 ELSE 16 + 8 * (params - 6)
      /\ gp_offset \in Nat /\ overflow_arg_area + 16 \in Nat
  BY <1>2 DEF gp_offset, overflow_arg_area
<1>4. start \in VaList
  BY <1>3 DEF VaList, SaveArea
<1>5. TypeOK'
  BY <1>1, <1>4 DEF TypeOK
<1>6. Walk'
  <2> SUFFICES ASSUME NEW m \in Lists, taken'[m] # NotStarted
               PROVE  ellipsis' /\ Stands(m, params + taken[m])'
    BY DEF Walk
  <2>1. CASE m = l
    <3>1. ap'[m] = start /\ taken'[m] = 0 /\ params + 0 = params
      BY <1>1, <1>2, <2>1 DEF TypeOK
    <3> QED
      BY <1>1, <1>2, <1>3, <3>1 DEF Stands
  <2>2. CASE m # l
    <3>1. ap'[m] = ap[m] /\ taken'[m] = taken[m]
      BY <1>1, <2>2 DEF TypeOK
    <3> QED
      BY <1>1, <3>1 DEF Walk, Stands
  <2> QED
    BY <2>1, <2>2
<1>7. Progress' /\ Layout' /\ Memory'
  BY <1>1 DEF Progress, Layout, Base, Memory, Read
<1> QED
  BY <1>5, <1>6, <1>7

(* The argument a list gives next, and where the list then stands. *)
LEMMA ArgStep ==
  ASSUME IInv, NEW l \in Lists, gen_va_arg(l)
  PROVE  ret' = Arg(params + taken[l] + 1) /\ IInv'
<1> USE DEF IInv
<1> DEFINE n == params + taken[l]
           g == ap[l].gp_offset
           o == ap[l].overflow_arg_area
<1>1. /\ phase = "body" /\ taken[l] # NotStarted /\ n < nargs
      /\ taken' = [taken EXCEPT ![l] = @ + 1]
      /\ UNCHANGED <<phase, ellipsis, params, symbols, stack_size, nargs, mem>>
  BY DEF gen_va_arg, Asks, sema
<1>2. taken[l] \in Nat /\ params \in Nat /\ nargs \in Nat /\ n \in Nat /\ params <= n
  BY <1>1, FrameAssumption DEF TypeOK
<1>3. /\ ellipsis /\ ap[l].reg_save_area = 0 - SaveArea
      /\ g = (IF n <= 6 THEN 8 * n ELSE 48) /\ o = (IF n <= 6 THEN 16 ELSE 16 + 8 * (n - 6))
  BY <1>1 DEF Walk, Stands
<1>4. ap \in [Lists -> VaList]
  BY DEF TypeOK
<1>5. /\ ap' \in [Lists -> VaList]
      /\ \A m \in Lists : m # l => ap'[m] = ap[m]
      /\ ret' = Arg(n + 1)
      /\ ap'[l].reg_save_area = 0 - SaveArea
      /\ ap'[l].gp_offset = IF n + 1 <= 6 THEN 8 * (n + 1) ELSE 48
      /\ ap'[l].overflow_arg_area = IF n + 1 <= 6 THEN 16 ELSE 16 + 8 * ((n + 1) - 6)
  <2>1. CASE /\ g # 48 /\ ret' = Read(ap[l].reg_save_area + g)
             /\ ap' = [ap EXCEPT ![l].gp_offset = @ + 8]
    <3>1. n \in params .. 5 /\ g = 8 * n /\ o = 16 /\ g + 8 \in Nat
      BY <1>2, <1>3, <2>1
    <3>2. ap'[l] = [ap[l] EXCEPT !.gp_offset = g + 8] /\ ap[l] \in VaList
      BY <1>4, <2>1
    <3>3. /\ ap'[l] \in VaList /\ ap'[l].gp_offset = g + 8
          /\ ap'[l].overflow_arg_area = o /\ ap'[l].reg_save_area = ap[l].reg_save_area
      BY <3>1, <3>2 DEF VaList
    <3>4. ap[l].reg_save_area + g = n * 8 - SaveArea
      BY <1>2, <1>3, <3>1 DEF SaveArea
    <3>5. ret' = Arg(n + 1)
      BY <1>1, <1>3, <2>1, <3>1, <3>4 DEF Memory
    <3>6. \A m \in Lists : m # l => ap'[m] = ap[m]
      BY <1>4, <2>1
    <3>7. ap' \in [Lists -> VaList]
      BY <1>4, <2>1, <3>3
    <3>8. n + 1 <= 6 /\ g + 8 = 8 * (n + 1)
      BY <1>2, <3>1
    <3> QED
      BY <1>3, <3>1, <3>3, <3>5, <3>6, <3>7, <3>8
  <2>2. CASE /\ g = 48 /\ ret' = Read(o)
             /\ ap' = [ap EXCEPT ![l].overflow_arg_area = @ + 8]
    <3>1. n + 1 \in 7 .. nargs /\ o = 16 + ((n + 1) - 7) * 8 /\ o + 8 \in Nat
      BY <1>1, <1>2, <1>3, <2>2
    <3>2. ap'[l] = [ap[l] EXCEPT !.overflow_arg_area = o + 8] /\ ap[l] \in VaList
      BY <1>4, <2>2
    <3>3. /\ ap'[l] \in VaList /\ ap'[l].gp_offset = 48
          /\ ap'[l].overflow_arg_area = o + 8 /\ ap'[l].reg_save_area = ap[l].reg_save_area
      BY <2>2, <3>1, <3>2 DEF VaList
    <3>4. ret' = Arg(n + 1)
      BY <1>1, <2>2, <3>1 DEF Memory
    <3>5. \A m \in Lists : m # l => ap'[m] = ap[m]
      BY <1>4, <2>2
    <3>6. ap' \in [Lists -> VaList]
      BY <1>4, <2>2, <3>3
    <3>7. ~(n + 1 <= 6) /\ o + 8 = 16 + 8 * ((n + 1) - 6)
      BY <1>2, <3>1
    <3> QED
      BY <1>3, <3>3, <3>4, <3>5, <3>6, <3>7
  <2> QED
    BY <2>1, <2>2 DEF gen_va_arg
<1>6. TypeOK'
  <2>1. taken' \in [Lists -> Nat \cup {NotStarted}]
    <3>1. taken[l] + 1 \in Nat
      BY <1>2
    <3> QED
      BY <1>1, <3>1 DEF TypeOK
  <2> QED
    BY <1>1, <1>5, <2>1 DEF TypeOK
<1>7. Walk'
  <2> SUFFICES ASSUME NEW m \in Lists, taken'[m] # NotStarted
               PROVE  ellipsis' /\ Stands(m, params + taken[m])'
    BY DEF Walk
  <2>1. CASE m = l
    <3>1. taken'[m] = taken[l] + 1 /\ params + (taken[l] + 1) = n + 1 /\ n + 1 <= nargs
      BY <1>1, <1>2, <2>1, SMTT(40) DEF TypeOK
    <3> QED
      BY <1>1, <1>3, <1>5, <2>1, <3>1 DEF Stands
  <2>2. CASE m # l
    <3>1. ap'[m] = ap[m] /\ taken'[m] = taken[m]
      BY <1>1, <1>5, <2>2 DEF TypeOK
    <3> QED
      BY <1>1, <3>1 DEF Walk, Stands
  <2> QED
    BY <2>1, <2>2
<1>8. Progress' /\ Layout' /\ Memory'
  BY <1>1 DEF Progress, Layout, Base, Memory, Read
<1>9. ret' = Arg(params + taken[l] + 1)
  BY <1>5
<1> QED
  BY <1>6, <1>7, <1>8, <1>9

LEMMA NextIInv ==
  ASSUME IInv, [Next]_vars
  PROVE  IInv'
<1>1. CASE sema_func
  BY <1>1, FuncStep
<1>2. CASE sema_param \/ sema_decl
  BY <1>2, VariableStep
<1>3. CASE gen_func
  BY <1>3, GenFuncStep
<1>4. CASE \E k \in DOMAIN symbols, x \in Values : gen_store_by_offset(k, x)
  BY <1>4, StoreStep
<1>5. CASE \E l \in Lists : gen_va_start(l) \/ gen_va_arg(l)
  BY <1>5, StartStep, ArgStep
<1>6. CASE UNCHANGED vars
  BY <1>6 DEF vars, IInv, TypeOK, Progress, Layout, Base, Memory, Read, Walk, Stands
<1> QED
  BY <1>1, <1>2, <1>3, <1>4, <1>5, <1>6 DEF Next

LEMMA FrameInvariant == Spec => []IInv
  BY InitIInv, NextIInv, PTL DEF Spec

-----------------------------------------------------------------------------
(* The variables of a function keep their types: sizes and offsets are     *)
(* natural numbers, the fields of a va_list numbers (sema.c:14-49, 1631).  *)
THEOREM FrameTypeOK == Spec => []TypeOK
<1>1. IInv => TypeOK
  BY DEF IInv
<1> QED
  BY <1>1, FrameInvariant, PTL

(* Whatever the sizes of the parameters and locals of a function, no two   *)
(* of them share a cell, and none reaches out of the frame or into the     *)
(* register save area (sema.c:42-48, 1648, gen.c:1221-1231).               *)
THEOREM FrameVariablesApart == Spec => []VariablesApart
  BY Implied, FrameInvariant, PTL

(* Whatever the body assigns, the function returns to its caller with the  *)
(* caller's %rbp (gen.c:1260-1266).                                        *)
THEOREM FrameLinkageKept == Spec => []LinkageKept
  BY Implied, FrameInvariant, PTL

(* For every number of named and of variable arguments, a va_list takes    *)
(* its registers before the caller's stack and never an argument that the  *)
(* call does not have (gen.c:239-280).                                     *)
THEOREM FrameListsInBounds == Spec => []ListsInBounds
  BY Implied, FrameInvariant, PTL

-----------------------------------------------------------------------------
(* The steps of the frame are those of C. *)

(* The argument each list gives next, as the mapping of RefinesC has it. *)
Upcoming == [l \in Lists |-> IF taken[l] = NotStarted THEN 0 ELSE params + taken[l] + 1]

LEMMA StorageNonempty ==
  ASSUME TypeOK, NEW k \in DOMAIN symbols
  PROVE  Storage(k) # {}
<1>1. symbols[k].size \in Nat \ {0} /\ 0 - symbols[k].offset \in Int
  BY SymbolTypes
<1> QED
  BY <1>1, CellFirst DEF Storage

LEMMA InitC ==
  ASSUME Init
  PROVE  C!Init
<1>1. Upcoming = [l \in Lists |-> 0]
  BY DEF Init, Upcoming
<1> QED
  BY <1>1 DEF Init, C!Init, Contents, Upcoming, Garbage, C!Garbage

(* Laying out variables is not a step of C. *)
LEMMA LayoutC ==
  ASSUME IInv, IInv', phase # "body", phase' # "body", UNCHANGED <<nargs, ret>>
  PROVE  UNCHANGED C!vars
<1>1. Contents' = Contents
  BY DEF Contents
<1>2. Upcoming' = [l \in Lists |-> 0] /\ Upcoming = [l \in Lists |-> 0]
  BY DEF Upcoming, IInv, Progress
<1> QED
  BY <1>1, <1>2 DEF C!vars, Upcoming

LEMMA CallC ==
  ASSUME IInv, IInv', gen_func
  PROVE  C!Next
<1> USE DEF IInv
<1> DEFINE v == Len(symbols)
<1>1. /\ nargs' \in params .. params + (IF ellipsis THEN MaxExtra ELSE 0)
      /\ mem' = Over(ParamStores(CallerCells(nargs')), Over(SavedRegs, CallerCells(nargs')))
  BY DEF gen_func
<1>2. /\ phase \in {"params", "locals"} /\ phase' = "body" /\ params <= v
      /\ UNCHANGED <<ellipsis, params, symbols, stack_size, ap, taken, ret>>
  BY DEF gen_func, sema, TypeOK
<1>3. /\ params \in Params /\ params \in Nat /\ v \in Nat /\ nargs' \in Nat
      /\ MaxExtra \in Nat /\ MaxLocals \in Nat /\ MaxCall \in Nat
      /\ params + MaxExtra <= MaxCall /\ params + MaxLocals <= MaxCall
      /\ v <= params + MaxLocals /\ DOMAIN symbols = 1 .. v
  BY <1>1, <1>2, FrameAssumption DEF Progress, TypeOK
<1>4. params <= nargs' /\ nargs' <= params + MaxExtra
  BY <1>1, <1>3
<1>5. params \in 0 .. MaxCall /\ nargs' \in params .. MaxCall /\ v \in params .. MaxCall
  BY <1>2, <1>3, <1>4
<1>6. /\ \A k \in 1 .. params : \A a \in Storage(k) : Read(a)' = Arg(k)
      /\ \A k \in DOMAIN symbols : k > params => \A a \in Storage(k) : Read(a)' = Garbage
  BY <1>1, <1>2, <1>3, <1>4, Prologue
<1>7. ASSUME NEW k \in 1 .. v
      PROVE  {Read(a)' : a \in Storage(k)} = {IF k <= params THEN Arg(k) ELSE Garbage}
  <2>1. Storage(k) # {}
    BY <1>3, StorageNonempty
  <2>2. \A a \in Storage(k) : Read(a)' = IF k <= params THEN Arg(k) ELSE Garbage
    BY <1>3, <1>6
  <2> QED
    BY <2>1, <2>2
<1>8. Contents' = [k \in 1 .. v |-> {Read(a)' : a \in Storage(k)}]
  BY <1>2 DEF Contents, Storage
<1>9. Contents' = [k \in 1 .. v |-> {IF k <= params THEN Arg(k) ELSE Garbage}]
  BY <1>7, <1>8
<1>10. Contents = << >> /\ nargs = 0
  BY <1>2 DEF Contents, Progress
<1>11. Upcoming' = Upcoming
  BY <1>2 DEF Upcoming
<1>12. C!Call(params, nargs', v)
  BY <1>2, <1>9, <1>10, <1>11 DEF C!Call, Upcoming, C!Arg, C!Garbage, Arg, Garbage
<1> HIDE DEF v
<1> QED
  BY <1>5, <1>12 DEF C!Next

LEMMA AssignC ==
  ASSUME IInv, NEW k \in DOMAIN symbols, NEW x \in Values, gen_store_by_offset(k, x)
  PROVE  C!Next
<1> USE DEF IInv
<1>1. /\ phase = "body" /\ UNCHANGED <<phase, ellipsis, params, symbols, stack_size>>
      /\ UNCHANGED <<nargs, ap, taken, ret>>
  BY DEF gen_store_by_offset, sema
<1>2. DOMAIN symbols = 1 .. Len(symbols) /\ Len(symbols) \in Nat
  BY DEF TypeOK
<1>3. Contents = [j \in 1 .. Len(symbols) |-> {Read(a) : a \in Storage(j)}]
  BY <1>1 DEF Contents
<1>4. Contents' = [j \in 1 .. Len(symbols) |-> {Read(a)' : a \in Storage(j)}]
  BY <1>1 DEF Contents, Storage
<1>5. {Read(a)' : a \in Storage(k)} = {Own(x)}
  <2>1. \A a \in Storage(k) : Read(a)' = Own(x)
    BY StoreElsewhere
  <2> QED
    BY <2>1, StorageNonempty
<1>6. ASSUME NEW j \in 1 .. Len(symbols), j # k
      PROVE  {Read(a)' : a \in Storage(j)} = {Read(a) : a \in Storage(j)}
  <2>1. \A a \in Storage(j) : a \notin Storage(k)
    BY <1>2, <1>6, StorageApart
  <2>2. \A a \in Storage(j) : Read(a)' = Read(a)
    BY <2>1, StoreElsewhere
  <2> QED
    BY <2>2
<1>7. Contents' = [Contents EXCEPT ![k] = {Own(x)}]
  BY <1>3, <1>4, <1>5, <1>6
<1>8. k \in 1 .. Len(Contents)
  BY <1>2, <1>3
<1>9. Upcoming' = Upcoming
  BY <1>1 DEF Upcoming
<1>10. C!Assign(k, x)
  BY <1>1, <1>7, <1>9 DEF C!Assign, Upcoming, C!Own, Own
<1> QED
  BY <1>8, <1>10 DEF C!Next

(* A step that leaves the symbols and the memory of the body alone. *)
LEMMA SameContents ==
  ASSUME UNCHANGED <<phase, symbols, mem>>
  PROVE  Contents' = Contents
  BY DEF Contents, Storage, Read

LEMMA StartC ==
  ASSUME IInv, NEW l \in Lists, gen_va_start(l)
  PROVE  C!Next
<1> USE DEF IInv
<1>1. /\ phase = "body" /\ taken' = [taken EXCEPT ![l] = 0]
      /\ UNCHANGED <<phase, params, symbols, nargs, mem, ret>>
  BY DEF gen_va_start, sema
<1>2. Upcoming' = [Upcoming EXCEPT ![l] = params + 1]
  <2>1. taken'[l] = 0 /\ \A m \in Lists : m # l => taken'[m] = taken[m]
    BY <1>1 DEF TypeOK
  <2>2. params + 0 + 1 = params + 1 /\ 0 # NotStarted
    BY FrameAssumption DEF TypeOK, NotStarted
  <2>3. Upcoming' = [m \in Lists |-> IF m = l THEN params + 1 ELSE Upcoming[m]]
    BY <1>1, <2>1, <2>2 DEF Upcoming
  <2> QED
    BY <2>3 DEF Upcoming
<1>3. C!VaStart(l)
  BY <1>1, <1>2, SameContents DEF C!VaStart, Upcoming
<1> QED
  BY <1>3 DEF C!Next

LEMMA ArgC ==
  ASSUME IInv, NEW l \in Lists, gen_va_arg(l)
  PROVE  C!Next
<1> USE DEF IInv
<1> DEFINE n == params + taken[l] + 1
<1>1. /\ phase = "body" /\ taken[l] # NotStarted /\ params + taken[l] < nargs
      /\ taken' = [taken EXCEPT ![l] = @ + 1]
      /\ UNCHANGED <<phase, params, symbols, nargs, mem>>
  BY DEF gen_va_arg, Asks, sema
<1>2. taken[l] \in Nat /\ params \in Nat /\ nargs \in Nat
  BY <1>1, FrameAssumption DEF TypeOK
<1>3. n \in 1 .. nargs /\ params + (taken[l] + 1) + 1 = n + 1 /\ taken[l] + 1 # NotStarted
  BY <1>1, <1>2 DEF NotStarted
<1>4. ret' = Arg(n)
  BY ArgStep
<1>5. Upcoming[l] = n
  BY <1>1 DEF Upcoming
<1> HIDE DEF n
<1>6. Upcoming' = [Upcoming EXCEPT ![l] = n + 1]
  <2>1. taken'[l] = taken[l] + 1 /\ \A m \in Lists : m # l => taken'[m] = taken[m]
    BY <1>1 DEF TypeOK
  <2>2. Upcoming'[l] = n + 1
    BY <1>1, <1>3, <2>1 DEF Upcoming
  <2>3. Upcoming' = [m \in Lists |-> IF m = l THEN n + 1 ELSE Upcoming[m]]
    BY <1>1, <2>1, <2>2 DEF Upcoming
  <2> QED
    BY <2>3 DEF Upcoming
<1>7. C!VaArg(l)
  BY <1>1, <1>3, <1>4, <1>5, <1>6, SameContents DEF C!VaArg, Upcoming, C!Arg, Arg
<1> QED
  BY <1>7 DEF C!Next

LEMMA StepC ==
  ASSUME IInv, IInv', [Next]_vars
  PROVE  [C!Next]_(C!vars)
<1>1. CASE sema_func \/ sema_param \/ sema_decl
  <2>1. phase # "body" /\ phase' # "body" /\ UNCHANGED <<nargs, ret>>
    BY <1>1 DEF sema_func, sema_param, sema_decl
  <2> QED
    BY <2>1, LayoutC
<1>2. CASE gen_func
  BY <1>2, CallC
<1>3. CASE \E k \in DOMAIN symbols, x \in Values : gen_store_by_offset(k, x)
  BY <1>3, AssignC
<1>4. CASE \E l \in Lists : gen_va_start(l) \/ gen_va_arg(l)
  BY <1>4, StartC, ArgC
<1>5. CASE UNCHANGED vars
  <2>1. Upcoming' = Upcoming /\ Contents' = Contents
    BY <1>5, SameContents DEF vars, Upcoming
  <2> QED
    BY <1>5, <2>1 DEF vars, C!vars, Upcoming
<1> QED
  BY <1>1, <1>2, <1>3, <1>4, <1>5 DEF Next

(* The frame does what C promises of a call, for every number of           *)
(* parameters, variables and arguments: variables keep what was assigned   *)
(* to them, and the va_args give the arguments in order                    *)
(* (sema.c:14-49, gen.c:211-280, 1196-1267).                               *)
THEOREM FrameRefinesC == Spec => RefinesC
<1>1. Init => C!Init
  BY InitC
<1>2. IInv /\ IInv' /\ [Next]_vars => [C!Next]_(C!vars)
  BY StepC
<1> QED
  BY <1>1, <1>2, FrameInvariant, PTL DEF Spec, C!Spec, RefinesC
=============================================================================
