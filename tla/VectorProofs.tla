----------------------------- MODULE VectorProofs -----------------------------
(***************************************************************************)
(* For every set of vectors, every initial capacity and every length:      *)
(* the buffers of vector.c are always NULL-terminated inside their         *)
(* capacity, and a vector behaves as the sequence of the values pushed.    *)
(***************************************************************************)
EXTENDS Vector, SequenceTheorems, TLAPS

(* A merge under way copies an index the source vector still has.          *)
MergeOK == merge # NoMerge => /\ merge \in MergeRec
                              /\ merge.dest # merge.src
                              /\ merge.i <= length[merge.src]

IInv == TypeOK /\ Terminated /\ OnlyPushed /\ MergeOK

(* PushCells stores one pointer: it keeps the buffers well formed whatever *)
(* the old length was, at a doubling or not (vector_push, vector.c:16-25). *)
LEMMA PushKeeps ==
  ASSUME TypeOK, Terminated, OnlyPushed,
         NEW n \in Names, NEW v \in Values, PushCells(n, v)
  PROVE  /\ capacity' \in [Names -> Nat \ {0}]
         /\ length' \in [Names -> Nat]
         /\ length'[n] = length[n] + 1
         /\ \A m \in Names \ {n} : /\ length'[m] = length[m]
                                   /\ buffer'[m] = buffer[m]
                                   /\ capacity'[m] = capacity[m]
         /\ DOMAIN buffer' = Names
         /\ DOMAIN buffer'[n] = Cells(capacity'[n])
         /\ \A i \in Cells(capacity'[n]) : buffer'[n][i] \in Cell
         /\ length'[n] < capacity'[n]
         /\ buffer'[n][length'[n]] = NULL
         /\ \A i \in Cells(length[n]) : buffer'[n][i] = buffer[n][i]
         /\ buffer'[n][length[n]] = v
<1> DEFINE L == length[n]
           C == capacity[n]
           G == Grown(n)
           S == Store(n, v)
           B == [Realloc(S, G) EXCEPT ![L + 1] = NULL]
<1>1. /\ L \in Nat /\ C \in Nat \ {0} /\ L < C
      /\ DOMAIN buffer[n] = Cells(C)
      /\ \A i \in Cells(C) : buffer[n][i] \in Cell
  BY DEF TypeOK, Terminated
<1>2. G \in Nat \ {0} /\ C <= G /\ L + 1 < G
  BY <1>1 DEF Grown
<1>3. DOMAIN S = Cells(C) /\ S[L] = v /\ \A i \in Cells(C) \ {L} : S[i] = buffer[n][i]
  BY <1>1 DEF Store, Cells
<1>4. /\ DOMAIN B = Cells(G)
      /\ B[L + 1] = NULL
      /\ \A i \in Cells(G) \ {L + 1} : B[i] = IF i \in Cells(C) THEN S[i] ELSE Junk
  BY <1>1, <1>2, <1>3 DEF Realloc, Cells
<1>5. /\ capacity' = [capacity EXCEPT ![n] = G]
      /\ length' = [length EXCEPT ![n] = @ + 1]
      /\ buffer' = [buffer EXCEPT ![n] = B]
  BY DEF PushCells
<1>6. DOMAIN buffer = Names /\ capacity \in [Names -> Nat \ {0}] /\ length \in [Names -> Nat]
  BY DEF TypeOK
<1>7. buffer'[n] = B /\ capacity'[n] = G /\ length'[n] = L + 1
  BY <1>5, <1>6
<1>8. \A i \in Cells(G) : B[i] \in Cell
  BY <1>1, <1>2, <1>3, <1>4 DEF Cell, Cells
<1>9. \A i \in Cells(L) : B[i] = buffer[n][i]
  BY <1>1, <1>2, <1>3, <1>4 DEF Cells
<1>10. B[L] = v
  BY <1>1, <1>2, <1>3, <1>4 DEF Cells
<1>11. \A m \in Names \ {n} : /\ length'[m] = length[m]
                              /\ buffer'[m] = buffer[m]
                              /\ capacity'[m] = capacity[m]
  BY <1>5, <1>6
<1>12. capacity' \in [Names -> Nat \ {0}] /\ length' \in [Names -> Nat] /\ DOMAIN buffer' = Names
  BY <1>1, <1>2, <1>5, <1>6
<1>13. QED
  BY <1>1, <1>2, <1>4, <1>7, <1>8, <1>9, <1>10, <1>11, <1>12

(* The same facts, put together for the invariant of all the vectors.      *)
LEMMA PushInv ==
  ASSUME TypeOK, Terminated, OnlyPushed,
         NEW n \in Names, NEW v \in Values, PushCells(n, v),
         ret' \in Values \cup {NULL}, merge' \in MergeRec \cup {NoMerge}
  PROVE  TypeOK' /\ Terminated' /\ OnlyPushed'
<1>1. TypeOK'
  BY PushKeeps DEF TypeOK
<1>2. Terminated'
  BY PushKeeps DEF Terminated
<1>3. ASSUME NEW m \in Names, NEW i \in Cells(length'[m])
      PROVE  buffer'[m][i] \in Values
  <2>1. CASE m = n
    <3>1. length[n] \in Nat /\ (i \in Cells(length[n]) \/ i = length[n])
      BY <1>3, <2>1, PushKeeps DEF TypeOK, Cells
    <3>2. QED BY <2>1, <3>1, PushKeeps DEF OnlyPushed
  <2>2. CASE m # n
    BY <1>3, <2>2, PushKeeps DEF OnlyPushed
  <2>3. QED BY <2>1, <2>2
<1>4. QED BY <1>1, <1>2, <1>3 DEF OnlyPushed

(* vector_new establishes the invariant. *)
LEMMA InitIInv == Init => IInv
BY VectorAssumption DEF Init, IInv, TypeOK, Terminated, OnlyPushed, MergeOK, Cells, Cell,
   MergeRec, NoMerge

(* Every operation of vector.c preserves it. *)
LEMMA NextIInv == IInv /\ [Next]_vars => IInv'
<1> SUFFICES ASSUME IInv, [Next]_vars PROVE IInv'
  OBVIOUS
<1> USE DEF IInv
<1>1. ASSUME NEW n \in Names, NEW v \in Values, vector_push(n, v)
      PROVE  IInv'
  <2>1. PushCells(n, v) /\ ret' = ret /\ merge' = merge /\ merge = NoMerge
    BY <1>1 DEF vector_push
  <2>2. TypeOK' /\ Terminated' /\ OnlyPushed'
    BY <2>1, PushInv DEF TypeOK
  <2>3. QED BY <2>1, <2>2 DEF MergeOK
<1>2. ASSUME NEW n \in Names, vector_pop(n)
      PROVE  IInv'
  <2>1. /\ length[n] \in Nat \ {0} /\ length[n] - 1 \in Cells(length[n])
        /\ length[n] - 1 \in Cells(capacity[n])
    BY <1>2 DEF vector_pop, TypeOK, Terminated, Cells
  <2>2. buffer[n][length[n] - 1] \in Values
    BY <2>1 DEF OnlyPushed
  <2>3. /\ capacity' = capacity /\ merge' = merge /\ merge = NoMerge
        /\ ret' \in Values
        /\ length' = [length EXCEPT ![n] = @ - 1]
        /\ buffer' = [buffer EXCEPT ![n] = [@ EXCEPT ![length[n] - 1] = NULL]]
    BY <1>2, <2>2 DEF vector_pop
  <2>4. TypeOK'
    BY <2>1, <2>3 DEF TypeOK, Cell
  <2>5. Terminated'
    BY <2>1, <2>3 DEF TypeOK, Terminated, Cells
  <2>6. OnlyPushed'
    BY <2>1, <2>3 DEF TypeOK, OnlyPushed, Terminated, Cells
  <2>7. QED BY <2>3, <2>4, <2>5, <2>6 DEF MergeOK
<1>3. ASSUME NEW n \in Names, vector_last(n)
      PROVE  IInv'
  <2>1. length[n] - 1 \in Cells(length[n])
    BY <1>3 DEF vector_last, TypeOK, Cells
  <2>2. QED
    BY <1>3, <2>1 DEF vector_last, TypeOK, Terminated, OnlyPushed, MergeOK
<1>4. ASSUME NEW d \in Names, NEW s \in Names, MergeBegin(d, s)
      PROVE  IInv'
  BY <1>4 DEF MergeBegin, TypeOK, Terminated, OnlyPushed, MergeOK, MergeRec, Cells
<1>5. CASE MergeStep
  <2> DEFINE d == merge.dest
             s == merge.src
             v == buffer[s][merge.i]
  <2>1. /\ merge \in MergeRec /\ d \in Names /\ s \in Names /\ d # s
        /\ merge.i \in Nat /\ merge.i < length[s] /\ PushCells(d, v)
        /\ ret' = ret /\ merge' = [merge EXCEPT !.i = @ + 1]
    BY <1>5 DEF MergeStep, MergeOK, MergeRec
  <2>2. v \in Values
    BY <2>1 DEF OnlyPushed, TypeOK, Cells
  <2>3. merge' \in MergeRec /\ merge'.dest = d /\ merge'.src = s /\ merge'.i = merge.i + 1
    BY <2>1 DEF MergeRec
  <2>4. TypeOK' /\ Terminated' /\ OnlyPushed'
    BY <2>1, <2>2, <2>3, PushInv DEF TypeOK
  <2>5. length'[s] = length[s] /\ length[s] \in Nat
    BY <2>1, <2>2, PushKeeps DEF TypeOK
  <2>6. QED BY <2>1, <2>3, <2>4, <2>5 DEF MergeOK
<1>6. CASE MergeEnd
  BY <1>6 DEF MergeEnd, TypeOK, Terminated, OnlyPushed, MergeOK
<1>7. CASE UNCHANGED vars
  BY <1>7 DEF vars, TypeOK, Terminated, OnlyPushed, MergeOK
<1>8. QED
  BY <1>1, <1>2, <1>3, <1>4, <1>5, <1>6, <1>7 DEF Next

(* The buffers always have their capacity, and hold pointers, NULL or      *)
(* unwritten cells (vector.c:4-25).                                        *)
THEOREM VectorTypeOK == Spec => []TypeOK
<1>1. IInv => TypeOK
  BY DEF IInv
<1>2. QED
  BY InitIInv, NextIInv, <1>1, PTL DEF Spec

(* Whatever is pushed, popped and merged, the cell after the last element  *)
(* exists and holds NULL (vector.c:24, vector.c:29).                       *)
THEOREM VectorTerminated == Spec => []Terminated
<1>1. IInv => Terminated
  BY DEF IInv
<1>2. QED
  BY InitIInv, NextIInv, <1>1, PTL DEF Spec

(* The cells in use of a buffer, read as a sequence of values.             *)
LEMMA CellsSeq ==
  ASSUME NEW L \in Nat, NEW b, \A i \in Cells(L) : b[i] \in Values
  PROVE  /\ [i \in 1 .. L |-> b[i - 1]] \in Seq(Values)
         /\ Len([i \in 1 .. L |-> b[i - 1]]) = L
<1>1. \A i \in 1 .. L : b[i - 1] \in Values
  BY DEF Cells
<1>2. [i \in 1 .. L |-> b[i - 1]] \in Seq(Values)
  BY <1>1, IsASeq
<1>3. QED
  BY <1>2

(* The contents of a well-formed vector are a sequence of values.          *)
LEMMA ContentsSeq ==
  ASSUME TypeOK, OnlyPushed, NEW n \in Names
  PROVE  /\ Contents[n] \in Seq(Values)
         /\ Len(Contents[n]) = length[n]
         /\ \A i \in 1 .. length[n] : Contents[n][i] = buffer[n][i - 1]
<1>1. length[n] \in Nat /\ Contents[n] = [i \in 1 .. length[n] |-> buffer[n][i - 1]]
  BY DEF TypeOK, Contents
<1>2. \A i \in Cells(length[n]) : buffer[n][i] \in Values
  BY DEF OnlyPushed
<1>3. QED
  BY <1>1, <1>2, CellsSeq

(* A push makes the contents of its vector one value longer and is not     *)
(* seen by the other vectors.                                              *)
LEMMA PushContents ==
  ASSUME TypeOK, Terminated, OnlyPushed, TypeOK', OnlyPushed',
         NEW n \in Names, NEW v \in Values, PushCells(n, v)
  PROVE  Contents' = [Contents EXCEPT ![n] = Append(@, v)]
<1>1. ASSUME NEW m \in Names \ {n}
      PROVE  Contents'[m] = Contents[m]
  BY PushKeeps DEF Contents
<1>2. Contents'[n] = Append(Contents[n], v)
  <2> DEFINE s == Append(Contents[n], v)
  <2>1. length[n] \in Nat /\ length'[n] = length[n] + 1
    BY PushKeeps DEF TypeOK
  <2>2. s \in Seq(Values) /\ Len(s) = length[n] + 1
    BY ContentsSeq, <2>1
  <2>3. Contents'[n] \in Seq(Values) /\ Len(Contents'[n]) = length[n] + 1
        /\ \A i \in 1 .. length'[n] : Contents'[n][i] = buffer'[n][i - 1]
    <3>1. /\ length'[n] \in Nat
          /\ Contents'[n] = [i \in 1 .. length'[n] |-> buffer'[n][i - 1]]
      BY <2>1 DEF Contents
    <3>2. \A i \in Cells(length'[n]) : buffer'[n][i] \in Values
      BY DEF OnlyPushed
    <3>3. QED BY <2>1, <3>1, <3>2, CellsSeq, SMTT(30)
  <2>4. ASSUME NEW i \in 1 .. length[n] + 1
        PROVE  Contents'[n][i] = s[i]
    <3>1. CASE i = length[n] + 1
      <4>1. Contents'[n][i] = v
        BY <2>1, <2>3, <3>1, PushKeeps
      <4>2. s[i] = v
        BY <2>1, <3>1, ContentsSeq
      <4>3. QED BY <4>1, <4>2
    <3>2. CASE i # length[n] + 1
      <4>1. i \in 1 .. length[n] /\ i - 1 \in Cells(length[n])
        BY <2>1, <3>2 DEF Cells
      <4>2. Contents'[n][i] = buffer[n][i - 1]
        BY <2>1, <2>3, <4>1, PushKeeps
      <4>3. s[i] = buffer[n][i - 1]
        BY <2>1, <4>1, ContentsSeq
      <4>4. QED BY <4>2, <4>3
    <3>3. QED BY <3>1, <3>2
  <2>5. QED BY <2>1, <2>2, <2>3, <2>4, SeqEqual
<1>3. QED BY <1>1, <1>2 DEF Contents

(* vector.c implements stacks of pointers: every push, pop, last and every *)
(* iteration of a merge is a step on the sequences, or none.               *)
THEOREM VectorRefines == Spec => RefinesStacks
<1>1. Init => Stacks!Init
  <2> SUFFICES ASSUME Init PROVE Stacks!Init
    OBVIOUS
  <2>1. ASSUME NEW n \in Names PROVE [i \in 1 .. length[n] |-> buffer[n][i - 1]] = << >>
    BY DEF Init
  <2>2. Contents = [n \in Names |-> << >>]
    BY <2>1 DEF Contents
  <2>3. QED BY <2>2 DEF Stacks!Init, Init
<1>2. IInv /\ IInv' /\ [Next]_vars => [Stacks!Next]_<<Contents, ret>>
  <2> SUFFICES ASSUME IInv, IInv', [Next]_vars
               PROVE  [Stacks!Next]_<<Contents, ret>>
    OBVIOUS
  <2> USE DEF IInv
  <2>1. ASSUME NEW n \in Names, NEW v \in Values, vector_push(n, v)
        PROVE  Stacks!Next
    BY <2>1, PushContents DEF vector_push, Stacks!Next, Stacks!Push
  <2>2. ASSUME NEW n \in Names, vector_pop(n)
        PROVE  Stacks!Next
    <3>1. length[n] \in Nat \ {0} /\ length' = [length EXCEPT ![n] = @ - 1]
          /\ buffer' = [buffer EXCEPT ![n] = [@ EXCEPT ![length[n] - 1] = NULL]]
          /\ ret' = buffer[n][length[n] - 1]
      BY <2>2 DEF vector_pop, TypeOK
    <3>2. ret' = Contents[n][Len(Contents[n])] /\ Contents[n] # << >>
      BY <3>1, ContentsSeq
    <3>3. ASSUME NEW m \in Names \ {n} PROVE Contents'[m] = Contents[m]
      BY <3>1 DEF Contents, TypeOK
    <3>4. Contents'[n] = SubSeq(Contents[n], 1, Len(Contents[n]) - 1)
      <4>1. Contents'[n] = [i \in 1 .. length[n] - 1 |-> buffer'[n][i - 1]]
        BY <3>1 DEF Contents, TypeOK
      <4>2. \A i \in 1 .. length[n] - 1 : buffer'[n][i - 1] = buffer[n][i - 1]
        BY <3>1 DEF TypeOK, Terminated, Cells
      <4>3. SubSeq(Contents[n], 1, Len(Contents[n]) - 1)
              = [i \in 1 .. length[n] - 1 |-> buffer[n][i - 1]]
        <5> DEFINE c == Contents[n]
                   t == SubSeq(c, 1, Len(c) - 1)
                   u == [i \in 1 .. length[n] - 1 |-> buffer[n][i - 1]]
        <5>1. c \in Seq(Values) /\ Len(c) = length[n]
              /\ \A i \in 1 .. length[n] : c[i] = buffer[n][i - 1]
          BY ContentsSeq
        <5>2. t \in Seq(Values) /\ Len(t) = length[n] - 1
              /\ \A i \in 1 .. length[n] - 1 : t[i] = c[i]
          BY <3>1, <5>1, SubSeqProperties
        <5>3. u \in Seq(Values) /\ Len(u) = length[n] - 1
          <6>1. length[n] - 1 \in Nat
            BY <3>1
          <6>2. \A i \in Cells(length[n] - 1) : buffer[n][i] \in Values
            BY <3>1 DEF OnlyPushed, Cells
          <6>3. QED BY <6>1, <6>2, CellsSeq
        <5>4. \A i \in 1 .. Len(t) : t[i] = u[i]
          BY <3>1, <5>1, <5>2
        <5>5. QED BY <5>2, <5>3, <5>4, SeqEqual
      <4>4. QED BY <4>1, <4>2, <4>3
    <3>5. Contents' = [Contents EXCEPT ![n] = SubSeq(@, 1, Len(@) - 1)]
      BY <3>3, <3>4 DEF Contents
    <3>6. QED BY <3>2, <3>5 DEF Stacks!Next, Stacks!Pop
  <2>3. ASSUME NEW n \in Names, vector_last(n)
        PROVE  Stacks!Next
    <3>1. length[n] \in Nat \ {0} /\ ret' = buffer[n][length[n] - 1]
          /\ length' = length /\ buffer' = buffer
      BY <2>3 DEF vector_last, TypeOK
    <3>2. ret' = Contents[n][Len(Contents[n])] /\ Contents[n] # << >>
      BY <3>1, ContentsSeq
    <3>3. QED BY <3>1, <3>2 DEF Stacks!Next, Stacks!Last, Contents
  <2>4. ASSUME NEW d \in Names, NEW s \in Names, MergeBegin(d, s)
        PROVE  UNCHANGED <<Contents, ret>>
    BY <2>4 DEF MergeBegin, Contents
  <2>5. CASE MergeStep
    <3>1. /\ merge \in MergeRec /\ merge.dest \in Names /\ merge.src \in Names
          /\ merge.i \in Cells(length[merge.src]) /\ ret' = ret
          /\ PushCells(merge.dest, buffer[merge.src][merge.i])
      BY <2>5 DEF MergeStep, MergeOK, MergeRec, TypeOK, Cells
    <3>2. buffer[merge.src][merge.i] \in Values
      BY <3>1 DEF OnlyPushed
    <3>3. QED BY <3>1, <3>2, PushContents DEF Stacks!Next, Stacks!Push
  <2>6. CASE MergeEnd
    BY <2>6 DEF MergeEnd, Contents
  <2>7. CASE UNCHANGED vars
    BY <2>7 DEF vars, Contents
  <2>8. QED
    BY <2>1, <2>2, <2>3, <2>4, <2>5, <2>6, <2>7 DEF Next
<1>3. QED
  BY InitIInv, NextIInv, <1>1, <1>2, PTL DEF Spec, RefinesStacks, Stacks!Spec

(* The elements of the source a merge under way has copied are the last of *)
(* the destination.                                                        *)
Copied ==
  merge # NoMerge =>
    /\ merge.i <= length[merge.dest]
    /\ \A i \in Cells(merge.i) :
         buffer[merge.dest][length[merge.dest] - merge.i + i] = buffer[merge.src][i]

LEMMA InitCopied == Init => Copied
BY DEF Init, Copied

LEMMA NextCopied == IInv /\ Copied /\ [Next]_vars => Copied'
<1> SUFFICES ASSUME IInv, Copied, [Next]_vars PROVE Copied'
  OBVIOUS
<1>1. ASSUME NEW n \in Names, NEW v \in Values, vector_push(n, v)
      PROVE  Copied'
  BY <1>1 DEF vector_push, Copied
<1>2. ASSUME NEW n \in Names, vector_pop(n)
      PROVE  Copied'
  BY <1>2 DEF vector_pop, Copied
<1>3. ASSUME NEW n \in Names, vector_last(n)
      PROVE  Copied'
  BY <1>3 DEF vector_last, Copied
<1>4. ASSUME NEW d \in Names, NEW s \in Names, MergeBegin(d, s)
      PROVE  Copied'
  <2>1. merge'.i = 0 /\ merge'.dest = d /\ length' = length /\ length[d] \in Nat
    BY <1>4 DEF MergeBegin, IInv, TypeOK
  <2> QED
    BY <2>1 DEF Copied, Cells
<1>5. CASE MergeStep
  <2> PICK d, s, k, v : d = merge.dest /\ s = merge.src /\ k = merge.i /\ v = buffer[s][k]
    OBVIOUS
  <2>1. /\ merge \in MergeRec /\ d \in Names /\ s \in Names /\ d # s /\ merge # NoMerge
        /\ k \in Nat /\ k < length[s] /\ PushCells(d, v)
        /\ merge' = [merge EXCEPT !.i = @ + 1]
    BY <1>5 DEF MergeStep, MergeOK, MergeRec, IInv
  <2>2. v \in Values /\ length[d] \in Nat /\ length[s] \in Nat
    BY <2>1 DEF IInv, OnlyPushed, TypeOK, Cells
  <2>3. merge'.dest = d /\ merge'.src = s /\ merge'.i = k + 1
    BY <2>1 DEF MergeRec
  <2>4. /\ length'[d] = length[d] + 1
        /\ \A i \in Cells(length[d]) : buffer'[d][i] = buffer[d][i]
        /\ buffer'[d][length[d]] = v
        /\ buffer'[s] = buffer[s]
    BY <2>1, <2>2, PushKeeps DEF IInv
  <2>5. k <= length[d] /\ \A i \in Cells(k) : buffer[d][length[d] - k + i] = buffer[s][i]
    BY <2>1 DEF Copied
  <2>6. ASSUME NEW i \in Cells(k + 1)
        PROVE  buffer'[d][length'[d] - (k + 1) + i] = buffer'[s][i]
    <3>1. length'[d] - (k + 1) + i = length[d] - k + i
      BY <2>1, <2>2, <2>4, <2>6 DEF Cells
    <3>2. CASE i = k
      BY <2>1, <2>2, <2>4, <3>1, <3>2
    <3>3. CASE i # k
      <4>1. i \in Cells(k) /\ length[d] - k + i \in Cells(length[d])
        BY <2>1, <2>2, <2>5, <2>6, <3>3 DEF Cells
      <4> QED
        BY <2>4, <2>5, <3>1, <4>1
    <3> QED
      BY <3>2, <3>3
  <2>7. merge'.i <= length'[d]
    BY <2>1, <2>2, <2>3, <2>4, <2>5
  <2> QED
    BY <2>3, <2>6, <2>7 DEF Copied
<1>6. CASE MergeEnd
  BY <1>6 DEF MergeEnd, Copied
<1>7. CASE UNCHANGED vars
  BY <1>7 DEF vars, Copied
<1> QED
  BY <1>1, <1>2, <1>3, <1>4, <1>5, <1>6, <1>7 DEF Next

(* A vector_merge that ends has appended its source, whatever the lengths  *)
(* and however often the buffer grew meanwhile (vector.c:49-54).           *)
THEOREM VectorMergeAppends == Spec => MergeAppends
<1>1. ASSUME IInv, Copied, MergeEnd
      PROVE  LET d == Contents[merge.dest]
                 s == Contents[merge.src]
             IN  Len(s) <= Len(d) /\ SubSeq(d, Len(d) - Len(s) + 1, Len(d)) = s
  <2> PICK d, s, D, S : d = Contents[merge.dest] /\ s = Contents[merge.src] /\ D = length[merge.dest] /\ S = length[merge.src]
    OBVIOUS
  <2>1. /\ merge # NoMerge /\ merge.dest \in Names /\ merge.src \in Names
        /\ D \in Nat /\ S \in Nat /\ merge.i = S
    BY <1>1 DEF MergeEnd, IInv, MergeOK, MergeRec, TypeOK
  <2>2. S <= D /\ \A i \in Cells(S) : buffer[merge.dest][D - S + i] = buffer[merge.src][i]
    BY <1>1, <2>1 DEF Copied
  <2>3. /\ d \in Seq(Values) /\ Len(d) = D /\ \A i \in 1 .. D : d[i] = buffer[merge.dest][i - 1]
        /\ s \in Seq(Values) /\ Len(s) = S /\ \A i \in 1 .. S : s[i] = buffer[merge.src][i - 1]
    BY <1>1, <2>1, ContentsSeq DEF IInv
  <2>4. ASSUME NEW i \in 1 .. S
        PROVE  d[D - S + i] = s[i]
    <3>1. i - 1 \in Cells(S) /\ D - S + i \in 1 .. D /\ (D - S + i) - 1 = D - S + (i - 1)
      BY <2>1, <2>2 DEF Cells
    <3> QED
      BY <2>2, <2>3, <3>1
  <2> DEFINE t == SubSeq(d, D - S + 1, D)
  <2>5. t \in Seq(Values) /\ Len(t) = S /\ \A i \in 1 .. S : t[i] = d[D - S + i]
    <3> PICK m : m = D - S + 1
      OBVIOUS
    <3>1. /\ m \in Int /\ D \in Int /\ \A i \in m .. D : d[i] \in Values
          /\ (IF m <= D THEN D - m + 1 ELSE 0) = S /\ D - m + 1 = S
      <4>1. m \in 1 .. D + 1 /\ (IF m <= D THEN D - m + 1 ELSE 0) = S /\ D - m + 1 = S
        BY ONLY <2>1, <2>2, m = D - S + 1
      <4>2. \A i \in m .. D : i \in 1 .. D
        BY ONLY <2>1, <4>1
      <4>3. \A i \in 1 .. D : d[i] \in Values
        BY ONLY <2>3
      <4> QED
        BY ONLY <2>1, <4>1, <4>2, <4>3
    <3>2. t \in Seq(Values) /\ Len(t) = S /\ \A i \in 1 .. S : t[i] = d[m + i - 1]
      BY ONLY <3>1, m = D - S + 1, SubSeqProperties
    <3>3. \A i \in 1 .. S : m + i - 1 = D - S + i
      BY <2>1
    <3> QED
      BY ONLY <3>2, <3>3
  <2>6. t = s
    <3>1. \A i \in 1 .. Len(t) : t[i] = s[i]
      BY <2>4, <2>5
    <3> HIDE DEF t
    <3> QED
      BY <2>3, <2>5, <3>1, SeqEqual
  <2> QED
    BY <2>2, <2>3, <2>6
<1>2. IInv /\ Copied /\ [Next]_vars =>
        [MergeEnd =>
           LET d == Contents[merge.dest]
               s == Contents[merge.src]
           IN  Len(s) <= Len(d) /\ SubSeq(d, Len(d) - Len(s) + 1, Len(d)) = s]_vars
  BY <1>1
<1> QED
  BY InitIInv, NextIInv, InitCopied, NextCopied, <1>2, PTL DEF Spec, MergeAppends
=============================================================================
