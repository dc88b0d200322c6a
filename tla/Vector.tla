-------------------------------- MODULE Vector --------------------------------
(***************************************************************************)
(* vector.c: the growable arrays of pointers every phase of the compiler   *)
(* is built on (token streams, scope stacks, statement target stacks).     *)
(* A vector is a heap buffer of `capacity' cells of which `length' are in  *)
(* use; vector_push writes first and grows afterwards, so that the cell    *)
(* after the last element always exists and holds NULL.                    *)
(***************************************************************************)
EXTENDS Integers, Sequences

CONSTANTS Names,     \* the vectors
          Values,    \* the pointers pushed on them
          NULL,      \* the null pointer
          Junk,      \* a cell realloc added and nobody has written
          InitCap,   \* 64 in vector_new
          MaxLen     \* bound on the length of a vector

ASSUME VectorAssumption ==
  /\ NULL \notin Values /\ Junk \notin Values /\ NULL # Junk
  /\ InitCap \in Nat \ {0}
  /\ MaxLen \in Nat

NoMerge == [dest |-> NULL, src |-> NULL, i |-> 0]

VARIABLES capacity, length, buffer,
          ret,       \* the value the last vector_pop or vector_last returned
          merge      \* the vector_merge under way, or NoMerge

vars == <<capacity, length, buffer, ret, merge>>

Cells(c) == 0 .. c - 1

Cell == Values \cup {NULL, Junk}

-----------------------------------------------------------------------------
(* vector_new callocs its first buffer: every cell is NULL. *)
Init ==
  /\ capacity = [n \in Names |-> InitCap]
  /\ length = [n \in Names |-> 0]
  /\ buffer = [n \in Names |-> [i \in Cells(InitCap) |-> NULL]]
  /\ ret = NULL
  /\ merge = NoMerge

(* The buffer after  buffer[length++] = value: the cell must exist. *)
Store(n, v) == [buffer[n] EXCEPT ![length[n]] = v]

(* Variant: the buffer grows one push too late. *)
Grown_Late(n) == IF length[n] + 1 > capacity[n] THEN 2 * capacity[n] ELSE capacity[n]

(* capacity *= 2 when the store filled the last cell. *)
Grown(n) == IF length[n] + 1 >= capacity[n] THEN 2 * capacity[n] ELSE capacity[n]

(* Variant: the capacity is doubled without a realloc. *)
Realloc_Missing(old, c) == old

(* realloc keeps the old cells and leaves the new ones unwritten. *)
Realloc(old, c) == [i \in Cells(c) |-> IF i \in DOMAIN old THEN old[i] ELSE Junk]

(* vector_push: store, count, grow, terminate. *)
PushCells(n, v) ==
  /\ length[n] < MaxLen
  /\ capacity' = [capacity EXCEPT ![n] = Grown(n)]
  /\ length' = [length EXCEPT ![n] = @ + 1]
  /\ buffer' = [buffer EXCEPT
                  ![n] = [Realloc(Store(n, v), Grown(n)) EXCEPT ![length[n] + 1] = NULL]]

vector_push(n, v) ==
  /\ merge = NoMerge
  /\ PushCells(n, v)
  /\ UNCHANGED <<ret, merge>>

(* vector_pop: every caller pops what it pushed, so length is positive. *)
vector_pop(n) ==
  /\ merge = NoMerge
  /\ length[n] > 0
  /\ ret' = buffer[n][length[n] - 1]
  /\ length' = [length EXCEPT ![n] = @ - 1]
  /\ buffer' = [buffer EXCEPT ![n] = [@ EXCEPT ![length[n] - 1] = NULL]]
  /\ UNCHANGED <<capacity, merge>>

(* Variant: vector_last returns the first element. *)
vector_last_First(n) ==
  /\ merge = NoMerge
  /\ length[n] > 0
  /\ ret' = buffer[n][0]
  /\ UNCHANGED <<capacity, length, buffer, merge>>

vector_last(n) ==
  /\ merge = NoMerge
  /\ length[n] > 0
  /\ ret' = buffer[n][length[n] - 1]
  /\ UNCHANGED <<capacity, length, buffer, merge>>

(* Variants: the loop starts at 1; a vector may be merged into itself. *)
MergeBegin_FromOne(d, s) ==
  /\ merge = NoMerge
  /\ d # s
  /\ length[d] + length[s] <= MaxLen
  /\ merge' = [dest |-> d, src |-> s, i |-> 1]
  /\ UNCHANGED <<capacity, length, buffer, ret>>

MergeBegin_Self(d, s) ==
  /\ merge = NoMerge
  /\ length[d] + length[s] <= MaxLen
  /\ merge' = [dest |-> d, src |-> s, i |-> 0]
  /\ UNCHANGED <<capacity, length, buffer, ret>>

(* vector_merge is a loop of pushes; the callers pass two vectors. *)
MergeBegin(d, s) ==
  /\ merge = NoMerge
  /\ d # s
  /\ length[d] + length[s] <= MaxLen
  /\ merge' = [dest |-> d, src |-> s, i |-> 0]
  /\ UNCHANGED <<capacity, length, buffer, ret>>

MergeStep ==
  /\ merge # NoMerge
  /\ merge.i < length[merge.src]
  /\ PushCells(merge.dest, buffer[merge.src][merge.i])
  /\ merge' = [merge EXCEPT !.i = @ + 1]
  /\ UNCHANGED ret

MergeEnd ==
  /\ merge # NoMerge
  /\ merge.i >= length[merge.src]
  /\ merge' = NoMerge
  /\ UNCHANGED <<capacity, length, buffer, ret>>

Next ==
  \/ \E n \in Names, v \in Values : vector_push(n, v)
  \/ \E n \in Names : vector_pop(n)
  \/ \E n \in Names : vector_last(n)
  \/ \E d, s \in Names : MergeBegin(d, s)
  \/ MergeStep
  \/ MergeEnd

(* The loop of vector_merge runs to its end: the program is sequential and *)
(* nothing but its own next iteration can happen.                          *)
Spec == Init /\ [][Next]_vars /\ WF_vars(MergeStep \/ MergeEnd)

-----------------------------------------------------------------------------
MergeRec == [dest : Names, src : Names, i : Nat]

TypeOK ==
  /\ capacity \in [Names -> Nat \ {0}]
  /\ length \in [Names -> Nat]
  /\ \A n \in Names : /\ DOMAIN buffer[n] = Cells(capacity[n])
                      /\ \A i \in Cells(capacity[n]) : buffer[n][i] \in Cell
  /\ DOMAIN buffer = Names
  /\ ret \in Values \cup {NULL}
  /\ merge \in MergeRec \cup {NoMerge}

(* The cell after the last element exists and holds NULL, whatever mix of  *)
(* pushes, pops and merges crossed a doubling of the buffer: the readers   *)
(* of a token vector stop at that NULL (vector.c:16-25).                   *)
Terminated ==
  \A n \in Names : /\ length[n] < capacity[n]
                   /\ buffer[n][length[n]] = NULL

(* Every cell in use was written by a push: a doubling neither loses an    *)
(* element nor lets an unwritten cell become one (vector.c:19-22).         *)
OnlyPushed ==
  \A n \in Names : \A i \in Cells(length[n]) : buffer[n][i] \in Values

(* The sequence of values a vector holds. *)
Contents == [n \in Names |-> [i \in 1 .. length[n] |-> buffer[n][i - 1]]]

(* vector.c implements stacks of pointers. *)
Stacks == INSTANCE SeqStacks WITH stack <- Contents

RefinesStacks == Stacks!Spec

(* A vector_merge appends src to dest: when it ends, the tail of dest is   *)
(* src, element by element (vector.c:49-54).                               *)
MergeAppends ==
  [][ MergeEnd =>
        LET d == Contents[merge.dest]
            s == Contents[merge.src]
        IN  Len(s) <= Len(d) /\ SubSeq(d, Len(d) - Len(s) + 1, Len(d)) = s ]_vars

(* A merge that began ends: the loop bound is the length of a vector the   *)
(* loop does not push to (vector.c:49-54).                                 *)
MergeEnds == (merge # NoMerge) ~> (merge = NoMerge)
=============================================================================
