------------------------------ MODULE SeqStacks ------------------------------
(***************************************************************************)
(* What the users of vector.c rely on: each vector is a sequence of        *)
(* pointers that is pushed and popped at its right end, and a call on one  *)
(* vector leaves every other one alone.  Capacity, reallocation and the    *)
(* NULL stored after the last element are not visible here.                *)
(***************************************************************************)
EXTENDS Sequences, Naturals

CONSTANTS Names,    \* the vectors of a run of the compiler
          Values,   \* the pointers the vectors hold
          NULL      \* the null pointer: no value was returned yet

VARIABLES stack,    \* stack[n] is the sequence vector n holds
          ret       \* what the last vector_pop or vector_last returned

Init == /\ stack = [n \in Names |-> << >>]
        /\ ret = NULL

Push(n, v) == /\ stack' = [stack EXCEPT ![n] = Append(@, v)]
              /\ UNCHANGED ret

Pop(n) == /\ stack[n] # << >>
          /\ ret' = stack[n][Len(stack[n])]
          /\ stack' = [stack EXCEPT ![n] = SubSeq(@, 1, Len(@) - 1)]

Last(n) == /\ stack[n] # << >>
           /\ ret' = stack[n][Len(stack[n])]
           /\ UNCHANGED stack

Next == \E n \in Names : \/ \E v \in Values : Push(n, v)
                         \/ Pop(n)
                         \/ Last(n)

Spec == Init /\ [][Next]_<<stack, ret>>
=============================================================================
