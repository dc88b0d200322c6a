-------------------------------- MODULE CFrame --------------------------------
(***************************************************************************)
(* What C promises of one call of a function: every parameter and local    *)
(* variable has storage of its own, a parameter starts with the value of   *)
(* its argument, and each va_list walks the arguments after the named ones *)
(* in order, independently of the others and of every assignment.          *)
(***************************************************************************)
EXTENDS Integers, Sequences

CONSTANTS Lists,   \* the va_list objects of the function
          Values,  \* what the body assigns to its variables
          MaxCall  \* bound on the number of variables and arguments

VARIABLES store,   \* the contents of the variables, parameters first
          nargs,   \* the number of arguments of the call under way
          named,   \* the number of them that have parameters
          next,    \* for each va_list the number of the next argument, or 0
          ret      \* the value of the last va_arg

vars == <<store, nargs, named, next, ret>>

Arg(k) == <<"argument", k>>
Garbage == <<"garbage", 0>>
Own(x) == <<"assigned", x>>

Init ==
  /\ store = << >>
  /\ nargs = 0
  /\ named = 0
  /\ next = [l \in Lists |-> 0]
  /\ ret = Garbage

(* The call is made: n arguments, the first p of them named, v variables. *)
Call(p, n, v) ==
  /\ store = << >> /\ nargs = 0
  /\ store' = [k \in 1 .. v |-> {IF k <= p THEN Arg(k) ELSE Garbage}]
  /\ nargs' = n
  /\ named' = p
  /\ UNCHANGED <<next, ret>>

Assign(k, x) ==
  /\ store' = [store EXCEPT ![k] = {Own(x)}]
  /\ UNCHANGED <<nargs, named, next, ret>>

VaStart(l) ==
  /\ next' = [next EXCEPT ![l] = named + 1]
  /\ UNCHANGED <<store, nargs, named, ret>>

VaArg(l) ==
  /\ next[l] \in 1 .. nargs
  /\ ret' = Arg(next[l])
  /\ next' = [next EXCEPT ![l] = @ + 1]
  /\ UNCHANGED <<store, nargs, named>>

Next ==
  \/ \E p \in 0 .. MaxCall : \E n \in p .. MaxCall, v \in p .. MaxCall : Call(p, n, v)
  \/ \E k \in 1 .. Len(store), x \in Values : Assign(k, x)
  \/ \E l \in Lists : VaArg(l) \/ VaStart(l)

Spec == Init /\ [][Next]_vars
=============================================================================
