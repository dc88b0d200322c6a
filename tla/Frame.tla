-------------------------------- MODULE Frame ---------------------------------
(***************************************************************************)
(* The frame of a compiled function: where sema.c puts its variables       *)
(* (put_variable), what the prologue printed by gen_func stores in them,   *)
(* and how the code printed by gen_va_start and gen_va_arg walks the       *)
(* variable arguments, first in the register save area and then on the     *)
(* caller's stack.                                                         *)
(*                                                                         *)
(* Addresses are byte offsets from %rbp, as the printed code has them.     *)
(* Memory is written in cells of 8 bytes; a cell is named by its lowest    *)
(* address.  The caller has left the arguments as gen_call does: the first *)
(* six in registers, the k-th at 16 + (k - 7) * 8.                         *)
(***************************************************************************)
EXTENDS Integers, Sequences

CONSTANTS Lists,       \* the va_list objects of the function
          Values,      \* what the body assigns to its variables
          ParamSizes,  \* sizes of the types of parameters
          LocalSizes,  \* sizes of the types of locals
          Params,      \* numbers of named parameters
          MaxExtra,    \* bound on the number of variable arguments
          MaxLocals,   \* bound on the number of locals
          MaxCall      \* a number that the variables and the arguments stay below

ASSUME FrameAssumption ==
  /\ ParamSizes \subseteq 1 .. 8
  /\ LocalSizes \subseteq Nat \ {0}
  /\ Params \subseteq Nat
  /\ MaxExtra \in Nat /\ MaxLocals \in Nat /\ MaxCall \in Nat
  /\ \A p \in Params : p + MaxExtra <= MaxCall /\ p + MaxLocals <= MaxCall

VARIABLES phase,       \* "idle", "params", "locals" (sema.c), then "body" (the code runs)
          ellipsis,    \* the function has a ", ..."
          params,      \* type->params->length
          symbols,     \* the variables put so far: size and offset of each
          stack_size,  \* the global of sema.c, then func->stack_size
          nargs,       \* the number of arguments the call has
          mem,         \* the cells of memory written so far
          ap,          \* the three fields of each va_list
          taken,       \* the va_args the body has made of each list since va_start
          ret          \* the value of the last va_arg

vars == <<phase, ellipsis, params, symbols, stack_size, nargs, mem, ap, taken, ret>>

sema == <<ellipsis, params, symbols, stack_size>>

Arg(k) == <<"argument", k>>
Garbage == <<"garbage", 0>>
Own(x) == <<"assigned", x>>
Linkage(x) == <<"linkage", x>>

NotStarted == -1

-----------------------------------------------------------------------------
(* sema.c *)

(* The register save area is 6 registers of 8 bytes and 8 of 16. *)
SaveArea == 176

(* Variant: sizes are not rounded up. *)
RoundUp_Exact(n) == n

RoundUp(n) == IF n % 8 # 0 THEN n + (8 - (n % 8)) ELSE n

(* Variant: the variable is put where the last one ends. *)
put_variable_Before(size) ==
  LET offset == RoundUp(stack_size + size)
  IN  /\ stack_size' = offset
      /\ symbols' = Append(symbols, [size |-> size, offset |-> stack_size])

(* put_variable, for a parameter or a local. *)
put_variable(size) ==
  LET offset == RoundUp(stack_size + size)
  IN  /\ stack_size' = offset
      /\ symbols' = Append(symbols, [size |-> size, offset |-> offset])

sema_func ==
  /\ phase = "idle"
  /\ \E e \in BOOLEAN, p \in Params :
       /\ ellipsis' = e
       /\ params' = p
       /\ stack_size' = IF e THEN SaveArea ELSE 0
  /\ symbols' = << >>
  /\ phase' = "params"
  /\ UNCHANGED <<nargs, mem, ap, taken, ret>>

sema_param ==
  /\ phase = "params"
  /\ Len(symbols) < params
  /\ \E size \in ParamSizes : put_variable(size)
  /\ UNCHANGED <<phase, ellipsis, params, nargs, mem, ap, taken, ret>>

(* The locals of every scope of the body; no scope gives storage back. *)
sema_decl ==
  /\ phase \in {"params", "locals"}
  /\ Len(symbols) >= params
  /\ Len(symbols) < params + MaxLocals
  /\ \E size \in LocalSizes : put_variable(size)
  /\ phase' = "locals"
  /\ UNCHANGED <<ellipsis, params, nargs, mem, ap, taken, ret>>

-----------------------------------------------------------------------------
(* gen.c *)

Cells(first, size) == {first + 8 * k : k \in 0 .. (size - 1) \div 8}

(* The cells a store to variable k writes: gen_store_by_offset(-offset). *)
Storage(k) == Cells(0 - symbols[k].offset, symbols[k].size)

Read(a) == IF a \in DOMAIN mem THEN mem[a] ELSE Garbage

Filled(cells, v) == [a \in cells |-> v]

(* The cells of f written over those of g. *)
Over(f, g) ==
  [a \in DOMAIN f \cup DOMAIN g |-> IF a \in DOMAIN f THEN f[a] ELSE g[a]]

(* Variants: more than six parameters are not told apart; the six in       *)
(* registers are counted as if they were on the stack.                     *)
gp_offset_Uncapped     == params * 8
overflow_arg_area_Full == IF params <= 6 THEN 0 ELSE params * 8

gp_offset         == IF params <= 6 THEN params * 8 ELSE 48
overflow_arg_area == IF params <= 6 THEN 0 ELSE (params - 6) * 8

(* What the caller and the call instruction leave above %rbp, with the     *)
(* pushq %rbp of the prologue.                                             *)
CallerCells(n) ==
  [a \in {0, 8} \cup {16 + (k - 7) * 8 : k \in 7 .. n} |->
     IF a = 0 THEN Linkage("rbp")
     ELSE IF a = 8 THEN Linkage("return address")
     ELSE Arg(7 + (a - 16) \div 8)]

(* The registers gen_func saves: from the first unnamed to the sixth. *)
SavedRegs ==
  IF ellipsis
    THEN [a \in {i * 8 - SaveArea : i \in params .. 5} |-> Arg((a + SaveArea) \div 8 + 1)]
    ELSE << >>

(* The value gen_func stores in parameter k: that of a register, or of the *)
(* cell 16 + (i - 6) * 8 for i = k - 1.                                    *)
ParamValue(k, cells) ==
  IF k <= 6 THEN Arg(k) ELSE cells[16 + (k - 7) * 8]

(* The parameters are stored one after the other, the last store winning   *)
(* where two would meet.                                                   *)
ParamStores(cells) ==
  LET Stores(a) == {k \in 1 .. params : a \in Storage(k)}
      Written   == UNION {Storage(k) : k \in 1 .. params}
      Last(S)   == CHOOSE k \in S : \A j \in S : j <= k
  IN  [a \in Written |-> ParamValue(Last(Stores(a)), cells)]

(* The prologue printed by gen_func runs, for a call with n arguments. *)
gen_func ==
  /\ phase \in {"params", "locals"}
  /\ Len(symbols) >= params
  /\ \E n \in params .. params + (IF ellipsis THEN MaxExtra ELSE 0) :
       /\ nargs' = n
       /\ mem' = Over(ParamStores(CallerCells(n)), Over(SavedRegs, CallerCells(n)))
  /\ phase' = "body"
  /\ UNCHANGED <<sema, ap, taken, ret>>

(* The body assigns a variable: gen_assign or gen_init_local. *)
gen_store_by_offset(k, x) ==
  /\ phase = "body"
  /\ mem' = Over(Filled(Storage(k), Own(x)), mem)
  /\ UNCHANGED <<phase, sema, nargs, ap, taken, ret>>

gen_va_start(l) ==
  /\ phase = "body"
  /\ ellipsis
  /\ ap' = [ap EXCEPT ![l] = [gp_offset |-> gp_offset,
                              overflow_arg_area |-> overflow_arg_area + 16,
                              reg_save_area |-> 0 - SaveArea]]
  /\ taken' = [taken EXCEPT ![l] = 0]
  /\ UNCHANGED <<phase, sema, nargs, mem, ret>>

(* The body asks a list it has started for an argument the call has. *)
Asks(l) == taken[l] # NotStarted /\ params + taken[l] < nargs

gen_va_arg(l) ==
  /\ phase = "body"
  /\ Asks(l)
  /\ \/ /\ ap[l].gp_offset # 48
        /\ ret' = Read(ap[l].reg_save_area + ap[l].gp_offset)
        /\ ap' = [ap EXCEPT ![l].gp_offset = @ + 8]
     \/ /\ ap[l].gp_offset = 48
        /\ ret' = Read(ap[l].overflow_arg_area)
        /\ ap' = [ap EXCEPT ![l].overflow_arg_area = @ + 8]
  /\ taken' = [taken EXCEPT ![l] = @ + 1]
  /\ UNCHANGED <<phase, sema, nargs, mem>>

Init ==
  /\ phase = "idle"
  /\ ellipsis = FALSE
  /\ params = 0
  /\ symbols = << >>
  /\ stack_size = 0
  /\ nargs = 0
  /\ mem = << >>
  /\ ap = [l \in Lists |-> [gp_offset |-> 0, overflow_arg_area |-> 0, reg_save_area |-> 0]]
  /\ taken = [l \in Lists |-> NotStarted]
  /\ ret = Garbage

Next ==
  \/ sema_func
  \/ sema_param
  \/ sema_decl
  \/ gen_func
  \/ \E k \in DOMAIN symbols, x \in Values : gen_store_by_offset(k, x)
  \/ \E l \in Lists : gen_va_start(l) \/ gen_va_arg(l)

Spec == Init /\ [][Next]_vars

-----------------------------------------------------------------------------
SaveCells == {0 - SaveArea + 8 * i : i \in 0 .. 5}

Symbol == [size : ParamSizes \cup LocalSizes, offset : Nat]

VaList == [gp_offset : Nat, overflow_arg_area : Nat, reg_save_area : Int]

TypeOK ==
  /\ phase \in {"idle", "params", "locals", "body"}
  /\ ellipsis \in BOOLEAN
  /\ params \in Params \cup {0}
  /\ symbols \in Seq(Symbol)
  /\ stack_size \in Nat
  /\ nargs \in Nat
  /\ DOMAIN mem \subseteq Int
  /\ ap \in [Lists -> VaList]
  /\ taken \in [Lists -> Nat \cup {NotStarted}]

(* No two variables share a cell, none reaches above %rbp or below the     *)
(* bottom of the frame the prologue reserves, and none lies in the area    *)
(* the registers are saved in (sema.c:42-48, 1648, gen.c:1221-1231).       *)
VariablesApart ==
  /\ \A k \in DOMAIN symbols : Storage(k) \subseteq (0 - stack_size) .. -8
  /\ \A j, k \in DOMAIN symbols : j # k => Storage(j) \cap Storage(k) = {}
  /\ ellipsis => \A k \in DOMAIN symbols : Storage(k) \cap SaveCells = {}

(* Whatever the body assigns, leave and ret find the saved %rbp and the    *)
(* return address (gen.c:1260-1266).                                       *)
LinkageKept ==
  phase = "body" => Read(0) = Linkage("rbp") /\ Read(8) = Linkage("return address")

(* A list gives up its registers before it goes to the caller's stack, and *)
(* never points beyond the last argument of the call, so the equality test *)
(* with 48 of gen_va_arg is enough (gen.c:239-280).                        *)
ListsInBounds ==
  \A l \in Lists :
    taken[l] # NotStarted =>
      /\ ap[l].gp_offset <= 48 /\ ap[l].gp_offset % 8 = 0
      /\ ap[l].overflow_arg_area > 16 + overflow_arg_area => ap[l].gp_offset = 48
      /\ ap[l].gp_offset = 48 /\ params + taken[l] < nargs =>
           ap[l].overflow_arg_area \in {16 + (k - 7) * 8 : k \in 7 .. nargs}

Contents ==
  IF phase = "body"
    THEN [k \in 1 .. Len(symbols) |-> {Read(a) : a \in Storage(k)}]
    ELSE << >>

C == INSTANCE CFrame
       WITH store <- Contents,
            named <- IF phase = "body" THEN params ELSE 0,
            next  <- [l \in Lists |-> IF taken[l] = NotStarted THEN 0 ELSE params + taken[l] + 1]

(* The frame and the va_lists do what C says: each variable keeps what was *)
(* last assigned to it, parameters start as their arguments, and the k-th  *)
(* va_arg of a list is the k-th argument after the named ones, on whichever *)
(* side of the border between registers and stack it is.                   *)
RefinesC == C!Spec
=============================================================================
