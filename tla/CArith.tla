-------------------------------- MODULE CArith --------------------------------
(***************************************************************************)
(* Arithmetic as C defines it (C11 6.3 and 6.5) on integers of small       *)
(* widths, and on pointers as unsigned integers.  A value is a number, not *)
(* a pattern of bits; what C leaves undefined has no value.                *)
(***************************************************************************)
EXTENDS Integers, FiniteSets, Sequences

CONSTANTS Byte, Word, Long, Quad   \* the widths of char, short, int, and of long and pointers

ASSUME WidthsAssumption ==
  /\ {Byte, Word, Long, Quad} \subseteq Nat
  /\ 1 < Byte /\ Byte < Word /\ Word < Long /\ Long < Quad

SignedTypes   == {"CHAR", "SHORT", "INT", "LONG"}
UnsignedTypes == {"BOOL", "UCHAR", "USHORT", "UINT", "ULONG", "POINTER"}
IntegerTypes  == (SignedTypes \cup UnsignedTypes) \ {"POINTER"}
Types         == SignedTypes \cup UnsignedTypes

Width(type) ==
  CASE type = "BOOL"                         -> 1
    [] type \in {"CHAR", "UCHAR"}            -> Byte
    [] type \in {"SHORT", "USHORT"}          -> Word
    [] type \in {"INT", "UINT"}              -> Long
    [] type \in {"LONG", "ULONG", "POINTER"} -> Quad

CRange(type) ==
  IF type \in SignedTypes THEN -(2 ^ (Width(type) - 1)) .. 2 ^ (Width(type) - 1) - 1
  ELSE 0 .. 2 ^ Width(type) - 1

(* The number that some bits stand for. *)
AsType(type, bits) ==
  LET low == bits % 2 ^ Width(type)
  IN  IF type \in SignedTypes /\ low >= 2 ^ (Width(type) - 1) THEN low - 2 ^ Width(type) ELSE low

CConvert(type, v) ==
  CASE type = "BOOL" -> IF v = 0 THEN 0 ELSE 1
    [] type # "BOOL" -> AsType(type, v % 2 ^ Quad)

CPromote(type) == IF type \in {"BOOL", "CHAR", "UCHAR", "SHORT", "USHORT"} THEN "INT" ELSE type

(* The usual arithmetic conversions: of two promoted types with the same   *)
(* sign the wider, or else the unsigned one unless the other can represent *)
(* all of its values.                                                      *)
CCommon(s, t) ==
  CASE (s \in SignedTypes) = (t \in SignedTypes)     -> IF Width(s) >= Width(t) THEN s ELSE t
    [] s \in SignedTypes /\ t \notin SignedTypes     -> IF CRange(t) \subseteq CRange(s) THEN s ELSE t
    [] s \notin SignedTypes /\ t \in SignedTypes     -> IF CRange(s) \subseteq CRange(t) THEN t ELSE s

-----------------------------------------------------------------------------
Abs(n)        == IF n < 0 THEN -n ELSE n
Quotient(a, b) == IF (a < 0) = (b < 0) THEN Abs(a) \div Abs(b) ELSE -(Abs(a) \div Abs(b))

BitAt(n, i) == (n \div 2 ^ i) % 2

Bitwise(op, a, b) ==
  LET Sum[i \in 0 .. Quad] ==
        IF i = 0 THEN 0
        ELSE Sum[i - 1] + (CASE op = "AND" -> BitAt(a, i - 1) * BitAt(b, i - 1)
                             [] op = "OR"  -> (BitAt(a, i - 1) + BitAt(b, i - 1) + 1) \div 2
                             [] op = "XOR" -> (BitAt(a, i - 1) + BitAt(b, i - 1)) % 2) * 2 ^ (i - 1)
  IN  Sum[Quad]

(* Of a type, the set of what a result is: nothing when it overflows.      *)
Fits(type, v) == IF type \in SignedTypes
                   THEN IF v \in CRange(type) THEN {[type |-> type, value |-> v]} ELSE {}
                   ELSE {[type |-> type, value |-> v % 2 ^ Width(type)]}

IntOf(test) == {[type |-> "INT", value |-> IF test THEN 1 ELSE 0]}

COf(op, type, a, b) ==
  CASE op = "MUL" -> Fits(type, a * b)
    [] op = "DIV" -> IF b = 0 THEN {} ELSE Fits(type, Quotient(a, b))
    [] op = "MOD" -> IF b = 0 \/ Fits(type, Quotient(a, b)) = {} THEN {} ELSE Fits(type, a - b * Quotient(a, b))
    [] op = "ADD" -> Fits(type, a + b)
    [] op = "SUB" -> Fits(type, a - b)
    [] op = "LT"  -> IntOf(a < b)
    [] op = "GT"  -> IntOf(a > b)
    [] op = "LTE" -> IntOf(a <= b)
    [] op = "GTE" -> IntOf(a >= b)
    [] op = "EQ"  -> IntOf(a = b)
    [] op = "NEQ" -> IntOf(a # b)
    [] op \in {"AND", "OR", "XOR"} -> {[type |-> type, value |-> AsType(type, Bitwise(op, a % 2 ^ Quad, b % 2 ^ Quad))]}

CShift(op, type, a, n) ==
  CASE n \notin 0 .. Width(type) - 1                     -> {}
    [] n \in 0 .. Width(type) - 1 /\ op = "LSHIFT"       -> IF a < 0 THEN {} ELSE Fits(type, a * 2 ^ n)
    [] n \in 0 .. Width(type) - 1 /\ op = "RSHIFT"       -> {[type |-> type, value |-> a \div 2 ^ n]}

Size == 2   \* of what a pointer points to

(* Binary operators on two values; pointers are added to and compared.     *)
CBinary(op, l, r) ==
  CASE op \in {"LAND", "LOR"} ->
         IntOf(IF op = "LAND" THEN l.value # 0 /\ r.value # 0 ELSE l.value # 0 \/ r.value # 0)
    [] op \in {"LSHIFT", "RSHIFT"} -> CShift(op, CPromote(l.type), l.value, r.value)
    [] l.type = "POINTER" /\ r.type # "POINTER" ->
         IF l.value + Size * r.value * (IF op = "SUB" THEN -1 ELSE 1) \in CRange("POINTER")
           THEN Fits("POINTER", l.value + Size * r.value * (IF op = "SUB" THEN -1 ELSE 1)) ELSE {}
    [] l.type # "POINTER" /\ r.type = "POINTER" ->
         IF r.value + Size * l.value \in CRange("POINTER") THEN Fits("POINTER", r.value + Size * l.value) ELSE {}
    [] l.type = "POINTER" /\ r.type = "POINTER" -> COf(op, "POINTER", l.value, r.value)
    [] OTHER ->
         LET type == CCommon(CPromote(l.type), CPromote(r.type))
         IN  COf(op, type, CConvert(type, l.value), CConvert(type, r.value))

CUnary(op, o) ==
  CASE op = "LNOT"   -> IntOf(o.value = 0)
    [] op = "UPLUS"  -> Fits(CPromote(o.type), o.value)
    [] op = "UMINUS" -> Fits(CPromote(o.type), -o.value)
    [] op = "NOT"    -> Fits(CPromote(o.type), -o.value - 1)

CCast(type, o) == {[type |-> type, value |-> CConvert(type, o.value)]}

CCondition(c, l, r) ==
  IF l.type = "POINTER" /\ r.type = "POINTER" THEN {IF c.value # 0 THEN l ELSE r}
  ELSE CCast(CCommon(CPromote(l.type), CPromote(r.type)), IF c.value # 0 THEN l ELSE r)

(* The constraints: the operators whose operands may have these types, an  *)
(* operand being also a null pointer constant.                             *)
CAllowsBinary(op, l, r) ==
  \/ op \in {"LAND", "LOR"}
  \/ l.type # "POINTER" /\ r.type # "POINTER"
  \/ op = "ADD" /\ (l.type # "POINTER" \/ r.type # "POINTER")
  \/ op = "SUB" /\ l.type = "POINTER"
  \/ op \in {"LT", "GT", "LTE", "GTE", "EQ", "NEQ"} /\ l.type = "POINTER" /\ r.type = "POINTER"
  \/ op \in {"EQ", "NEQ"} /\ (l.null \/ r.null)

CAllowsUnary(op, o)   == op = "LNOT" \/ o.type # "POINTER"
CAllowsAssign(type, o) == type = "BOOL" \/ (type = "POINTER") = (o.type = "POINTER") \/ (type = "POINTER" /\ o.null)
CAllowsCondition(l, r) == (l.type = "POINTER") = (r.type = "POINTER") \/ l.null \/ r.null

(* An integer constant has the first type of a list that represents it. *)
CConstant(value, decimal, unsigned, long) ==
  LET all   == <<"INT", "UINT", "LONG", "ULONG">>
      taken == {t \in 1 .. 4 : /\ unsigned => all[t] \in UnsignedTypes
                               /\ (decimal /\ ~unsigned) => all[t] \in SignedTypes
                               /\ long => t > 2
                               /\ value \in CRange(all[t])}
  IN  {[type |-> all[t], value |-> value] : t \in {t \in taken : \A u \in taken : t <= u}}
=============================================================================
