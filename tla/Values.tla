-------------------------------- MODULE Values --------------------------------
(***************************************************************************)
(* Expressions: the type sema.c gives to each and what the code of gen.c   *)
(* leaves of it in the 64 bits it pushes.                                  *)
(*                                                                         *)
(* Both go from the operands to the whole.  The state holds operands that  *)
(* have been evaluated (GenStack shows that they are where the code looks  *)
(* for them), and an action is an operator: it checks and converts the     *)
(* types of its operands as sema_... does, and computes as the             *)
(* instructions of gen_... do.  An expression of any size is joined with a *)
(* variable or a constant, on either side.                                 *)
(*                                                                         *)
(* An operand has its type, all of the register, and what sema asks of its *)
(* node: whether it is an lvalue, whether the integer constant 0.  "known" *)
(* names a known difference to C, or is "invalid" for an error of sema.c;  *)
(* such an expression is not continued.  With each operand stands its      *)
(* value in C (CArith), or NoValue when C does not allow the expression;   *)
(* expressions that C leaves undefined are not written.                    *)
(***************************************************************************)
EXTENDS CArith

VARIABLE operands   \* of [o |-> an operand, c |-> its value in C]

Operand(type, rax, lvalue, null, known) ==
  [type |-> type, rax |-> rax, lvalue |-> lvalue, null |-> null, known |-> known]

Refused(o, why) == [o EXCEPT !.known = why]

First(a, b) == IF a # "" THEN a ELSE b

-----------------------------------------------------------------------------
(* Registers *)

(* Bits of a register that a type is moved, loaded and stored with. *)
Moved(type) == IF type = "BOOL" THEN Byte ELSE Width(type)

Low(rax, width) == rax % 2 ^ width

(* %al and %ax are written alone, %eax clears what is above it. *)
Written(rax, value, width) ==
  IF width < Long THEN rax - Low(rax, width) + Low(value, width) ELSE Low(value, width)

(* The number in the part of the register that belongs to a type. *)
Meaning(type, rax) == IF type = "BOOL" THEN Low(rax, Byte) ELSE AsType(type, rax)

(* gen_load: the register holds the address before. *)
gen_load(type, address, bits) == Written(address, bits, Moved(type))

Addresses == {0, 2 ^ Quad - 1}

-----------------------------------------------------------------------------
(* Types *)
Narrow       == {"BOOL", "CHAR", "UCHAR", "SHORT", "USHORT"}
Shorts       == {"SHORT", "USHORT"}
Ints         == {"INT", "UINT"}
Longs        == {"LONG", "ULONG"}
Integer(o)   == o.type \in IntegerTypes
Pointer(o)   == o.type = "POINTER"

Rank(type) ==
  CHOOSE k \in 1 .. 10 :
    <<"BOOL", "CHAR", "UCHAR", "SHORT", "USHORT", "INT", "UINT", "LONG", "ULONG", "POINTER">>[k] = type

check_cast(type, o) ==
  \/ type # "POINTER" /\ Integer(o)
  \/ type = "POINTER" /\ (Pointer(o) \/ o.null \/ o.type \in Longs)
  \/ type \in Longs /\ Pointer(o)

(* Variant: a char is moved as an unsigned char to a long. *)
gen_cast_Movzb(to, from, rax) ==
  CASE to = "BOOL" /\ from \in (Narrow \ {"BOOL"}) \cup Ints ->
         Written(rax, IF Meaning(from, rax) = 0 THEN 0 ELSE 1, Byte)
    [] to \in Shorts /\ from \in {"BOOL", "CHAR", "UCHAR"}  -> Written(rax, Meaning(from, rax), Word)
    [] to \in Ints /\ from \in Narrow                       -> Written(rax, Meaning(from, rax), Long)
    [] to \in Longs /\ from \in {"BOOL", "CHAR", "UCHAR", "USHORT"} -> Written(rax, Low(rax, Moved(from)), Long)
    [] to \in Longs /\ from \in {"SHORT", "INT"}            -> Written(rax, Meaning(from, rax), Quad)
    [] OTHER                                                -> rax

gen_cast(to, from, rax) ==
  CASE to = "BOOL" /\ from \in (Narrow \ {"BOOL"}) \cup Ints ->
         Written(rax, IF Meaning(from, rax) = 0 THEN 0 ELSE 1, Byte)
    [] to \in Shorts /\ from \in {"BOOL", "CHAR", "UCHAR"}  -> Written(rax, Meaning(from, rax), Word)
    [] to \in Ints /\ from \in Narrow                       -> Written(rax, Meaning(from, rax), Long)
    [] to \in Longs /\ from \in {"BOOL", "UCHAR", "USHORT"} -> Written(rax, Meaning(from, rax), Long)
    [] to \in Longs /\ from \in {"CHAR", "SHORT", "INT"}    -> Written(rax, Meaning(from, rax), Quad)
    [] OTHER                                                -> rax

(* Where a cast is known to differ from C: a long is not compared to 0 on  *)
(* its way to _Bool; an unsigned int is widened by no instruction,         *)
(* whatever is above it; and the line of movzbw has no new-line.           *)
KnownCast(to, o) ==
  CASE to = "BOOL" /\ o.type \in Longs /\ Low(o.rax, Byte) # (IF o.rax = 0 THEN 0 ELSE 1) -> "long to _Bool"
    [] to \in Longs /\ o.type = "UINT" /\ o.rax >= 2 ^ Long                               -> "above an int"
    [] to \in Shorts /\ o.type = "UCHAR"                                                  -> "movzbw"
    [] OTHER                                                                              -> ""

Cast(to, o) == Operand(to, gen_cast(to, o.type, o.rax), FALSE, FALSE, First(o.known, KnownCast(to, o)))

insert_cast(to, o) == IF check_cast(to, o) THEN Cast(to, o) ELSE [o EXCEPT !.known = "invalid"]

promote_integer(o) == IF o.type \in Narrow THEN Cast("INT", o) ELSE o

convert_arithmetic(l, r) ==
  LET pl == promote_integer(l)
      pr == promote_integer(r)
      type == IF Rank(pl.type) > Rank(pr.type) THEN pl.type ELSE pr.type
  IN  <<Cast(type, pl), Cast(type, pr)>>

-----------------------------------------------------------------------------
(* Binary operators on two operands of one type. *)
Flag(test) == IF test THEN 1 ELSE 0

SignedOf(type) == IF Width(type) = Long THEN "INT" ELSE "LONG"

Computed(op, type, rax, rcx) ==
  LET a == Meaning(type, rax)
      b == Meaning(type, rcx)
      To(v) == Written(rax, v, Moved(type))
  IN  CASE op = "MUL"    -> To(a * b)
        [] op = "DIV"    -> To(Quotient(a, b))
        [] op = "MOD"    -> To(a - b * Quotient(a, b))
        [] op = "ADD"    -> To(a + b)
        [] op = "SUB"    -> To(a - b)
        [] op = "LSHIFT" -> To(a * 2 ^ b)
        [] op = "RSHIFT" -> To(Meaning(SignedOf(type), rax) \div 2 ^ b)
        [] op = "LT"     -> Flag(a < b)
        [] op = "LTE"    -> Flag(a <= b)
        [] op = "GT"     -> Flag(b < a)
        [] op = "GTE"    -> Flag(b <= a)
        [] op = "EQ"     -> Flag(a = b)
        [] op = "NEQ"    -> Flag(a # b)
        [] OTHER         -> To(Bitwise(op, Low(rax, Moved(type)), Low(rcx, Moved(type))))

Comparisons == {"LT", "LTE", "GT", "GTE", "EQ", "NEQ"}
Shifts      == {"LSHIFT", "RSHIFT"}
Bits        == {"AND", "OR", "XOR"}
Arithmetic  == {"MUL", "DIV", "MOD", "ADD", "SUB"} \cup Shifts \cup Bits

TypeOf(op, type) == IF op \in Comparisons THEN "INT" ELSE type

(* sal and sar alone shift, and the type of the right operand counts. *)
KnownBinary(op, l, a, type) ==
  CASE op \in Shifts /\ type # promote_integer(l).type                       -> "type of a shift"
    [] op = "RSHIFT" /\ type = promote_integer(l).type /\ type \in UnsignedTypes
         /\ Meaning(SignedOf(type), a.rax) < 0                               -> "sar"
    [] OTHER                                                                 -> ""

OnNumbers(op, l, r) ==
  LET cast == convert_arithmetic(l, r)
      type == cast[1].type
      known == First(cast[1].known, cast[2].known)
  IN  IF known # "" THEN Refused(l, known)
      ELSE Operand(TypeOf(op, type), Computed(op, type, cast[1].rax, cast[2].rax), FALSE, FALSE,
                   KnownBinary(op, l, cast[1], type))

(* pointer + integer: all of the register is multiplied by the size, and   *)
(* an int is promoted only to int.                                         *)
OnPointer(op, pointer, index) ==
  LET i     == promote_integer(index)
      bytes == i.rax * Size
  IN  Operand("POINTER", Low(IF op = "ADD" THEN pointer.rax + bytes ELSE pointer.rax - bytes, Quad), FALSE, FALSE,
              First(i.known, IF i.type \in Ints /\ i.rax # Meaning(i.type, i.rax) THEN "index" ELSE ""))

(* Tests compare all of the register to 0. *)
KnownTest(o) == First(o.known, IF o.type \in Ints /\ o.rax # 0 /\ Low(o.rax, Long) = 0 THEN "above an int" ELSE "")

Tested(op, l, r) ==
  Operand("INT", IF op = "LAND" THEN Flag(l.rax # 0 /\ r.rax # 0) ELSE Flag(l.rax # 0 \/ r.rax # 0), FALSE, FALSE,
          First(KnownTest(l), KnownTest(r)))

(* The subtraction of two pointers and the comparison with a null pointer  *)
(* constant are not implemented.                                           *)
Binary(op, l, r) ==
  CASE op \in {"LAND", "LOR"}                               -> Tested(op, promote_integer(l), promote_integer(r))
    [] op \in Arithmetic \cup Comparisons /\ Integer(l) /\ Integer(r) -> OnNumbers(op, l, r)
    [] op \in {"ADD", "SUB"} /\ Pointer(l) /\ Integer(r)    -> OnPointer(op, l, r)
    [] op = "ADD" /\ Integer(l) /\ Pointer(r)               -> OnPointer(op, r, l)
    [] op \in Comparisons /\ Pointer(l) /\ Pointer(r)       ->
         Operand("INT", Computed(op, "POINTER", l.rax, r.rax), FALSE, FALSE, "")
    [] op = "SUB" /\ Pointer(l) /\ Pointer(r)               -> Refused(l, "difference of pointers")
    [] op \in {"EQ", "NEQ"} /\ Pointer(l) /\ r.null         -> Refused(l, "null pointer")
    [] op \in {"EQ", "NEQ"} /\ l.null /\ Pointer(r)         -> Refused(l, "null pointer")
    [] OTHER                                                -> Refused(l, "invalid")

(* -x and ~x of an int write %eax, of a long %rax.  +x is x. *)
Unary(op, o) ==
  LET p    == promote_integer(o)
      v    == Meaning(p.type, p.rax)
      As(x) == Operand(p.type, Written(p.rax, x, Moved(p.type)), FALSE, FALSE, p.known)
  IN  CASE op = "LNOT"                    -> Operand("INT", Flag(p.rax = 0), FALSE, FALSE, KnownTest(p))
        [] op = "UPLUS" /\ Integer(o)     -> p
        [] op = "UMINUS" /\ Integer(o)    -> As(-v)
        [] op = "NOT" /\ Integer(o)       -> As(-v - 1)
        [] op # "LNOT" /\ ~Integer(o)     -> Refused(o, "invalid")

Condition(cond, l, r) ==
  LET c == promote_integer(cond)
      Chosen(x, y) == Operand(x.type, IF c.rax # 0 THEN x.rax ELSE y.rax, FALSE, FALSE,
                              First(KnownTest(c), First(x.known, y.known)))
  IN  CASE Integer(l) /\ Integer(r)                  -> LET cast == convert_arithmetic(l, r)
                                                        IN  Chosen(cast[1], cast[2])
        [] Pointer(l) /\ Pointer(r)                  -> Chosen(l, r)
        [] Pointer(l) # Pointer(r) /\ (l.null \/ r.null) -> Refused(l, "null pointer")
        [] OTHER                                     -> Refused(l, "invalid")

(* Assignment, arguments, initialisers and return convert by insert_cast,  *)
(* which takes a long for a pointer and a pointer for a long, and no       *)
(* pointer for a _Bool.                                                    *)
Assigned(type, o) ==
  LET cast == insert_cast(type, o)
  IN  CASE cast.known = "invalid" /\ type = "BOOL"                          -> Refused(o, "pointer to _Bool")
        [] cast.known = "" /\ Pointer(o) # (type = "POINTER") /\ ~o.null    -> Refused(o, "no cast")
        [] OTHER                                                           -> cast

(* sema_integer: the first type that takes the constant. *)
sema_integer(value, decimal, unsigned, long) ==
  LET takes == << value < 2 ^ (Long - 1) /\ ~unsigned /\ ~long,
                  value < 2 ^ Long /\ (unsigned \/ ~decimal) /\ ~long,
                  value < 2 ^ (Quad - 1) /\ ~unsigned,
                  unsigned \/ ~decimal >>
  IN  {<<"INT", "UINT", "LONG", "ULONG">>[k] : k \in {k \in 1 .. 4 : takes[k] /\ \A j \in 1 .. k - 1 : ~takes[j]}}

(* The immediate of a movq is that of an int, sign-extended (as_lex.c).    *)
gen_integer(type, value) ==
  LET long == value >= 2 ^ (Long - 1)
  IN  Operand(type, IF type \in Longs THEN Low(AsType("INT", value), Quad) ELSE value, FALSE, value = 0,
              IF type \in Longs /\ long THEN "immediate" ELSE "")

-----------------------------------------------------------------------------
NoValue == [type |-> "none", value |-> 0]

If(allowed, values) == IF allowed THEN values ELSE {NoValue}

Continued(n) == Len(operands) = n /\ \A k \in DOMAIN operands : operands[k].o.known = ""

One == Continued(1)
Two == Continued(2)

(* An operand and its value in C take the place of all.  Of one that is    *)
(* not continued only what it is known for is kept.                        *)
Kept(x) ==
  IF x.o.known = "" THEN x
  ELSE [o |-> Operand("INT", 0, FALSE, FALSE, x.o.known),
        c |-> IF x.c = NoValue THEN NoValue ELSE [type |-> "INT", value |-> 0]]

Becomes(o, c) == operands' = <<Kept([o |-> o, c |-> c])>>

(* A variable or constant, the first or the second operand: the second is  *)
(* next to the bounds of its type.                                         *)
Joins(o, c, corner) ==
  /\ Continued(0) \/ (One /\ corner)
  /\ operands' = Append(operands, Kept([o |-> o, c |-> c]))

Corner(bits, width) == bits \in {0, 1, 2 ^ (width - 1), 2 ^ width - 1}

Variables == [type : Types, bits : 0 .. 2 ^ Quad - 1]

(* A variable holds a value of its type. *)
Held(v) == v.bits < 2 ^ Width(v.type)

identifier ==
  \E v \in Variables, address \in Addresses :
    /\ Held(v)
    /\ Joins(Operand(v.type, gen_load(v.type, address, v.bits), TRUE, FALSE, ""),
             [type |-> v.type, value |-> AsType(v.type, v.bits)], Corner(v.bits, Width(v.type)))

integer ==
  \E value \in 0 .. 2 ^ Quad - 1, decimal, unsigned, long \in BOOLEAN :
    \E type \in sema_integer(value, decimal, unsigned, long), c \in If(CConstant(value, decimal, unsigned, long) # {}, CConstant(value, decimal, unsigned, long)) :
      Joins(gen_integer(type, value), c, value \in {0, 2})

(* The two operands in either order. *)
Both == {<<1, 2>>, <<2, 1>>}

(* The size becomes a constant without a suffix, an int. *)
sizeof ==
  /\ operands = << >>
  /\ \E size \in 1 .. 2, type \in sema_integer(1, FALSE, FALSE, FALSE) :
       Becomes([gen_integer(type, size) EXCEPT !.known = "type of sizeof"], [type |-> "ULONG", value |-> size])

unary ==
  /\ One
  /\ \E op \in {"UPLUS", "UMINUS", "NOT", "LNOT"}, x \in {operands[1]} :
       \E c \in If(CAllowsUnary(op, x.o), CUnary(op, x.c)) : Becomes(Unary(op, x.o), c)

binary ==
  /\ Two
  /\ \E op \in Arithmetic \cup Comparisons \cup {"LAND", "LOR"}, order \in Both : \E x \in {operands[order[1]]}, y \in {operands[order[2]]} :
       \E c \in If(CAllowsBinary(op, x.o, y.o), CBinary(op, x.c, y.c)) : Becomes(Binary(op, x.o, y.o), c)

(* The third operand is a variable. *)
condition ==
  /\ Two
  /\ \E type \in {"CHAR", "UINT", "LONG", "POINTER"}, order \in Both : \E x \in {operands[order[1]]}, y \in {operands[order[2]]} :
       \E c \in If(CAllowsCondition(y.o, [type |-> type, null |-> FALSE]),
                   CCondition(x.c, y.c, [type |-> type, value |-> 1])) :
         Becomes(Condition(x.o, y.o, Operand(type, 1, FALSE, FALSE, "")), c)

comma == Two /\ \E y \in {operands[1], operands[2]} : Becomes([y.o EXCEPT !.lvalue = FALSE, !.null = FALSE], y.c)

(* check_cast takes no pointer to or from an integer but a long. *)
cast ==
  /\ One
  /\ \E type \in Types, x \in {operands[1]} :
       \E c \in CCast(type, x.c) :
         Becomes(IF check_cast(type, x.o) THEN Cast(type, x.o)
                    ELSE Refused(x.o, IF Pointer(x.o) # (type = "POINTER") THEN "cast of a pointer" ELSE "invalid"), c)

(* The value of an assignment or of a call, and that of a variable, an     *)
(* element or a parameter which it was stored to; an argument is promoted  *)
(* first.                                                                  *)
assign ==
  /\ One
  /\ \E type \in Types, x \in {operands[1]} :
       \E c \in If(CAllowsAssign(type, x.o), CCast(type, x.c)) : Becomes(Assigned(type, x.o), c)

stored ==
  /\ One
  /\ \E type \in Types, x \in {operands[1]}, argument \in BOOLEAN, address \in Addresses :
       \E c \in If(CAllowsAssign(type, x.o), CCast(type, x.c)),
          o \in {Assigned(type, IF argument THEN promote_integer(x.o) ELSE x.o)} :
         Becomes([o EXCEPT !.rax = gen_load(type, address, o.rax), !.lvalue = TRUE], c)

(* comp_assign_pre: lhs = lhs op rhs.                                      *)
CCompound(op, x, y) ==
  If(CAllowsBinary(op, x.o, y.o) /\ (Pointer(x.o) => op \in {"ADD", "SUB"} /\ ~Pointer(y.o)) /\ (Pointer(y.o) => Pointer(x.o)),
     UNION {CCast(x.c.type, c) : c \in CBinary(op, x.c, y.c)})

Compound(op, l, r) == IF l.lvalue THEN Assigned(l.type, Binary(op, l, r)) ELSE Refused(l, "invalid")

compound_assign ==
  /\ Two
  /\ \E op \in {"MUL", "DIV", "MOD", "ADD", "SUB"}, order \in Both : \E x \in {operands[order[1]]}, y \in {operands[order[2]]} :
       \E c \in If(x.o.lvalue, CCompound(op, x, y)) : Becomes(Compound(op, x.o, y.o), c)

Constant1 == [o |-> gen_integer("INT", 1), c |-> [type |-> "INT", value |-> 1]]

pre_inc_dec ==
  /\ One
  /\ \E op \in {"ADD", "SUB"}, x \in {operands[1]} :
       \E c \in If(x.o.lvalue, CCompound(op, x, Constant1)) : Becomes(Compound(op, x.o, Constant1.o), c)

(* comp_assign_post: the value was stored to a variable of its own.        *)
post_inc_dec ==
  /\ One
  /\ \E op \in {"ADD", "SUB"}, x \in {operands[1]}, address \in Addresses :
       /\ CCompound(op, x, Constant1) # {}
       /\ \E after \in {Compound(op, x.o, Constant1.o)} :
            IF after.known = "invalid" THEN Becomes(after, NoValue)
            ELSE Becomes(Operand(x.o.type, gen_load(x.o.type, address, x.o.rax), FALSE, FALSE, ""), x.c)

-----------------------------------------------------------------------------
Init == operands = << >>

Next == \/ identifier \/ integer \/ sizeof \/ unary \/ binary \/ condition \/ comma \/ cast
        \/ assign \/ stored \/ compound_assign \/ pre_inc_dec \/ post_inc_dec

Spec == Init /\ [][Next]_operands

-----------------------------------------------------------------------------
(* Every expression has the type that C gives it, and the part of the      *)
(* register that belongs to the type holds the value of C, whatever is     *)
(* above it and however the expression was built; but for the differences  *)
(* that "known" names.  And only what C does not allow is an error.        *)
ValuesC ==
  \A k \in DOMAIN operands :
    \A o \in {operands[k].o}, c \in {operands[k].c} :
      CASE o.known = ""        -> o.type = c.type /\ Meaning(o.type, o.rax) = c.value
        [] o.known = "invalid" -> c = NoValue
        [] OTHER               -> TRUE
=============================================================================
