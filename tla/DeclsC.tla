-------------------------------- MODULE DeclsC --------------------------------
(***************************************************************************)
(* What C11 and the System V ABI say of the declarations.                  *)
(***************************************************************************)
EXTENDS Decls

Least(n, align) == CHOOSE m \in n .. n + align - 1 : m % align = 0

TypesOf(t)    == {types[t.members[k].type] : k \in DOMAIN t.members}
Aligns(t)     == {m.align : m \in TypesOf(t)}
EndOf(member) == member.offset + types[member.type].size

StructLaidOut(t) ==
  /\ t.align = Max(Aligns(t))
  /\ \A k \in DOMAIN t.members :
       t.members[k].offset =
         Least(IF k = 1 THEN 0 ELSE EndOf(t.members[k - 1]), types[t.members[k].type].align)
  /\ t.size = Least(EndOf(t.members[Len(t.members)]), t.align)

ArrayLaidOut(t) == t.size = t.length * types[t.of].size /\ t.align = types[t.of].align

(* The members of a structure stand one after the other, each at the first *)
(* offset of its alignment, and an array of structures keeps them aligned; *)
(* and a type once complete never changes under a variable that has it, so *)
(* that the memory reserved for a variable of a block, and the offsets     *)
(* that have been taken, are those of its type (sema.c type_struct,        *)
(* type_array, put_variable).                                              *)
LaidOut ==
  /\ \A id \in DOMAIN types :
       \A t \in {types[id]} :
         /\ t.ty = "STRUCT" /\ t.complete => StructLaidOut(t)
         /\ t.ty = "ARRAY" /\ t.complete  => ArrayLaidOut(t)
  /\ \A k \in DOMAIN variables :
       \A v \in {variables[k]} :
         /\ ~v.global => v.reserved = types[v.type].size
         /\ v.was.complete => types[v.type] = v.was

(* Two mentions of tags have the same type if and only if C makes them the *)
(* same declaration: those of a block are not seen after it, and a tag     *)
(* that is used before its definition, or in its own, is the one defined   *)
(* (sema.c sema_struct, lookup_tag); but where a tag in sight is declared  *)
(* again in an inner scope, which sema.c takes for the outer one.          *)
TagsC == \A u, v \in uses : u.id = v.id <=> u.c = v.c

-----------------------------------------------------------------------------
(* Elements that .long and .quad are wide enough for, and lists that no    *)
(* check of their length has missed.                                       *)
Wide(v, p)   ==
  \/ v.init[p] = "list"
  \/ (v.init[p] = "string") = (SizeAt(v, p) = 8) /\ SizeAt(v, p) \in {4, 8}
Within(v, p) == v.init[p] = "list" => Cardinality(Items(v.init, p)) <= types[Elements(types, v.type, p)].length

Place(v, p) ==
  LET From[k \in 1 .. Len(p) + 1] ==
        IF k > Len(p) THEN 0 ELSE (p[k] - 1) * SizeAt(v, SubSeq(p, 1, k)) + From[k + 1]
  IN  From[1]

(* The initial value of a variable takes as many bytes as its type, and    *)
(* every item stands where its element is (gen.c gen_init_global and       *)
(* gen_init_local); but for global integers that are not of four bytes,    *)
(* and inner lists that are too long, which only the outermost is checked  *)
(* for.                                                                    *)
InPlace ==
  phase = "done" =>
    \A k \in DOMAIN variables :
      \A v \in {variables[k]}, d \in {data[k]} :
        (\A p \in DOMAIN v.init : Within(v, p) /\ (v.global => Wide(v, p))) =>
          /\ d.total = types[v.type].size
          /\ \A a \in d.at : a.offset = Place(v, a.place) /\ a.size = SizeAt(v, a.place)
=============================================================================
