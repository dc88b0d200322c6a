-------------------------------- MODULE Decls ---------------------------------
(***************************************************************************)
(* Declarations: the objects of struct type that sema.c makes for types,   *)
(* how it finds them by tag, typedef name and declarator, how much memory  *)
(* they give a variable, and where gen.c puts its initial value.           *)
(*                                                                         *)
(* types is the heap: a type is its index there, and may be completed, or  *)
(* changed, after others have come to point to it.  What C says of the     *)
(* same declarations is kept beside it: ctags says which declaration of a  *)
(* tag each scope sees, uses which type each mention of one was given.     *)
(***************************************************************************)
EXTENDS Integers, Sequences, FiniteSets, FiniteSetsExt

CONSTANT Inputs   \* the declarations to choose from, how many are left to make, and how deep scopes go

VARIABLES input,
          phase,       \* "sema", "done", "error", "crash"; or a known difference to C
          types,
          tag_scopes,  \* of sema.c: sequence of functions from tags to types
          typedefs,    \* the types that have been given a name, and how deep
          variables,
          data,        \* of each variable, what is printed or stored for its initialiser
          ctags, uses

vars == <<input, phase, types, tag_scopes, typedefs, variables, data, ctags, uses>>

Type(ty, size, align, complete, of, length, members) ==
  [ty |-> ty, size |-> size, align |-> align, complete |-> complete, of |-> of, length |-> length,
   members |-> members]

Basic(size) == Type("BASIC", size, size, TRUE, 0, 0, << >>)

(* type_char, type_short, type_int and type_long: the first of the heap. *)
Basics == <<Basic(1), Basic(2), Basic(4), Basic(8)>>

-----------------------------------------------------------------------------
(* Tags.  A scope is a function from the tags declared in it; 0 for a tag  *)
(* that is in none.                                                        *)
Seen(scopes, tag) ==
  LET in == {k \in DOMAIN scopes : tag \in DOMAIN scopes[k]}
  IN  IF in = {} THEN 0 ELSE scopes[CHOOSE k \in in : \A j \in in : j <= k][tag]

lookup_tag(scopes, tag) == Seen(scopes, tag)

Put(scopes, tag, what) ==
  LET last == scopes[Len(scopes)]
      Added == [t \in DOMAIN last \cup {tag} |-> IF t = tag THEN what ELSE last[t]]
  IN  [scopes EXCEPT ![Len(scopes)] = Added]

-----------------------------------------------------------------------------
(* Types.  e is what a declaration has come to: the heap, the scopes, the  *)
(* type, and how it went: "sema" for well.                                 *)
New(e, type) == [e EXCEPT !.types = Append(@, type), !.id = Len(e.types) + 1]

type_pointer(e)          == New(e, Type("POINTER", 8, 8, TRUE, e.id, 0, << >>))
type_array_incomplete(e) == New(e, Type("ARRAY", 0, e.types[e.id].align, FALSE, e.id, 0, << >>))

type_array(e, id, length) ==
  LET of == e.types[e.types[id].of]
  IN  [e EXCEPT !.types[id] = Type("ARRAY", of.size * length, of.align, TRUE, @.of, length, << >>)]

(* A declarator is a sequence of -1 for a "*" and of lengths, 0 for one    *)
(* that is not given.                                                      *)
Array(e, length) == IF length = 0 THEN e ELSE type_array(e, e.id, length)

sema_declarator(e, declarator) ==
  LET Applied[k \in 0 .. Len(declarator)] ==
        IF k = 0 THEN e
        ELSE IF declarator[k] = -1 THEN type_pointer(Applied[k - 1])
        ELSE Array(type_array_incomplete(Applied[k - 1]), declarator[k])
  IN  Applied[Len(declarator)]

Padded(size, align) == IF size % align = 0 THEN size ELSE (size \div align) * align + align

(* Variant: no padding at the end. *)
Whole_Unpadded(size, align) == size

Whole(size, align) == Padded(size, align)

Placed(before, type, m, offset) ==
  [size  |-> offset + m.size,
   align |-> IF before.align < m.align THEN m.align ELSE before.align,
   at    |-> Append(before.at, [type |-> type, offset |-> offset])]

Struct(e, id, s) ==
  [e EXCEPT !.types[id] = Type(@.ty, Whole(s.size, s.align), s.align, TRUE, @.of, 0, s.at), !.id = id]

(* Without a member the size is divided by an alignment of 0. *)
type_struct(e, id, members) ==
  LET Layout[k \in 0 .. Len(members)] ==
        IF k = 0 THEN [size |-> 0, align |-> 0, at |-> << >>]
        ELSE Placed(Layout[k - 1], members[k], e.types[members[k]],
                    Padded(Layout[k - 1].size, e.types[members[k]].align))
  IN  IF members = << >> THEN [e EXCEPT !.how = "crash"] ELSE Struct(e, id, Layout[Len(members)])

Incomplete == Type("STRUCT", 0, 1, FALSE, 0, 0, << >>)

(* What C makes of a mention of a tag: the innermost declaration of it, or *)
(* a new one; of a definition, the one of this scope.                      *)
Used(e, c) == [e EXCEPT !.uses = @ \cup {[id |-> e.id, c |-> c]}]

CNew(e, tag) == [Used(e, e.next) EXCEPT !.ctags = Put(@, tag, e.next), !.next = @ + 1]

CMention(e, tag, seen) == IF seen # 0 THEN Used(e, seen) ELSE CNew(e, tag)

CDefined(e, tag, here) == IF tag \in DOMAIN here THEN Used(e, here[tag]) ELSE CNew(e, tag)

Here(scopes) == scopes[Len(scopes)]

(* sema_struct without members: the tag that is found, whatever it is of.  *)
(* C has a tag stand for one kind only.                                    *)
PutNew(n, tag) == [n EXCEPT !.tags = Put(@, tag, n.id)]

Found(e, tag, type) == IF type # 0 THEN [e EXCEPT !.id = type] ELSE PutNew(New(e, Incomplete), tag)

KindOf(e, ty) == IF e.types[e.id].ty = ty THEN e ELSE [e EXCEPT !.how = "kind of a tag"]

struct_mention(e, tag) ==
  KindOf(CMention(Found(e, tag, lookup_tag(e.tags, tag)), tag, Seen(e.ctags, tag)), "STRUCT")

(* sema_struct with members: the tag may be that of an outer scope, whose  *)
(* type is completed, or changed.                                          *)
OfMember(e, m) ==
  sema_declarator(IF m.tag = "" THEN [e EXCEPT !.id = m.basic] ELSE struct_mention(e, m.tag), m.declarator)

WithMember(ids, m) ==
  [e   |-> IF m.how = "sema" /\ ~m.types[m.id].complete THEN [m EXCEPT !.how = "error"] ELSE m,
   ids |-> Append(ids, m.id)]

Members(e, list) ==
  LET After[k \in 0 .. Len(list)] ==
        IF k = 0 THEN [e |-> e, ids |-> << >>]
        ELSE IF After[k - 1].e.how # "sema" THEN After[k - 1]
        ELSE WithMember(After[k - 1].ids, OfMember(After[k - 1].e, list[k]))
  IN  After[Len(list)]

(* What sema_struct makes of a tag that is already known. *)
Redefined(e, tag) ==
  CASE e.types[e.id].ty # "STRUCT" -> "kind of a tag"
    [] e.types[e.id].ty = "STRUCT" /\ tag \in DOMAIN Here(e.ctags) ->
         IF e.types[e.id].complete THEN "redefinition" ELSE "sema"
    [] e.types[e.id].ty = "STRUCT" /\ tag \notin DOMAIN Here(e.ctags) ->
         IF Seen(e.ctags, tag) # 0 THEN "tag of an outer scope" ELSE "sema"

Completed(id, m) == IF m.e.how # "sema" THEN m.e ELSE type_struct(m.e, id, m.ids)

Tagged(e, tag, how, list) ==
  IF how # "sema" THEN [e EXCEPT !.how = how]
  ELSE Completed(e.id, Members(CDefined(e, tag, Here(e.ctags)), list))

Defined(e, tag, list) == Tagged(e, tag, Redefined(e, tag), list)

Untagged(e, list) == Completed(e.id, Members(e, list))

struct_definition(e, tag, list) ==
  IF tag = "" THEN Untagged(New(e, Incomplete), list) ELSE Defined(Found(e, tag, lookup_tag(e.tags, tag)), tag, list)

(* sema_enum: a tag in sight is a redeclaration, in whatever scope.        *)
enum_definition(e, tag) ==
  IF lookup_tag(e.tags, tag) # 0
    THEN [e EXCEPT !.how = IF tag \in DOMAIN Here(e.ctags) THEN "error" ELSE "tag of an outer scope"]
    ELSE CDefined(PutNew(New(e, Basic(4)), tag), tag, Here(e.ctags))

enum_mention(e, tag) ==
  IF lookup_tag(e.tags, tag) = 0 THEN [e EXCEPT !.how = "error"]
  ELSE KindOf(CMention([e EXCEPT !.id = lookup_tag(e.tags, tag)], tag, Seen(e.ctags, tag)), "BASIC")

sema_specs(e, base) ==
  CASE base.kind = "basic"  -> [e EXCEPT !.id = base.basic]
    [] base.kind = "struct" -> struct_mention(e, base.tag)
    [] base.kind = "define" -> struct_definition(e, base.tag, base.members)
    [] base.kind = "enum"   -> enum_mention(e, base.tag)
    [] base.kind = "enumerate" -> enum_definition(e, base.tag)
    [] base.kind = "typedef"   -> [e EXCEPT !.id = typedefs[Len(typedefs)].id]

-----------------------------------------------------------------------------
(* Initialisers.  An initialiser is a function from paths, << >> for the   *)
(* whole and <<2, 1>> for the first of the second, to what stands there: a *)
(* list, an integer, the integer 0, or a string.                           *)
IsUnder(p, q) == Len(q) > Len(p) /\ SubSeq(q, 1, Len(p)) = p

Items(init, p) == {q \in DOMAIN init : IsUnder(p, q) /\ Len(q) = Len(p) + 1}

Before(p, q) ==
  \/ IsUnder(p, q)
  \/ \E k \in DOMAIN p \cap DOMAIN q : SubSeq(p, 1, k - 1) = SubSeq(q, 1, k - 1) /\ p[k] < q[k]

(* array_of is NULL, 0 here, for a type that is no array.                  *)
ArrayOf(heap, id) == IF id # 0 /\ heap[id].ty = "ARRAY" THEN heap[id].of ELSE 0

Elements(heap, id, p) ==
  LET T[k \in 0 .. Len(p)] == IF k = 0 THEN id ELSE ArrayOf(heap, T[k - 1]) IN T[Len(p)]

(* sema_initializer at one place: check_cast of insert_cast; a list under  *)
(* NULL goes wrong at its first item.                                      *)
Verdict(heap, id, what) ==
  CASE what = "list"              -> "sema"
    [] what # "list" /\ id = 0    -> "crash"
    [] what # "list" /\ id # 0    ->
         CASE heap[id].ty = "BASIC"   -> IF what # "string" \/ heap[id].size = 8 THEN "sema" ELSE "error"
           [] heap[id].ty = "POINTER" -> IF what # "integer" THEN "sema" ELSE "error"
           [] OTHER                   -> "error"

(* The places are visited in their order.                                  *)
First(at) == CHOOSE p \in DOMAIN at : \A q \in DOMAIN at : q = p \/ Before(p, q)

FirstBad(at, bad) == IF bad = {} THEN "sema" ELSE at[First([p \in bad |-> 0])]

InOrder(at) == FirstBad(at, {p \in DOMAIN at : at[p] # "sema"})

sema_initializer(heap, id, init) == InOrder([p \in DOMAIN init |-> Verdict(heap, Elements(heap, id, p), init[p])])

(* The lists of sema_decl: too many items for the array are an error, and  *)
(* an array without a length gets theirs; only of the outermost list.      *)
Counted(e, t, n) ==
  CASE t.ty # "ARRAY"                 -> e
    [] t.ty = "ARRAY" /\ t.complete   -> IF t.length < n THEN [e EXCEPT !.how = "error"] ELSE e
    [] t.ty = "ARRAY" /\ ~t.complete  -> type_array(e, e.id, n)

Checked(e, init, how) ==
  IF how # "sema" THEN [e EXCEPT !.how = how] ELSE Counted(e, e.types[e.id], Cardinality(Items(init, << >>)))

Initialised(e, init) == Checked(e, init, sema_initializer(e.types, e.id, init))

None == [p \in {} |-> ""]

Completes(e, d) == d.base.kind = "typedef" /\ d.declarator = << >> /\ d.init # None /\ ~e.types[e.id].complete

(* An array of an incomplete type has no size, and C allows none; nor a    *)
(* variable of a block of an incomplete type.                              *)
NoSize(e, d) ==
  \/ \E k \in DOMAIN e.types : e.types[k].ty = "ARRAY" /\ ~e.types[e.types[k].of].complete
  \/ d.storage = "" /\ Len(e.tags) > 1 /\ ~e.types[e.id].complete

Finished(e, d, completes) ==
  CASE e.how # "sema" -> e
    [] e.how = "sema" -> [e EXCEPT !.how = IF completes THEN "completed for all"
                                           ELSE IF NoSize(e, d) THEN "no size" ELSE "sema"]

WithInit(e, d) ==
  IF e.how # "sema" THEN e ELSE Finished(IF d.init = None THEN e ELSE Initialised(e, d.init), d, Completes(e, d))

WithDeclarator(e, d) == WithInit(IF e.how = "sema" THEN sema_declarator(e, d.declarator) ELSE e, d)

Declared(e, d) == WithDeclarator(sema_specs(e, d.base), d)

-----------------------------------------------------------------------------
Env == [types |-> types, tags |-> tag_scopes, ctags |-> ctags, uses |-> uses, id |-> 0, how |-> "sema",
        next |-> 1 + Cardinality({u.c : u \in uses})]

(* sema_decl of one declarator, with put_variable: memory for a variable   *)
(* of a block is taken at once.                                            *)
sema_decl(d) ==
  /\ phase = "sema" /\ input.decls > 0
  /\ d.base.kind = "typedef" => typedefs # << >>
  /\ \E e \in {Declared(Env, d)} :
       IF e.how # "sema"
         THEN phase' = e.how /\ UNCHANGED <<types, tag_scopes, typedefs, variables, ctags, uses>>
         ELSE /\ types' = e.types /\ tag_scopes' = e.tags /\ ctags' = e.ctags /\ uses' = e.uses
              /\ IF d.storage = "typedef"
                   THEN typedefs' = Append(typedefs, [id |-> e.id, depth |-> Len(tag_scopes)]) /\ UNCHANGED variables
                   ELSE /\ variables' = Append(variables, [type     |-> e.id,
                                                           was      |-> e.types[e.id],
                                                           reserved |-> e.types[e.id].size,
                                                           global   |-> Len(tag_scopes) = 1,
                                                           init     |-> d.init])
                        /\ UNCHANGED typedefs
              /\ UNCHANGED phase
  /\ input' = [input EXCEPT !.decls = @ - 1]
  /\ UNCHANGED data

declare == \E d \in input.declarations : sema_decl(d)

scope_begin ==
  /\ phase = "sema" /\ Len(tag_scopes) < input.scopes
  /\ tag_scopes' = Append(tag_scopes, << >>) /\ ctags' = Append(ctags, << >>)
  /\ UNCHANGED <<input, phase, types, typedefs, variables, data, uses>>

(* Variant: the scope of the tags stays. *)
Popped_Not(scopes) == scopes

Popped(scopes) == SubSeq(scopes, 1, Len(scopes) - 1)

scope_end ==
  /\ phase = "sema" /\ Len(ctags) > 1
  /\ tag_scopes' = Popped(tag_scopes) /\ ctags' = SubSeq(ctags, 1, Len(ctags) - 1)
  /\ typedefs' = SubSeq(typedefs, 1, Cardinality({k \in DOMAIN typedefs : typedefs[k].depth < Len(ctags)}))
  /\ UNCHANGED <<input, phase, types, variables, data, uses>>

-----------------------------------------------------------------------------
(* gen.c *)
SizeAt(v, p) == types[Elements(types, v.type, p)].size

Step(v, p) == types[Elements(types, v.type, Append(p, 1))].size

(* Variant: the items are subtracted, not their sizes. *)
Padding_Items(v, p) == SizeAt(v, p) - Cardinality(Items(v.init, p))

(* gen_init_global: .zero for the items a list has not. *)
Padding(v, p) ==
  LET padding == SizeAt(v, p) - Step(v, p) * Cardinality(Items(v.init, p))
  IN  IF padding > 0 THEN padding ELSE 0

(* .long for an integer, whatever its type, and .quad for a string. *)
Printed(v, p) ==
  CASE v.init[p] = "string"              -> 8
    [] v.init[p] \in {"integer", "zero"} -> 4
    [] v.init[p] = "list"                -> Padding(v, p)

PrintedBefore(v, p) == {q \in DOMAIN v.init : q # p /\ Before(q, p) /\ ~(v.init[q] = "list" /\ IsUnder(q, p))}

Bytes(v, places) ==
  LET Sum[ps \in SUBSET places] ==
        IF ps = {} THEN 0 ELSE LET p == CHOOSE p \in ps : TRUE IN Printed(v, p) + Sum[ps \ {p}]
  IN  Sum[places]

Leaves(init) == {p \in DOMAIN init : init[p] # "list"}

gen_init_global(v) ==
  [total |-> Bytes(v, DOMAIN v.init),
   at    |-> {[place |-> p, offset |-> Bytes(v, PrintedBefore(v, p)), size |-> Printed(v, p)] : p \in Leaves(v.init)}]

(* gen_init_local: what is not in a list is not stored. *)
gen_init_local(v) ==
  LET Offset(p) == LET Sum[k \in 0 .. Len(p)] ==
                         IF k = 0 THEN 0 ELSE Sum[k - 1] + Step(v, SubSeq(p, 1, k - 1)) * (p[k] - 1)
                   IN  Sum[Len(p)]
  IN  [total |-> v.reserved,
       at    |-> {[place |-> p, offset |-> Offset(p), size |-> SizeAt(v, p)] : p \in Leaves(v.init)}]

ReadsNull(v) == \E p \in DOMAIN v.init : v.init[p] = "list" /\ ArrayOf(types, Elements(types, v.type, p)) = 0

gen ==
  /\ phase = "sema" /\ Len(ctags) = 1
  /\ IF \E k \in DOMAIN variables : ReadsNull(variables[k])
       THEN phase' = "crash" /\ UNCHANGED data
       ELSE /\ phase' = "done"
            /\ data' = << >> \o [k \in DOMAIN variables |->
                 IF variables[k].init = None THEN [total |-> types[variables[k].type].size, at |-> {}]
                 ELSE IF variables[k].global THEN gen_init_global(variables[k]) ELSE gen_init_local(variables[k])]
  /\ UNCHANGED <<input, types, tag_scopes, typedefs, variables, ctags, uses>>

-----------------------------------------------------------------------------
Init ==
  /\ input \in Inputs
  /\ phase = "sema" /\ types = Basics /\ tag_scopes = << << >> >> /\ ctags = << << >> >>
  /\ typedefs = << >> /\ variables = << >> /\ data = << >> /\ uses = {}

Next == declare \/ scope_begin \/ scope_end \/ gen

Spec == Init /\ [][Next]_vars
=============================================================================
