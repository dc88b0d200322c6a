------------------------------- MODULE MCDecls --------------------------------
(***************************************************************************)
(* Three sets of declarations: tags in nested scopes, the layout of        *)
(* structures, and initialisers.                                           *)
(***************************************************************************)
EXTENDS DeclsC, TLC

D(storage, base, declarator, init) ==
  [storage |-> storage, base |-> base, declarator |-> declarator, init |-> init]

B(kind, basic, tag, members) == [kind |-> kind, basic |-> basic, tag |-> tag, members |-> members]

M(basic, tag, declarator) == [basic |-> basic, tag |-> tag, declarator |-> declarator]

Upto(set, n) == UNION {[1 .. k -> set] : k \in 0 .. n}

Pointer == <<-1>>

(* Tags *)
TagMembers == {<<M(1, "", << >>)>>, <<M(0, "T", Pointer)>>, <<M(0, "S", << >>)>>, <<M(4, "", << >>), M(0, "S", Pointer)>>}

TagDecls ==
  {D("", B("struct", 0, tag, << >>), dr, None) : tag \in {"S", "T"}, dr \in {<< >>, Pointer, <<2>>}}
  \cup {D("", B("define", 0, tag, ms), << >>, None) : tag \in {"S", "T"}, ms \in TagMembers}
  \cup {D("", B(kind, 0, "S", << >>), << >>, None) : kind \in {"enum", "enumerate"}}

TagInput == [declarations |-> TagDecls, decls |-> 4, scopes |-> 2]

(* Layouts *)
Member == {M(k, "", << >>) : k \in 1 .. 4} \cup {M(1, "", <<3>>), M(2, "", Pointer), M(2, "", <<2, 3>>), M(0, "S", << >>)}

LayoutDecls ==
  {D("", B("define", 0, tag, ms), dr, None) : tag \in {"S", ""}, ms \in Upto(Member, 3), dr \in {<< >>, <<2>>}}

LayoutInput == [declarations |-> LayoutDecls, decls |-> 1, scopes |-> 2]

Inner == {<<M(1, "", << >>), M(3, "", << >>)>>, <<M(2, "", << >>), M(1, "", << >>)>>, <<M(1, "", <<3>>)>>}

Around == {M(1, "", << >>), M(4, "", << >>), M(2, "", Pointer)}

NestedDecls ==
  {D("typedef", B("define", 0, "S", ms), << >>, None) : ms \in Inner}
  \cup {D("", B("define", 0, "T", <<a, m, b>>), dr, None) :
          a \in Around, m \in {M(0, "S", << >>), M(0, "S", <<3>>)}, b \in Around, dr \in {<< >>, <<2>>}}

NestedInput == [declarations |-> NestedDecls, decls |-> 2, scopes |-> 1]

(* Initialisers *)
Leafs == {"integer", "zero", "string"}

Leaf(what) == (<< >> :> what)
Tree(f)    == f @@ (<< >> :> "list")

Flat(n, what)  == Tree([p \in {<<k>> : k \in 1 .. n} |-> what])
Nested(n1, n2, what) ==
  Tree([p \in {<<1>>, <<2>>} |-> "list"] @@ [p \in {<<1, k>> : k \in 1 .. n1} \cup {<<2, k>> : k \in 1 .. n2} |-> what])

Initials ==
  {None} \cup {Leaf(w) : w \in Leafs} \cup {Flat(n, w) : n \in 0 .. 3, w \in Leafs}
  \cup {Nested(n1, n2, w) : n1, n2 \in 0 .. 3, w \in Leafs}

InitialDecls ==
  {D("", B("basic", basic, "", << >>), dr, init) :
     basic \in {1, 3, 4}, dr \in {<< >>, Pointer, <<2>>, <<0>>, <<2, 3>>, <<2, 0>>, <<-1, 3>>, <<-1, 2, 2>>}, init \in Initials}
  \cup {D("", B("define", 0, "S", <<M(3, "", << >>)>>), << >>, init) : init \in {Leaf("integer"), Flat(1, "integer")}}

InitialInput == [declarations |-> InitialDecls, decls |-> 1, scopes |-> 2]

SharedDecls ==
  {D("typedef", B("basic", 3, "", << >>), dr, None) : dr \in {<<0>>, <<2>>}}
  \cup {D("", B("typedef", 0, "", << >>), dr, init) : dr \in {<< >>, Pointer}, init \in {None, Flat(1, "integer"), Flat(2, "integer")}}

SharedInput == [declarations |-> SharedDecls, decls |-> 3, scopes |-> 2]

AllInputs == {TagInput, LayoutInput, NestedInput, InitialInput, SharedInput}
=============================================================================
