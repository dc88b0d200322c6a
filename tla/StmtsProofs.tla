------------------------------ MODULE StmtsProofs -----------------------------
(***************************************************************************)
(* Whatever statements a function consists of: sema.c stops at exactly the *)
(* functions with a statement outside those it is for, and gen.c prints    *)
(* each expression once, each label once and no jump to a label it does    *)
(* not print; and what it prints evaluates the expressions in C's order.   *)
(***************************************************************************)
EXTENDS Stmts, FiniteSetTheorems, WellFoundedInduction, TLAPS

(* A sequence, whatever it is of. *)
IsSeq(s) == Len(s) \in Nat /\ s = [k \in 1 .. Len(s) |-> s[k]]

IsNode(s) ==
  s = [kind |-> s.kind, parent |-> s.parent, kids |-> s.kids, ident |-> s.ident, target |-> s.target,
       cases |-> s.cases, label_no |-> s.label_no, label_break |-> s.label_break,
       label_continue |-> s.label_continue]

(* The sequence s lists the numbers in S, in order. *)
Lists(s, S) ==
  /\ IsSeq(s)
  /\ \A i \in 1 .. Len(s) : s[i] \in S
  /\ \A m \in S : \E i \in 1 .. Len(s) : s[i] = m
  /\ \A i, j \in 1 .. Len(s) : i < j => s[i] < s[j]

Nodes == 1 .. Len(tree)

Breakable == Loops \cup {"switch"}
CaseKinds == {"case", "default"}
Labelled  == {"case", "default", "label"}

OfKind(kinds) == {n \in Nodes : tree[n].kind \in kinds}

(* How many statements there are directly inside one that is not compound. *)
Arity(kind) ==
  IF kind = "ifelse" THEN 2 ELSE IF kind \in {"expr", "goto", "break", "continue", "return"} THEN 0 ELSE 1

(* The tree of the statements, each before those inside it. *)
Shape ==
  /\ IsSeq(tree)
  /\ \A n \in Nodes :
       /\ IsNode(tree[n]) /\ tree[n].kind \in AllKinds
       /\ Parent(n) \in 0 .. n - 1
       /\ Parent(n) = 0 => n = 1
       /\ \A m \in Parent(n) + 1 .. n : Parent(m) >= Parent(n)
       /\ Lists(tree[n].kids, {m \in Nodes : Parent(m) = n})
       /\ Lists(tree[n].cases, {m \in OfKind(CaseKinds) : tree[m].target = n})

(* What a statement refers to is around it. *)
Referred ==
  \A n \in Nodes :
    /\ tree[n].kind = "break" => tree[n].target \in Around(n) \cap OfKind(Breakable)
    /\ tree[n].kind = "continue" => tree[n].target \in Around(n) \cap OfKind(Loops)
    /\ tree[n].kind \in CaseKinds => tree[n].target \in Around(n) \cap OfKind({"switch"})

Labels ==
  /\ Lists(label_stmts, OfKind({"label"}))
  /\ \A m, n \in OfKind({"label"}) : tree[m].ident = tree[n].ident => m = n
  /\ Lists(goto_stmts, OfKind({"goto"}))

-----------------------------------------------------------------------------
(* sema.c: what is left to visit. *)

(* Since m there has been no statement outside m. *)
Open(m) == \A k \in m + 1 .. Len(tree) : Parent(k) >= m

Pending(n) == {i \in 1 .. Len(todo) : todo[i].do = "visit" /\ todo[i].at = n}

ToDo ==
  /\ IsSeq(todo)
  /\ \A i \in 1 .. Len(todo) :
       /\ todo[i].do \in {"visit", "leave"}
       /\ todo[i].at \in Nodes /\ Open(todo[i].at)
       /\ todo[i].do = "leave" => tree[todo[i].at].kind \in Breakable
       /\ \A j \in 1 .. Len(todo) : i < j =>
            /\ todo[j].at <= todo[i].at
            /\ todo[i].do = "leave" => todo[j].at < todo[i].at
       /\ todo[i].do = "visit" =>
            \A m \in 1 .. todo[i].at : Open(m) /\ tree[m].kind \in Breakable =>
              \E j \in i + 1 .. Len(todo) : todo[j].do = "leave" /\ todo[j].at = m

Complete ==
  \A n \in Nodes : tree[n].kind # "comp" =>
    /\ Len(tree[n].kids) <= Arity(tree[n].kind)
    /\ \E p \in 1 .. Len(todo) + 1 : Pending(n) = p .. p + (Arity(tree[n].kind) - Len(tree[n].kids) - 1)

(* The loops and switches that are being walked. *)
Walked(kinds) ==
  {m \in OfKind(kinds) : \E i \in 1 .. Len(todo) : todo[i].do = "leave" /\ todo[i].at = m}

Targets ==
  /\ Lists(break_targets, Walked(Breakable))
  /\ Lists(continue_targets, Walked(Loops))
  /\ Lists(switch_stmts, Walked({"switch"}))

AtStart == tree = << >> /\ todo = <<Visit(0)>>

Sema ==
  /\ Shape /\ Referred /\ Labels /\ Targets /\ Complete
  /\ AtStart \/ (Len(tree) > 0 /\ ToDo)
  /\ code = << >> /\ label_no = 0

-----------------------------------------------------------------------------
(* gen.c: what is printed, and what is known to be. *)
Items == code \o todo

(* The statements gen_stmt has come to are the first ones. *)
Visited == IF todo = << >> THEN Len(tree) ELSE Head(todo).at - 1

Whole ==
  /\ Len(tree) > 0
  /\ \A n \in Nodes : tree[n].kind # "comp" => Len(tree[n].kids) = Arity(tree[n].kind)
  /\ \A n \in OfKind({"goto"}) :
       tree[n].target \in OfKind({"label"}) /\ tree[tree[n].target].ident = tree[n].ident

(* Where gen_stmt has still to go: the statements directly inside those it *)
(* has come to.                                                            *)
ToGo ==
  /\ IsSeq(todo)
  /\ todo # << >> => todo[1].do = "visit" /\ todo[1].at \in Nodes
  /\ \A i \in 1 .. Len(todo) : todo[i].do = "visit" =>
       /\ todo[i] = Visit(todo[i].at)
       /\ todo[i].at \in Visited + 1 .. Len(tree) /\ Parent(todo[i].at) <= Visited
  /\ \A n \in Visited + 1 .. Len(tree) : Parent(n) <= Visited =>
       \E i \in 1 .. Len(todo) : todo[i] = Visit(n)
  /\ \A i, j \in 1 .. Len(todo) :
       i < j /\ todo[i].do = "visit" /\ todo[j].do = "visit" => todo[i].at < todo[j].at

(* The statements with a label of their own that have been given one.      *)
HasNumber(n) == tree[n].kind = "label" \/ (tree[n].kind \in CaseKinds /\ tree[n].target <= Visited)

Numbers ==
  /\ label_no \in Nat \ {0}
  /\ \A n \in Nodes : HasNumber(n) => tree[n].label_no \in 1 .. label_no - 1
  /\ \A m, n \in Nodes : HasNumber(m) /\ HasNumber(n) /\ tree[m].label_no = tree[n].label_no => m = n

(* Nothing is printed twice. *)
Unique ==
  /\ IsSeq(code)
  /\ \A i \in 1 .. Len(code) : code[i].do # "visit"
  /\ \A i \in 1 .. Len(Items) :
       /\ Items[i].do = "label" =>
            /\ Items[i] = Label(Items[i].label)
            /\ Items[i].label \in 1 .. label_no - 1
            /\ \A n \in Visited + 1 .. Len(tree) : HasNumber(n) => tree[n].label_no # Items[i].label
       /\ Items[i].do = "eval" =>
            Items[i] = Eval(Items[i].at, Items[i].part) /\ Items[i].at \in 1 .. Visited
  /\ \A i, j \in 1 .. Len(Items) :
       /\ Items[i].do = "label" /\ Items[j].do = "label" /\ Items[i].label = Items[j].label => i = j
       /\ /\ Items[i].do = "eval" /\ Items[j].do = "eval"
          /\ Items[i].at = Items[j].at /\ Items[i].part = Items[j].part
          => i = j

(* The label l has been or will be printed. *)
Reached(l) ==
  \/ l = label_return
  \/ \E i \in 1 .. Len(Items) : Items[i] = Label(l)
  \/ \E n \in Visited + 1 .. Len(tree) : HasNumber(n) /\ tree[n].label_no = l

Reachable ==
  /\ \A i \in 1 .. Len(Items) : Items[i].do \notin {"label", "eval", "visit"} => Reached(Items[i].label)
  /\ \A n \in 1 .. Visited :
       /\ HasNumber(n) => Reached(tree[n].label_no)
       /\ tree[n].kind \in Breakable => Reached(tree[n].label_break)
       /\ tree[n].kind \in Loops => Reached(tree[n].label_continue)

Gen ==
  /\ Shape /\ Referred /\ Labels
  /\ Whole /\ ToGo /\ Numbers /\ Unique /\ Reachable

Done == Shape /\ Referred /\ Labels /\ Whole /\ PrintedOnce

Rejected == \E n \in DOMAIN tree : Ill(n)

IInv ==
  /\ phase \in {"sema", "gen", "done", "error"}
  /\ phase = "sema" => Sema
  /\ phase = "gen" => Gen
  /\ phase = "done" => Done
  /\ phase = "error" => Rejected

-----------------------------------------------------------------------------
LEMMA SeqIsSeq ==
  ASSUME NEW S, NEW s \in Seq(S)
  PROVE  IsSeq(s)
BY DEF IsSeq

LEMMA AppendSeq ==
  ASSUME NEW s, IsSeq(s), NEW e
  PROVE  /\ IsSeq(Append(s, e))
         /\ Len(Append(s, e)) = Len(s) + 1
         /\ \A k \in 1 .. Len(s) : Append(s, e)[k] = s[k]
         /\ Append(s, e)[Len(s) + 1] = e
<1> DEFINE S == {s[k] : k \in 1 .. Len(s)} \cup {e}
<1>1. s \in Seq(S) /\ e \in S
  BY DEF IsSeq
<1> HIDE DEF S
<1>2. IsSeq(Append(s, e))
  <2>1. Append(s, e) \in Seq(S)
    BY <1>1
  <2> QED
    BY <2>1, SeqIsSeq, Zenon
<1> QED
  BY <1>1, <1>2

LEMMA FrontSeq ==
  ASSUME NEW s, IsSeq(s), Len(s) > 0
  PROVE  /\ IsSeq(Front(s))
         /\ Len(Front(s)) = Len(s) - 1
         /\ \A k \in 1 .. Len(s) - 1 : Front(s)[k] = s[k]
<1> DEFINE S == {s[k] : k \in 1 .. Len(s)}
<1>1. s \in Seq(S) /\ Len(s) \in Nat
  BY DEF IsSeq
<1>2. SubSeq(s, 1, Len(s) - 1) \in Seq(S)
  BY <1>1
<1> QED
  BY <1>1, <1>2 DEF IsSeq, Front

LEMMA TailSeq ==
  ASSUME NEW s, IsSeq(s), s # << >>
  PROVE  /\ Len(s) > 0 /\ Head(s) = s[1]
         /\ IsSeq(Tail(s))
         /\ Len(Tail(s)) = Len(s) - 1
         /\ \A k \in 1 .. Len(s) - 1 : Tail(s)[k] = s[k + 1]
<1> DEFINE S == {s[k] : k \in 1 .. Len(s)}
<1>1. s \in Seq(S) /\ Len(s) \in Nat
  BY DEF IsSeq
<1>2. Len(s) > 0
  BY <1>1 DEF IsSeq
<1>3. Tail(s) \in Seq(S) /\ Len(Tail(s)) = Len(s) - 1
  BY <1>1, <1>2
<1>4. IsSeq(Tail(s))
  BY <1>3, SeqIsSeq, Zenon
<1>5. \A k \in 1 .. Len(s) - 1 : Tail(s)[k] = s[k + 1]
  BY <1>1, <1>2
<1>6. Head(s) = s[1]
  BY <1>1, <1>2
<1> QED
  BY <1>2, <1>3, <1>4, <1>5, <1>6

LEMMA ConcatSeq ==
  ASSUME NEW a, IsSeq(a), NEW b, IsSeq(b)
  PROVE  /\ IsSeq(a \o b)
         /\ Len(a \o b) = Len(a) + Len(b)
         /\ \A k \in 1 .. Len(a) : (a \o b)[k] = a[k]
         /\ \A k \in Len(a) + 1 .. Len(a) + Len(b) : (a \o b)[k] = b[k - Len(a)]
<1> DEFINE S == {a[k] : k \in 1 .. Len(a)} \cup {b[k] : k \in 1 .. Len(b)}
<1>1. a \in Seq(S) /\ b \in Seq(S)
  BY DEF IsSeq
<1> HIDE DEF S
<1>2. IsSeq(a \o b)
  <2>1. a \o b \in Seq(S)
    BY <1>1
  <2> QED
    BY <2>1, SeqIsSeq, Zenon
<1> QED
  BY <1>1, <1>2

(* The least of a set of numbers. *)
LEMMA Least ==
  ASSUME NEW T \in SUBSET Nat, T # {}
  PROVE  \E m \in T : \A k \in T : m <= k
<1> DEFINE Less == {p \in Nat \X Nat : p[1] < p[2]}
<1>1. IsWellFoundedOn(Less, Nat)
  <2>1. OpToRel(<, Nat) = Less
    BY DEF OpToRel
  <2> QED
    BY <2>1, NatLessThanWellFounded
<1>2. PICK m \in T : \A k \in T : ~ (<<k, m>> \in Less)
  BY <1>1, WFMin
<1>3. ASSUME NEW k \in T
      PROVE  m <= k
  <2>1. ~ (<<k, m>> \in Less) /\ <<k, m>> \in Nat \X Nat
    BY <1>2
  <2>2. ~ (k < m)
    BY <2>1
  <2> QED
    BY <2>2
<1> QED
  BY <1>3

-----------------------------------------------------------------------------
(* Stacks of statements. *)
LEMMA ListsPush ==
  ASSUME NEW S \in SUBSET Int, NEW s, Lists(s, S), NEW n \in Int, \A m \in S : m < n
  PROVE  Lists(Append(s, n), S \cup {n})
<1> DEFINE t == Append(s, n)
<1>1. IsSeq(s) /\ Len(s) \in Nat
  BY DEF Lists, IsSeq
<1>2. /\ IsSeq(t) /\ Len(t) = Len(s) + 1
      /\ \A k \in 1 .. Len(s) : t[k] = s[k]
      /\ t[Len(s) + 1] = n
  BY <1>1, AppendSeq
<1> HIDE DEF t
<1>3. \A k \in 1 .. Len(t) : k \in 1 .. Len(s) \/ k = Len(s) + 1
  BY <1>1, <1>2
<1>4. \A i \in 1 .. Len(t) : t[i] \in S \cup {n}
  BY <1>2, <1>3 DEF Lists
<1>5. ASSUME NEW m \in S \cup {n}
      PROVE  \E i \in 1 .. Len(t) : t[i] = m
  <2>1. CASE m = n
    BY <1>1, <1>2, <2>1
  <2>2. CASE m \in S
    <3>1. PICK i \in 1 .. Len(s) : s[i] = m
      BY <2>2 DEF Lists
    <3> QED
      BY <1>1, <1>2, <3>1
  <2> QED
    BY <2>1, <2>2
<1>6. ASSUME NEW i \in 1 .. Len(t), NEW j \in 1 .. Len(t), i < j
      PROVE  t[i] < t[j]
  <2>1. i \in 1 .. Len(s) /\ t[i] = s[i] /\ s[i] \in S
    BY <1>1, <1>2, <1>6 DEF Lists
  <2>2. CASE j = Len(s) + 1
    BY <1>2, <2>1, <2>2
  <2>3. CASE j \in 1 .. Len(s)
    BY <1>2, <1>6, <2>1, <2>3 DEF Lists
  <2> QED
    BY <1>3, <2>2, <2>3
<1> QED
  BY <1>2, <1>4, <1>5, <1>6 DEF Lists, t

LEMMA ListsLast ==
  ASSUME NEW S, NEW s, Lists(s, S)
  PROVE  /\ s # << >> <=> S # {}
         /\ s # << >> => Len(s) > 0 /\ Last(s) = s[Len(s)] /\ Last(s) \in S
<1>1. Len(s) \in Nat /\ (s # << >> <=> Len(s) > 0)
  BY DEF Lists, IsSeq
<1>2. Len(s) > 0 => Len(s) \in 1 .. Len(s)
  BY <1>1
<1>3. Len(s) > 0 <=> S # {}
  <2>1. Len(s) > 0 => S # {}
    BY <1>2, Zenon DEF Lists
  <2>2. S # {} => \E i \in 1 .. Len(s) : TRUE
    BY Zenon DEF Lists
  <2> QED
    BY <1>1, <2>1, <2>2
<1> QED
  BY <1>1, <1>2, <1>3 DEF Lists, Last

LEMMA ListsPop ==
  ASSUME NEW S \in SUBSET Int, NEW s, Lists(s, S), NEW n \in S, \A m \in S : m <= n
  PROVE  Lists(Front(s), S \ {n})
<1> DEFINE t == Front(s)
           l == Len(s)
<1>1. IsSeq(s) /\ l \in Nat /\ l > 0
  BY ListsLast DEF Lists, IsSeq
<1>2. IsSeq(t) /\ Len(t) = l - 1 /\ \A k \in 1 .. l - 1 : t[k] = s[k]
  BY <1>1, FrontSeq
<1>3. s[l] = n
  <2>1. PICK i \in 1 .. l : s[i] = n
    BY DEF Lists
  <2>2. CASE i = l
    BY <2>1, <2>2
  <2>3. CASE i < l
    <3>1. l \in 1 .. l /\ s[i] < s[l] /\ s[l] \in S
      BY <1>1, <2>3 DEF Lists
    <3>2. s[l] <= n /\ s[l] \in Int /\ n \in Int
      BY <3>1
    <3> QED
      BY <2>1, <3>1, <3>2
  <2> QED
    BY <1>1, <2>2, <2>3
<1> HIDE DEF t
<1>4. \A k : k \in 1 .. l - 1 <=> k \in 1 .. l /\ k # l
  BY <1>1
<1>5. \A i \in 1 .. l - 1 : i < l /\ l \in 1 .. l
  BY <1>1
<1>6. \A i \in 1 .. Len(t) : t[i] \in S \ {n}
  <2>1. SUFFICES ASSUME NEW i \in 1 .. l - 1
                 PROVE  s[i] \in S /\ s[i] # n
    BY <1>2
  <2>2. s[i] \in S /\ s[i] < n
    BY <1>3, <1>4, <1>5 DEF Lists
  <2>3. s[i] \in Int /\ n \in Int
    BY <2>2
  <2> QED
    BY <2>2, <2>3
<1>7. \A m \in S \ {n} : \E i \in 1 .. Len(t) : t[i] = m
  BY <1>2, <1>3, <1>4, Zenon DEF Lists
<1>8. \A i, j \in 1 .. Len(t) : i < j => t[i] < t[j]
  BY <1>2, <1>4 DEF Lists
<1> QED
  BY <1>2, <1>6, <1>7, <1>8 DEF Lists, t

-----------------------------------------------------------------------------
(* sema_stmt comes to a statement. *)

(* The statements met before keep what they are. *)
Grown(kind, parent, ident, target) ==
  /\ IsSeq(tree') /\ Len(tree') = New
  /\ \A m \in Nodes :
       /\ IsNode(tree'[m])
       /\ tree'[m].kind = tree[m].kind /\ tree'[m].parent = tree[m].parent
       /\ tree'[m].ident = tree[m].ident /\ tree'[m].target = tree[m].target
       /\ tree'[m].kids = IF m = parent THEN Append(tree[m].kids, New) ELSE tree[m].kids
       /\ tree'[m].cases = IF kind \in CaseKinds /\ m = target THEN Append(tree[m].cases, New)
                           ELSE tree[m].cases
  /\ IsNode(tree'[New])
  /\ tree'[New].kind = kind /\ tree'[New].parent = parent
  /\ tree'[New].ident = ident /\ tree'[New].target = target
  /\ tree'[New].kids = << >> /\ tree'[New].cases = << >>

LEMMA EnterTree ==
  ASSUME Shape, NEW kind, NEW items, NEW ident, NEW target, Enter(kind, items, ident, target)
  PROVE  Grown(kind, Head(todo).at, ident, target)
<1> DEFINE parent == Head(todo).at
           switch == IF kind \in CaseKinds THEN target ELSE 0
           Old(m) == [tree[m] EXCEPT !.kids = IF m = parent THEN Append(@, New) ELSE @,
                                     !.cases = IF m = switch THEN Append(@, New) ELSE @]
<1>1. Len(tree) \in Nat /\ New = Len(tree) + 1
  BY DEF Shape, IsSeq, New
<1>2. tree' = [m \in 1 .. New |-> IF m = New THEN Node(kind, parent, ident, target) ELSE Old(m)]
  BY Zenon DEF Enter, New, CaseKinds
<1>3. IsSeq(tree') /\ Len(tree') = New
  <2> HIDE DEF Old, New
  <2> QED
    BY <1>1, <1>2 DEF IsSeq
<1>4. ASSUME NEW m \in Nodes
      PROVE  /\ IsNode(tree'[m])
             /\ tree'[m].kind = tree[m].kind /\ tree'[m].parent = tree[m].parent
             /\ tree'[m].ident = tree[m].ident /\ tree'[m].target = tree[m].target
             /\ tree'[m].kids = (IF m = parent THEN Append(tree[m].kids, New) ELSE tree[m].kids)
             /\ tree'[m].cases = (IF m = switch THEN Append(tree[m].cases, New) ELSE tree[m].cases)
  <2>1. m \in 1 .. New /\ m # New
    BY <1>1 DEF Nodes
  <2>2. tree'[m] = Old(m)
    BY <1>2, <2>1
  <2>3. PICK f, k, c : /\ f = tree[m]
                       /\ k = (IF m = parent THEN Append(tree[m].kids, New) ELSE tree[m].kids)
                       /\ c = (IF m = switch THEN Append(tree[m].cases, New) ELSE tree[m].cases)
    OBVIOUS
  <2>4. f = [kind |-> f.kind, parent |-> f.parent, kids |-> f.kids, ident |-> f.ident, target |-> f.target,
             cases |-> f.cases, label_no |-> f.label_no, label_break |-> f.label_break,
             label_continue |-> f.label_continue]
    BY <2>3 DEF Shape, IsNode
  <2>5. tree'[m] = [f EXCEPT !.kids = k, !.cases = c]
    BY <2>2, <2>3
  <2>6. tree'[m] = [kind |-> f.kind, parent |-> f.parent, kids |-> k, ident |-> f.ident, target |-> f.target,
                    cases |-> c, label_no |-> f.label_no, label_break |-> f.label_break,
                    label_continue |-> f.label_continue]
    BY <2>4, <2>5
  <2> QED
    BY <2>3, <2>6 DEF IsNode
<1>5. /\ IsNode(tree'[New])
      /\ tree'[New].kind = kind /\ tree'[New].parent = parent
      /\ tree'[New].ident = ident /\ tree'[New].target = target
      /\ tree'[New].kids = << >> /\ tree'[New].cases = << >>
  <2>1. New \in 1 .. New
    BY <1>1
  <2>2. tree'[New] = Node(kind, parent, ident, target)
    BY <1>2, <2>1
  <2> QED
    BY <2>2 DEF Node, IsNode
<1>6. \A m \in Nodes : (m = switch) <=> (kind \in CaseKinds /\ m = target)
  BY DEF Nodes
<1> QED
  BY <1>3, <1>4, <1>5, <1>6 DEF Grown

(* The statement whose part comes next. *)
LEMMA AtHead ==
  ASSUME Sema, todo # << >>, Head(todo).do = "visit"
  PROVE  /\ Len(tree) \in Nat /\ IsSeq(todo) /\ Len(todo) \in Nat \ {0} /\ Head(todo) = todo[1]
         /\ Head(todo).at \in 0 .. Len(tree) /\ (Head(todo).at = 0 <=> Len(tree) = 0)
         /\ Head(todo).at # 0 => Head(todo).at \in Nodes /\ Open(Head(todo).at) /\ ToDo
<1>1. Len(tree) \in Nat
  BY DEF Sema, Shape, IsSeq
<1>2. CASE AtStart
  <2>1. todo = <<Visit(0)>> /\ Len(tree) = 0
    BY <1>2 DEF AtStart
  <2>2. Len(todo) = 1 /\ Head(todo) = todo[1] /\ IsSeq(todo) /\ Head(todo).at = 0
    BY <2>1 DEF IsSeq, Visit
  <2> QED
    BY <2>1, <2>2
<1>3. CASE Len(tree) > 0 /\ ToDo
  <2>1. IsSeq(todo) /\ Len(todo) > 0 /\ Head(todo) = todo[1]
    BY <1>3, TailSeq DEF ToDo
  <2>2. Len(todo) \in Nat /\ 1 \in 1 .. Len(todo)
    BY <2>1 DEF IsSeq
  <2>3. todo[1].at \in Nodes /\ Open(todo[1].at)
    BY <1>3, <2>2 DEF ToDo
  <2>4. todo[1].at \in 1 .. Len(tree)
    BY <2>3 DEF Nodes
  <2> QED
    BY <1>1, <1>3, <2>1, <2>2, <2>3, <2>4
<1> QED
  BY <1>2, <1>3 DEF Sema

LEMMA GrownTree ==
  ASSUME Len(tree) \in Nat, NEW p \in 0 .. Len(tree), NEW kind, NEW ident, NEW target,
         Grown(kind, p, ident, target)
  PROVE  /\ Nodes' = Nodes \cup {New} /\ New \notin Nodes /\ New = Len(tree) + 1
         /\ \A n \in Nodes : Around(n)' = Around(n)
         /\ \A n : n = New => Around(n)' = {m \in 1 .. p : Open(m)}
         /\ \A m \in Nodes : Open(m)' <=> Open(m) /\ m <= p
         /\ \A m : m = New => Open(m)'
         /\ \A kinds : OfKind(kinds)' = OfKind(kinds) \cup (IF kind \in kinds THEN {New} ELSE {})
<1>1. New = Len(tree) + 1 /\ New \notin Nodes /\ Nodes' = 1 .. New /\ Nodes' = Nodes \cup {New}
  BY DEF New, Nodes, Grown
<1>2. /\ \A k \in Nodes : Parent(k)' = Parent(k) /\ tree'[k].kind = tree[k].kind
      /\ \A k : k = New => Parent(k)' = p /\ tree'[k].kind = kind
  BY DEF Grown, Parent
<1>3. ASSUME NEW n \in Nodes
      PROVE  Around(n)' = Around(n)
  <2>1. \A m \in 1 .. n - 1 : \A k \in m + 1 .. n : k \in Nodes
    BY DEF Nodes
  <2> QED
    BY <1>2, <2>1 DEF Around
<1>4. ASSUME NEW m \in Nodes
      PROVE  Open(m)' <=> Open(m) /\ m <= p
  <2>1. Open(m)' <=> \A k \in m + 1 .. New : Parent(k)' >= m
    BY DEF Open, Grown
  <2>2. \A k : k \in m + 1 .. New <=> k \in m + 1 .. Len(tree) \/ k = New
    BY <1>1 DEF Nodes
  <2>3. \A k \in m + 1 .. Len(tree) : k \in Nodes
    BY DEF Nodes
  <2>4. p >= m <=> m <= p
    BY DEF Nodes
  <2> QED
    BY <1>2, <2>1, <2>2, <2>3, <2>4 DEF Open
<1>5. ASSUME NEW n, n = New
      PROVE  Around(n)' = {m \in 1 .. p : Open(m)}
  <2>1. Around(n)' = {m \in 1 .. n - 1 : Open(m)'}
    BY <1>1, <1>5 DEF Around, Open, Grown
  <2>2. 1 .. n - 1 = Nodes
    BY <1>1, <1>5 DEF Nodes
  <2>3. \A m : m \in 1 .. p <=> m \in Nodes /\ m <= p
    BY DEF Nodes
  <2> QED
    BY <1>4, <2>1, <2>2, <2>3
<1>6. ASSUME NEW m, m = New
      PROVE  Open(m)'
  BY <1>1, <1>6 DEF Open, Grown
<1>7. ASSUME NEW kinds
      PROVE  OfKind(kinds)' = OfKind(kinds) \cup (IF kind \in kinds THEN {New} ELSE {})
  BY <1>1, <1>2 DEF OfKind
<1> QED
  BY <1>1, <1>3, <1>4, <1>5, <1>6, <1>7

LEMMA ListsNone ==
  ASSUME NEW S, S = {}
  PROVE  Lists(<< >>, S)
<1>1. IsSeq(<< >>) /\ Len(<< >>) = 0
  BY DEF IsSeq
<1> QED
  BY <1>1 DEF Lists

LEMMA GrownShape ==
  ASSUME Shape, Referred, NEW p \in 0 .. Len(tree), p = 0 <=> Len(tree) = 0, p # 0 => Open(p),
         NEW kind \in AllKinds, NEW ident, NEW target, kind \in CaseKinds => target \in Nodes,
         Grown(kind, p, ident, target)
  PROVE  Shape'
<1>1. Len(tree) \in Nat
  BY DEF Shape, IsSeq
<1>2. /\ Nodes' = Nodes \cup {New} /\ New \notin Nodes /\ New = Len(tree) + 1
      /\ OfKind(CaseKinds)' = OfKind(CaseKinds) \cup (IF kind \in CaseKinds THEN {New} ELSE {})
  BY <1>1, GrownTree
<1>3. /\ \A m \in Nodes : Parent(m)' = Parent(m) /\ tree'[m].target = tree[m].target
      /\ \A m : m = New => Parent(m)' = p /\ tree'[m].target = target
  BY DEF Grown, Parent
<1>4. ASSUME NEW n \in Nodes
      PROVE  /\ IsNode(tree'[n]) /\ tree'[n].kind \in AllKinds
             /\ Parent(n)' \in 0 .. n - 1
             /\ Parent(n)' = 0 => n = 1
             /\ \A m \in Parent(n)' + 1 .. n : Parent(m)' >= Parent(n)'
             /\ Lists(tree'[n].kids, {m \in Nodes' : Parent(m)' = n})
             /\ Lists(tree'[n].cases, {m \in OfKind(CaseKinds)' : tree'[m].target = n})
  <2>1. IsNode(tree'[n]) /\ Parent(n)' = Parent(n) /\ tree'[n].kind \in AllKinds
    BY <1>3 DEF Grown, Shape
  <2>2. /\ Parent(n) \in 0 .. n - 1 /\ (Parent(n) = 0 => n = 1)
        /\ \A m \in Parent(n) + 1 .. n : Parent(m) >= Parent(n)
        /\ Lists(tree[n].kids, {m \in Nodes : Parent(m) = n})
        /\ Lists(tree[n].cases, {m \in OfKind(CaseKinds) : tree[m].target = n})
    BY Zenon DEF Shape
  <2>3. \A m \in Parent(n) + 1 .. n : m \in Nodes
    BY <1>1, <2>2 DEF Nodes
  <2>4. \A m \in Nodes : m < New /\ m \in Int
    BY <1>1, <1>2 DEF Nodes
  <2>5. Lists(tree'[n].kids, {m \in Nodes' : Parent(m)' = n})
    <3> DEFINE S == {m \in Nodes : Parent(m) = n}
    <3>1. S \in SUBSET Int /\ New \in Int /\ \A m \in S : m < New
      BY <1>1, <1>2, <2>4
    <3>2. CASE n = p
      <4>1. {m \in Nodes' : Parent(m)' = n} = S \cup {New}
        BY <1>2, <1>3, <3>2
      <4>2. tree'[n].kids = Append(tree[n].kids, New)
        BY <3>2 DEF Grown
      <4> HIDE DEF S
      <4>3. Lists(tree[n].kids, S)
        BY <2>2 DEF S
      <4> QED
        BY <3>1, <4>1, <4>2, <4>3, ListsPush
    <3>3. CASE n # p
      <4>1. {m \in Nodes' : Parent(m)' = n} = S
        BY <1>2, <1>3, <3>3
      <4>2. tree'[n].kids = tree[n].kids
        BY <3>3 DEF Grown
      <4> QED
        BY <2>2, <4>1, <4>2
    <3> QED
      BY <3>2, <3>3
  <2>6. Lists(tree'[n].cases, {m \in OfKind(CaseKinds)' : tree'[m].target = n})
    <3> DEFINE S == {m \in OfKind(CaseKinds) : tree[m].target = n}
    <3>0. \A m \in OfKind(CaseKinds) : m \in Nodes
      BY DEF OfKind
    <3>1. S \in SUBSET Int /\ New \in Int /\ \A m \in S : m < New
      BY <1>1, <1>2, <2>4, <3>0
    <3>2. CASE kind \in CaseKinds /\ n = target
      <4>1. {m \in OfKind(CaseKinds)' : tree'[m].target = n} = S \cup {New}
        BY <1>2, <1>3, <3>0, <3>2
      <4>2. tree'[n].cases = Append(tree[n].cases, New)
        BY <3>2 DEF Grown
      <4> HIDE DEF S
      <4>3. Lists(tree[n].cases, S)
        BY <2>2 DEF S
      <4> QED
        BY <3>1, <4>1, <4>2, <4>3, ListsPush
    <3>3. CASE ~ (kind \in CaseKinds /\ n = target)
      <4>1. {m \in OfKind(CaseKinds)' : tree'[m].target = n} = S
        BY <1>2, <1>3, <3>0, <3>3
      <4>2. tree'[n].cases = tree[n].cases
        BY <3>3, Zenon DEF Grown
      <4> QED
        BY <2>2, <4>1, <4>2
    <3> QED
      BY <3>2, <3>3
  <2> QED
    BY <1>3, <2>1, <2>2, <2>3, <2>5, <2>6
<1>5. ASSUME NEW n, n = New
      PROVE  /\ IsNode(tree'[n]) /\ tree'[n].kind \in AllKinds
             /\ Parent(n)' \in 0 .. n - 1
             /\ Parent(n)' = 0 => n = 1
             /\ \A m \in Parent(n)' + 1 .. n : Parent(m)' >= Parent(n)'
             /\ Lists(tree'[n].kids, {m \in Nodes' : Parent(m)' = n})
             /\ Lists(tree'[n].cases, {m \in OfKind(CaseKinds)' : tree'[m].target = n})
  <2>1. IsNode(tree'[n]) /\ Parent(n)' = p /\ tree'[n].kids = << >> /\ tree'[n].cases = << >>
        /\ tree'[n].kind \in AllKinds
    BY <1>3, <1>5 DEF Grown
  <2>2. p \in 0 .. n - 1 /\ (p = 0 => n = 1)
    BY <1>1, <1>2, <1>5
  <2>3. ASSUME NEW m \in p + 1 .. n
        PROVE  Parent(m)' >= p
    <3>1. CASE m = n
      BY <1>1, <1>3, <1>5, <3>1
    <3>2. CASE m # n
      <4>1. m \in Nodes /\ m \in p + 1 .. Len(tree)
        BY <1>1, <1>2, <1>5, <3>2 DEF Nodes
      <4>2. Parent(m) \in 0 .. m - 1
        BY <4>1 DEF Shape
      <4>3. Parent(m) >= p
        BY <4>1, <4>2 DEF Open
      <4> QED
        BY <1>3, <4>1, <4>3
    <3> QED
      BY <3>1, <3>2
  <2>4. {m \in Nodes' : Parent(m)' = n} = {}
    <3>1. \A m \in Nodes : Parent(m) # n
      <4>1. \A m \in Nodes : Parent(m) \in 0 .. m - 1
        BY Zenon DEF Shape
      <4> QED
        BY <1>1, <1>2, <1>5, <4>1 DEF Nodes
    <3>2. p # n
      BY <1>1, <2>2
    <3> QED
      BY <1>2, <1>3, <3>1, <3>2
  <2>5. {m \in OfKind(CaseKinds)' : tree'[m].target = n} = {}
    <3>1. \A m \in OfKind(CaseKinds) : m \in Nodes /\ tree[m].target \in 1 .. m - 1
      BY DEF OfKind, Referred, Around
    <3>2. \A m \in OfKind(CaseKinds) : tree[m].target # n
      BY <1>1, <1>2, <1>5, <3>1 DEF Nodes
    <3>3. kind \in CaseKinds => target # n
      BY <1>2, <1>5
    <3> QED
      BY <1>2, <1>3, <3>1, <3>2, <3>3
  <2> QED
    BY <1>5, <2>1, <2>2, <2>3, <2>4, <2>5, ListsNone
<1>6. IsSeq(tree')
  BY DEF Grown
<1> QED
  BY <1>2, <1>4, <1>5, <1>6 DEF Shape

LEMMA GrownReferred ==
  ASSUME Shape, Referred, NEW p \in 0 .. Len(tree), NEW kind, NEW ident, NEW target,
         Grown(kind, p, ident, target),
         kind = "break" => target \in {m \in 1 .. p : Open(m)} \cap OfKind(Breakable),
         kind = "continue" => target \in {m \in 1 .. p : Open(m)} \cap OfKind(Loops),
         kind \in CaseKinds => target \in {m \in 1 .. p : Open(m)} \cap OfKind({"switch"})
  PROVE  Referred'
<1>1. Len(tree) \in Nat
  BY DEF Shape, IsSeq
<1>2. /\ Nodes' = Nodes \cup {New}
      /\ \A n \in Nodes : Around(n)' = Around(n)
      /\ \A n : n = New => Around(n)' = {m \in 1 .. p : Open(m)}
      /\ \A kinds : OfKind(kinds) \subseteq OfKind(kinds)'
  BY <1>1, GrownTree
<1>3. ASSUME NEW n \in Nodes
      PROVE  /\ tree'[n].kind = "break" => tree'[n].target \in Around(n)' \cap OfKind(Breakable)'
             /\ tree'[n].kind = "continue" => tree'[n].target \in Around(n)' \cap OfKind(Loops)'
             /\ tree'[n].kind \in CaseKinds => tree'[n].target \in Around(n)' \cap OfKind({"switch"})'
  <2>1. tree'[n].kind = tree[n].kind /\ tree'[n].target = tree[n].target
    BY DEF Grown
  <2> QED
    BY <1>2, <2>1 DEF Referred
<1>4. ASSUME NEW n, n = New
      PROVE  /\ tree'[n].kind = "break" => tree'[n].target \in Around(n)' \cap OfKind(Breakable)'
             /\ tree'[n].kind = "continue" => tree'[n].target \in Around(n)' \cap OfKind(Loops)'
             /\ tree'[n].kind \in CaseKinds => tree'[n].target \in Around(n)' \cap OfKind({"switch"})'
  <2>1. tree'[n].kind = kind /\ tree'[n].target = target
    BY <1>4 DEF Grown
  <2> QED
    BY <1>2, <1>4, <2>1
<1> QED
  BY <1>2, <1>3, <1>4 DEF Referred

(* Its parts are to be visited next, then it is left if it is a loop or a  *)
(* switch, and what comes after it is what came after it.                  *)
More(kind, items) == items + (IF kind \in Breakable THEN 1 ELSE 0)

LEMMA EnterToDo ==
  ASSUME Sema, NEW kind, NEW items \in Nat, NEW ident, NEW target, Enter(kind, items, ident, target)
  PROVE  /\ IsSeq(todo') /\ Len(todo') = More(kind, items) + (Len(todo) - 1) /\ More(kind, items) \in Nat
         /\ \A i \in 1 .. items : todo'[i] = Visit(New)
         /\ kind \in Breakable => todo'[items + 1] = Leave(New)
         /\ \A i \in More(kind, items) + 1 .. Len(todo') :
              /\ (i - More(kind, items)) + 1 \in 2 .. Len(todo)
              /\ todo'[i] = todo[(i - More(kind, items)) + 1]
<1>1. todo # << >> /\ Head(todo).do = "visit" /\ IsSeq(todo) /\ Len(todo) \in Nat \ {0}
  BY AtHead DEF Enter
<1>2. PICK a, b, c, r : /\ a = [i \in 1 .. items |-> Visit(New)]
                        /\ b = (IF kind \in Breakable THEN <<Leave(New)>> ELSE << >>)
                        /\ c = a \o b
                        /\ r = Tail(todo)
                        /\ todo' = c \o r
  BY Zenon DEF Enter, New, Breakable
<1>3. IsSeq(a) /\ Len(a) = items /\ \A i \in 1 .. items : a[i] = Visit(New)
  BY <1>2 DEF IsSeq
<1>4. /\ IsSeq(b) /\ Len(b) = (IF kind \in Breakable THEN 1 ELSE 0)
      /\ kind \in Breakable => b[1] = Leave(New)
  BY <1>2 DEF IsSeq
<1>5. IsSeq(r) /\ Len(r) = Len(todo) - 1 /\ \A k \in 1 .. Len(todo) - 1 : r[k] = todo[k + 1]
  BY <1>1, <1>2, TailSeq
<1>6. /\ IsSeq(c) /\ Len(c) = Len(a) + Len(b)
      /\ \A k \in 1 .. Len(a) : c[k] = a[k]
      /\ \A k \in Len(a) + 1 .. Len(a) + Len(b) : c[k] = b[k - Len(a)]
  BY <1>2, <1>3, <1>4, ConcatSeq
<1>7. /\ IsSeq(todo') /\ Len(todo') = Len(c) + Len(r)
      /\ \A k \in 1 .. Len(c) : todo'[k] = c[k]
      /\ \A k \in Len(c) + 1 .. Len(c) + Len(r) : todo'[k] = r[k - Len(c)]
  <2>1. IsSeq(c) /\ IsSeq(r) /\ todo' = c \o r
    BY <1>2, <1>5, <1>6
  <2> QED
    BY <2>1, ConcatSeq
<1>8. Len(c) = More(kind, items) /\ More(kind, items) \in Nat /\ Len(b) \in Nat /\ Len(r) \in Nat
  BY <1>1, <1>3, <1>4, <1>5, <1>6 DEF More
<1>9. ASSUME NEW i \in 1 .. items
      PROVE  todo'[i] = Visit(New)
  <2>1. i \in 1 .. Len(a) /\ i \in 1 .. Len(c)
    BY <1>3, <1>6, <1>8
  <2> QED
    BY <1>3, <1>6, <1>7, <2>1
<1>10. ASSUME kind \in Breakable
       PROVE  todo'[items + 1] = Leave(New)
  <2>1. items + 1 \in Len(a) + 1 .. Len(a) + Len(b) /\ items + 1 \in 1 .. Len(c) /\ (items + 1) - Len(a) = 1
    BY <1>3, <1>4, <1>6, <1>10
  <2> QED
    BY <1>4, <1>6, <1>7, <1>10, <2>1
<1>11. ASSUME NEW i \in More(kind, items) + 1 .. Len(todo')
       PROVE  /\ (i - More(kind, items)) + 1 \in 2 .. Len(todo)
              /\ todo'[i] = todo[(i - More(kind, items)) + 1]
  <2>1. i \in Len(c) + 1 .. Len(c) + Len(r) /\ i - Len(c) \in 1 .. Len(todo) - 1
    BY <1>1, <1>5, <1>7, <1>8
  <2>2. todo'[i] = r[i - Len(c)] /\ r[i - Len(c)] = todo[(i - Len(c)) + 1]
    BY <1>5, <1>7, <2>1
  <2>3. (i - Len(c)) + 1 \in 2 .. Len(todo)
    BY <1>1, <1>8, <2>1
  <2> QED
    BY <1>8, <2>2, <2>3
<1>12. Len(todo') = More(kind, items) + (Len(todo) - 1)
  BY <1>5, <1>7, <1>8
<1> QED
  BY <1>7, <1>8, <1>9, <1>10, <1>11, <1>12

(* Where a place in what is to be done comes from. *)
Placed(kind, items, M) ==
  /\ \A i \in 1 .. Len(todo') :
       \/ i <= items /\ todo'[i].do = "visit" /\ todo'[i].at = New
       \/ i = items + 1 /\ i = M /\ kind \in Breakable /\ todo'[i].do = "leave" /\ todo'[i].at = New
       \/ i > M /\ \E o \in 2 .. Len(todo) : o = (i - M) + 1 /\ todo'[i] = todo[o]
  /\ \A o \in 2 .. Len(todo) : \E i \in 1 .. Len(todo') :
       i > M /\ o = (i - M) + 1 /\ todo'[i] = todo[o]

LEMMA Positions ==
  ASSUME Sema, NEW kind, NEW items \in Nat, NEW ident, NEW target, Enter(kind, items, ident, target)
  PROVE  Placed(kind, items, More(kind, items))
<1> DEFINE M == More(kind, items)
<1>1. /\ Len(todo') = M + (Len(todo) - 1) /\ M \in Nat
      /\ \A i \in 1 .. items : todo'[i] = Visit(New)
      /\ kind \in Breakable => todo'[items + 1] = Leave(New)
      /\ \A i \in M + 1 .. Len(todo') :
           (i - M) + 1 \in 2 .. Len(todo) /\ todo'[i] = todo[(i - M) + 1]
  BY EnterToDo, Zenon
<1>2. Len(todo) \in Nat \ {0}
  BY AtHead DEF Enter
<1>3. M = items + (IF kind \in Breakable THEN 1 ELSE 0)
  BY DEF More
<1>4. Visit(New).do = "visit" /\ Visit(New).at = New /\ Leave(New).do = "leave" /\ Leave(New).at = New
  BY DEF Visit, Leave
<1> HIDE DEF M
<1>5. ASSUME NEW i \in 1 .. Len(todo')
      PROVE  \/ i <= items /\ todo'[i].do = "visit" /\ todo'[i].at = New
             \/ i = items + 1 /\ i = M /\ kind \in Breakable /\ todo'[i].do = "leave" /\ todo'[i].at = New
             \/ i > M /\ \E o \in 2 .. Len(todo) : o = (i - M) + 1 /\ todo'[i] = todo[o]
  <2>0. i \in Nat /\ i >= 1 /\ i <= Len(todo') /\ Len(todo') \in Nat
    BY <1>1, <1>2
  <2>1. CASE i <= items
    BY <1>1, <1>4, <2>0, <2>1
  <2>2. CASE i > items /\ i <= M
    <3>1. i = items + 1 /\ i = M /\ kind \in Breakable
      BY <1>3, <2>0, <2>2
    <3> QED
      BY <1>1, <1>4, <3>1
  <2>3. CASE i > M
    <3>1. i \in M + 1 .. Len(todo')
      BY <1>1, <2>0, <2>3
    <3> QED
      BY <1>1, <2>3, <3>1
  <2> QED
    BY <1>1, <2>0, <2>1, <2>2, <2>3
<1>6. ASSUME NEW o \in 2 .. Len(todo)
      PROVE  \E i \in 1 .. Len(todo') : i > M /\ o = (i - M) + 1 /\ todo'[i] = todo[o]
  <2>1. /\ (o - 1) + M \in M + 1 .. Len(todo') /\ (((o - 1) + M) - M) + 1 = o
        /\ (o - 1) + M > M /\ (o - 1) + M \in 1 .. Len(todo')
    BY <1>1, <1>2
  <2> QED
    BY <1>1, <2>1
<1> QED
  BY <1>5, <1>6, Zenon DEF M, Placed

LEMMA ToDoEntered ==
  ASSUME Sema, NEW kind, NEW items \in Nat, NEW ident, NEW target, Enter(kind, items, ident, target)
  PROVE  ToDo'
<1> DEFINE p == Head(todo).at
           M == More(kind, items)
<1>1. /\ todo # << >> /\ Head(todo).do = "visit"
  BY DEF Enter
<1>2. /\ Len(tree) \in Nat /\ Len(todo) \in Nat \ {0} /\ Head(todo) = todo[1]
      /\ p \in 0 .. Len(tree) /\ (p = 0 <=> Len(tree) = 0)
      /\ p # 0 => p \in Nodes /\ Open(p) /\ ToDo
  BY <1>1, AtHead
<1>21. Len(todo) \in Nat /\ Len(tree) \in Nat
  BY <1>2, Zenon
<1>3. Grown(kind, p, ident, target)
  BY EnterTree DEF Sema
<1>4. /\ Nodes' = Nodes \cup {New} /\ New \notin Nodes /\ New = Len(tree) + 1
      /\ \A m \in Nodes : Open(m)' <=> Open(m) /\ m <= p
      /\ \A m : m = New => Open(m)'
  BY <1>2, <1>3, GrownTree
<1>5. /\ \A m \in Nodes : tree'[m].kind = tree[m].kind
      /\ tree'[New].kind = kind
  BY <1>3 DEF Grown
<1>6. /\ \A i \in 1 .. Len(todo') :
           \/ i <= items /\ todo'[i].do = "visit" /\ todo'[i].at = New
           \/ i = items + 1 /\ i = M /\ kind \in Breakable /\ todo'[i].do = "leave" /\ todo'[i].at = New
           \/ i > M /\ \E o \in 2 .. Len(todo) : o = (i - M) + 1 /\ todo'[i] = todo[o]
      /\ \A o \in 2 .. Len(todo) : \E i \in 1 .. Len(todo') :
           i > M /\ o = (i - M) + 1 /\ todo'[i] = todo[o]
  BY Positions, Zenon DEF Placed
<1>7. IsSeq(todo') /\ Len(todo') \in Nat /\ M \in Nat /\ M >= items /\ (kind \in Breakable => M = items + 1)
  BY EnterToDo DEF IsSeq, More
<1>71. ASSUME NEW i \in 1 .. Len(todo'), i > M
       PROVE  \E o \in 2 .. Len(todo) : o = (i - M) + 1 /\ todo'[i] = todo[o]
  <2>1. i # M /\ ~ (i <= items)
    BY <1>7, <1>71
  <2> QED
    BY <1>6, <2>1, Zenon
<1>8. ASSUME NEW o \in 2 .. Len(todo)
      PROVE  /\ p \in Nodes /\ ToDo
             /\ todo[o].do \in {"visit", "leave"}
             /\ todo[o].at \in Nodes /\ Open(todo[o].at) /\ todo[o].at <= p
             /\ todo[o].do = "leave" => tree[todo[o].at].kind \in Breakable
  <2>1. p \in Nodes /\ ToDo
    <3>1. ~ AtStart
      <4>1. AtStart => ~ (Len(todo) > 1)
        BY DEF AtStart
      <4>2. Len(todo) > 1
        BY <1>21
      <4> QED
        BY <4>1, <4>2
    <3> QED
      BY <1>2, <3>1 DEF Sema
  <2>2. 1 \in 1 .. Len(todo) /\ o \in 1 .. Len(todo) /\ 1 < o
    BY <1>2
  <2> QED
    BY <1>2, <2>1, <2>2 DEF ToDo
<1>9. \A n \in Nodes : n < New /\ n \in Nat
  BY <1>2, <1>4 DEF Nodes
<1> HIDE DEF M, p
<1>10. ASSUME NEW i \in 1 .. Len(todo'), NEW n, n = todo'[i].at
       PROVE  /\ todo'[i].do \in {"visit", "leave"}
              /\ n \in Nodes' /\ Open(n)'
              /\ todo'[i].do = "leave" => tree'[n].kind \in Breakable
  <2>1. CASE \E o \in 2 .. Len(todo) : todo'[i] = todo[o]
    <3>1. PICK o \in 2 .. Len(todo) : todo'[i] = todo[o]
      BY <2>1
    <3>2. /\ todo'[i].do \in {"visit", "leave"} /\ n \in Nodes /\ Open(n) /\ n <= p
          /\ todo'[i].do = "leave" => tree[n].kind \in Breakable
      BY <1>8, <1>10, <3>1
    <3> QED
      BY <1>4, <1>5, <3>2
  <2>2. CASE ~ \E o \in 2 .. Len(todo) : todo'[i] = todo[o]
    <3>1. n = New /\ (todo'[i].do = "visit" \/ (todo'[i].do = "leave" /\ kind \in Breakable))
      BY <1>6, <1>10, <2>2, Zenon
    <3> QED
      BY <1>4, <1>5, <3>1
  <2> QED
    BY <2>1, <2>2
<1>11. ASSUME NEW i \in 1 .. Len(todo'), NEW j \in 1 .. Len(todo'), i < j
       PROVE  /\ todo'[j].at <= todo'[i].at
              /\ todo'[i].do = "leave" => todo'[j].at < todo'[i].at
  <2>1. CASE j <= M
    <3>1. todo'[j].at = New
      BY <1>6, <1>7, <2>1
    <3>2. i <= items
      BY <1>6, <1>7, <1>11, <2>1
    <3>3. todo'[i].at = New /\ todo'[i].do = "visit"
      BY <1>6, <1>7, <3>2
    <3>4. New <= New
      BY <1>21, <1>4
    <3> QED
      BY <3>1, <3>3, <3>4
  <2>2. CASE j > M
    <3>1. PICK o \in 2 .. Len(todo) : o = (j - M) + 1 /\ todo'[j] = todo[o]
      BY <1>71, <2>2
    <3>2. CASE i <= M
      <4>1. todo'[i].at = New
        BY <1>6, <1>7, <3>2
      <4>2. todo[o].at < New /\ todo[o].at \in Nat
        BY <1>8, <1>9
      <4> QED
        BY <1>4, <1>21, <3>1, <4>1, <4>2
    <3>3. CASE i > M
      <4>1. PICK q \in 2 .. Len(todo) : q = (i - M) + 1 /\ todo'[i] = todo[q]
        BY <1>71, <3>3
      <4>2. q < o /\ q \in 1 .. Len(todo) /\ o \in 1 .. Len(todo)
        BY <1>7, <1>11, <3>1, <4>1
      <4> QED
        BY <1>8, <3>1, <4>1, <4>2 DEF ToDo
    <3> QED
      BY <1>7, <3>2, <3>3
  <2> QED
    BY <1>7, <2>1, <2>2
<1>12. ASSUME NEW i \in 1 .. Len(todo'), todo'[i].do = "visit",
              NEW m \in 1 .. todo'[i].at, Open(m)', tree'[m].kind \in Breakable
       PROVE  \E j \in i + 1 .. Len(todo') : todo'[j].do = "leave" /\ todo'[j].at = m
  <2>1. CASE m = New
    <3>1. todo'[i].at = New /\ i <= items
      <4>1. ASSUME NEW o \in 2 .. Len(todo), todo'[i] = todo[o]
            PROVE  FALSE
        BY <1>8, <1>9, <1>12, <2>1, <4>1
      <4> QED
        BY <1>6, <1>12, <4>1
    <3>2. kind \in Breakable
      BY <1>5, <1>12, <2>1
    <3>3. items + 1 \in i + 1 .. Len(todo')
      <4>1. Len(todo') = M + (Len(todo) - 1)
        BY EnterToDo, Zenon DEF M
      <4> QED
        BY <1>2, <1>7, <3>1, <3>2, <4>1
    <3>4. todo'[items + 1] = Leave(New)
      BY <3>2, EnterToDo
    <3> QED
      BY <2>1, <3>3, <3>4 DEF Leave
  <2>2. CASE m # New
    <3>1. m \in Nodes /\ Open(m) /\ m <= p /\ tree[m].kind \in Breakable
      <4>1. todo'[i].at \in Nodes'
        BY <1>10
      <4>2. m \in Nodes
        BY <1>2, <1>4, <2>2, <4>1 DEF Nodes
      <4> QED
        BY <1>4, <1>5, <1>12, <4>2
    <3>2. PICK o \in 1 .. Len(todo) :
            /\ todo[o].do = "visit" /\ m <= todo[o].at /\ ToDo
            /\ i <= M => o = 1
            /\ i > M => o = (i - M) + 1
      <4>1. CASE todo'[i].at = New
        <5>1. i <= M
          <6>1. ASSUME NEW o \in 2 .. Len(todo), todo'[i] = todo[o]
                PROVE  FALSE
            BY <1>8, <1>9, <4>1, <6>1
          <6> QED
            BY <1>6, <1>7, <6>1
        <5>2. p \in Nat /\ p # 0
          BY <1>2, <3>1 DEF Nodes
        <5>3. 1 \in 1 .. Len(todo) /\ ~ (i > M)
          BY <1>2, <1>7, <1>21, <5>1
        <5>4. todo[1].do = "visit" /\ m <= todo[1].at /\ ToDo
          BY <1>1, <1>2, <3>1, <5>2 DEF p
        <5> QED
          BY <5>3, <5>4
      <4>2. CASE todo'[i].at # New
        <5>1. i > M /\ \E o \in 2 .. Len(todo) : o = (i - M) + 1 /\ todo'[i] = todo[o]
          BY <1>6, <4>2, Zenon
        <5>2. PICK o \in 2 .. Len(todo) : o = (i - M) + 1 /\ todo'[i] = todo[o]
          BY <5>1, Zenon
        <5>3. m <= todo'[i].at
          OBVIOUS
        <5> QED
          BY <1>7, <1>8, <1>12, <5>1, <5>2, <5>3
      <4> QED
        BY <4>1, <4>2
    <3>3. m \in 1 .. todo[o].at
      BY <3>1, <3>2 DEF Nodes
    <3>4. PICK k \in o + 1 .. Len(todo) : todo[k].do = "leave" /\ todo[k].at = m
      BY <3>1, <3>2, <3>3, Zenon DEF ToDo
    <3>5. k \in 2 .. Len(todo)
      BY <1>2
    <3>6. PICK j \in 1 .. Len(todo') : j > M /\ k = (j - M) + 1 /\ todo'[j] = todo[k]
      BY <1>6, <3>5, Zenon
    <3>7. j > i
      BY <1>7, <3>2, <3>6
    <3> QED
      BY <1>7, <3>4, <3>6, <3>7, SMTT(30)
  <2> QED
    BY <2>1, <2>2
<1> QED
  BY <1>7, <1>10, <1>11, <1>12 DEF ToDo

(* What is pending is what was, moved; less one part of the statement the  *)
(* new one is directly inside; and all parts of the new one.               *)
LEMMA PendingEntered ==
  ASSUME Sema, NEW kind, NEW items \in Nat, NEW ident, NEW target, Enter(kind, items, ident, target),
         NEW M, M = More(kind, items)
  PROVE  /\ M \in Nat /\ Len(todo) \in Nat \ {0} /\ Len(todo') = M + (Len(todo) - 1)
         /\ Head(todo).at \in Nodes => 1 \in Pending(Head(todo).at)
         /\ \A n \in Nodes : \A i : i \in Pending(n)' <=>
              i \in Int /\ i > M /\ (i - M) + 1 \in Pending(n) /\ (i - M) + 1 # 1
         /\ \A n \in Nodes : n # Head(todo).at => 1 \notin Pending(n)
         /\ \A n : n = New => Pending(n)' = 1 .. items
<1>1. /\ Len(tree) \in Nat /\ Len(todo) \in Nat \ {0} /\ Head(todo) = todo[1] /\ Head(todo).do = "visit"
      /\ New = Len(tree) + 1
  BY AtHead DEF Enter, New
<1>2. M \in Nat /\ M >= items /\ Len(todo') = M + (Len(todo) - 1) /\ Len(todo') \in Nat
  <2>1. IsSeq(todo') /\ Len(todo') = M + (Len(todo) - 1)
    BY EnterToDo, Zenon
  <2> QED
    BY <2>1 DEF More, IsSeq
<1>3. Placed(kind, items, M)
  BY Positions, Zenon
<1>4. \A o \in 2 .. Len(todo) : todo[o].at \in Nodes
  <2>1. CASE AtStart
    <3>1. ~ (Len(todo) > 1)
      BY <2>1 DEF AtStart
    <3> QED
      BY <1>1, <3>1
  <2>2. CASE ToDo
    <3>1. \A o \in 2 .. Len(todo) : o \in 1 .. Len(todo)
      BY <1>1
    <3> QED
      BY <2>2, <3>1 DEF ToDo
  <2> QED
    BY <2>1, <2>2 DEF Sema
<1>5. \A n \in Nodes : n # New
  BY <1>1 DEF Nodes
<1>6. ASSUME NEW n \in Nodes, NEW i
      PROVE  i \in Pending(n)' <=> i \in Int /\ i > M /\ (i - M) + 1 \in Pending(n) /\ (i - M) + 1 # 1
  <2>1. ASSUME i \in Pending(n)'
        PROVE  i \in Int /\ i > M /\ (i - M) + 1 \in Pending(n) /\ (i - M) + 1 # 1
    <3>1. i \in 1 .. Len(todo') /\ todo'[i].do = "visit" /\ todo'[i].at = n
      BY <2>1 DEF Pending
    <3>2. i > M /\ \E o \in 2 .. Len(todo) : o = (i - M) + 1 /\ todo'[i] = todo[o]
      BY <1>3, <1>5, <3>1, Zenon DEF Placed
    <3>3. PICK o \in 2 .. Len(todo) : o = (i - M) + 1 /\ todo'[i] = todo[o]
      BY <3>2
    <3>4. o \in 1 .. Len(todo) /\ o # 1
      BY <1>1
    <3> QED
      BY <3>1, <3>2, <3>3, <3>4 DEF Pending
  <2>2. ASSUME i \in Int, i > M, (i - M) + 1 \in Pending(n), (i - M) + 1 # 1
        PROVE  i \in Pending(n)'
    <3>1. PICK o : o = (i - M) + 1 /\ o \in 2 .. Len(todo) /\ todo[o].do = "visit" /\ todo[o].at = n
      BY <1>1, <1>2, <2>2 DEF Pending
    <3>2. PICK j \in 1 .. Len(todo') : j > M /\ o = (j - M) + 1 /\ todo'[j] = todo[o]
      BY <1>3, <3>1, Zenon DEF Placed
    <3>3. j = i
      BY <1>2, <2>2, <3>1, <3>2
    <3> QED
      BY <3>1, <3>2, <3>3 DEF Pending
  <2> QED
    BY <2>1, <2>2
<1>7. ASSUME NEW n, n = New
      PROVE  Pending(n)' = 1 .. items
  <2>1. ASSUME NEW i \in Pending(n)'
        PROVE  i \in 1 .. items
    <3>1. i \in 1 .. Len(todo') /\ todo'[i].do = "visit" /\ todo'[i].at = New
      BY <1>7, <2>1 DEF Pending
    <3>2. i <= items
      BY <1>3, <1>4, <1>5, <3>1, Zenon DEF Placed
    <3> QED
      BY <3>1, <3>2
  <2>2. ASSUME NEW i \in 1 .. items
        PROVE  i \in Pending(n)'
    <3>1. i \in 1 .. Len(todo')
      BY <1>1, <1>2
    <3>2. todo'[i] = Visit(New)
      BY EnterToDo, Zenon
    <3> QED
      BY <1>7, <3>1, <3>2 DEF Pending, Visit
  <2> QED
    BY <2>1, <2>2
<1>8. ASSUME NEW n \in Nodes, n # Head(todo).at
      PROVE  1 \notin Pending(n)
  BY <1>1, <1>8 DEF Pending
<1>9. 1 \in Pending(Head(todo).at)
  <2>1. 1 \in 1 .. Len(todo)
    BY <1>1
  <2> QED
    BY <1>1, <2>1 DEF Pending
<1> QED
  BY <1>1, <1>2, <1>6, <1>7, <1>8, <1>9

LEMMA CompleteEntered ==
  ASSUME Sema, NEW kind, NEW items \in Nat, NEW ident, NEW target, Enter(kind, items, ident, target),
         kind # "comp" => items = Arity(kind)
  PROVE  Complete'
<1> DEFINE p == Head(todo).at
<1>1. PICK M : M = More(kind, items)
  OBVIOUS
<1>2. /\ M \in Nat /\ Len(todo) \in Nat \ {0} /\ Len(todo') = M + (Len(todo) - 1)
      /\ p \in Nodes => 1 \in Pending(p)
      /\ \A n \in Nodes : \A i : i \in Pending(n)' <=>
           i \in Int /\ i > M /\ (i - M) + 1 \in Pending(n) /\ (i - M) + 1 # 1
      /\ \A n \in Nodes : n # p => 1 \notin Pending(n)
      /\ \A n : n = New => Pending(n)' = 1 .. items
  BY <1>1, PendingEntered
<1>21. M \in Nat /\ Len(todo) \in Nat \ {0} /\ Len(todo') = M + (Len(todo) - 1) /\ Len(todo') + 1 \in Nat
  BY <1>2
<1>3. Len(tree) \in Nat /\ p \in 0 .. Len(tree)
  BY AtHead DEF Enter
<1>4. Grown(kind, p, ident, target)
  BY EnterTree DEF Sema
<1>5. Nodes' = Nodes \cup {New}
  BY <1>3, <1>4, GrownTree
<1> HIDE DEF p
<1>6. ASSUME NEW n, n = New, kind # "comp"
      PROVE  /\ Len(tree'[n].kids) <= Arity(tree'[n].kind)
             /\ \E q \in 1 .. Len(todo') + 1 :
                  Pending(n)' = q .. q + (Arity(tree'[n].kind) - Len(tree'[n].kids) - 1)
  <2>1. Arity(tree'[n].kind) = items /\ Len(tree'[n].kids) = 0
    BY <1>4, <1>6 DEF Grown
  <2>2. 1 \in 1 .. Len(todo') + 1
    BY <1>21
  <2>3. 1 + (items - 0 - 1) = items /\ 0 <= items
    OBVIOUS
  <2> QED
    BY <1>2, <1>6, <2>1, <2>2, <2>3
<1>7. ASSUME NEW n \in Nodes, tree[n].kind # "comp"
      PROVE  /\ Len(tree'[n].kids) <= Arity(tree'[n].kind)
             /\ \E q \in 1 .. Len(todo') + 1 :
                  Pending(n)' = q .. q + (Arity(tree'[n].kind) - Len(tree'[n].kids) - 1)
  <2>1. PICK a, l : a = Arity(tree[n].kind) /\ l = Len(tree[n].kids)
    OBVIOUS
  <2>2. a \in Nat /\ l \in Nat /\ IsSeq(tree[n].kids)
    BY <2>1 DEF Arity, Sema, Shape, Lists, IsSeq
  <2>21. l <= a
    BY <1>7, <2>1 DEF Sema, Complete
  <2>3. PICK q \in 1 .. Len(todo) + 1 : Pending(n) = q .. q + (a - l - 1)
    BY <1>7, <2>1 DEF Sema, Complete
  <2>4. Arity(tree'[n].kind) = a
    BY <1>4, <2>1 DEF Grown
  <2>5. CASE n = p
    <3>1. Len(tree'[n].kids) = l + 1
      <4>1. tree'[n].kids = Append(tree[n].kids, New)
        BY <1>4, <2>5 DEF Grown
      <4> QED
        BY <2>1, <2>2, <4>1, AppendSeq
    <3>2. q = 1 /\ a - l - 1 >= 0
      BY <1>2, <2>2, <2>3, <2>5
    <3>3. M + 1 \in 1 .. Len(todo') + 1
      BY <1>21
    <3>4. \A i : i \in Pending(n)' <=> i \in M + 1 .. (M + 1) + (a - (l + 1) - 1)
      <4>1. \A i : i \in Pending(n)' <=>
              i \in Int /\ i > M /\ (i - M) + 1 \in 1 .. 1 + (a - l - 1) /\ (i - M) + 1 # 1
        BY <1>2, <2>3, <3>2
      <4> QED
        BY <1>21, <2>2, <4>1
    <3>5. Pending(n)' = M + 1 .. (M + 1) + (a - (l + 1) - 1)
      BY <3>4
    <3>6. l + 1 <= a
      BY <2>2, <3>2
    <3> QED
      BY <2>4, <3>1, <3>3, <3>5, <3>6
  <2>6. CASE n # p
    <3>1. Len(tree'[n].kids) = l
      BY <1>4, <2>1, <2>6 DEF Grown
    <3>2. 1 \notin Pending(n)
      BY <1>2, <2>6
    <3>3. CASE a - l - 1 < 0
      <4>1. Pending(n) = {}
        BY <2>2, <2>3, <3>3
      <4>2. Pending(n)' = {}
        BY <1>2, <4>1
      <4>3. 1 .. 1 + (a - l - 1) = {} /\ 1 \in 1 .. Len(todo') + 1
        BY <1>21, <2>2, <3>3
      <4> QED
        BY <2>4, <2>21, <3>1, <4>2, <4>3
    <3>4. CASE a - l - 1 >= 0
      <4>1. q > 1
        BY <2>2, <2>3, <3>2, <3>4
      <4>2. PICK r : r = (q - 1) + M
        OBVIOUS
      <4>3. r \in 1 .. Len(todo') + 1
        BY <1>21, <4>1, <4>2
      <4>4. \A i : i \in Pending(n)' <=> i \in r .. r + (a - l - 1)
        <5>1. \A i : i \in Pending(n)' <=>
                i \in Int /\ i > M /\ (i - M) + 1 \in q .. q + (a - l - 1) /\ (i - M) + 1 # 1
          BY <1>2, <2>3
        <5> QED
          BY <1>21, <2>2, <4>1, <4>2, <5>1
      <4>5. Pending(n)' = r .. r + (a - l - 1)
        BY <4>4
      <4> QED
        BY <2>4, <2>21, <3>1, <4>3, <4>5
    <3> QED
      BY <2>2, <3>3, <3>4
  <2> QED
    BY <2>5, <2>6
<1>8. /\ \A n \in Nodes : tree'[n].kind = tree[n].kind
      /\ \A n : n = New => tree'[n].kind = kind
  BY <1>4 DEF Grown
<1> QED
  BY <1>5, <1>6, <1>7, <1>8 DEF Complete

(* The loops and switches being walked are those open at what comes next.  *)
LEMMA WalkedIsOpen ==
  ASSUME Sema, todo # << >>, Head(todo).do = "visit", NEW kinds \in SUBSET Breakable
  PROVE  Walked(kinds) = {m \in 1 .. Head(todo).at : Open(m)} \cap OfKind(kinds)
<1> DEFINE p == Head(todo).at
<1>1. /\ Len(tree) \in Nat /\ Len(todo) \in Nat \ {0} /\ Head(todo) = todo[1]
      /\ p \in 0 .. Len(tree) /\ (p = 0 <=> Len(tree) = 0)
      /\ p # 0 => p \in Nodes /\ Open(p) /\ ToDo
  BY AtHead
<1>2. CASE p = 0
  <2>1. Nodes = {}
    BY <1>1, <1>2 DEF Nodes
  <2> QED
    BY <1>2, <2>1 DEF Walked, OfKind
<1>3. CASE p # 0
  <2>1. ToDo /\ 1 \in 1 .. Len(todo) /\ todo[1].do = "visit" /\ todo[1].at = p /\ p \in Nodes
    BY <1>1, <1>3
  <2>2. ASSUME NEW m \in Walked(kinds)
        PROVE  m \in 1 .. p /\ Open(m) /\ m \in OfKind(kinds)
    <3>1. m \in OfKind(kinds) /\ m \in Nodes
      BY DEF Walked, OfKind
    <3>2. PICK i \in 1 .. Len(todo) : todo[i].do = "leave" /\ todo[i].at = m
      BY DEF Walked
    <3>3. 1 < i
      BY <1>1, <2>1, <3>2
    <3>4. m <= p /\ Open(m)
      BY <2>1, <3>2, <3>3 DEF ToDo
    <3> QED
      BY <3>1, <3>4 DEF Nodes
  <2>3. ASSUME NEW m \in 1 .. p, Open(m), m \in OfKind(kinds)
        PROVE  m \in Walked(kinds)
    <3>1. m \in 1 .. todo[1].at /\ tree[m].kind \in Breakable
      BY <2>1, <2>3 DEF OfKind
    <3>2. PICK j \in 1 + 1 .. Len(todo) : todo[j].do = "leave" /\ todo[j].at = m
      BY <2>1, <2>3, <3>1, Zenon DEF ToDo
    <3>3. j \in 1 .. Len(todo)
      BY <1>1
    <3> QED
      BY <2>3, <3>2, <3>3 DEF Walked
  <2> QED
    BY <2>2, <2>3
<1> QED
  BY <1>2, <1>3

LEMMA WalkedEntered ==
  ASSUME Sema, NEW kind, NEW items \in Nat, NEW ident, NEW target, Enter(kind, items, ident, target),
         NEW kinds \in SUBSET Breakable
  PROVE  Walked(kinds)' = Walked(kinds) \cup (IF kind \in kinds THEN {New} ELSE {})
<1> DEFINE p == Head(todo).at
<1>1. /\ Len(tree) \in Nat /\ Len(todo) \in Nat \ {0} /\ Head(todo) = todo[1]
      /\ p \in 0 .. Len(tree) /\ todo[1].do = "visit"
  BY AtHead DEF Enter
<1>2. Grown(kind, p, ident, target)
  BY EnterTree DEF Sema
<1>3. /\ New \notin Nodes
      /\ OfKind(kinds)' = OfKind(kinds) \cup (IF kind \in kinds THEN {New} ELSE {})
  BY <1>1, <1>2, GrownTree
<1>4. PICK M : M = More(kind, items)
  OBVIOUS
<1>5. Placed(kind, items, M)
  BY <1>4, Positions
<1>6. OfKind(kinds) \subseteq Nodes
  BY DEF OfKind
<1>7. \A o \in 1 .. Len(todo) : o # 1 => o \in 2 .. Len(todo)
  BY <1>1
<1>8. \A o \in 2 .. Len(todo) : o \in 1 .. Len(todo)
  BY <1>1
<1>9. \A i \in 1 .. Len(todo') : todo'[i].do = "leave" =>
        \/ todo'[i].at = New
        \/ \E o \in 1 .. Len(todo) : todo'[i] = todo[o]
  BY <1>5, <1>8, Zenon DEF Placed
<1>10. \A o \in 1 .. Len(todo) : todo[o].do = "leave" => \E i \in 1 .. Len(todo') : todo'[i] = todo[o]
  <2>1. SUFFICES ASSUME NEW o \in 1 .. Len(todo), todo[o].do = "leave"
                 PROVE  \E i \in 1 .. Len(todo') : todo'[i] = todo[o]
    OBVIOUS
  <2>2. o \in 2 .. Len(todo)
    BY <1>1, <1>7, <2>1
  <2> QED
    BY <1>5, <2>2, Zenon DEF Placed
<1>11. kind \in kinds => \E i \in 1 .. Len(todo') : todo'[i].do = "leave" /\ todo'[i].at = New
  <2>1. SUFFICES ASSUME kind \in Breakable
                 PROVE  items + 1 \in 1 .. Len(todo') /\ todo'[items + 1] = Leave(New)
    BY DEF Leave
  <2>2. todo'[items + 1] = Leave(New) /\ Len(todo') = More(kind, items) + (Len(todo) - 1)
    BY <2>1, EnterToDo
  <2> QED
    BY <1>1, <2>1, <2>2 DEF More
<1>12. ASSUME NEW m \in OfKind(kinds)
       PROVE  m \in Walked(kinds)' <=> m \in Walked(kinds)
  <2>1. m # New /\ m \in OfKind(kinds)'
    BY <1>3, <1>6
  <2> QED
    BY <1>9, <1>10, <2>1, Zenon DEF Walked
<1>13. ASSUME NEW m, m = New
       PROVE  m \in Walked(kinds)' <=> kind \in kinds
  BY <1>3, <1>6, <1>11, <1>13 DEF Walked
<1>14. Walked(kinds) \subseteq OfKind(kinds) /\ Walked(kinds)' \subseteq OfKind(kinds)'
  BY DEF Walked
<1> QED
  BY <1>3, <1>6, <1>12, <1>13, <1>14

LEMMA PushIf ==
  ASSUME Len(tree) \in Nat, NEW S \in SUBSET Nodes, NEW s, Lists(s, S), NEW b \in BOOLEAN, NEW t,
         t = IF b THEN Append(s, New) ELSE s
  PROVE  Lists(t, S \cup (IF b THEN {New} ELSE {}))
<1>1. S \in SUBSET Int /\ New \in Int /\ \A m \in S : m < New
  BY DEF Nodes, New
<1>2. CASE b
  <2>1. Lists(Append(s, New), S \cup {New})
    BY <1>1, ListsPush
  <2> QED
    BY <1>2, <2>1
<1>3. CASE ~ b
  <2>1. t = s /\ S \cup (IF b THEN {New} ELSE {}) = S
    BY <1>3
  <2> QED
    BY <2>1
<1> QED
  BY <1>2, <1>3

(* A statement that is not rejected is entered.                            *)
LEMMA EnterSema ==
  ASSUME Sema, NEW kind \in AllKinds, NEW items \in Nat, NEW ident, NEW target, Enter(kind, items, ident, target),
         UNCHANGED <<label_no, code>>,
         kind # "comp" => items = Arity(kind),
         kind = "break" => target \in Walked(Breakable),
         kind = "continue" => target \in Walked(Loops),
         kind \in CaseKinds => target \in Walked({"switch"}),
         kind = "label" => \A m \in OfKind({"label"}) : tree[m].ident # ident,
         break_targets' = IF kind \in Breakable THEN Append(break_targets, New) ELSE break_targets,
         continue_targets' = IF kind \in Loops THEN Append(continue_targets, New) ELSE continue_targets,
         switch_stmts' = IF kind \in {"switch"} THEN Append(switch_stmts, New) ELSE switch_stmts,
         label_stmts' = IF kind \in {"label"} THEN Append(label_stmts, New) ELSE label_stmts,
         goto_stmts' = IF kind \in {"goto"} THEN Append(goto_stmts, New) ELSE goto_stmts
  PROVE  Sema'
<1> DEFINE p == Head(todo).at
<1>1. /\ todo # << >> /\ Head(todo).do = "visit" /\ Len(tree) \in Nat
      /\ p \in 0 .. Len(tree) /\ (p = 0 <=> Len(tree) = 0) /\ (p # 0 => Open(p))
      /\ Shape /\ Referred /\ Labels /\ Targets /\ code = << >> /\ label_no = 0
  BY AtHead DEF Enter, Sema
<1>2. Grown(kind, p, ident, target)
  BY EnterTree DEF Sema
<1>3. /\ Nodes' = Nodes \cup {New} /\ New \notin Nodes
      /\ \A kinds : OfKind(kinds)' = OfKind(kinds) \cup (IF kind \in kinds THEN {New} ELSE {})
  BY <1>1, <1>2, GrownTree
<1>4. /\ Loops \in SUBSET Breakable /\ Breakable \in SUBSET Breakable /\ {"switch"} \in SUBSET Breakable
      /\ \A kinds : Walked(kinds) \in SUBSET Nodes /\ OfKind(kinds) \in SUBSET Nodes
  BY DEF Breakable, Walked, OfKind
<1>5. /\ kind = "break" => target \in {m \in 1 .. p : Open(m)} \cap OfKind(Breakable)
      /\ kind = "continue" => target \in {m \in 1 .. p : Open(m)} \cap OfKind(Loops)
      /\ kind \in CaseKinds => target \in {m \in 1 .. p : Open(m)} \cap OfKind({"switch"})
      /\ kind \in CaseKinds => target \in Nodes
  <2>1. \A kinds \in SUBSET Breakable : Walked(kinds) = {m \in 1 .. p : Open(m)} \cap OfKind(kinds)
    BY <1>1, WalkedIsOpen
  <2> QED
    BY <1>4, <2>1
<1> HIDE DEF p
<1>6. Shape' /\ Referred'
  BY <1>1, <1>2, <1>5, GrownShape, GrownReferred
<1>7. Complete' /\ ToDo'
  BY CompleteEntered, ToDoEntered
<1>8. Targets'
  <2>1. \A kinds \in SUBSET Breakable :
          Walked(kinds)' = Walked(kinds) \cup (IF kind \in kinds THEN {New} ELSE {})
    BY WalkedEntered
  <2>2. Lists(break_targets', Walked(Breakable)')
    <3>1. PICK S : S = Walked(Breakable)
      OBVIOUS
    <3>2. S \in SUBSET Nodes /\ Lists(break_targets, S) /\ (kind \in Breakable) \in BOOLEAN
      BY <1>1, <1>4, <3>1 DEF Targets
    <3>3. Lists(break_targets', S \cup (IF kind \in Breakable THEN {New} ELSE {}))
      BY <1>1, <3>2, PushIf
    <3>4. Walked(Breakable)' = S \cup (IF kind \in Breakable THEN {New} ELSE {})
      BY <1>4, <2>1, <3>1
    <3> QED
      BY <3>3, <3>4
  <2>3. Lists(continue_targets', Walked(Loops)')
    <3>1. PICK S : S = Walked(Loops)
      OBVIOUS
    <3>2. S \in SUBSET Nodes /\ Lists(continue_targets, S) /\ (kind \in Loops) \in BOOLEAN
      BY <1>1, <1>4, <3>1 DEF Targets
    <3>3. Lists(continue_targets', S \cup (IF kind \in Loops THEN {New} ELSE {}))
      BY <1>1, <3>2, PushIf
    <3>4. Walked(Loops)' = S \cup (IF kind \in Loops THEN {New} ELSE {})
      BY <1>4, <2>1, <3>1
    <3> QED
      BY <3>3, <3>4
  <2>4. Lists(switch_stmts', Walked({"switch"})')
    <3>1. PICK S : S = Walked({"switch"})
      OBVIOUS
    <3>2. S \in SUBSET Nodes /\ Lists(switch_stmts, S) /\ (kind \in {"switch"}) \in BOOLEAN
      BY <1>1, <1>4, <3>1 DEF Targets
    <3>3. Lists(switch_stmts', S \cup (IF kind \in {"switch"} THEN {New} ELSE {}))
      BY <1>1, <3>2, PushIf
    <3>4. Walked({"switch"})' = S \cup (IF kind \in {"switch"} THEN {New} ELSE {})
      BY <1>4, <2>1, <3>1
    <3> QED
      BY <3>3, <3>4
  <2> QED
    BY <2>2, <2>3, <2>4 DEF Targets
<1>9. Labels'
  <2>1. Lists(label_stmts', OfKind({"label"})')
    BY <1>1, <1>3, <1>4, PushIf DEF Labels
  <2>2. Lists(goto_stmts', OfKind({"goto"})')
    BY <1>1, <1>3, <1>4, PushIf DEF Labels
  <2>3. /\ \A m \in OfKind({"label"}) : tree'[m].ident = tree[m].ident
        /\ tree'[New].ident = ident
    BY <1>2, <1>4 DEF Grown
  <2>4. ASSUME NEW m \in OfKind({"label"})', NEW n \in OfKind({"label"})', tree'[m].ident = tree'[n].ident
        PROVE  m = n
    <3>1. /\ m \in OfKind({"label"}) \/ (m = New /\ kind = "label")
          /\ n \in OfKind({"label"}) \/ (n = New /\ kind = "label")
      BY <1>3
    <3> QED
      BY <1>1, <2>3, <2>4, <3>1 DEF Labels
  <2> QED
    BY <2>1, <2>2, <2>4 DEF Labels
<1>10. Len(tree') > 0
  BY <1>1, <1>2 DEF Grown, New
<1> QED
  BY <1>1, <1>6, <1>7, <1>8, <1>9, <1>10 DEF Sema
-----------------------------------------------------------------------------
(* What the handlers of sema.c leave behind. *)
Onward == (phase' = "sema" /\ Sema') \/ (phase' = "error" /\ Rejected')

LEMMA EnterOutside ==
  ASSUME Sema, NEW kind, NEW items \in Nat, NEW ident, Enter(kind, items, ident, 0),
         NEW kinds \in SUBSET Breakable, Walked(kinds) = {}, NEW n, n = New
  PROVE  n \in DOMAIN tree' /\ tree'[n].kind = kind /\ ~ Encloses(n, kinds)'
<1> DEFINE p == Head(todo).at
<1>1. todo # << >> /\ Head(todo).do = "visit" /\ Len(tree) \in Nat /\ p \in 0 .. Len(tree) /\ Shape
  BY AtHead DEF Enter, Sema
<1>2. Grown(kind, p, ident, 0)
  BY EnterTree DEF Sema
<1>3. Nodes' = Nodes \cup {New} /\ Around(n)' = {m \in 1 .. p : Open(m)}
  BY <1>1, <1>2, GrownTree
<1>4. {m \in 1 .. p : Open(m)} \cap OfKind(kinds) = {}
  BY <1>1, WalkedIsOpen
<1>5. \A m \in 1 .. p : m \in Nodes /\ tree'[m].kind = tree[m].kind
  BY <1>1, <1>2 DEF Grown, Nodes
<1>6. tree'[n].kind = kind
  BY <1>2 DEF Grown
<1>7. DOMAIN tree' = Nodes'
  BY <1>2 DEF Grown, IsSeq, Nodes
<1> QED
  BY <1>3, <1>4, <1>5, <1>6, <1>7 DEF Encloses, OfKind

LEMMA SemaPlain ==
  ASSUME Sema, phase = "sema",
         sema_expr_stmt \/ sema_comp_stmt \/ sema_if \/ sema_return
  PROVE  Onward
<1>1. PICK kind, items :
        /\ kind \in {"expr", "comp", "if", "ifelse", "return"} /\ items \in Nat
        /\ kind # "comp" => items = Arity(kind)
        /\ Enter(kind, items, "none", 0) /\ Accept /\ UNCHANGED targets
  <2>0. \A items \in 0 .. grammar.items : items \in Nat
    OBVIOUS
  <2>1. Arity("expr") = 0 /\ Arity("if") = 1 /\ Arity("ifelse") = 2 /\ Arity("return") = 0
    BY DEF Arity
  <2> QED
    BY <2>0, <2>1 DEF sema_expr_stmt, sema_comp_stmt, sema_if, sema_return
<1>2. /\ UNCHANGED <<label_no, code>> /\ phase' = "sema"
      /\ UNCHANGED <<label_stmts, goto_stmts, switch_stmts, continue_targets, break_targets>>
  BY <1>1 DEF Accept, targets
<1>3. kind \notin Breakable /\ kind \notin Loops /\ kind \notin CaseKinds
      /\ kind \notin {"switch"} /\ kind \notin {"label"} /\ kind \notin {"goto"}
      /\ kind # "break" /\ kind # "continue" /\ kind # "label" /\ kind \in AllKinds
  BY <1>1 DEF Breakable, Loops, CaseKinds, AllKinds
<1>4. Sema'
  BY <1>1, <1>2, <1>3, EnterSema
<1> QED
  BY <1>2, <1>4 DEF Onward

LEMMA SemaLoop ==
  ASSUME Sema, phase = "sema", sema_loop \/ sema_switch
  PROVE  Onward
<1>1. PICK kind \in Breakable : Enter(kind, 1, "none", 0) /\ Accept
        /\ break_targets' = Append(break_targets, New)
        /\ continue_targets' = (IF kind \in Loops THEN Append(continue_targets, New) ELSE continue_targets)
        /\ switch_stmts' = (IF kind \in {"switch"} THEN Append(switch_stmts, New) ELSE switch_stmts)
        /\ UNCHANGED <<label_stmts, goto_stmts>>
  BY DEF sema_loop, sema_switch, Breakable, Loops
<1>2. UNCHANGED <<label_no, code>> /\ phase' = "sema"
  BY <1>1 DEF Accept
<1>3. kind # "comp" /\ kind \notin CaseKinds /\ kind \notin {"label"} /\ kind \notin {"goto"}
      /\ kind # "break" /\ kind # "continue" /\ kind # "label" /\ 1 = Arity(kind) /\ 1 \in Nat
      /\ kind \in AllKinds
  BY DEF Breakable, Loops, CaseKinds, Arity, AllKinds
<1>4. Sema'
  BY <1>1, <1>2, <1>3, EnterSema
<1> QED
  BY <1>2, <1>4 DEF Onward

LEMMA SemaCase ==
  ASSUME Sema, phase = "sema", NEW kind, sema_case(kind)
  PROVE  Onward
<1>1. kind \in CaseKinds /\ Lists(switch_stmts, Walked({"switch"})) /\ {"switch"} \in SUBSET Breakable
  BY DEF sema_case, CaseKinds, Sema, Targets, Breakable
<1>2. kind \notin Breakable /\ kind \notin Loops
      /\ kind \notin {"switch"} /\ kind \notin {"label"} /\ kind \notin {"goto"}
      /\ kind # "break" /\ kind # "continue" /\ kind # "label" /\ kind # "comp" /\ 1 = Arity(kind) /\ 1 \in Nat
      /\ kind \in AllKinds
  BY <1>1 DEF Breakable, Loops, CaseKinds, Arity, AllKinds
<1>3. CASE switch_stmts # << >>
  <2>1. PICK target : target = Last(switch_stmts)
    OBVIOUS
  <2>2. Enter(kind, 1, "none", target) /\ Accept /\ UNCHANGED targets
    BY <1>3, <2>1 DEF sema_case
  <2>3. target \in Walked({"switch"})
    BY <1>1, <1>3, <2>1, ListsLast
  <2>4. /\ UNCHANGED <<label_no, code>> /\ phase' = "sema"
        /\ UNCHANGED <<label_stmts, goto_stmts, switch_stmts, continue_targets, break_targets>>
    BY <2>2 DEF Accept, targets
  <2>5. Sema'
    BY <1>2, <2>2, <2>3, <2>4, EnterSema
  <2> QED
    BY <2>4, <2>5 DEF Onward
<1>4. CASE switch_stmts = << >>
  <2>1. Enter(kind, 1, "none", 0) /\ phase' = "error"
    BY <1>4 DEF sema_case, Reject
  <2>2. Walked({"switch"}) = {}
    BY <1>1, <1>4, ListsLast
  <2>3. ASSUME NEW n, n = New
        PROVE  n \in DOMAIN tree' /\ Ill(n)'
    <3>1. n \in DOMAIN tree' /\ tree'[n].kind = kind /\ ~ Encloses(n, {"switch"})'
      BY <1>1, <1>2, <2>1, <2>2, <2>3, EnterOutside
    <3> QED
      BY <1>1, <3>1 DEF Ill, CaseKinds
  <2> QED
    BY <2>1, <2>3 DEF Onward, Rejected
<1> QED
  BY <1>3, <1>4

LEMMA SemaContinue ==
  ASSUME Sema, phase = "sema", sema_continue
  PROVE  Onward
<1>1. Lists(continue_targets, Walked(Loops)) /\ Loops \in SUBSET Breakable /\ 0 \in Nat
  BY DEF Sema, Targets, Breakable
<1>2. "continue" \notin Breakable /\ "continue" \notin Loops /\ "continue" \notin CaseKinds
      /\ 0 = Arity("continue") /\ "continue" \in AllKinds
  BY DEF Breakable, Loops, CaseKinds, Arity, AllKinds
<1>3. CASE continue_targets # << >>
  <2>1. PICK target : target = Last(continue_targets)
    OBVIOUS
  <2>2. Enter("continue", 0, "none", target) /\ Accept /\ UNCHANGED targets
    BY <1>3, <2>1 DEF sema_continue
  <2>3. target \in Walked(Loops)
    BY <1>1, <1>3, <2>1, ListsLast
  <2>4. /\ UNCHANGED <<label_no, code>> /\ phase' = "sema"
        /\ UNCHANGED <<label_stmts, goto_stmts, switch_stmts, continue_targets, break_targets>>
    BY <2>2 DEF Accept, targets
  <2>5. Sema'
    BY <1>1, <1>2, <2>2, <2>3, <2>4, EnterSema
  <2> QED
    BY <2>4, <2>5 DEF Onward
<1>4. CASE continue_targets = << >>
  <2>1. Enter("continue", 0, "none", 0) /\ phase' = "error"
    BY <1>4 DEF sema_continue, Reject
  <2>2. Walked(Loops) = {}
    BY <1>1, <1>4, ListsLast
  <2>3. ASSUME NEW n, n = New
        PROVE  n \in DOMAIN tree' /\ Ill(n)'
    <3>1. n \in DOMAIN tree' /\ tree'[n].kind = "continue" /\ ~ Encloses(n, Loops)'
      BY <1>1, <2>1, <2>2, <2>3, EnterOutside
    <3> QED
      BY <3>1 DEF Ill
  <2> QED
    BY <2>1, <2>3 DEF Onward, Rejected
<1> QED
  BY <1>3, <1>4

LEMMA SemaBreak ==
  ASSUME Sema, phase = "sema", sema_break
  PROVE  Onward
<1>1. Lists(break_targets, Walked(Breakable)) /\ Breakable \in SUBSET Breakable /\ 0 \in Nat
  BY DEF Sema, Targets
<1>2. "break" \notin Breakable /\ "break" \notin Loops /\ "break" \notin CaseKinds
      /\ 0 = Arity("break") /\ "break" \in AllKinds
  BY DEF Breakable, Loops, CaseKinds, Arity, AllKinds
<1>3. CASE break_targets # << >>
  <2>1. PICK target : target = Last(break_targets)
    OBVIOUS
  <2>2. Enter("break", 0, "none", target) /\ Accept /\ UNCHANGED targets
    BY <1>3, <2>1 DEF sema_break
  <2>3. target \in Walked(Breakable)
    BY <1>1, <1>3, <2>1, ListsLast
  <2>4. /\ UNCHANGED <<label_no, code>> /\ phase' = "sema"
        /\ UNCHANGED <<label_stmts, goto_stmts, switch_stmts, continue_targets, break_targets>>
    BY <2>2 DEF Accept, targets
  <2>5. Sema'
    BY <1>1, <1>2, <2>2, <2>3, <2>4, EnterSema
  <2> QED
    BY <2>4, <2>5 DEF Onward
<1>4. CASE break_targets = << >>
  <2>1. Enter("break", 0, "none", 0) /\ phase' = "error"
    BY <1>4 DEF sema_break, Reject
  <2>2. Walked(Breakable) = {}
    BY <1>1, <1>4, ListsLast
  <2>3. ASSUME NEW n, n = New
        PROVE  n \in DOMAIN tree' /\ Ill(n)'
    <3>1. n \in DOMAIN tree' /\ tree'[n].kind = "break" /\ ~ Encloses(n, Breakable)'
      BY <1>1, <2>1, <2>2, <2>3, EnterOutside
    <3> QED
      BY <3>1 DEF Ill, Breakable
  <2> QED
    BY <2>1, <2>3 DEF Onward, Rejected
<1> QED
  BY <1>3, <1>4

LEMMA SemaGoto ==
  ASSUME Sema, phase = "sema", NEW ident, sema_goto(ident)
  PROVE  Onward
<1>1. /\ Enter("goto", 0, ident, 0) /\ 0 \in Nat
      /\ UNCHANGED <<label_no, code, label_stmts, switch_stmts, continue_targets, break_targets>>
      /\ goto_stmts' = Append(goto_stmts, New) /\ phase' = "sema"
  BY DEF sema_goto, Accept
<1>2. "goto" \notin Breakable /\ "goto" \notin Loops /\ "goto" \notin CaseKinds /\ 0 = Arity("goto")
      /\ "goto" \in AllKinds
  BY DEF Breakable, Loops, CaseKinds, Arity, AllKinds
<1>3. Sema'
  BY <1>1, <1>2, EnterSema
<1> QED
  BY <1>1, <1>3 DEF Onward

LEMMA SemaLabel ==
  ASSUME Sema, phase = "sema", NEW ident, sema_label(ident)
  PROVE  Onward
<1>1. Enter("label", 1, ident, 0) /\ 1 \in Nat /\ Lists(label_stmts, OfKind({"label"}))
  BY DEF sema_label, Sema, Labels
<1>2. DOMAIN label_stmts = 1 .. Len(label_stmts)
  BY <1>1 DEF Lists, IsSeq
<1>3. CASE \E i \in DOMAIN label_stmts : tree[label_stmts[i]].ident = ident
  <2>1. PICK m \in OfKind({"label"}) : tree[m].ident = ident
    BY <1>1, <1>2, <1>3 DEF Lists
  <2>2. phase' = "error"
    BY <1>3 DEF sema_label, Reject
  <2>3. Grown("label", Head(todo).at, ident, 0) /\ Len(tree) \in Nat /\ Head(todo).at \in 0 .. Len(tree)
    BY <1>1, EnterTree, AtHead DEF Enter, Sema
  <2>4. Nodes' = Nodes \cup {New} /\ New \notin Nodes /\ m \in Nodes
    BY <2>3, GrownTree DEF OfKind
  <2>5. tree'[m].kind = "label" /\ tree'[m].ident = ident
        /\ tree'[New].kind = "label" /\ tree'[New].ident = ident
    BY <2>1, <2>3, <2>4 DEF Grown, OfKind
  <2>6. DOMAIN tree' = Nodes'
    BY <2>3 DEF Grown, IsSeq, Nodes
  <2>7. ASSUME NEW n, n = New
        PROVE  n \in DOMAIN tree' /\ Ill(n)'
    <3>1. m \in LabelsNamed(ident)' /\ m # n
      BY <2>4, <2>5, <2>6, <2>7 DEF LabelsNamed
    <3> QED
      BY <2>4, <2>5, <2>6, <2>7, <3>1 DEF Ill
  <2> QED
    BY <2>2, <2>7 DEF Onward, Rejected
<1>4. CASE ~ \E i \in DOMAIN label_stmts : tree[label_stmts[i]].ident = ident
  <2>1. \A m \in OfKind({"label"}) : tree[m].ident # ident
    BY <1>1, <1>2, <1>4 DEF Lists
  <2>2. /\ UNCHANGED <<label_no, code, goto_stmts, switch_stmts, continue_targets, break_targets>>
        /\ label_stmts' = Append(label_stmts, New) /\ phase' = "sema"
    BY <1>4 DEF sema_label, Accept
  <2>3. "label" \notin Breakable /\ "label" \notin Loops /\ "label" \notin CaseKinds /\ 1 = Arity("label")
        /\ "label" \in AllKinds
    BY DEF Breakable, Loops, CaseKinds, Arity, AllKinds
  <2>4. Sema'
    BY <1>1, <2>1, <2>2, <2>3, EnterSema
  <2> QED
    BY <2>2, <2>4 DEF Onward
<1> QED
  BY <1>3, <1>4
-----------------------------------------------------------------------------
(* A loop or switch is left. *)
LEMMA EndToDo ==
  ASSUME Sema, todo # << >>, Head(todo).do = "leave", todo' = Tail(todo), tree' = tree
  PROVE  /\ ToDo /\ ToDo' /\ Len(tree) > 0
         /\ Len(todo) > 0 /\ Len(todo) \in Nat /\ Head(todo) = todo[1] /\ Head(todo).at \in Nodes
         /\ Len(todo') = Len(todo) - 1
         /\ \A i \in 1 .. Len(todo) - 1 : todo'[i] = todo[i + 1] /\ i + 1 \in 1 .. Len(todo) /\ 1 < i + 1
<1>0. ToDo /\ Len(tree) > 0
  <2>1. ~ AtStart
    <3>1. AtStart => Head(todo).do = "visit"
      BY DEF AtStart, Visit
    <3> QED
      BY <3>1
  <2> QED
    BY <2>1 DEF Sema
<1>1. /\ Len(todo) > 0 /\ Head(todo) = todo[1] /\ IsSeq(todo') /\ Len(todo') = Len(todo) - 1
      /\ \A k \in 1 .. Len(todo) - 1 : todo'[k] = todo[k + 1]
      /\ Len(todo) \in Nat
  BY <1>0, TailSeq DEF ToDo, IsSeq
<1>2. 1 \in 1 .. Len(todo) /\ \A i \in 1 .. Len(todo) - 1 : i + 1 \in 1 .. Len(todo) /\ 1 < i + 1
  BY <1>1
<1>3. todo[1].at \in Nodes
  BY <1>0, <1>2 DEF ToDo
<1>4. ASSUME NEW i \in 1 .. Len(todo'), NEW n, n = todo'[i].at
      PROVE  /\ todo'[i].do \in {"visit", "leave"}
             /\ n \in Nodes' /\ Open(n)'
             /\ todo'[i].do = "leave" => tree'[n].kind \in Breakable
  <2>1. i + 1 \in 1 .. Len(todo) /\ todo'[i] = todo[i + 1]
    BY <1>1, <1>2
  <2> QED
    BY <1>0, <1>4, <2>1 DEF ToDo, Nodes, Open, Parent
<1>5. ASSUME NEW i \in 1 .. Len(todo'), NEW j \in 1 .. Len(todo'), i < j
      PROVE  todo'[j].at <= todo'[i].at /\ (todo'[i].do = "leave" => todo'[j].at < todo'[i].at)
  <2>1. i + 1 \in 1 .. Len(todo) /\ todo'[i] = todo[i + 1]
        /\ j + 1 \in 1 .. Len(todo) /\ todo'[j] = todo[j + 1] /\ i + 1 < j + 1
    BY <1>1, <1>2, <1>5
  <2> QED
    BY <1>0, <2>1 DEF ToDo
<1>6. ASSUME NEW i \in 1 .. Len(todo'), todo'[i].do = "visit",
             NEW m \in 1 .. todo'[i].at, Open(m)', tree'[m].kind \in Breakable
      PROVE  \E j \in i + 1 .. Len(todo') : todo'[j].do = "leave" /\ todo'[j].at = m
  <2>1. i + 1 \in 1 .. Len(todo) /\ todo'[i] = todo[i + 1] /\ Open(m) /\ tree[m].kind \in Breakable
    BY <1>1, <1>2, <1>6 DEF Open, Parent
  <2>2. PICK k \in (i + 1) + 1 .. Len(todo) : todo[k].do = "leave" /\ todo[k].at = m
    BY <1>0, <1>6, <2>1, Zenon DEF ToDo
  <2>3. k - 1 \in i + 1 .. Len(todo') /\ (k - 1) + 1 = k /\ k - 1 \in 1 .. Len(todo) - 1
    BY <1>1, <2>1
  <2> QED
    BY <1>1, <2>2, <2>3
<1>7. \A i \in 1 .. Len(todo') : \A j \in 1 .. Len(todo') : i < j =>
        todo'[j].at <= todo'[i].at /\ (todo'[i].do = "leave" => todo'[j].at < todo'[i].at)
  BY <1>5
<1>8. ToDo'
  BY <1>1, <1>4, <1>6, <1>7 DEF ToDo
<1> QED
  BY <1>0, <1>1, <1>2, <1>3, <1>8

LEMMA EndWalked ==
  ASSUME Sema, todo # << >>, Head(todo).do = "leave", todo' = Tail(todo), tree' = tree, NEW kinds
  PROVE  /\ Walked(kinds)' = Walked(kinds) \ {Head(todo).at}
         /\ \A m \in Walked(kinds) : m <= Head(todo).at
         /\ tree[Head(todo).at].kind \in kinds <=> Head(todo).at \in Walked(kinds)
<1> DEFINE n == Head(todo).at
<1>1. /\ ToDo /\ Len(todo) > 0 /\ Len(todo) \in Nat /\ Head(todo) = todo[1] /\ n \in Nodes
      /\ Len(todo') = Len(todo) - 1
      /\ \A i \in 1 .. Len(todo) - 1 : todo'[i] = todo[i + 1] /\ i + 1 \in 1 .. Len(todo) /\ 1 < i + 1
  BY EndToDo
<1>2. 1 \in 1 .. Len(todo) /\ todo[1].do = "leave" /\ todo[1].at = n
  BY <1>1
<1>3. OfKind(kinds)' = OfKind(kinds) /\ OfKind(kinds) \subseteq Nodes /\ n \in Int
  BY <1>1 DEF OfKind, Nodes
<1>4. \A i \in 1 .. Len(todo) : i = 1 \/ (1 < i /\ todo[i].at \in Int /\ todo[i].at < n)
  BY <1>1, <1>2 DEF ToDo, Nodes
<1>5. \A i \in 1 .. Len(todo) : 1 < i => i - 1 \in 1 .. Len(todo') /\ todo'[i - 1] = todo[i]
  <2>1. \A i \in 1 .. Len(todo) : 1 < i => i - 1 \in 1 .. Len(todo) - 1 /\ (i - 1) + 1 = i
    BY <1>1
  <2> QED
    BY <1>1, <2>1
<1> HIDE DEF n
<1>6. ASSUME NEW m \in Walked(kinds)'
      PROVE  m \in Walked(kinds) /\ m # n
  <2>1. PICK i \in 1 .. Len(todo') : todo'[i].do = "leave" /\ todo'[i].at = m
    BY DEF Walked
  <2>2. i + 1 \in 1 .. Len(todo) /\ todo'[i] = todo[i + 1] /\ i + 1 # 1
    BY <1>1
  <2> QED
    BY <1>3, <1>4, <2>1, <2>2 DEF Walked
<1>7. ASSUME NEW m \in Walked(kinds), m # n
      PROVE  m \in Walked(kinds)'
  <2>1. PICK i \in 1 .. Len(todo) : todo[i].do = "leave" /\ todo[i].at = m
    BY DEF Walked
  <2>2. 1 < i
    BY <1>2, <1>4, <1>7, <2>1
  <2> QED
    BY <1>3, <1>5, <2>1, <2>2 DEF Walked
<1>8. \A m \in Walked(kinds) : m <= n
  BY <1>2, <1>3, <1>4 DEF Walked
<1>9. tree[n].kind \in kinds <=> n \in Walked(kinds)
  BY <1>1, <1>2 DEF Walked, OfKind
<1> QED
  BY <1>6, <1>7, <1>8, <1>9 DEF n

LEMMA EndComplete ==
  ASSUME Sema, todo # << >>, Head(todo).do = "leave", todo' = Tail(todo), tree' = tree
  PROVE  Complete'
<1>1. /\ Len(todo) > 0 /\ Len(todo) \in Nat /\ Head(todo) = todo[1]
      /\ Len(todo') = Len(todo) - 1
      /\ \A i \in 1 .. Len(todo) - 1 : todo'[i] = todo[i + 1] /\ i + 1 \in 1 .. Len(todo) /\ 1 < i + 1
  BY EndToDo
<1>2. ASSUME NEW n, NEW i
      PROVE  i \in Pending(n)' <=> i \in Int /\ i + 1 \in Pending(n)
  <2>1. i \in 1 .. Len(todo') => i \in Int /\ i + 1 \in 1 .. Len(todo) /\ todo'[i] = todo[i + 1]
    BY <1>1
  <2>2. i \in Int /\ i + 1 \in 1 .. Len(todo) /\ i + 1 # 1 => i \in 1 .. Len(todo')
    BY <1>1
  <2>3. i + 1 = 1 => i + 1 \notin Pending(n)
    BY <1>1 DEF Pending
  <2> QED
    BY <2>1, <2>2, <2>3 DEF Pending
<1>3. SUFFICES ASSUME NEW n \in Nodes, tree[n].kind # "comp"
               PROVE  \E q \in 1 .. Len(todo') + 1 :
                        Pending(n)' = q .. q + (Arity(tree[n].kind) - Len(tree[n].kids) - 1)
  BY DEF Sema, Complete, Nodes
<1>4. PICK c : c = Arity(tree[n].kind) - Len(tree[n].kids) - 1
  OBVIOUS
<1>5. c \in Int
  BY <1>3, <1>4 DEF Arity, Sema, Shape, Lists, IsSeq
<1>6. PICK q \in 1 .. Len(todo) + 1 : Pending(n) = q .. q + c
  BY <1>3, <1>4 DEF Sema, Complete
<1>7. CASE c < 0
  <2>1. Pending(n) = {} /\ 1 .. 1 + c = {} /\ 1 \in 1 .. Len(todo') + 1
    BY <1>1, <1>5, <1>6, <1>7
  <2>2. Pending(n)' = {}
    BY <1>2, <2>1
  <2> QED
    BY <1>4, <2>1, <2>2
<1>8. CASE c >= 0
  <2>1. q \in Pending(n)
    BY <1>5, <1>6, <1>8
  <2>2. q # 1
    BY <1>1, <2>1 DEF Pending
  <2>3. q - 1 \in 1 .. Len(todo') + 1
    BY <1>1, <2>2
  <2>4. \A i : i \in Pending(n)' <=> i \in q - 1 .. (q - 1) + c
    BY <1>2, <1>5, <1>6
  <2>5. Pending(n)' = q - 1 .. (q - 1) + c
    BY <2>4
  <2> QED
    BY <1>4, <2>3, <2>5
<1> QED
  BY <1>5, <1>7, <1>8

LEMMA SemaEnd ==
  ASSUME Sema, sema_end
  PROVE  Onward
<1>1. /\ todo # << >> /\ Head(todo).do = "leave" /\ todo' = Tail(todo) /\ phase' = "sema"
      /\ UNCHANGED <<tree, label_stmts, goto_stmts, label_no, code>>
      /\ break_targets' = Front(break_targets)
  BY DEF sema_end
<1>2. ToDo /\ Len(tree) > 0
  BY <1>1, EndToDo
<1>3. PICK n : n = Head(todo).at
  OBVIOUS
<1>4. \A kinds : /\ Walked(kinds)' = Walked(kinds) \ {n}
                 /\ \A m \in Walked(kinds) : m <= n
                 /\ tree[n].kind \in kinds <=> n \in Walked(kinds)
                 /\ Walked(kinds) \in SUBSET Int
  <2>1. \A kinds : Walked(kinds) \in SUBSET Int
    BY DEF Walked, OfKind, Nodes
  <2> QED
    BY <1>1, <1>2, <1>3, <2>1, EndWalked
<1>5. tree[n].kind \in Breakable
  <2>1. 1 \in 1 .. Len(todo) /\ Head(todo) = todo[1]
    BY <1>1, <1>2, TailSeq DEF ToDo, IsSeq
  <2> QED
    BY <1>1, <1>2, <1>3, <2>1 DEF ToDo
<1>6. Targets
  BY DEF Sema
<1>7. Lists(break_targets', Walked(Breakable)')
  <2>1. PICK S : S = Walked(Breakable)
    OBVIOUS
  <2>2. Lists(break_targets, S) /\ S \in SUBSET Int /\ n \in S /\ (\A m \in S : m <= n)
    BY <1>4, <1>5, <1>6, <2>1 DEF Targets
  <2>3. Lists(Front(break_targets), S \ {n})
    BY <2>2, ListsPop
  <2> QED
    BY <1>1, <1>4, <2>1, <2>3
<1>8. Lists(continue_targets', Walked(Loops)')
  <2>1. PICK S : S = Walked(Loops)
    OBVIOUS
  <2>2. Lists(continue_targets, S) /\ S \in SUBSET Int /\ (\A m \in S : m <= n)
        /\ Walked(Loops)' = S \ {n}
    BY <1>4, <1>6, <2>1 DEF Targets
  <2>3. CASE tree[n].kind = "switch"
    <3>1. continue_targets' = continue_targets /\ "switch" \notin Loops
      BY <1>3, <2>3 DEF sema_end, Loops
    <3>2. n \notin S
      BY <1>4, <2>1, <2>3, <3>1
    <3>3. S \ {n} = S
      BY <3>2
    <3> QED
      BY <2>2, <3>1, <3>3
  <2>4. CASE tree[n].kind # "switch"
    <3>1. continue_targets' = Front(continue_targets)
      BY <1>3, <2>4 DEF sema_end
    <3>2. n \in S
      BY <1>4, <1>5, <2>1, <2>4 DEF Breakable
    <3>3. Lists(Front(continue_targets), S \ {n})
      BY <2>2, <3>2, ListsPop
    <3> QED
      BY <2>2, <3>1, <3>3
  <2> QED
    BY <2>3, <2>4
<1>9. Lists(switch_stmts', Walked({"switch"})')
  <2>1. PICK S : S = Walked({"switch"})
    OBVIOUS
  <2>2. Lists(switch_stmts, S) /\ S \in SUBSET Int /\ (\A m \in S : m <= n)
        /\ Walked({"switch"})' = S \ {n}
    BY <1>4, <1>6, <2>1 DEF Targets
  <2>3. CASE tree[n].kind # "switch"
    <3>1. switch_stmts' = switch_stmts
      BY <1>3, <2>3 DEF sema_end
    <3>2. n \notin S
      BY <1>4, <2>1, <2>3
    <3>3. S \ {n} = S
      BY <3>2
    <3> QED
      BY <2>2, <3>1, <3>3
  <2>4. CASE tree[n].kind = "switch"
    <3>1. switch_stmts' = Front(switch_stmts)
      BY <1>3, <2>4 DEF sema_end
    <3>2. n \in S
      BY <1>4, <2>1, <2>4
    <3>3. Lists(Front(switch_stmts), S \ {n})
      BY <2>2, <3>2, ListsPop
    <3> QED
      BY <2>2, <3>1, <3>3
  <2> QED
    BY <2>3, <2>4
<1>10. ToDo' /\ Complete'
  BY <1>1, <1>2, EndToDo, EndComplete DEF Sema
<1>11. Shape' /\ Referred' /\ Labels'
  <2>1. Shape /\ Referred /\ Labels /\ tree' = tree /\ UNCHANGED <<label_stmts, goto_stmts>>
    BY <1>1 DEF Sema
  <2>2. Nodes' = Nodes /\ \A kinds : OfKind(kinds)' = OfKind(kinds)
    BY <2>1 DEF Nodes, OfKind
  <2>3. \A m : Parent(m)' = Parent(m) /\ Around(m)' = Around(m)
    BY <2>1 DEF Parent, Around
  <2>4. Shape' = Shape
    BY <2>1, <2>2, <2>3 DEF Shape
  <2>5. Referred' = Referred /\ Labels' = Labels
    BY <2>1, <2>2, <2>3 DEF Referred, Labels
  <2> QED
    BY <2>1, <2>4, <2>5
<1>12. Sema'
  BY <1>1, <1>2, <1>7, <1>8, <1>9, <1>10, <1>11 DEF Sema, Targets
<1> QED
  BY <1>1, <1>12 DEF Onward
-----------------------------------------------------------------------------
(* From the end of sema.c on a statement keeps its kind, its place and its *)
(* name; its labels change, and where a goto goes.                         *)
Same ==
  /\ IsSeq(tree') /\ Len(tree') = Len(tree)
  /\ UNCHANGED <<label_stmts, goto_stmts>>
  /\ \A n \in Nodes :
       /\ IsNode(tree'[n])
       /\ tree'[n].kind = tree[n].kind /\ tree'[n].parent = tree[n].parent
       /\ tree'[n].kids = tree[n].kids /\ tree'[n].ident = tree[n].ident
       /\ tree'[n].cases = tree[n].cases
       /\ tree[n].kind # "goto" => tree'[n].target = tree[n].target

LEMMA SameTree ==
  ASSUME Shape, Referred, Labels, Same
  PROVE  /\ Shape' /\ Referred' /\ Labels'
         /\ Nodes' = Nodes /\ DOMAIN tree = Nodes /\ DOMAIN tree' = Nodes
         /\ \A kinds : OfKind(kinds)' = OfKind(kinds)
         /\ \A n \in Nodes : Parent(n)' = Parent(n)
<1>1. Nodes' = Nodes /\ DOMAIN tree = Nodes /\ DOMAIN tree' = Nodes /\ Len(tree) \in Nat
  BY DEF Same, Shape, IsSeq, Nodes
<1>2. \A kinds : OfKind(kinds)' = OfKind(kinds)
  BY <1>1 DEF OfKind, Same
<1>3. \A n \in Nodes : Parent(n)' = Parent(n)
  BY DEF Parent, Same
<1>4. \A n \in Nodes : Around(n)' = Around(n)
  <2>1. \A n \in Nodes : \A m \in 1 .. n - 1 : \A k \in m + 1 .. n : k \in Nodes
    BY <1>1 DEF Nodes
  <2> QED
    BY <1>3, <2>1 DEF Around
<1>5. \A m \in OfKind(CaseKinds) : tree'[m].target = tree[m].target
  BY DEF OfKind, Same, CaseKinds
<1>6. \A n \in Nodes : /\ {m \in Nodes' : Parent(m)' = n} = {m \in Nodes : Parent(m) = n}
                       /\ {m \in OfKind(CaseKinds)' : tree'[m].target = n}
                            = {m \in OfKind(CaseKinds) : tree[m].target = n}
  BY <1>1, <1>2, <1>3, <1>5
<1>7. \A n \in Nodes : \A m \in Parent(n) + 1 .. n : m \in Nodes
  <2>1. \A n \in Nodes : Parent(n) \in 0 .. n - 1
    BY Zenon DEF Shape
  <2> QED
    BY <1>1, <2>1 DEF Nodes
<1>8. ASSUME NEW n \in Nodes
      PROVE  /\ IsNode(tree'[n]) /\ tree'[n].kind \in AllKinds
             /\ Parent(n)' \in 0 .. n - 1
             /\ Parent(n)' = 0 => n = 1
             /\ \A m \in Parent(n)' + 1 .. n : Parent(m)' >= Parent(n)'
             /\ Lists(tree'[n].kids, {m \in Nodes' : Parent(m)' = n})
             /\ Lists(tree'[n].cases, {m \in OfKind(CaseKinds)' : tree'[m].target = n})
  <2>1. /\ Parent(n) \in 0 .. n - 1 /\ (Parent(n) = 0 => n = 1)
        /\ \A m \in Parent(n) + 1 .. n : Parent(m) >= Parent(n)
        /\ Lists(tree[n].kids, {m \in Nodes : Parent(m) = n})
        /\ Lists(tree[n].cases, {m \in OfKind(CaseKinds) : tree[m].target = n})
    BY Zenon DEF Shape
  <2>2. /\ IsNode(tree'[n]) /\ tree'[n].kids = tree[n].kids /\ tree'[n].cases = tree[n].cases
        /\ tree'[n].kind \in AllKinds
    BY DEF Same, Shape
  <2>3. \A m \in Parent(n) + 1 .. n : Parent(m)' = Parent(m)
    BY <1>3, <1>7
  <2> QED
    BY <1>3, <1>6, <2>1, <2>2, <2>3
<1>9. Shape'
  BY <1>1, <1>8 DEF Shape, Same
<1>10. Referred'
  BY <1>1, <1>2, <1>4 DEF Referred, Same, CaseKinds
<1>11. Labels'
  <2>1. \A n \in OfKind({"label"}) : tree'[n].ident = tree[n].ident
    BY DEF OfKind, Same
  <2> QED
    BY <1>2, <2>1 DEF Labels, Same
<1> QED
  BY <1>1, <1>2, <1>3, <1>9, <1>10, <1>11

(* All statements have been walked.                                        *)
LEMMA SemaWhole ==
  ASSUME Sema, todo = << >>
  PROVE  /\ Len(tree) \in Nat /\ Len(tree) > 0
         /\ \A n \in Nodes : tree[n].kind # "comp" => Len(tree[n].kids) = Arity(tree[n].kind)
<1>1. Len(todo) = 0
  OBVIOUS
<1>2. Len(tree) > 0 /\ Len(tree) \in Nat
  <2>1. ~ AtStart
    BY DEF AtStart
  <2> QED
    BY <2>1 DEF Sema, Shape, IsSeq
<1>3. ASSUME NEW n \in Nodes, tree[n].kind # "comp"
      PROVE  Len(tree[n].kids) = Arity(tree[n].kind)
  <2>1. PICK a, l : a = Arity(tree[n].kind) /\ l = Len(tree[n].kids)
    OBVIOUS
  <2>2. a \in Nat /\ l \in Nat
    BY <2>1 DEF Arity, Sema, Shape, Lists, IsSeq
  <2>3. PICK q \in 1 .. 1 : l <= a /\ Pending(n) = q .. q + (a - l - 1)
    BY <1>1, <1>3, <2>1 DEF Sema, Complete
  <2>4. Pending(n) = {}
    BY <1>1 DEF Pending
  <2>5. a = l
    <3>1. l < a => q \in q .. q + (a - l - 1)
      BY <2>2
    <3> QED
      BY <2>2, <2>3, <2>4, <3>1, SMTT(30)
  <2> QED
    BY <2>1, <2>5
<1> QED
  BY <1>2, <1>3
(* Every label has a number of its own, and every goto finds the one label *)
(* of its name.                                                            *)
LEMMA Chosen ==
  ASSUME Sema, Labels
  PROVE  /\ DOMAIN label_stmts = 1 .. Len(label_stmts) /\ Len(label_stmts) \in Nat
         /\ \A n \in OfKind({"label"}) :
              NumberOf(n) \in DOMAIN label_stmts /\ label_stmts[NumberOf(n)] = n
         /\ \A g : Found(g) # {} =>
              goto_target(g) \in OfKind({"label"}) /\ tree[goto_target(g)].ident = tree[g].ident
<1>1. DOMAIN label_stmts = 1 .. Len(label_stmts) /\ Len(label_stmts) \in Nat
  BY DEF Labels, Lists, IsSeq
<1>2. ASSUME NEW n \in OfKind({"label"})
      PROVE  NumberOf(n) \in DOMAIN label_stmts /\ label_stmts[NumberOf(n)] = n
  <2>1. \E i \in DOMAIN label_stmts : label_stmts[i] = n
    BY <1>1 DEF Labels, Lists
  <2>2. PICK c : c = CHOOSE i \in DOMAIN label_stmts : label_stmts[i] = n
    OBVIOUS
  <2>3. c \in DOMAIN label_stmts /\ label_stmts[c] = n
    BY <2>1, <2>2
  <2>4. NumberOf(n) = c
    <3>1. NumberOf(n) = label_no + c /\ label_no = 0 /\ c \in Nat
      BY <1>1, <2>2, <2>3 DEF NumberOf, Sema
    <3> QED
      BY <3>1
  <2> QED
    BY <2>3, <2>4
<1>3. ASSUME NEW g, Found(g) # {}
      PROVE  goto_target(g) \in OfKind({"label"}) /\ tree[goto_target(g)].ident = tree[g].ident
  <2>1. PICK j \in Found(g) : TRUE
    BY <1>3
  <2>2. \A i \in Found(g) : /\ i \in DOMAIN label_stmts /\ label_stmts[i] \in OfKind({"label"})
                            /\ tree[label_stmts[i]].ident = tree[g].ident
    BY <1>1 DEF Found, Labels, Lists
  <2>3. ASSUME NEW i \in Found(g)
        PROVE  i = j
    <3>1. label_stmts[i] = label_stmts[j]
      BY <2>2 DEF Labels
    <3>2. \A a, b \in 1 .. Len(label_stmts) : a < b => label_stmts[a] < label_stmts[b]
      BY DEF Labels, Lists
    <3>3. label_stmts[i] \in Int /\ label_stmts[j] \in Int /\ i \in Int /\ j \in Int
      BY <1>1, <2>2 DEF OfKind, Nodes
    <3> QED
      BY <1>1, <2>2, <3>1, <3>2, <3>3
  <2>4. \E i \in Found(g) : \A k \in Found(g) : k <= i
    BY <1>1, <2>2, <2>3
  <2>5. PICK c : c = CHOOSE i \in Found(g) : \A k \in Found(g) : k <= i
    OBVIOUS
  <2>6. c \in Found(g)
    BY <2>4, <2>5
  <2> QED
    BY <2>2, <2>5, <2>6 DEF goto_target
<1> QED
  BY <1>1, <1>2, <1>3

LEMMA SemaFuncEnd ==
  ASSUME phase = "sema", Sema, sema_func_end
  PROVE  (phase' = "error" /\ Rejected') \/ (phase' = "gen" /\ Gen' /\ Same)
<1> DEFINE gotos  == {goto_stmts[i] : i \in DOMAIN goto_stmts}
           labels == {label_stmts[i] : i \in DOMAIN label_stmts}
<1>1. todo = << >> /\ Shape /\ Referred /\ Labels /\ code = << >> /\ label_no = 0
  BY DEF sema_func_end, Sema
<1>2. gotos = OfKind({"goto"}) /\ labels = OfKind({"label"})
  <2>1. DOMAIN goto_stmts = 1 .. Len(goto_stmts) /\ DOMAIN label_stmts = 1 .. Len(label_stmts)
    BY <1>1 DEF Labels, Lists, IsSeq
  <2>2. /\ \A i \in 1 .. Len(goto_stmts) : goto_stmts[i] \in OfKind({"goto"})
        /\ \A m \in OfKind({"goto"}) : \E i \in 1 .. Len(goto_stmts) : goto_stmts[i] = m
        /\ \A i \in 1 .. Len(label_stmts) : label_stmts[i] \in OfKind({"label"})
        /\ \A m \in OfKind({"label"}) : \E i \in 1 .. Len(label_stmts) : label_stmts[i] = m
    BY <1>1 DEF Labels, Lists
  <2>3. gotos = OfKind({"goto"})
    BY <2>1, <2>2
  <2>4. labels = OfKind({"label"})
    BY <2>1, <2>2
  <2> QED
    BY <2>3, <2>4
<1>3. /\ DOMAIN label_stmts = 1 .. Len(label_stmts) /\ Len(label_stmts) \in Nat
      /\ \A n \in OfKind({"label"}) :
           NumberOf(n) \in DOMAIN label_stmts /\ label_stmts[NumberOf(n)] = n
      /\ \A g : Found(g) # {} =>
           goto_target(g) \in OfKind({"label"}) /\ tree[goto_target(g)].ident = tree[g].ident
  BY <1>1, Chosen
<1>4. DOMAIN tree = Nodes
  BY <1>1 DEF Shape, IsSeq, Nodes
<1>5. CASE \E g \in gotos : Found(g) = {}
  <2>1. PICK g \in OfKind({"goto"}) : Found(g) = {}
    BY <1>2, <1>5
  <2>2. phase' = "error" /\ tree' = tree
    BY <1>5 DEF sema_func_end, Reject
  <2>3. \A m \in LabelsNamed(tree[g].ident) : m \in OfKind({"label"}) /\ tree[m].ident = tree[g].ident
    BY <1>4 DEF LabelsNamed, OfKind
  <2>4. LabelsNamed(tree[g].ident) = {}
    <3>1. SUFFICES ASSUME NEW m \in LabelsNamed(tree[g].ident)
                   PROVE  FALSE
      OBVIOUS
    <3>2. PICK i \in DOMAIN label_stmts : label_stmts[i] = m
      BY <1>2, <2>3
    <3> QED
      BY <2>1, <2>3, <3>2 DEF Found
  <2>5. g \in DOMAIN tree /\ Ill(g)
    BY <1>4, <2>1, <2>4 DEF OfKind, Ill
  <2>6. Rejected
    BY <2>5 DEF Rejected
  <2>7. Rejected'
    BY <2>2, <2>6 DEF Rejected, Nodes, Ill, Encloses, LabelsNamed, Around, Parent
  <2> QED
    BY <2>2, <2>7
<1>6. CASE ~ \E g \in gotos : Found(g) = {}
  <2>1. /\ tree' = [n \in Nodes |->
                      CASE n \in OfKind({"goto"})  -> [tree[n] EXCEPT !.target = goto_target(n)]
                        [] n \in OfKind({"label"}) -> [tree[n] EXCEPT !.label_no = NumberOf(n)]
                        [] OTHER                   -> tree[n]]
        /\ label_no' = label_no + 1 + Len(label_stmts)
        /\ phase' = "gen" /\ todo' = <<Visit(1)>>
        /\ UNCHANGED <<label_stmts, goto_stmts, code>>
    BY <1>2, <1>4, <1>6 DEF sema_func_end, targets
  <2>2. /\ Len(tree) \in Nat /\ Len(tree) > 0
        /\ \A n \in Nodes : tree[n].kind # "comp" => Len(tree[n].kids) = Arity(tree[n].kind)
    BY <1>1, SemaWhole
  <2>3. IsSeq(tree') /\ Len(tree') = Len(tree)
    BY <2>1, <2>2 DEF Nodes, IsSeq
  <2>4. ASSUME NEW n \in Nodes
        PROVE  /\ IsNode(tree'[n])
               /\ tree'[n].kind = tree[n].kind /\ tree'[n].parent = tree[n].parent
               /\ tree'[n].kids = tree[n].kids /\ tree'[n].ident = tree[n].ident
               /\ tree'[n].cases = tree[n].cases
               /\ tree'[n].target = (IF tree[n].kind = "goto" THEN goto_target(n) ELSE tree[n].target)
               /\ tree[n].kind = "label" => tree'[n].label_no = NumberOf(n)
    <3>1. PICK f, a, b : f = tree[n] /\ a = goto_target(n) /\ b = NumberOf(n)
      OBVIOUS
    <3>2. f = [kind |-> f.kind, parent |-> f.parent, kids |-> f.kids, ident |-> f.ident, target |-> f.target,
               cases |-> f.cases, label_no |-> f.label_no, label_break |-> f.label_break,
               label_continue |-> f.label_continue]
      BY <1>1, <3>1 DEF Shape, IsNode
    <3>3. CASE tree[n].kind = "goto"
      <4>1. n \in OfKind({"goto"}) /\ n \notin OfKind({"label"})
        BY <3>3 DEF OfKind
      <4>2. tree'[n] = [f EXCEPT !.target = a]
        BY <2>1, <3>1, <4>1
      <4>3. tree'[n] = [kind |-> f.kind, parent |-> f.parent, kids |-> f.kids, ident |-> f.ident, target |-> a,
                        cases |-> f.cases, label_no |-> f.label_no, label_break |-> f.label_break,
                        label_continue |-> f.label_continue]
        BY <3>2, <4>2
      <4> QED
        BY <3>1, <3>3, <4>3 DEF IsNode
    <3>4. CASE tree[n].kind = "label"
      <4>1. n \in OfKind({"label"}) /\ n \notin OfKind({"goto"})
        BY <3>4 DEF OfKind
      <4>2. tree'[n] = [f EXCEPT !.label_no = b]
        BY <2>1, <3>1, <4>1
      <4>3. tree'[n] = [kind |-> f.kind, parent |-> f.parent, kids |-> f.kids, ident |-> f.ident,
                        target |-> f.target,
                        cases |-> f.cases, label_no |-> b, label_break |-> f.label_break,
                        label_continue |-> f.label_continue]
        BY <3>2, <4>2
      <4> QED
        BY <3>1, <3>4, <4>3 DEF IsNode
    <3>5. CASE tree[n].kind # "label" /\ tree[n].kind # "goto"
      <4>1. n \notin OfKind({"label"}) /\ n \notin OfKind({"goto"})
        BY <3>5 DEF OfKind
      <4>2. tree'[n] = tree[n]
        BY <2>1, <4>1
      <4> QED
        BY <3>1, <3>2, <3>5, <4>2 DEF IsNode
    <3> QED
      BY <3>3, <3>4, <3>5
  <2>5. Same
    BY <2>1, <2>3, <2>4, ZenonT(60) DEF Same
  <2>6. /\ Shape' /\ Referred' /\ Labels' /\ Nodes' = Nodes
        /\ \A kinds : OfKind(kinds)' = OfKind(kinds)
        /\ \A n \in Nodes : Parent(n)' = Parent(n)
    BY <1>1, <2>5, SameTree
  <2>7. Whole'
    <3>1. ASSUME NEW n \in OfKind({"goto"})'
          PROVE  tree'[n].target \in OfKind({"label"})' /\ tree'[tree'[n].target].ident = tree'[n].ident
      <4>0. n \in OfKind({"goto"})
        BY <2>6
      <4>1. n \in OfKind({"goto"}) /\ n \in Nodes /\ tree[n].kind = "goto"
        BY <4>0 DEF OfKind
      <4>2. Found(n) # {}
        BY <1>2, <1>6, <4>1
      <4>3. PICK t : t = goto_target(n)
        OBVIOUS
      <4>4. t \in OfKind({"label"}) /\ t \in Nodes /\ tree[t].ident = tree[n].ident
        BY <1>3, <4>2, <4>3 DEF OfKind
      <4>5. tree'[n].target = t /\ tree'[t].ident = tree[t].ident /\ tree'[n].ident = tree[n].ident
        BY <2>4, <4>1, <4>3, <4>4
      <4> QED
        BY <2>6, <4>4, <4>5
    <3>2. \A n \in Nodes' : tree'[n].kind # "comp" => Len(tree'[n].kids) = Arity(tree'[n].kind)
      BY <2>2, <2>4, <2>6
    <3> QED
      BY <2>2, <2>3, <3>1, <3>2 DEF Whole
  <2>8. /\ Len(todo') = 1 /\ todo'[1] = Visit(1) /\ IsSeq(todo') /\ todo' # << >> /\ Visited' = 0
        /\ Visit(1).do = "visit" /\ Visit(1).at = 1
    BY <2>1 DEF IsSeq, Visited, Visit
  <2>81. \A i : i \in 1 .. Len(todo') <=> i = 1
    BY <2>8
  <2>9. ToGo'
    <3>1. 1 \in Nodes'
      BY <2>2, <2>6 DEF Nodes
    <3>2. 1 \in Visited' + 1 .. Len(tree') /\ Parent(1)' <= Visited'
      <4>1. 1 \in Nodes /\ Parent(1)' = Parent(1)
        BY <2>6, <3>1
      <4>2. Parent(1) \in 0 .. 1 - 1
        BY <1>1, <4>1, Zenon DEF Shape
      <4> QED
        BY <2>2, <2>3, <2>8, <4>1, <4>2
    <3>3. ASSUME NEW n \in Visited' + 1 .. Len(tree'), Parent(n)' <= Visited'
          PROVE  n = 1
      <4>1. n \in Nodes' /\ Parent(n)' <= 0
        BY <2>2, <2>3, <2>6, <2>8, <3>3 DEF Nodes
      <4>2. Parent(n)' \in 0 .. n - 1 /\ (Parent(n)' = 0 => n = 1)
        BY <2>6, <4>1 DEF Shape
      <4> QED
        BY <4>1, <4>2
    <3> QED
      BY <2>8, <2>81, <3>1, <3>2, <3>3 DEF ToGo
  <2>10. \A n \in Nodes : HasNumber(n)' <=> tree[n].kind = "label"
    <3>1. ASSUME NEW n \in Nodes, tree[n].kind \in CaseKinds
          PROVE  ~ (tree'[n].target <= Visited')
      <4>1. tree'[n].target = tree[n].target /\ tree[n].target \in 1 .. n - 1
        BY <1>1, <2>4, <3>1 DEF Referred, Around, CaseKinds
      <4> QED
        BY <2>8, <4>1
    <3> QED
      BY <2>4, <3>1 DEF HasNumber
  <2>11. Numbers'
    <3>1. label_no' = 1 + Len(label_stmts)
      BY <1>1, <1>3, <2>1
    <3>2. \A n \in Nodes : HasNumber(n)' =>
            /\ tree'[n].label_no = NumberOf(n) /\ NumberOf(n) \in 1 .. Len(label_stmts)
            /\ label_stmts[NumberOf(n)] = n
      BY <1>3, <2>4, <2>10 DEF OfKind
    <3>3. label_no' \in Nat \ {0} /\ label_no' - 1 = Len(label_stmts)
      BY <1>3, <3>1
    <3> QED
      BY <2>6, <3>2, <3>3 DEF Numbers
  <2>12. /\ Len(Items') = 1 /\ Items'[1] = Visit(1)
         /\ IsSeq(code') /\ code' = << >>
    BY <1>1, <2>1 DEF Items, IsSeq
  <2>13. \A i \in 1 .. Len(Items') : Items'[i].do = "visit"
    BY <2>8, <2>12
  <2>14. Unique'
    BY <2>12, <2>13 DEF Unique
  <2>15. Reachable'
    <3>1. 1 .. Visited' = {}
      BY <2>8
    <3> QED
      BY <2>13, <3>1 DEF Reachable
  <2> QED
    BY <2>1, <2>5, <2>6, <2>7, <2>9, <2>11, <2>14, <2>15 DEF Gen
<1> QED
  BY <1>5, <1>6
-----------------------------------------------------------------------------
(* gen_stmt comes to the statement n. *)

(* The labels it gives. *)
Given(n) ==
  /\ Same /\ UNCHANGED <<label_stmts, goto_stmts>>
  /\ label_no' \in Nat /\ label_no' >= label_no
  /\ \A m \in Nodes :
       /\ tree'[m].target = tree[m].target
       /\ m # n => tree'[m].label_break = tree[m].label_break /\ tree'[m].label_continue = tree[m].label_continue
       /\ ~ (tree[n].kind = "switch" /\ \E i \in 1 .. Len(tree[n].cases) : tree[n].cases[i] = m) =>
            tree'[m].label_no = tree[m].label_no
  /\ tree[n].kind \in {"if", "ifelse"} => label_no' = label_no + 2
  /\ tree[n].kind = "while" =>
       /\ label_no' = label_no + 2
       /\ tree'[n].label_continue = label_no /\ tree'[n].label_break = label_no + 1
  /\ tree[n].kind \in {"do", "for", "forever"} =>
       /\ label_no' = label_no + 3
       /\ tree'[n].label_continue = label_no + 1 /\ tree'[n].label_break = label_no + 2
  /\ tree[n].kind = "switch" =>
       /\ label_no' = label_no + 1 + Len(tree[n].cases)
       /\ tree'[n].label_break = label_no
       /\ \A m \in Nodes : (\E i \in 1 .. Len(tree[n].cases) : tree[n].cases[i] = m) =>
            \E i \in 1 .. Len(tree[n].cases) : tree[n].cases[i] = m /\ tree'[m].label_no = label_no + i

LEMMA NumberedTree ==
  ASSUME Shape, Referred, NEW n \in Nodes, label_no \in Nat,
         tree' = Numbered(n), label_no' = label_no + LabelCount(n), UNCHANGED <<label_stmts, goto_stmts>>
  PROVE  Given(n)
<1>1. Len(tree) \in Nat /\ IsSeq(tree) /\ DOMAIN tree = Nodes /\ n \in Nodes
  BY DEF Shape, IsSeq, Nodes
<1>2. PICK s, l, cases : s = tree[n] /\ l = label_no /\ cases = tree[n].cases
  OBVIOUS
<1>3. /\ s = [kind |-> s.kind, parent |-> s.parent, kids |-> s.kids, ident |-> s.ident, target |-> s.target,
              cases |-> s.cases, label_no |-> s.label_no, label_break |-> s.label_break,
              label_continue |-> s.label_continue]
      /\ DOMAIN cases = 1 .. Len(cases) /\ Len(cases) \in Nat /\ l \in Nat
      /\ Lists(cases, {m \in OfKind(CaseKinds) : tree[m].target = n})
  BY <1>2, ZenonT(60) DEF Shape, IsNode, Lists, IsSeq
<1>4. \A m \in Nodes : IsNode(tree[m])
  BY DEF Shape
<1>5. CASE s.kind \in Loops
  <2>1. PICK a, b : /\ a = (IF s.kind = "while" THEN l ELSE l + 1)
                    /\ b = (IF s.kind = "while" THEN l + 1 ELSE l + 2)
    OBVIOUS
  <2>2. tree' = [tree EXCEPT ![n].label_continue = a, ![n].label_break = b]
    <3>1. CASE s.kind = "while"
      BY <1>2, <2>1, <3>1 DEF Numbered
    <3>2. CASE s.kind # "while"
      BY <1>2, <1>5, <2>1, <3>2 DEF Numbered, Loops
    <3> QED
      BY <3>1, <3>2
  <2>3. tree' = [m \in Nodes |-> IF m = n THEN [[s EXCEPT !.label_continue = a] EXCEPT !.label_break = b]
                                 ELSE tree[m]]
    BY <1>1, <1>2, <2>2
  <2>4. [[s EXCEPT !.label_continue = a] EXCEPT !.label_break = b]
          = [kind |-> s.kind, parent |-> s.parent, kids |-> s.kids, ident |-> s.ident, target |-> s.target,
             cases |-> s.cases, label_no |-> s.label_no, label_break |-> b, label_continue |-> a]
    <3>1. PICK r : r = [s EXCEPT !.label_continue = a]
      OBVIOUS
    <3>2. r = [kind |-> s.kind, parent |-> s.parent, kids |-> s.kids, ident |-> s.ident, target |-> s.target,
               cases |-> s.cases, label_no |-> s.label_no, label_break |-> s.label_break,
               label_continue |-> a]
      BY <1>3, <3>1
    <3>3. [r EXCEPT !.label_break = b]
            = [kind |-> s.kind, parent |-> s.parent, kids |-> s.kids, ident |-> s.ident, target |-> s.target,
               cases |-> s.cases, label_no |-> s.label_no, label_break |-> b, label_continue |-> a]
      BY <3>2
    <3> QED
      BY <3>1, <3>3
  <2>5. /\ tree'[n] = [kind |-> s.kind, parent |-> s.parent, kids |-> s.kids, ident |-> s.ident,
                       target |-> s.target, cases |-> s.cases, label_no |-> s.label_no,
                       label_break |-> b, label_continue |-> a]
        /\ \A m \in Nodes : m # n => tree'[m] = tree[m]
    BY <1>1, <2>3, <2>4
  <2>6. IsSeq(tree') /\ Len(tree') = Len(tree)
    BY <1>1, <2>3 DEF IsSeq, Nodes
  <2>7. Same
    BY <1>2, <1>4, <2>5, <2>6 DEF Same, IsNode
  <2>8. label_no' = label_no + (IF s.kind = "while" THEN 2 ELSE 3)
    BY <1>2, <1>5 DEF LabelCount, Loops
  <2>9. s.kind # "switch" /\ s.kind \notin {"if", "ifelse"}
    BY <1>5 DEF Loops
  <2>10. \A m \in Nodes : /\ tree'[m].target = tree[m].target /\ tree'[m].label_no = tree[m].label_no
                          /\ m # n => tree'[m] = tree[m]
    BY <1>2, <2>5
  <2>11. tree'[n].label_continue = a /\ tree'[n].label_break = b
    BY <2>5
  <2>12. label_no' \in Nat /\ label_no' >= label_no
    BY <1>2, <1>3, <2>8
  <2>13. tree[n].kind = s.kind
    BY <1>2
  <2> QED
    BY <1>2, <2>1, <2>7, <2>8, <2>9, <2>10, <2>11, <2>12, <2>13 DEF Given
<1>6. CASE s.kind = "switch"
  <2>1. tree' = [m \in Nodes |->
                    IF m = n THEN [s EXCEPT !.label_break = l]
                    ELSE IF \E i \in DOMAIN cases : cases[i] = m
                      THEN [tree[m] EXCEPT !.label_no = l + CHOOSE i \in DOMAIN cases : cases[i] = m]
                    ELSE tree[m]]
    BY <1>1, <1>2, <1>6 DEF Numbered
  <2>2. IsSeq(tree') /\ Len(tree') = Len(tree)
    BY <1>1, <2>1 DEF IsSeq, Nodes
  <2>3. [s EXCEPT !.label_break = l]
          = [kind |-> s.kind, parent |-> s.parent, kids |-> s.kids, ident |-> s.ident, target |-> s.target,
             cases |-> s.cases, label_no |-> s.label_no, label_break |-> l,
             label_continue |-> s.label_continue]
    BY <1>3
  <2>4. tree'[n] = [kind |-> s.kind, parent |-> s.parent, kids |-> s.kids, ident |-> s.ident,
                    target |-> s.target, cases |-> s.cases, label_no |-> s.label_no,
                    label_break |-> l, label_continue |-> s.label_continue]
    BY <1>1, <2>1, <2>3
  <2>5. n \notin {cases[i] : i \in 1 .. Len(cases)}
    <3>1. \A m \in OfKind(CaseKinds) : tree[m].target = n => m # n
      BY DEF OfKind, Referred, Around, CaseKinds, Nodes
    <3> QED
      BY <1>3, <3>1 DEF Lists
  <2>6. ASSUME NEW m \in Nodes, m # n, NEW c, c \in 1 .. Len(cases), cases[c] = m
        PROVE  /\ IsNode(tree'[m])
               /\ tree'[m].kind = tree[m].kind /\ tree'[m].parent = tree[m].parent
               /\ tree'[m].kids = tree[m].kids /\ tree'[m].ident = tree[m].ident
               /\ tree'[m].cases = tree[m].cases /\ tree'[m].target = tree[m].target
               /\ tree'[m].label_break = tree[m].label_break
               /\ tree'[m].label_continue = tree[m].label_continue
               /\ \E i \in 1 .. Len(cases) : cases[i] = m /\ tree'[m].label_no = l + i
    <3>1. PICK q, f : q = (CHOOSE i \in DOMAIN cases : cases[i] = m) /\ f = tree[m]
      OBVIOUS
    <3>2. q \in 1 .. Len(cases) /\ cases[q] = m
      <4>1. \E i \in DOMAIN cases : cases[i] = m
        BY <1>3, <2>6
      <4> QED
        BY <1>3, <3>1, <4>1
    <3>3. tree'[m] = [f EXCEPT !.label_no = l + q]
      <4>1. \E i \in DOMAIN cases : cases[i] = m
        BY <1>3, <2>6
      <4> QED
        BY <2>1, <2>6, <3>1, <4>1
    <3>4. f = [kind |-> f.kind, parent |-> f.parent, kids |-> f.kids, ident |-> f.ident, target |-> f.target,
               cases |-> f.cases, label_no |-> f.label_no, label_break |-> f.label_break,
               label_continue |-> f.label_continue]
      BY <1>4, <3>1 DEF IsNode
    <3>5. tree'[m] = [kind |-> f.kind, parent |-> f.parent, kids |-> f.kids, ident |-> f.ident,
                      target |-> f.target, cases |-> f.cases, label_no |-> l + q,
                      label_break |-> f.label_break, label_continue |-> f.label_continue]
      BY <3>3, <3>4
    <3>6. IsNode(tree'[m])
      BY <3>5 DEF IsNode
    <3>7. /\ tree'[m].kind = f.kind /\ tree'[m].parent = f.parent /\ tree'[m].kids = f.kids
          /\ tree'[m].ident = f.ident /\ tree'[m].cases = f.cases /\ tree'[m].target = f.target
          /\ tree'[m].label_break = f.label_break /\ tree'[m].label_continue = f.label_continue
          /\ tree'[m].label_no = l + q
      BY <3>5
    <3> QED
      BY <3>1, <3>2, <3>6, <3>7
  <2>7. ASSUME NEW m \in Nodes, m # n, ~ \E c \in 1 .. Len(cases) : cases[c] = m
        PROVE  tree'[m] = tree[m]
    BY <1>3, <2>1, <2>7
  <2>8. IsNode(tree'[n])
    BY <2>4 DEF IsNode
  <2>9. /\ tree'[n].kind = s.kind /\ tree'[n].parent = s.parent /\ tree'[n].kids = s.kids
        /\ tree'[n].ident = s.ident /\ tree'[n].cases = s.cases /\ tree'[n].target = s.target
        /\ tree'[n].label_break = l /\ tree'[n].label_no = s.label_no
    BY <2>4
  <2>10. ASSUME NEW m \in Nodes
         PROVE  /\ IsNode(tree'[m])
                /\ tree'[m].kind = tree[m].kind /\ tree'[m].parent = tree[m].parent
                /\ tree'[m].kids = tree[m].kids /\ tree'[m].ident = tree[m].ident
                /\ tree'[m].cases = tree[m].cases /\ tree'[m].target = tree[m].target
                /\ m # n => /\ tree'[m].label_break = tree[m].label_break
                            /\ tree'[m].label_continue = tree[m].label_continue
                /\ IF \E i \in 1 .. Len(cases) : cases[i] = m
                     THEN \E i \in 1 .. Len(cases) : cases[i] = m /\ tree'[m].label_no = l + i
                     ELSE tree'[m].label_no = tree[m].label_no
    <3>1. CASE m = n
      BY <1>2, <2>5, <2>8, <2>9, <3>1
    <3>2. CASE m # n /\ \E i \in 1 .. Len(cases) : cases[i] = m
      BY <2>6, <3>2
    <3>3. CASE m # n /\ ~ \E i \in 1 .. Len(cases) : cases[i] = m
      BY <1>4, <2>7, <3>3
    <3> QED
      BY <3>1, <3>2, <3>3
  <2>11. Same
    BY <2>2, <2>10 DEF Same
  <2>12. label_no' = label_no + (1 + Len(cases))
    BY <1>2, <1>6 DEF LabelCount
  <2>13. label_no' \in Nat /\ label_no' >= label_no /\ label_no' = label_no + 1 + Len(cases)
    <3>1. PICK k : k = Len(cases) /\ k \in Nat
      BY <1>3
    <3>2. label_no' = label_no + (1 + k)
      BY <2>12, <3>1
    <3>3. label_no' \in Nat /\ label_no' >= label_no /\ label_no' = label_no + 1 + k
      BY <3>1, <3>2
    <3> QED
      BY <3>1, <3>3
  <2>14. tree[n].kind = "switch" /\ "switch" \notin {"if", "ifelse", "while", "do", "for", "forever"}
    BY <1>2, <1>6
  <2>15. /\ label_no' = label_no + 1 + Len(tree[n].cases) /\ tree'[n].label_break = label_no
         /\ \A m \in Nodes : (\E i \in 1 .. Len(tree[n].cases) : tree[n].cases[i] = m) =>
              \E i \in 1 .. Len(tree[n].cases) : tree[n].cases[i] = m /\ tree'[m].label_no = label_no + i
    <3>1. label_no' = label_no + 1 + Len(tree[n].cases) /\ tree'[n].label_break = label_no
      BY <1>2, <2>9, <2>13
    <3>2. ASSUME NEW m \in Nodes, \E i \in 1 .. Len(tree[n].cases) : tree[n].cases[i] = m
          PROVE  \E i \in 1 .. Len(tree[n].cases) : tree[n].cases[i] = m /\ tree'[m].label_no = label_no + i
      <4>1. \E i \in 1 .. Len(cases) : cases[i] = m
        BY <1>2, <3>2
      <4>2. \E i \in 1 .. Len(cases) : cases[i] = m /\ tree'[m].label_no = l + i
        BY <2>10, <4>1
      <4> QED
        BY <1>2, <4>2
    <3> QED
      BY <3>1, <3>2
  <2>16. \A m \in Nodes :
           /\ tree'[m].target = tree[m].target
           /\ m # n => tree'[m].label_break = tree[m].label_break
                       /\ tree'[m].label_continue = tree[m].label_continue
           /\ ~ (tree[n].kind = "switch" /\ \E i \in 1 .. Len(tree[n].cases) : tree[n].cases[i] = m) =>
                tree'[m].label_no = tree[m].label_no
    <3>1. SUFFICES ASSUME NEW m \in Nodes
                   PROVE  ~ (\E i \in 1 .. Len(tree[n].cases) : tree[n].cases[i] = m) =>
                            tree'[m].label_no = tree[m].label_no
      BY <2>10, <2>14
    <3>2. (\E i \in 1 .. Len(cases) : cases[i] = m) \/ tree'[m].label_no = tree[m].label_no
      BY <2>10
    <3> QED
      BY <1>2, <3>2
  <2> QED
    BY <2>11, <2>13, <2>14, <2>15, <2>16 DEF Given
<1>7. CASE s.kind \notin Loops /\ s.kind # "switch"
  <2>1. tree' = tree
    BY <1>2, <1>7 DEF Numbered, Loops
  <2>2. label_no' = label_no + (IF s.kind \in {"if", "ifelse"} THEN 2 ELSE 0)
    BY <1>2, <1>7 DEF LabelCount, Loops
  <2>3. Same
    BY <1>1, <1>4, <2>1 DEF Same
  <2>4. tree[n].kind \notin {"while", "do", "for", "forever", "switch"} /\ tree[n].kind = s.kind
    BY <1>2, <1>7 DEF Loops
  <2>5. label_no' \in Nat /\ label_no' >= label_no
    BY <1>2, <1>3, <2>2
  <2> QED
    BY <2>1, <2>2, <2>3, <2>4, <2>5 DEF Given
<1> QED
  BY <1>5, <1>6, <1>7
(* What is printed for n, and the statements gone to in between. *)
Own(n, l) ==
  \/ l \in label_no .. label_no' - 1 /\ (tree[n].kind = "switch" => l = label_no)
  \/ tree[n].kind \in Labelled /\ l = tree[n].label_no

Goes(n, T, l) ==
  \/ l = label_return
  \/ \E j \in 1 .. Len(T) : T[j] = Label(l)
  \/ tree[n].kind = "switch" /\ \E i \in 1 .. Len(tree[n].cases) : l = tree'[tree[n].cases[i]].label_no
  \/ tree[n].kind = "goto" /\ l = tree[tree[n].target].label_no
  \/ tree[n].kind = "break" /\ l = tree[tree[n].target].label_break
  \/ tree[n].kind = "continue" /\ l = tree[tree[n].target].label_continue

Lays(n, T) ==
  /\ IsSeq(T)
  /\ \A i \in 1 .. Len(T) :
       /\ T[i].do = "visit" => \E k \in 1 .. Len(tree[n].kids) : T[i] = Visit(tree[n].kids[k])
       /\ T[i].do = "label" => T[i] = Label(T[i].label) /\ Own(n, T[i].label)
       /\ T[i].do = "eval" => T[i] = Eval(n, T[i].part)
       /\ T[i].do \notin {"label", "eval", "visit"} => Goes(n, T, T[i].label)
  /\ \A k \in 1 .. Len(tree[n].kids) : \E i \in 1 .. Len(T) : T[i] = Visit(tree[n].kids[k])
  /\ \A i, j \in 1 .. Len(T) :
       /\ i < j /\ T[i].do = "visit" /\ T[j].do = "visit" => T[i].at < T[j].at
       /\ T[i].do = "label" /\ T[j].do = "label" /\ T[i].label = T[j].label => i = j
       /\ T[i].do = "eval" /\ T[j].do = "eval" /\ T[i].part = T[j].part => i = j
  /\ tree[n].kind \in Labelled => \E i \in 1 .. Len(T) : T[i] = Label(tree[n].label_no)
  /\ tree[n].kind \in Breakable => \E i \in 1 .. Len(T) : T[i] = Label(tree'[n].label_break)
  /\ tree[n].kind \in Loops => \E i \in 1 .. Len(T) : T[i] = Label(tree'[n].label_continue)

LEMMA ItemFields ==
  /\ \A n : Visit(n).do = "visit" /\ Visit(n).at = n
  /\ \A n, p : Eval(n, p).do = "eval" /\ Eval(n, p).at = n /\ Eval(n, p).part = p
  /\ \A l : /\ Label(l).do = "label" /\ Label(l).label = l
            /\ Jump(l).do = "jmp" /\ Jump(l).label = l
            /\ Je(l).do = "je" /\ Je(l).label = l
            /\ Jne(l).do = "jne" /\ Jne(l).label = l
            /\ \A n : JumpCase(n, l).do = "jcase" /\ JumpCase(n, l).label = l
BY DEF Visit, Eval, Label, Jump, Je, Jne, JumpCase

LEMMA LaysOut ==
  ASSUME Gen, NEW n \in Nodes, Given(n), NEW T, T = Template(n, tree', label_no)
  PROVE  Lays(n, T)
<1>1. PICK s, l, body, k : /\ s = tree[n] /\ l = label_no /\ body = Visit(tree[n].kids[1])
                           /\ k = Visit(tree[n].kids[2])
  OBVIOUS
<1>2. /\ tree'[n].kind = s.kind /\ tree'[n].kids = s.kids /\ tree'[n].cases = s.cases
      /\ tree'[n].target = s.target /\ l \in Nat
      /\ IsSeq(s.kids) /\ Len(s.kids) \in Nat /\ DOMAIN s.kids = 1 .. Len(s.kids)
  BY <1>1 DEF Given, Same, Gen, Numbers, Shape, Lists, IsSeq
<1>3. s.kind # "comp" => Len(s.kids) = Arity(s.kind)
  BY <1>1 DEF Gen, Whole
<1>4. s.kind # "switch" => tree'[n].label_no = s.label_no
  BY <1>1 DEF Given
<1>5. s.target \in Nodes /\ s.target # n /\ s.kind \in {"goto", "break", "continue"} =>
        /\ tree'[s.target].label_no = tree[s.target].label_no
        /\ tree'[s.target].label_break = tree[s.target].label_break
        /\ tree'[s.target].label_continue = tree[s.target].label_continue
  BY <1>1 DEF Given
<1>6. s.kind \in {"goto", "break", "continue"} => s.target \in Nodes /\ s.target # n
  <2>1. s.kind = "goto" => s.target \in Nodes /\ s.target # n
    <3>1. s.kind = "goto" => s.target \in OfKind({"label"})
      BY <1>1 DEF Gen, Whole, OfKind
    <3> QED
      BY <1>1, <3>1 DEF OfKind
  <2>2. s.kind \in {"break", "continue"} => s.target \in 1 .. n - 1
    BY <1>1 DEF Gen, Referred, Around
  <2> QED
    BY <2>1, <2>2 DEF Nodes
<1>7. CASE s.kind = "expr"
  <2>1. T = <<Eval(n, "expr")>>
    BY <1>1, <1>2, <1>7 DEF Template
  <2>2. IsSeq(T) /\ Len(T) = 1 /\ 1 .. Len(T) = 1 .. 1
    BY <2>1 DEF IsSeq
  <2>3. T[1] = Eval(n, "expr")
    BY <2>1
  <2>4. Len(s.kids) = 0
    BY <1>1, <1>3, <1>7 DEF Given, Arity
  <2> QED
    BY <1>1, <1>2, <1>7, <2>2, <2>3, <2>4, ItemFields DEF Lays, Own, Goes, Labelled, Breakable, Loops
<1>8. CASE s.kind = "if"
  <2>1. T = <<Eval(n, "cond"), Je(l), body, Jump(l + 1), Label(l), Label(l + 1)>>
    BY <1>1, <1>2, <1>8 DEF Template
  <2>2. IsSeq(T) /\ Len(T) = 6 /\ 1 .. Len(T) = 1 .. 6
    BY <2>1 DEF IsSeq
  <2>3. /\ T[1] = Eval(n, "cond") /\ T[2] = Je(l) /\ T[3] = body /\ T[4] = Jump(l + 1)
        /\ T[5] = Label(l) /\ T[6] = Label(l + 1)
    BY <2>1
  <2>4. Len(s.kids) = 1 /\ label_no' = l + 2
    BY <1>1, <1>3, <1>8 DEF Given, Arity
  <2> QED
    BY <1>1, <1>2, <1>8, <2>2, <2>3, <2>4, ItemFields DEF Lays, Own, Goes, Labelled, Breakable, Loops
<1>9. CASE s.kind = "ifelse"
  <2>1. T = <<Eval(n, "cond"), Je(l), body, Jump(l + 1), Label(l), k, Label(l + 1)>>
    BY <1>1, <1>2, <1>9 DEF Template
  <2>2. IsSeq(T) /\ Len(T) = 7 /\ 1 .. Len(T) = 1 .. 7
    BY <2>1 DEF IsSeq
  <2>3. /\ T[1] = Eval(n, "cond") /\ T[2] = Je(l) /\ T[3] = body /\ T[4] = Jump(l + 1)
        /\ T[5] = Label(l) /\ T[6] = k /\ T[7] = Label(l + 1)
    BY <2>1
  <2>4. Len(s.kids) = 2 /\ label_no' = l + 2
    BY <1>1, <1>3, <1>9 DEF Given, Arity
  <2>5. s.kids[1] < s.kids[2]
    <3>1. \A i, j \in 1 .. Len(s.kids) : i < j => s.kids[i] < s.kids[j]
      BY <1>1 DEF Gen, Shape, Lists
    <3>2. 1 \in 1 .. Len(s.kids) /\ 2 \in 1 .. Len(s.kids) /\ 1 < 2
      BY <2>4
    <3> QED
      BY <3>1, <3>2
  <2> QED
    BY <1>1, <1>2, <1>9, <2>2, <2>3, <2>4, <2>5, ItemFields DEF Lays, Own, Goes, Labelled, Breakable, Loops
<1>10. CASE s.kind = "while"
  <2>1. T = <<Label(l), Eval(n, "cond"), Je(l + 1), body, Jump(l), Label(l + 1)>>
    BY <1>1, <1>2, <1>10 DEF Template
  <2>2. IsSeq(T) /\ Len(T) = 6 /\ 1 .. Len(T) = 1 .. 6
    BY <2>1 DEF IsSeq
  <2>3. /\ T[1] = Label(l) /\ T[2] = Eval(n, "cond") /\ T[3] = Je(l + 1) /\ T[4] = body
        /\ T[5] = Jump(l) /\ T[6] = Label(l + 1)
    BY <2>1
  <2>4. Len(s.kids) = 1 /\ label_no' = l + 2 /\ tree'[n].label_continue = l /\ tree'[n].label_break = l + 1
    BY <1>1, <1>3, <1>10 DEF Given, Arity
  <2> QED
    BY <1>1, <1>2, <1>10, <2>2, <2>3, <2>4, ItemFields DEF Lays, Own, Goes, Labelled, Breakable, Loops
<1>11. CASE s.kind = "do"
  <2>1. T = <<Label(l), body, Label(l + 1), Eval(n, "cond"), Jne(l), Label(l + 2)>>
    BY <1>1, <1>2, <1>11 DEF Template
  <2>2. IsSeq(T) /\ Len(T) = 6 /\ 1 .. Len(T) = 1 .. 6
    BY <2>1 DEF IsSeq
  <2>3. /\ T[1] = Label(l) /\ T[2] = body /\ T[3] = Label(l + 1) /\ T[4] = Eval(n, "cond")
        /\ T[5] = Jne(l) /\ T[6] = Label(l + 2)
    BY <2>1
  <2>4. Len(s.kids) = 1 /\ label_no' = l + 3 /\ tree'[n].label_continue = l + 1 /\ tree'[n].label_break = l + 2
    BY <1>1, <1>3, <1>11 DEF Given, Arity
  <2> QED
    BY <1>1, <1>2, <1>11, <2>2, <2>3, <2>4, ItemFields DEF Lays, Own, Goes, Labelled, Breakable, Loops
<1>12. CASE s.kind = "for"
  <2>1. T = <<Eval(n, "init"), Label(l), Eval(n, "cond"), Je(l + 2), body, Label(l + 1),
              Eval(n, "after"), Jump(l), Label(l + 2)>>
    BY <1>1, <1>2, <1>12 DEF Template
  <2>2. IsSeq(T) /\ Len(T) = 9 /\ 1 .. Len(T) = 1 .. 9
    BY <2>1 DEF IsSeq
  <2>3. /\ T[1] = Eval(n, "init") /\ T[2] = Label(l) /\ T[3] = Eval(n, "cond") /\ T[4] = Je(l + 2)
        /\ T[5] = body /\ T[6] = Label(l + 1) /\ T[7] = Eval(n, "after") /\ T[8] = Jump(l)
        /\ T[9] = Label(l + 2)
    BY <2>1
  <2>4. Len(s.kids) = 1 /\ label_no' = l + 3 /\ tree'[n].label_continue = l + 1 /\ tree'[n].label_break = l + 2
    BY <1>1, <1>3, <1>12 DEF Given, Arity
  <2> QED
    BY <1>1, <1>2, <1>12, <2>2, <2>3, <2>4, ItemFields, SMTT(40) DEF Lays, Own, Goes, Labelled, Breakable, Loops
<1>13. CASE s.kind = "forever"
  <2>1. T = <<Label(l), body, Label(l + 1), Jump(l), Label(l + 2)>>
    BY <1>1, <1>2, <1>13 DEF Template
  <2>2. IsSeq(T) /\ Len(T) = 5 /\ 1 .. Len(T) = 1 .. 5
    BY <2>1 DEF IsSeq
  <2>3. /\ T[1] = Label(l) /\ T[2] = body /\ T[3] = Label(l + 1) /\ T[4] = Jump(l)
        /\ T[5] = Label(l + 2)
    BY <2>1
  <2>4. Len(s.kids) = 1 /\ label_no' = l + 3 /\ tree'[n].label_continue = l + 1 /\ tree'[n].label_break = l + 2
    BY <1>1, <1>3, <1>13 DEF Given, Arity
  <2> QED
    BY <1>1, <1>2, <1>13, <2>2, <2>3, <2>4, ItemFields DEF Lays, Own, Goes, Labelled, Breakable, Loops
<1>14. CASE s.kind = "goto"
  <2>1. T = <<Jump(tree[s.target].label_no)>>
    BY <1>1, <1>2, <1>14, <1>5, <1>6 DEF Template
  <2>2. IsSeq(T) /\ Len(T) = 1 /\ 1 .. Len(T) = 1 .. 1
    BY <2>1 DEF IsSeq
  <2>3. T[1] = Jump(tree[s.target].label_no)
    BY <2>1
  <2>4. Len(s.kids) = 0
    BY <1>1, <1>3, <1>14 DEF Given, Arity
  <2> QED
    BY <1>1, <1>2, <1>14, <2>2, <2>3, <2>4, ItemFields DEF Lays, Own, Goes, Labelled, Breakable, Loops
<1>15. CASE s.kind = "break"
  <2>1. T = <<Jump(tree[s.target].label_break)>>
    BY <1>1, <1>2, <1>15, <1>5, <1>6 DEF Template
  <2>2. IsSeq(T) /\ Len(T) = 1 /\ 1 .. Len(T) = 1 .. 1
    BY <2>1 DEF IsSeq
  <2>3. T[1] = Jump(tree[s.target].label_break)
    BY <2>1
  <2>4. Len(s.kids) = 0
    BY <1>1, <1>3, <1>15 DEF Given, Arity
  <2> QED
    BY <1>1, <1>2, <1>15, <2>2, <2>3, <2>4, ItemFields DEF Lays, Own, Goes, Labelled, Breakable, Loops
<1>16. CASE s.kind = "continue"
  <2>1. T = <<Jump(tree[s.target].label_continue)>>
    BY <1>1, <1>2, <1>16, <1>5, <1>6 DEF Template
  <2>2. IsSeq(T) /\ Len(T) = 1 /\ 1 .. Len(T) = 1 .. 1
    BY <2>1 DEF IsSeq
  <2>3. T[1] = Jump(tree[s.target].label_continue)
    BY <2>1
  <2>4. Len(s.kids) = 0
    BY <1>1, <1>3, <1>16 DEF Given, Arity
  <2> QED
    BY <1>1, <1>2, <1>16, <2>2, <2>3, <2>4, ItemFields DEF Lays, Own, Goes, Labelled, Breakable, Loops
<1>17. CASE s.kind = "return"
  <2>1. T = <<Eval(n, "return"), Jump(label_return)>>
    BY <1>1, <1>2, <1>17 DEF Template
  <2>2. IsSeq(T) /\ Len(T) = 2 /\ 1 .. Len(T) = 1 .. 2
    BY <2>1 DEF IsSeq
  <2>3. T[1] = Eval(n, "return") /\ T[2] = Jump(label_return)
    BY <2>1
  <2>4. Len(s.kids) = 0
    BY <1>1, <1>3, <1>17 DEF Given, Arity
  <2> QED
    BY <1>1, <1>2, <1>17, <2>2, <2>3, <2>4, ItemFields DEF Lays, Own, Goes, Labelled, Breakable, Loops
<1>18. CASE s.kind \in Labelled
  <2>1. T = <<Label(s.label_no), body>>
    BY <1>1, <1>2, <1>18, <1>4 DEF Template, Labelled
  <2>2. IsSeq(T) /\ Len(T) = 2 /\ 1 .. Len(T) = 1 .. 2
    BY <2>1 DEF IsSeq
  <2>3. T[1] = Label(s.label_no) /\ T[2] = body
    BY <2>1
  <2>4. Len(s.kids) = 1
    BY <1>1, <1>3, <1>18 DEF Given, Arity, Labelled
  <2> QED
    BY <1>1, <1>2, <1>18, <2>2, <2>3, <2>4, ItemFields DEF Lays, Own, Goes, Labelled, Breakable, Loops
<1>19. CASE s.kind = "comp"
  <2>1. T = [i \in 1 .. Len(s.kids) |-> Visit(s.kids[i])]
    BY <1>1, <1>2, <1>19 DEF Template
  <2>2. PICK c : c = Len(s.kids) /\ c \in Nat
    BY <1>2
  <2>3. IsSeq(T) /\ Len(T) = c /\ \A i \in 1 .. c : T[i] = Visit(s.kids[i])
    BY <2>1, <2>2 DEF IsSeq
  <2>4. \A i, j \in 1 .. c : i < j => s.kids[i] < s.kids[j]
    BY <1>1, <2>2 DEF Gen, Shape, Lists
  <2> QED
    BY <1>1, <1>19, <2>2, <2>3, <2>4, ItemFields DEF Lays, Labelled, Breakable, Loops
<1>20. CASE s.kind = "switch"
  <2>1. PICK c, J : /\ c = Len(s.cases)
                    /\ J = [i \in 1 .. Len(s.cases) |->
                             IF tree'[s.cases[i]].kind = "case"
                               THEN JumpCase(s.cases[i], tree'[s.cases[i]].label_no)
                               ELSE Jump(tree'[s.cases[i]].label_no)]
    OBVIOUS
  <2>2. c \in Nat /\ DOMAIN s.cases = 1 .. c
    BY <1>1, <2>1 DEF Gen, Shape, Lists, IsSeq
  <2>3. T = <<Eval(n, "cond")>> \o J \o <<body, Label(l)>>
    BY <1>1, <1>2, <1>20, <2>1, <2>2 DEF Template
  <2>4. /\ IsSeq(J) /\ Len(J) = c
        /\ \A i \in 1 .. c : /\ J[i].do \notin {"label", "eval", "visit"}
                             /\ J[i].label = tree'[s.cases[i]].label_no
    BY <2>1, <2>2, ItemFields DEF IsSeq
  <2>5. PICK A, B, E : A = <<Eval(n, "cond")>> /\ B = A \o J /\ E = <<body, Label(l)>>
    OBVIOUS
  <2>6. /\ IsSeq(A) /\ Len(A) = 1 /\ A[1] = Eval(n, "cond")
        /\ IsSeq(E) /\ Len(E) = 2 /\ E[1] = body /\ E[2] = Label(l)
    BY <2>5 DEF IsSeq
  <2>7. /\ IsSeq(B) /\ Len(B) = 1 + c
        /\ \A i \in 1 .. 1 : B[i] = A[i]
        /\ \A i \in 1 + 1 .. 1 + c : B[i] = J[i - 1]
    <3>1. IsSeq(A) /\ IsSeq(J) /\ B = A \o J
      BY <2>4, <2>5, <2>6
    <3>2. /\ IsSeq(B) /\ Len(B) = Len(A) + Len(J)
          /\ \A i \in 1 .. Len(A) : B[i] = A[i]
          /\ \A i \in Len(A) + 1 .. Len(A) + Len(J) : B[i] = J[i - Len(A)]
      BY <3>1, ConcatSeq
    <3>3. Len(A) = 1 /\ Len(J) = c
      BY <2>4, <2>6
    <3> QED
      BY <3>2, <3>3
  <2>8. /\ IsSeq(T) /\ Len(T) = (1 + c) + 2
        /\ \A i \in 1 .. 1 + c : T[i] = B[i]
        /\ \A i \in (1 + c) + 1 .. (1 + c) + 2 : T[i] = E[i - (1 + c)]
    <3>1. T = B \o E
      BY <2>3, <2>5
    <3>2. IsSeq(B) /\ IsSeq(E)
      BY <2>6, <2>7
    <3>3. /\ IsSeq(T) /\ Len(T) = Len(B) + Len(E)
          /\ \A i \in 1 .. Len(B) : T[i] = B[i]
          /\ \A i \in Len(B) + 1 .. Len(B) + Len(E) : T[i] = E[i - Len(B)]
      BY <3>1, <3>2, ConcatSeq
    <3>4. Len(B) = 1 + c /\ Len(E) = 2
      BY <2>6, <2>7
    <3> QED
      BY <3>3, <3>4
  <2>9. /\ T[1] = Eval(n, "cond") /\ T[c + 2] = body /\ T[c + 3] = Label(l)
        /\ \A i \in 2 .. 1 + c : T[i].do \notin {"label", "eval", "visit"}
                                /\ T[i].label = tree'[s.cases[i - 1]].label_no
    <3>1. T[1] = B[1] /\ B[1] = A[1]
      BY <2>2, <2>7, <2>8
    <3>2. T[c + 2] = E[1] /\ T[c + 3] = E[2]
      <4>1. /\ c + 2 \in (1 + c) + 1 .. (1 + c) + 2 /\ (c + 2) - (1 + c) = 1
            /\ c + 3 \in (1 + c) + 1 .. (1 + c) + 2 /\ (c + 3) - (1 + c) = 2
        BY <2>2
      <4>2. /\ T[c + 2] = E[(c + 2) - (1 + c)]
            /\ T[c + 3] = E[(c + 3) - (1 + c)]
        BY <2>8, <4>1, Zenon
      <4> QED
        BY <4>1, <4>2
    <3>3. \A i \in 2 .. 1 + c : T[i] = J[i - 1] /\ i - 1 \in 1 .. c
      BY <2>2, <2>7, <2>8
    <3> QED
      BY <2>4, <2>6, <3>1, <3>2, <3>3
  <2>10. \A i \in 1 .. Len(T) : i = 1 \/ (i \in 2 .. 1 + c /\ i - 1 \in 1 .. c) \/ i = c + 2 \/ i = c + 3
    BY <2>2, <2>8
  <2>11. 1 \in 1 .. Len(T) /\ c + 2 \in 1 .. Len(T) /\ c + 3 \in 1 .. Len(T)
    BY <2>2, <2>8
  <2>12. Len(s.kids) = 1 /\ tree'[n].label_break = l
    BY <1>1, <1>3, <1>20 DEF Given, Arity
  <2>13. l \in label_no .. label_no' - 1
    <3>1. label_no' = l + 1 + c
      BY <1>1, <1>20, <2>1 DEF Given
    <3> QED
      BY <1>1, <1>2, <2>2, <3>1
  <2>14. ASSUME NEW i \in 1 .. Len(T)
         PROVE  /\ T[i].do = "visit" => i = c + 2
                /\ T[i].do = "label" => i = c + 3
                /\ T[i].do = "eval" => i = 1
                /\ T[i].do \notin {"label", "eval", "visit"} =>
                     \E q \in 1 .. c : T[i].label = tree'[s.cases[q]].label_no
    <3>1. /\ T[1].do = "eval" /\ T[c + 2].do = "visit" /\ T[c + 3].do = "label"
          /\ \A q \in 2 .. 1 + c : T[q].do \notin {"label", "eval", "visit"}
      BY <1>1, <2>9, ItemFields
    <3>2. i \in 2 .. 1 + c => i - 1 \in 1 .. c /\ T[i].label = tree'[s.cases[i - 1]].label_no
      BY <2>2, <2>9
    <3> QED
      BY <2>10, <3>1, <3>2
  <2>15. Own(n, l)
    BY <1>1, <2>13 DEF Own
  <2>16. \A i \in 1 .. Len(T) : T[i].do \notin {"label", "eval", "visit"} => Goes(n, T, T[i].label)
    BY <1>1, <1>20, <2>1, <2>14 DEF Goes
  <2> QED
    BY <1>1, <1>20, <2>8, <2>9, <2>11, <2>12, <2>14, <2>15, <2>16, ItemFields
       DEF Lays, Labelled, Breakable, Loops
<1>21. s.kind \in AllKinds
  BY <1>1 DEF Gen, Shape
<1> QED
  BY <1>7, <1>8, <1>9, <1>10, <1>11, <1>12, <1>13, <1>14, <1>15, <1>16, <1>17, <1>18, <1>19, <1>20, <1>21 DEF AllKinds, Labelled
LEMMA SplitSeq ==
  ASSUME NEW s, IsSeq(s), NEW k \in 0 .. Len(s)
  PROVE  /\ IsSeq(SubSeq(s, 1, k)) /\ Len(SubSeq(s, 1, k)) = k
         /\ \A i \in 1 .. k : SubSeq(s, 1, k)[i] = s[i]
         /\ IsSeq(SubSeq(s, k + 1, Len(s))) /\ Len(SubSeq(s, k + 1, Len(s))) = Len(s) - k
         /\ \A i \in 1 .. Len(s) - k : SubSeq(s, k + 1, Len(s))[i] = s[k + i]
<1> DEFINE S == {s[i] : i \in 1 .. Len(s)}
<1>1. s \in Seq(S) /\ Len(s) \in Nat
  BY DEF IsSeq
<1> HIDE DEF S
<1>2. SubSeq(s, 1, k) \in Seq(S) /\ SubSeq(s, k + 1, Len(s)) \in Seq(S)
  BY <1>1
<1>3. IsSeq(SubSeq(s, 1, k)) /\ IsSeq(SubSeq(s, k + 1, Len(s)))
  BY <1>2, SeqIsSeq, Zenon
<1>4. Len(SubSeq(s, 1, k)) = k /\ \A i \in 1 .. k : SubSeq(s, 1, k)[i] = s[i]
  BY <1>1
<1>5. /\ Len(SubSeq(s, k + 1, Len(s))) = Len(s) - k
      /\ \A i \in 1 .. Len(s) - k : SubSeq(s, k + 1, Len(s))[i] = s[k + i]
  BY <1>1
<1> QED
  BY <1>3, <1>4, <1>5

(* What is printed at once is what stands before the next call.            *)
LEMMA PrintedSplit ==
  ASSUME NEW s, IsSeq(s)
  PROVE  \E k \in 0 .. Len(s) :
           /\ Printed(s) = SubSeq(s, 1, k) /\ Len(Printed(s)) = k
           /\ \A i \in 1 .. k : s[i].do # "visit"
           /\ k < Len(s) => s[k + 1].do = "visit"
<1> DEFINE calls == {i \in DOMAIN s : s[i].do = "visit"}
<1>1. DOMAIN s = 1 .. Len(s) /\ Len(s) \in Nat
  BY DEF IsSeq
<1>2. CASE calls = {}
  <2>1. Printed(s) = s
    BY <1>2 DEF Printed
  <2>2. Len(s) \in 0 .. Len(s) /\ ~ (Len(s) < Len(s))
    BY <1>1
  <2>3. s = SubSeq(s, 1, Len(s))
    <3>1. SubSeq(s, 1, Len(s)) = [i \in 1 .. Len(s) |-> s[i]]
      BY <1>1
    <3> QED
      BY <3>1 DEF IsSeq
  <2>4. \A i \in 1 .. Len(s) : s[i].do # "visit"
    BY <1>1, <1>2
  <2> QED
    BY <2>1, <2>2, <2>3, <2>4
<1>3. CASE calls # {}
  <2>1. calls \in SUBSET Nat
    BY <1>1
  <2>2. \E i \in calls : \A j \in calls : i <= j
    BY <1>3, <2>1, Least
  <2>3. PICK c : c = CHOOSE i \in calls : \A j \in calls : i <= j
    OBVIOUS
  <2>4. c \in calls /\ \A j \in calls : c <= j
    BY <2>2, <2>3
  <2>5. Printed(s) = SubSeq(s, 1, c - 1)
    BY <1>3, <2>3 DEF Printed
  <2>6. PICK k : k = c - 1
    OBVIOUS
  <2>7. k \in 0 .. Len(s) /\ s[k + 1].do = "visit"
    <3>1. c \in 1 .. Len(s) /\ s[c].do = "visit" /\ k + 1 = c
      BY <1>1, <2>4, <2>6
    <3> QED
      BY <1>1, <2>6, <3>1
  <2>8. \A i \in 1 .. k : s[i].do # "visit"
    BY <1>1, <2>4, <2>6
  <2>9. Len(Printed(s)) = k
    <3>1. Len(SubSeq(s, 1, k)) = k
      BY <2>7, SplitSeq
    <3> QED
      BY <2>5, <2>6, <3>1
  <2> QED
    BY <2>5, <2>6, <2>7, <2>8, <2>9
<1> QED
  BY <1>2, <1>3

(* Where an item comes from: from the statement's own, or from what was    *)
(* there but for the call.                                                 *)
Continued(T, k) ==
  /\ IsSeq(code') /\ IsSeq(todo')
  /\ Len(Items') = (Len(code) + Len(T)) + (Len(todo) - 1)
  /\ \A i \in 1 .. Len(Items') :
       \/ \E a \in 1 .. Len(T) : i = Len(code) + a /\ Items'[i] = T[a]
       \/ \E o \in 1 .. Len(code) : i = o /\ Items'[i] = code[o]
       \/ \E o \in 2 .. Len(todo) : i = Len(code) + Len(T) + (o - 1) /\ Items'[i] = todo[o]
  /\ \A a \in 1 .. Len(T) : \E i \in 1 .. Len(Items') : Items'[i] = T[a]
  /\ \A o \in 1 .. Len(code) : \E i \in 1 .. Len(Items') : Items'[i] = code[o]
  /\ \A i \in 1 .. Len(code') : code'[i].do = "visit" => i \in 1 .. Len(code) /\ code'[i] = code[i]
  /\ \A o \in 2 .. Len(todo) : \E i \in 1 .. Len(Items') : Items'[i] = todo[o]
  /\ k \in Nat
  /\ \A i \in 1 .. Len(todo') :
       \/ \E a \in 1 .. Len(T) : k + i = a /\ todo'[i] = T[a]
       \/ \E o \in 2 .. Len(todo) : k + i = Len(T) + (o - 1) /\ todo'[i] = todo[o]
  /\ \A a \in 1 .. Len(T) : T[a].do = "visit" => \E i \in 1 .. Len(todo') : todo'[i] = T[a]
  /\ \A o \in 2 .. Len(todo) : todo[o].do = "visit" => \E i \in 1 .. Len(todo') : todo'[i] = todo[o]
  /\ todo' # << >> => Len(todo') > 0 /\ todo'[1].do = "visit" /\ Head(todo') = todo'[1]
  /\ todo' = << >> => Len(todo') = 0

LEMMA GenItems ==
  ASSUME IsSeq(code), IsSeq(todo), todo # << >>, NEW T, IsSeq(T), NEW items, items = T \o Tail(todo),
         code' = code \o Printed(items),
         todo' = SubSeq(items, Len(Printed(items)) + 1, Len(items))
  PROVE  \E k \in Nat : Continued(T, k)
<1> DEFINE c == Len(code)
           t == Len(T)
           r == Len(todo) - 1
<1>2. /\ c \in Nat /\ t \in Nat /\ r \in Nat /\ Len(todo) = r + 1
      /\ IsSeq(Tail(todo)) /\ Len(Tail(todo)) = r /\ \A i \in 1 .. r : Tail(todo)[i] = todo[i + 1]
  BY TailSeq DEF IsSeq
<1>3. /\ IsSeq(items) /\ Len(items) = t + r
      /\ \A i \in 1 .. t : items[i] = T[i]
      /\ \A i \in t + 1 .. t + r : items[i] = todo[(i - t) + 1]
  <2>1. /\ IsSeq(items) /\ Len(items) = Len(T) + Len(Tail(todo))
        /\ \A i \in 1 .. Len(T) : items[i] = T[i]
        /\ \A i \in Len(T) + 1 .. Len(T) + Len(Tail(todo)) : items[i] = Tail(todo)[i - Len(T)]
    BY <1>2, ConcatSeq
  <2>2. /\ IsSeq(items) /\ Len(items) = t + r
        /\ \A i \in 1 .. t : items[i] = T[i]
        /\ \A i \in t + 1 .. t + r : items[i] = Tail(todo)[i - t]
    BY <1>2, <2>1
  <2>3. \A i \in t + 1 .. t + r : i - t \in 1 .. r
    BY <1>2
  <2> QED
    BY <1>2, <2>2, <2>3
<1> HIDE DEF c, t, r
<1>4. PICK k \in 0 .. Len(items) :
        /\ Printed(items) = SubSeq(items, 1, k) /\ Len(Printed(items)) = k
        /\ \A i \in 1 .. k : items[i].do # "visit"
        /\ k < Len(items) => items[k + 1].do = "visit"
  BY <1>3, PrintedSplit
<1>5. PICK P : P = Printed(items)
  OBVIOUS
<1>6. /\ IsSeq(P) /\ Len(P) = k /\ \A i \in 1 .. k : P[i] = items[i]
      /\ IsSeq(todo') /\ Len(todo') = Len(items) - k
      /\ \A i \in 1 .. Len(items) - k : todo'[i] = items[k + i]
  <2>1. P = SubSeq(items, 1, k) /\ todo' = SubSeq(items, k + 1, Len(items))
    BY <1>4, <1>5
  <2>2. /\ IsSeq(SubSeq(items, 1, k)) /\ Len(SubSeq(items, 1, k)) = k
        /\ \A i \in 1 .. k : SubSeq(items, 1, k)[i] = items[i]
        /\ IsSeq(SubSeq(items, k + 1, Len(items))) /\ Len(SubSeq(items, k + 1, Len(items))) = Len(items) - k
        /\ \A i \in 1 .. Len(items) - k : SubSeq(items, k + 1, Len(items))[i] = items[k + i]
    BY <1>3, SplitSeq
  <2> QED
    BY <2>1, <2>2, Zenon
<1>7. k \in Nat /\ k <= t + r /\ Len(todo') = (t + r) - k
  <2>1. PICK z : z = Len(items)
    OBVIOUS
  <2>2. z = t + r /\ Len(todo') = z - k /\ k \in 0 .. z
    BY <1>3, <1>6, <2>1
  <2> QED
    BY <1>2, <2>2
<1>8. /\ IsSeq(code') /\ Len(code') = c + k
      /\ \A i \in 1 .. c : code'[i] = code[i]
      /\ \A i \in c + 1 .. c + k : code'[i] = items[i - c]
  <2>1. /\ IsSeq(code') /\ Len(code') = Len(code) + Len(P)
        /\ \A i \in 1 .. Len(code) : code'[i] = code[i]
        /\ \A i \in Len(code) + 1 .. Len(code) + Len(P) : code'[i] = P[i - Len(code)]
    BY <1>5, <1>6, ConcatSeq
  <2>2. /\ IsSeq(code') /\ Len(code') = c + k
        /\ \A i \in 1 .. c : code'[i] = code[i]
        /\ \A i \in c + 1 .. c + k : code'[i] = P[i - c]
    BY <1>6, <2>1 DEF c
  <2>3. \A i \in c + 1 .. c + k : i - c \in 1 .. k
    BY <1>2, <1>7
  <2> QED
    BY <1>6, <2>2, <2>3
<1>9. /\ Len(Items') = (c + t) + r
      /\ \A i \in 1 .. c : Items'[i] = code[i]
      /\ \A i \in c + 1 .. (c + t) + r : Items'[i] = items[i - c]
  <2>1. /\ Len(Items') = Len(code') + Len(todo')
        /\ \A i \in 1 .. Len(code') : Items'[i] = code'[i]
        /\ \A i \in Len(code') + 1 .. Len(code') + Len(todo') : Items'[i] = todo'[i - Len(code')]
    <3>1. PICK a, b : a = code' /\ b = todo' /\ IsSeq(a) /\ IsSeq(b) /\ Items' = a \o b
      BY <1>6, <1>8 DEF Items
    <3>2. IsSeq(a) /\ IsSeq(b)
      BY <3>1
    <3>3. /\ IsSeq(a \o b)
          /\ Len(a \o b) = Len(a) + Len(b)
          /\ \A i \in 1 .. Len(a) : (a \o b)[i] = a[i]
          /\ \A i \in Len(a) + 1 .. Len(a) + Len(b) : (a \o b)[i] = b[i - Len(a)]
      BY <3>2, ConcatSeq
    <3> QED
      BY <3>1, <3>3, ZenonT(60)
  <2>2. PICK lc, lt : lc = Len(code') /\ lt = Len(todo')
    OBVIOUS
  <2>3. lc = c + k /\ lt = (t + r) - k /\ lc + lt = (c + t) + r
    BY <1>2, <1>7, <1>8, <2>2
  <2>4. /\ Len(Items') = lc + lt
        /\ \A i \in 1 .. lc : Items'[i] = code'[i]
        /\ \A i \in lc + 1 .. lc + lt : Items'[i] = todo'[i - lc]
    BY <2>1, <2>2
  <2>5. \A i \in 1 .. c : i \in 1 .. lc /\ i \in 1 .. c
    BY <1>2, <1>7, <2>3
  <2>6. ASSUME NEW i \in c + 1 .. (c + t) + r
        PROVE  Items'[i] = items[i - c]
    <3>1. CASE i <= c + k
      <4>1. i \in 1 .. lc /\ i \in c + 1 .. c + k
        BY <1>2, <1>7, <2>3, <3>1
      <4>2. Items'[i] = code'[i]
        BY <2>4, <4>1
      <4>3. code'[i] = items[i - c]
        BY <1>8, <4>1
      <4> QED
        BY <4>2, <4>3
    <3>2. CASE i > c + k
      <4>1. i \in lc + 1 .. lc + lt /\ i - lc \in 1 .. Len(items) - k /\ k + (i - lc) = i - c
        BY <1>2, <1>3, <1>7, <2>3, <3>2
      <4>2. Items'[i] = todo'[i - lc] /\ todo'[i - lc] = items[k + (i - lc)]
        BY <1>6, <2>4, <4>1
      <4> QED
        BY <4>1, <4>2
    <3>3. i \in Int /\ c + k \in Int
      BY <1>2, <1>7
    <3>4. i <= c + k \/ i > c + k
      BY <3>3
    <3> QED
      BY <3>1, <3>2, <3>4
  <2> QED
    BY <1>8, <2>3, <2>4, <2>5, <2>6
<1>10. \A i \in 1 .. (c + t) + r :
         \/ i \in 1 .. c
         \/ i \in c + 1 .. (c + t) + r /\ i - c \in 1 .. t
         \/ i \in c + 1 .. (c + t) + r /\ i - c \in t + 1 .. t + r /\ ((i - c) - t) + 1 \in 2 .. r + 1
  BY <1>2
<1>11. ASSUME NEW i \in 1 .. Len(Items')
       PROVE  \/ \E a \in 1 .. t : i = c + a /\ Items'[i] = T[a]
              \/ \E o \in 1 .. c : i = o /\ Items'[i] = code[o]
              \/ \E o \in 2 .. Len(todo) : i = c + t + (o - 1) /\ Items'[i] = todo[o]
  <2>1. i \in 1 .. (c + t) + r
    BY <1>9
  <2>2. CASE i \in 1 .. c
    BY <1>9, <2>2
  <2>3. CASE i \in c + 1 .. (c + t) + r /\ i - c \in 1 .. t
    <3>1. Items'[i] = T[i - c] /\ i = c + (i - c)
      BY <1>2, <1>3, <1>9, <2>3, SMTT(30)
    <3> QED
      BY <2>3, <3>1
  <2>4. CASE i \in c + 1 .. (c + t) + r /\ i - c \in t + 1 .. t + r /\ ((i - c) - t) + 1 \in 2 .. r + 1
    <3>1. PICK q, o : q = i - c /\ o = (q - t) + 1
      OBVIOUS
    <3>2. q \in t + 1 .. t + r /\ o \in 2 .. Len(todo) /\ i = c + t + (o - 1)
      BY <1>2, <2>4, <3>1
    <3>3. Items'[i] = items[q] /\ items[q] = todo[o]
      BY <1>3, <1>9, <2>4, <3>1, <3>2
    <3> QED
      BY <3>2, <3>3
  <2> QED
    BY <1>10, <2>1, <2>2, <2>3, <2>4
<1>12. ASSUME NEW a \in 1 .. t
       PROVE  \E i \in 1 .. Len(Items') : Items'[i] = T[a]
  <2>1. c + a \in c + 1 .. (c + t) + r /\ c + a \in 1 .. (c + t) + r /\ (c + a) - c = a
    BY <1>2
  <2> QED
    BY <1>3, <1>9, <2>1, ZenonT(60)
<1>13. ASSUME NEW o \in 2 .. Len(todo)
       PROVE  \E i \in 1 .. Len(Items') : Items'[i] = todo[o]
  <2>1. PICK q : q = t + (o - 1)
    OBVIOUS
  <2>2. /\ q \in t + 1 .. t + r /\ (q - t) + 1 = o
        /\ c + q \in c + 1 .. (c + t) + r /\ c + q \in 1 .. (c + t) + r /\ (c + q) - c = q
    BY <1>2, <2>1
  <2> QED
    BY <1>3, <1>9, <2>2, ZenonT(60)
<1>14. \A o \in 1 .. c : \E i \in 1 .. Len(Items') : Items'[i] = code[o]
  <2>1. \A o \in 1 .. c : o \in 1 .. (c + t) + r
    BY <1>2
  <2> QED
    BY <1>9, <2>1
<1>15. ASSUME NEW i \in 1 .. Len(todo')
       PROVE  \/ \E a \in 1 .. t : k + i = a /\ todo'[i] = T[a]
              \/ \E o \in 2 .. Len(todo) : k + i = t + (o - 1) /\ todo'[i] = todo[o]
  <2>1. todo'[i] = items[k + i]
    BY <1>6
  <2>2. CASE k + i <= t
    <3>1. k + i \in 1 .. t
      BY <1>2, <1>7, <2>2
    <3> QED
      BY <1>3, <2>1, <3>1
  <2>3. CASE k + i > t
    <3>1. PICK o : o = ((k + i) - t) + 1
      OBVIOUS
    <3>2. k + i \in t + 1 .. t + r /\ o \in 2 .. Len(todo) /\ k + i = t + (o - 1)
      BY <1>2, <1>7, <2>3, <3>1
    <3>3. items[k + i] = todo[o]
      BY <1>3, <3>1, <3>2
    <3> QED
      BY <2>1, <3>2, <3>3
  <2> QED
    BY <1>2, <1>7, <2>2, <2>3
<1>16. ASSUME NEW q \in 1 .. t + r, items[q].do = "visit"
       PROVE  \E i \in 1 .. Len(todo') : todo'[i] = items[q]
  <2>0. q <= k => q \in 1 .. k
    OBVIOUS
  <2>1. q > k
    <3>1. ~ (q <= k)
      BY <1>4, <1>16, <2>0
    <3>2. q \in Int /\ k \in Int
      BY <1>7
    <3> QED
      BY <3>1, <3>2
  <2>2. q - k \in 1 .. Len(todo') /\ q - k \in 1 .. Len(items) - k /\ k + (q - k) = q
    BY <1>2, <1>3, <1>7, <2>1
  <2> QED
    BY <1>6, <2>2
<1>17. ASSUME NEW a \in 1 .. t, T[a].do = "visit"
       PROVE  \E i \in 1 .. Len(todo') : todo'[i] = T[a]
  <2>1. a \in 1 .. t + r /\ items[a] = T[a]
    BY <1>2, <1>3
  <2> QED
    <3>1. items[a].do = "visit"
      BY <1>17, <2>1
    <3>2. \E i \in 1 .. Len(todo') : todo'[i] = items[a]
      BY <1>16, <2>1, <3>1
    <3> QED
      BY <2>1, <3>2
<1>18. ASSUME NEW o \in 2 .. Len(todo), todo[o].do = "visit"
       PROVE  \E i \in 1 .. Len(todo') : todo'[i] = todo[o]
  <2>1. PICK q : q = t + (o - 1)
    OBVIOUS
  <2>2. q \in t + 1 .. t + r /\ (q - t) + 1 = o /\ q \in 1 .. t + r
    BY <1>2, <2>1
  <2>3. items[q] = todo[o]
    BY <1>3, <2>2
  <2> QED
    <3>1. items[q].do = "visit"
      BY <1>18, <2>3
    <3>2. \E i \in 1 .. Len(todo') : todo'[i] = items[q]
      BY <1>16, <2>2, <3>1
    <3> QED
      BY <2>3, <3>2
<1>19. /\ todo' # << >> => Len(todo') > 0 /\ todo'[1].do = "visit" /\ Head(todo') = todo'[1]
       /\ todo' = << >> => Len(todo') = 0
  <2>1. ASSUME todo' # << >>
        PROVE  Len(todo') > 0 /\ todo'[1].do = "visit" /\ Head(todo') = todo'[1]
    <3>1. Len(todo') > 0 /\ Head(todo') = todo'[1]
      BY <1>6, <2>1, TailSeq
    <3>2. k < Len(items) /\ 1 \in 1 .. Len(items) - k
      BY <1>2, <1>3, <1>7, <3>1
    <3>3. todo'[1] = items[k + 1]
      BY <1>6, <3>2
    <3> QED
      BY <1>4, <3>1, <3>2, <3>3
  <2>2. todo' = << >> => Len(todo') = 0
    OBVIOUS
  <2> QED
    BY <2>1, <2>2
<1>191. ASSUME NEW i \in 1 .. Len(code'), code'[i].do = "visit"
        PROVE  i \in 1 .. c /\ code'[i] = code[i]
  <2>1. i \in 1 .. c + k
    BY <1>8
  <2>2. CASE i > c
    <3>1. i \in c + 1 .. c + k /\ i - c \in 1 .. k
      BY <1>2, <1>7, <2>1, <2>2
    <3>2. code'[i] = items[i - c] /\ items[i - c].do # "visit"
      BY <1>4, <1>8, <3>1
    <3> QED
      BY <1>191, <3>2
  <2>3. CASE ~ (i > c)
    <3>1. i \in 1 .. c
      BY <1>2, <2>1, <2>3
    <3> QED
      BY <1>8, <3>1
  <2> QED
    BY <2>2, <2>3
<1>20. Continued(T, k)
  <2>1. IsSeq(code') /\ IsSeq(todo') /\ k \in Nat /\ Len(Items') = (Len(code) + Len(T)) + (Len(todo) - 1)
    BY <1>6, <1>7, <1>8, <1>9 DEF c, t, r
  <2> QED
    BY <1>11, <1>12, <1>13, <1>14, <1>15, <1>17, <1>18, <1>19, <1>191, <2>1, Zenon DEF Continued, c, t
<1> QED
  BY <1>7, <1>20
(* gen_stmt comes to n, prints the items T down to the first call, and     *)
(* goes on from there.                                                     *)
Printing(n, T, k) ==
  /\ n \in Nodes /\ Len(tree) \in Nat /\ Len(todo) \in Nat \ {0} /\ 1 \in 1 .. Len(todo)
  /\ todo[1] = Visit(n) /\ Visited = n - 1
  /\ Given(n) /\ Lays(n, T) /\ Continued(T, k)

LEMMA GenStart ==
  ASSUME Gen, gen_stmt
  PROVE  \E n, T, k : Printing(n, T, k) /\ T = Template(n, tree', label_no)
<1>1. todo # << >> /\ Shape /\ Referred /\ Labels /\ ToGo /\ Numbers /\ IsSeq(code)
  BY DEF gen_stmt, Gen, Unique
<1>2. /\ Len(todo) > 0 /\ Len(todo) \in Nat /\ Head(todo) = todo[1] /\ Len(tree) \in Nat /\ IsSeq(todo)
  BY <1>1, TailSeq DEF ToGo, IsSeq, Shape
<1>21. 1 \in 1 .. Len(todo) /\ Len(todo) \in Nat \ {0}
  BY <1>2
<1>3. PICK n : n = Head(todo).at
  OBVIOUS
<1>4. n \in Nodes /\ todo[1] = Visit(n) /\ Visited = n - 1
  BY <1>1, <1>2, <1>21, <1>3 DEF ToGo, Visited
<1>5. PICK T : T = Template(n, Numbered(n), label_no)
  OBVIOUS
<1>6. /\ tree' = Numbered(n) /\ label_no' = label_no + LabelCount(n)
      /\ code' = code \o Printed(T \o Tail(todo))
      /\ todo' = SubSeq(T \o Tail(todo), Len(Printed(T \o Tail(todo))) + 1, Len(T \o Tail(todo)))
      /\ UNCHANGED <<label_stmts, goto_stmts>>
  BY <1>3, <1>5 DEF gen_stmt, targets
<1>7. Given(n)
  <2>1. label_no \in Nat
    BY <1>1 DEF Numbers
  <2> QED
    BY <1>1, <1>4, <1>6, <2>1, NumberedTree
<1>71. T = Template(n, tree', label_no)
  BY <1>5, <1>6
<1>8. Lays(n, T)
  BY <1>4, <1>7, <1>71, LaysOut
<1>9. PICK k \in Nat : Continued(T, k)
  <2>1. IsSeq(T)
    BY <1>8 DEF Lays
  <2>2. PICK items : items = T \o Tail(todo)
    OBVIOUS
  <2>3. /\ code' = code \o Printed(items)
        /\ todo' = SubSeq(items, Len(Printed(items)) + 1, Len(items))
    BY <1>6, <2>2
  <2> QED
    BY <1>1, <1>2, <2>1, <2>2, <2>3, GenItems
<1> QED
  BY <1>2, <1>21, <1>4, <1>7, <1>71, <1>8, <1>9 DEF Printing

(* The statements inside n come next, before those that were waiting.      *)
LEMMA VisitedNext ==
  ASSUME Gen, NEW n, NEW T, NEW k, Printing(n, T, k)
  PROVE  ToGo' /\ Visited' = n
<1>1. /\ Shape /\ Referred /\ Labels /\ ToGo /\ Same
      /\ n \in 1 .. Len(tree) /\ n \in Nodes /\ Len(tree) \in Nat /\ Len(todo) \in Nat
      /\ todo[1] = Visit(n) /\ Visited = n - 1 /\ 1 \in 1 .. Len(todo)
  BY DEF Gen, Printing, Given, Nodes
<1>2. Nodes' = Nodes /\ Len(tree') = Len(tree) /\ \A m \in Nodes : Parent(m)' = Parent(m)
  BY <1>1, SameTree DEF Same
<1>3. \A m \in Nodes : m \in Nat /\ Parent(m) \in 0 .. m - 1
  <2>1. \A m \in Nodes : Parent(m) \in 0 .. m - 1
    BY <1>1, Zenon DEF Shape
  <2> QED
    BY <2>1 DEF Nodes
<1>4. /\ \A i \in 1 .. Len(tree[n].kids) : tree[n].kids[i] \in Nodes /\ Parent(tree[n].kids[i]) = n
      /\ \A m \in Nodes : Parent(m) = n => \E i \in 1 .. Len(tree[n].kids) : tree[n].kids[i] = m
  <2>1. Lists(tree[n].kids, {m \in Nodes : Parent(m) = n})
    BY <1>1 DEF Shape
  <2> QED
    BY <2>1 DEF Lists
<1>5. IsSeq(todo') /\ Len(todo') \in Nat /\ k \in Nat /\ IsSeq(T) /\ Len(T) \in Nat
  BY DEF Printing, Continued, Lays, IsSeq
<1>6. ASSUME NEW a \in 1 .. Len(T), T[a].do = "visit"
      PROVE  T[a] = Visit(T[a].at) /\ T[a].at \in Nodes /\ Parent(T[a].at) = n
  <2>1. PICK i \in 1 .. Len(tree[n].kids) : T[a] = Visit(tree[n].kids[i])
    BY <1>6 DEF Printing, Lays
  <2> QED
    BY <1>4, <2>1, ItemFields
<1>7. ASSUME NEW o \in 2 .. Len(todo), todo[o].do = "visit"
      PROVE  /\ todo[o] = Visit(todo[o].at) /\ todo[o].at \in Nodes /\ n < todo[o].at
             /\ Parent(todo[o].at) < n
  <2>1. o \in 1 .. Len(todo) /\ 1 < o
    BY <1>1
  <2>2. todo[o] = Visit(todo[o].at) /\ todo[o].at \in n .. Len(tree) /\ Parent(todo[o].at) <= n - 1
    <3>1. (n - 1) + 1 = n
      BY <1>1
    <3> QED
      BY <1>1, <1>7, <2>1, <3>1 DEF ToGo
  <2>3. todo[1].do = "visit" /\ todo[1].at = n
    BY <1>1, ItemFields
  <2>4. n < todo[o].at
    BY <1>1, <1>7, <2>1, <2>3 DEF ToGo
  <2>5. todo[o].at \in Nodes
    BY <1>1, <2>2 DEF Nodes
  <2> QED
    BY <1>1, <1>3, <2>2, <2>4, <2>5
<1>8. \A i \in 1 .. Len(todo') :
         \/ \E a \in 1 .. Len(T) : k + i = a /\ todo'[i] = T[a]
         \/ \E o \in 2 .. Len(todo) : k + i = Len(T) + (o - 1) /\ todo'[i] = todo[o]
  BY DEF Printing, Continued
<1>81. /\ \A a \in 1 .. Len(T) : T[a].do = "visit" => \E i \in 1 .. Len(todo') : todo'[i] = T[a]
       /\ \A o \in 2 .. Len(todo) : todo[o].do = "visit" => \E i \in 1 .. Len(todo') : todo'[i] = todo[o]
  BY DEF Printing, Continued
<1>9. ASSUME NEW i \in 1 .. Len(todo'), todo'[i].do = "visit", NEW m, m = todo'[i].at
      PROVE  todo'[i] = Visit(m) /\ m \in n + 1 .. Len(tree) /\ m \in Nodes /\ Parent(m) <= n
  <2>1. CASE \E a \in 1 .. Len(T) : todo'[i] = T[a]
    <3>1. PICK a \in 1 .. Len(T) : todo'[i] = T[a]
      BY <2>1
    <3>2. todo'[i] = Visit(m) /\ m \in Nodes /\ Parent(m) = n
      BY <1>6, <1>9, <3>1
    <3>3. m \in Nat /\ n \in 0 .. m - 1
      BY <1>3, <3>2
    <3> QED
      BY <1>1, <3>2, <3>3 DEF Nodes
  <2>2. CASE \E o \in 2 .. Len(todo) : todo'[i] = todo[o]
    <3>1. PICK o \in 2 .. Len(todo) : todo'[i] = todo[o]
      BY <2>2
    <3>2. todo'[i] = Visit(m) /\ m \in Nodes /\ n < m /\ Parent(m) < n
      BY <1>7, <1>9, <3>1
    <3>3. Parent(m) \in Int
      BY <1>3, <3>2
    <3> QED
      BY <1>1, <3>2, <3>3 DEF Nodes
  <2> QED
    BY <1>8, <2>1, <2>2
<1>10. ASSUME NEW m \in n + 1 .. Len(tree), Parent(m)' <= n
       PROVE  \E i \in 1 .. Len(todo') : todo'[i] = Visit(m)
  <2>1. m \in Nodes /\ m > n
    BY <1>1 DEF Nodes
  <2>2. CASE Parent(m) = n
    <3>1. PICK q \in 1 .. Len(tree[n].kids) : tree[n].kids[q] = m
      BY <1>4, <2>1, <2>2
    <3>2. PICK a \in 1 .. Len(T) : T[a] = Visit(m)
      BY <3>1 DEF Printing, Lays
    <3>3. T[a].do = "visit"
      BY <3>2, ItemFields
    <3> QED
      BY <1>81, <3>2, <3>3
  <2>3. CASE Parent(m) < n
    <3>1. m \in (n - 1) + 1 .. Len(tree) /\ Parent(m) <= n - 1
      BY <1>1, <1>3, <2>1, <2>3
    <3>2. PICK o \in 1 .. Len(todo) : todo[o] = Visit(m)
      BY <1>1, <3>1 DEF ToGo
    <3>3. todo[o].do = "visit" /\ todo[o].at = m /\ todo[1].at = n
      BY <1>1, <3>2, ItemFields
    <3>4. o # 1
      BY <2>1, <3>3, <1>1
    <3>5. o \in 2 .. Len(todo)
      BY <1>1, <3>4
    <3> QED
      BY <1>81, <3>2, <3>3, <3>5
  <2> QED
    BY <1>1, <1>2, <1>3, <1>10, <2>1, <2>2, <2>3
<1>11. ASSUME NEW c \in Nodes, Parent(c) = n, NEW m \in Nodes, n < m, Parent(m) < n
       PROVE  c < m
  <2>1. \A q \in n + 1 .. c : Parent(q) >= n
    BY <1>1, <1>11 DEF Shape
  <2>2. m \notin n + 1 .. c
    BY <1>1, <1>3, <1>11, <2>1
  <2> QED
    BY <1>1, <1>3, <1>11, <2>2
<1>12. ASSUME NEW i \in 1 .. Len(todo'), NEW j \in 1 .. Len(todo'), i < j,
              todo'[i].do = "visit", todo'[j].do = "visit"
       PROVE  todo'[i].at < todo'[j].at
  <2>1. CASE \E b \in 1 .. Len(T) : k + j = b /\ todo'[j] = T[b]
    <3>1. PICK b \in 1 .. Len(T) : k + j = b /\ todo'[j] = T[b]
      BY <2>1
    <3>2. ~ \E o \in 2 .. Len(todo) : k + i = Len(T) + (o - 1)
      BY <1>1, <1>5, <1>12, <3>1
    <3>3. PICK a \in 1 .. Len(T) : k + i = a /\ todo'[i] = T[a]
      BY <1>8, <3>2
    <3>4. a < b
      BY <1>5, <1>12, <3>1, <3>3
    <3> QED
      BY <1>12, <3>1, <3>3, <3>4 DEF Printing, Lays
  <2>2. CASE \E q \in 2 .. Len(todo) : k + j = Len(T) + (q - 1) /\ todo'[j] = todo[q]
    <3>1. PICK q \in 2 .. Len(todo) : k + j = Len(T) + (q - 1) /\ todo'[j] = todo[q]
      BY <2>2
    <3>2. CASE \E a \in 1 .. Len(T) : todo'[i] = T[a]
      BY <1>6, <1>7, <1>11, <1>12, <3>1, <3>2
    <3>3. CASE \E o \in 2 .. Len(todo) : k + i = Len(T) + (o - 1) /\ todo'[i] = todo[o]
      <4>1. PICK o \in 2 .. Len(todo) : k + i = Len(T) + (o - 1) /\ todo'[i] = todo[o]
        BY <3>3
      <4>2. o < q
        BY <1>1, <1>5, <1>12, <3>1, <4>1
      <4>3. o \in 1 .. Len(todo) /\ q \in 1 .. Len(todo)
        BY <1>1
      <4> QED
        BY <1>1, <1>12, <3>1, <4>1, <4>2, <4>3 DEF ToGo
    <3> QED
      BY <1>8, <3>2, <3>3
  <2> QED
    BY <1>8, <2>1, <2>2
<1>13. n < Len(tree) => n + 1 \in n + 1 .. Len(tree) /\ Parent(n + 1)' <= n
  <2>1. n < Len(tree) => n + 1 \in Nodes
    BY <1>1 DEF Nodes
  <2> QED
    BY <1>1, <1>2, <1>3, <2>1
<1>14. Visited' = n
  <2>1. CASE todo' = << >>
    <3>1. Len(todo') = 0 /\ Visited' = Len(tree)
      BY <1>2, <2>1 DEF Printing, Continued, Visited
    <3>2. 1 .. Len(todo') = {}
      BY <3>1
    <3>3. ~ (n < Len(tree))
      BY <1>10, <1>13, <3>2
    <3> QED
      BY <1>1, <3>1, <3>3
  <2>2. CASE todo' # << >>
    <3>1. /\ Len(todo') > 0 /\ todo'[1].do = "visit" /\ Head(todo') = todo'[1]
          /\ Visited' = Head(todo').at - 1
      BY <2>2 DEF Printing, Continued, Visited
    <3>2. 1 \in 1 .. Len(todo') /\ \A i \in 1 .. Len(todo') : i = 1 \/ 1 < i
      BY <1>5, <3>1
    <3>3. todo'[1].at \in n + 1 .. Len(tree)
      BY <1>9, <3>1, <3>2
    <3>4. PICK i \in 1 .. Len(todo') : todo'[i] = Visit(n + 1)
      BY <1>1, <1>10, <1>13, <3>3
    <3>5. todo'[i].do = "visit" /\ todo'[i].at = n + 1
      BY <3>4, ItemFields
    <3>6. todo'[1].at = n + 1
      BY <1>1, <1>12, <3>1, <3>2, <3>3, <3>5
    <3> QED
      BY <1>1, <3>1, <3>6
  <2> QED
    BY <2>1, <2>2
<1>15. todo' # << >> => todo'[1].do = "visit" /\ todo'[1].at \in Nodes'
  <2>1. todo' # << >> => todo'[1].do = "visit" /\ 1 \in 1 .. Len(todo')
    BY <1>5 DEF Printing, Continued
  <2> QED
    BY <1>2, <1>9, <2>1
<1>16. ToGo'
  <2>1. \A i \in 1 .. Len(todo') : \A m : todo'[i].do = "visit" /\ m = todo'[i].at =>
          /\ todo'[i] = Visit(m)
          /\ m \in Visited' + 1 .. Len(tree') /\ Parent(m)' <= Visited'
    BY <1>2, <1>9, <1>14
  <2>2. \A m \in Visited' + 1 .. Len(tree') : Parent(m)' <= Visited' =>
          \E i \in 1 .. Len(todo') : todo'[i] = Visit(m)
    BY <1>2, <1>10, <1>14
  <2> QED
    BY <1>5, <1>12, <1>15, <2>1, <2>2 DEF ToGo
<1> QED
  BY <1>14, <1>16
(* The cases of n get their numbers, the last label_no has given; those    *)
(* that had one keep it.                                                   *)
CaseOf(m, n) == tree[m].kind \in CaseKinds /\ tree[m].target = n

(* The numbers given and those still to be given. *)
LEMMA Ranges ==
  ASSUME NEW a \in Nat \ {0}, NEW b \in Nat, b >= a, NEW l, l \in a .. b - 1 \/ l \in 1 .. a - 1
  PROVE  l \in 1 .. b - 1
OBVIOUS

LEMMA NumbersNext ==
  ASSUME Gen, NEW n, NEW T, NEW k, Printing(n, T, k), Visited' = n
  PROVE  /\ Numbers'
         /\ \A m \in Nodes : HasNumber(m)' <=> HasNumber(m) \/ CaseOf(m, n)
         /\ \A m \in Nodes : HasNumber(m) => ~ CaseOf(m, n) /\ tree'[m].label_no = tree[m].label_no
         /\ \A m \in Nodes : CaseOf(m, n) =>
              /\ tree[n].kind = "switch" /\ n < m
              /\ tree'[m].label_no \in label_no + 1 .. label_no' - 1
<1>1. /\ Shape /\ Referred /\ Labels /\ Numbers /\ Same /\ Given(n)
      /\ n \in 1 .. Len(tree) /\ n \in Nodes /\ Len(tree) \in Nat /\ Visited = n - 1
  BY DEF Gen, Printing, Given, Nodes
<1>2. Nodes' = Nodes /\ \A m \in Nodes : tree'[m].kind = tree[m].kind /\ tree'[m].target = tree[m].target
  BY <1>1, SameTree DEF Same, Given
<1>3. ASSUME NEW m \in Nodes, tree[m].kind \in CaseKinds
      PROVE  /\ tree[m].target \in Nodes /\ tree[m].target \in Int /\ tree[m].target < m
             /\ tree[tree[m].target].kind = "switch" /\ m \in Int
  <2>1. tree[m].target \in Around(m) /\ tree[m].target \in OfKind({"switch"})
    BY <1>1, <1>3 DEF Referred
  <2> QED
    BY <2>1 DEF Around, OfKind, Nodes
<1>4. \A m \in Nodes : HasNumber(m) => ~ CaseOf(m, n)
  BY <1>1, <1>3 DEF HasNumber, CaseOf, CaseKinds
<1>5. \A m \in Nodes : HasNumber(m)' <=> HasNumber(m) \/ CaseOf(m, n)
  <2>1. ASSUME NEW m \in Nodes, tree[m].kind \in CaseKinds
        PROVE  tree[m].target <= n <=> tree[m].target <= n - 1 \/ tree[m].target = n
    BY <1>1, <1>3, <2>1
  <2> QED
    BY <1>1, <1>2, <2>1 DEF HasNumber, CaseOf
<1>6. /\ \A i \in 1 .. Len(tree[n].cases) : tree[n].cases[i] \in Nodes /\ CaseOf(tree[n].cases[i], n)
      /\ \A m \in Nodes : CaseOf(m, n) => \E i \in 1 .. Len(tree[n].cases) : tree[n].cases[i] = m
      /\ Len(tree[n].cases) \in Nat
  <2>1. Lists(tree[n].cases, {m \in OfKind(CaseKinds) : tree[m].target = n})
    BY <1>1 DEF Shape
  <2> QED
    BY <2>1 DEF Lists, IsSeq, OfKind, CaseOf
<1>7. \A m \in Nodes : HasNumber(m) => tree'[m].label_no = tree[m].label_no
  BY <1>1, <1>4, <1>6 DEF Given
<1>8. ASSUME NEW m \in Nodes, CaseOf(m, n)
      PROVE  /\ tree[n].kind = "switch" /\ n < m
             /\ \E i \in 1 .. Len(tree[n].cases) : tree[n].cases[i] = m /\ tree'[m].label_no = label_no + i
  <2>1. tree[n].kind = "switch" /\ n < m
    BY <1>3, <1>8 DEF CaseOf
  <2>2. \E i \in 1 .. Len(tree[n].cases) : tree[n].cases[i] = m
    BY <1>6, <1>8
  <2> QED
    BY <1>1, <2>1, <2>2 DEF Given
<1>9. label_no \in Nat \ {0} /\ label_no' \in Nat /\ label_no' >= label_no
  BY <1>1 DEF Numbers, Given
<1>10. ASSUME NEW m \in Nodes, CaseOf(m, n)
       PROVE  tree'[m].label_no \in label_no + 1 .. label_no' - 1
  <2>1. PICK i \in 1 .. Len(tree[n].cases) : tree'[m].label_no = label_no + i
    BY <1>8, <1>10
  <2>2. label_no' = label_no + 1 + Len(tree[n].cases)
    BY <1>1, <1>8, <1>10 DEF Given
  <2>3. PICK c : c = Len(tree[n].cases)
    OBVIOUS
  <2>4. c \in Nat /\ i \in 1 .. c /\ label_no' = label_no + 1 + c
    BY <1>6, <2>2, <2>3
  <2> QED
    BY <1>9, <2>1, <2>4
<1>11. \A m \in Nodes : HasNumber(m) => tree[m].label_no \in 1 .. label_no - 1
  BY <1>1 DEF Numbers
<1>12. Numbers'
  <2>1. label_no' \in Nat \ {0}
    BY <1>9
  <2>2. ASSUME NEW m \in Nodes, HasNumber(m)'
        PROVE  tree'[m].label_no \in 1 .. label_no' - 1
    <3>1. CASE HasNumber(m)
      <4>1. tree'[m].label_no = tree[m].label_no /\ tree[m].label_no \in 1 .. label_no - 1
        BY <1>7, <1>11, <3>1
      <4> QED
        BY <1>9, <4>1
    <3>2. CASE CaseOf(m, n)
      <4>1. tree'[m].label_no \in label_no + 1 .. label_no' - 1
        BY <1>10, <3>2
      <4> QED
        BY <1>9, <4>1
    <3> QED
      BY <1>5, <2>2, <3>1, <3>2
  <2>3. ASSUME NEW m \in Nodes, NEW o \in Nodes, HasNumber(m)', HasNumber(o)',
               tree'[m].label_no = tree'[o].label_no
        PROVE  m = o
    <3>1. CASE HasNumber(m) /\ HasNumber(o)
      BY <1>1, <1>7, <2>3, <3>1 DEF Numbers
    <3>2. CASE CaseOf(m, n) /\ CaseOf(o, n)
      <4>1. PICK i \in 1 .. Len(tree[n].cases) :
              tree[n].cases[i] = m /\ tree'[m].label_no = label_no + i
        BY <1>8, <3>2
      <4>2. PICK j \in 1 .. Len(tree[n].cases) :
              tree[n].cases[j] = o /\ tree'[o].label_no = label_no + j
        BY <1>8, <3>2
      <4>3. i = j
        <5>1. i \in Int /\ j \in Int
          BY <1>6
        <5>2. label_no + i = label_no + j
          BY <2>3, <4>1, <4>2
        <5>3. label_no \in Int
          BY <1>9
        <5> QED
          BY <5>1, <5>2, <5>3
      <4> QED
        BY <4>1, <4>2, <4>3
    <3>3. ASSUME NEW a \in Nodes, NEW b \in Nodes, HasNumber(a), CaseOf(b, n)
          PROVE  tree'[a].label_no # tree'[b].label_no
      <4>1. /\ tree'[a].label_no \in 1 .. label_no - 1
            /\ tree'[b].label_no \in label_no + 1 .. label_no' - 1
        BY <1>7, <1>10, <1>11, <3>3
      <4> QED
        BY <1>9, <4>1
    <3> QED
      BY <1>5, <2>3, <3>1, <3>2, <3>3
  <2> QED
    BY <1>2, <2>1, <2>2, <2>3 DEF Numbers
<1> QED
  BY <1>4, <1>5, <1>7, <1>8, <1>10, <1>12

(* The items from before, in the sequence they were in.                    *)
LEMMA ItemsNow ==
  ASSUME Gen, NEW n, NEW T, NEW k, Printing(n, T, k)
  PROVE  /\ \A o \in 1 .. Len(code) : o \in 1 .. Len(Items) /\ Items[o] = code[o]
         /\ \A o \in 2 .. Len(todo) : Len(code) + o \in 1 .. Len(Items) /\ Items[Len(code) + o] = todo[o]
         /\ \A x \in 1 .. Len(Items) : Items[x] = Visit(n) \/ \E i \in 1 .. Len(Items') : Items'[i] = Items[x]
         /\ Len(code) \in Nat
<1>1. IsSeq(code) /\ IsSeq(todo) /\ todo[1] = Visit(n) /\ Len(todo) \in Nat \ {0}
  BY DEF Gen, Unique, ToGo, Printing
<1>2. Len(code) \in Nat
  BY <1>1 DEF IsSeq
<1>3. /\ Len(Items) = Len(code) + Len(todo)
      /\ \A i \in 1 .. Len(code) : Items[i] = code[i]
      /\ \A i \in Len(code) + 1 .. Len(code) + Len(todo) : Items[i] = todo[i - Len(code)]
  BY <1>1, ConcatSeq DEF Items
<1>4. \A o \in 1 .. Len(code) : o \in 1 .. Len(Items) /\ Items[o] = code[o]
  <2>1. \A o \in 1 .. Len(code) : o \in 1 .. Len(Items)
    BY <1>1, <1>2, <1>3
  <2> QED
    BY <1>3, <2>1
<1>5. ASSUME NEW o \in 2 .. Len(todo)
      PROVE  Len(code) + o \in 1 .. Len(Items) /\ Items[Len(code) + o] = todo[o]
  <2>1. /\ Len(code) + o \in Len(code) + 1 .. Len(code) + Len(todo)
        /\ Len(code) + o \in 1 .. Len(code) + Len(todo) /\ (Len(code) + o) - Len(code) = o
    BY <1>1, <1>2
  <2> QED
    BY <1>3, <2>1
<1>6. ASSUME NEW x \in 1 .. Len(Items)
      PROVE  Items[x] = Visit(n) \/ \E i \in 1 .. Len(Items') : Items'[i] = Items[x]
  <2>1. /\ \A o \in 1 .. Len(code) : \E i \in 1 .. Len(Items') : Items'[i] = code[o]
        /\ \A o \in 2 .. Len(todo) : \E i \in 1 .. Len(Items') : Items'[i] = todo[o]
    BY DEF Printing, Continued
  <2>2. CASE x \in 1 .. Len(code)
    BY <1>3, <2>1, <2>2
  <2>3. CASE x \notin 1 .. Len(code)
    <3>1. PICK o : o = x - Len(code)
      OBVIOUS
    <3>2. x \in Len(code) + 1 .. Len(code) + Len(todo) /\ (o = 1 \/ o \in 2 .. Len(todo))
      BY <1>1, <1>2, <1>3, <2>3, <3>1
    <3>3. Items[x] = todo[o]
      BY <1>3, <3>1, <3>2
    <3> QED
      BY <1>1, <2>1, <3>2, <3>3
  <2> QED
    BY <2>2, <2>3
<1> QED
  BY <1>2, <1>4, <1>5, <1>6
(* Nothing is printed twice: the labels n takes are new, and the number it *)
(* may have of its own was given to no other.                              *)
LEMMA UniqueNext ==
  ASSUME Gen, NEW n, NEW T, NEW k, Printing(n, T, k), Visited' = n
  PROVE  Unique'
<1>1. /\ Unique /\ Numbers /\ Shape /\ n \in 1 .. Len(tree) /\ n \in Nodes /\ Len(tree) \in Nat
      /\ Visited = n - 1 /\ Lays(n, T) /\ Given(n) /\ Len(tree') = Len(tree)
  BY DEF Gen, Printing, Given, Nodes, Same
<1>2. /\ \A m \in Nodes : HasNumber(m)' <=> HasNumber(m) \/ CaseOf(m, n)
      /\ \A m \in Nodes : HasNumber(m) => ~ CaseOf(m, n) /\ tree'[m].label_no = tree[m].label_no
      /\ \A m \in Nodes : CaseOf(m, n) =>
           /\ tree[n].kind = "switch" /\ n < m
           /\ tree'[m].label_no \in label_no + 1 .. label_no' - 1
  BY NumbersNext
<1>3. label_no \in Nat \ {0} /\ label_no' \in Nat /\ label_no' >= label_no
  BY <1>1 DEF Numbers, Given
<1>4. /\ \A o \in 1 .. Len(code) : o \in 1 .. Len(Items) /\ Items[o] = code[o]
      /\ \A o \in 2 .. Len(todo) : Len(code) + o \in 1 .. Len(Items) /\ Items[Len(code) + o] = todo[o]
      /\ Len(code) \in Nat
  BY ItemsNow
<1>5. HasNumber(n) <=> tree[n].kind \in Labelled
  <2>1. tree[n].kind \in CaseKinds => tree[n].target \in 1 .. n - 1
    BY <1>1 DEF Gen, Referred, Around, CaseKinds
  <2> QED
    BY <1>1, <2>1 DEF HasNumber, Labelled, CaseKinds
<1>6. \A i \in 1 .. Len(Items') :
         \/ \E a \in 1 .. Len(T) : i = Len(code) + a /\ Items'[i] = T[a]
         \/ \E o \in 1 .. Len(code) : i = o /\ Items'[i] = code[o]
         \/ \E o \in 2 .. Len(todo) : i = Len(code) + Len(T) + (o - 1) /\ Items'[i] = todo[o]
  BY DEF Printing, Continued
<1>7. Len(T) \in Nat /\ Len(todo) \in Nat
  BY <1>1 DEF Lays, IsSeq, Printing
<1>8. ASSUME NEW i \in 1 .. Len(Items')
      PROVE  \/ \E a \in 1 .. Len(T) : i = Len(code) + a /\ Items'[i] = T[a]
             \/ \E x \in 1 .. Len(Items) : /\ Items'[i] = Items[x]
                                           /\ \/ i = x /\ x <= Len(code)
                                              \/ (i - Len(T)) + 1 = x /\ x > Len(code)
  <2>1. CASE \E o \in 1 .. Len(code) : i = o /\ Items'[i] = code[o]
    <3>1. PICK o \in 1 .. Len(code) : i = o /\ Items'[i] = code[o]
      BY <2>1
    <3>2. o <= Len(code)
      BY <1>4
    <3> QED
      BY <1>4, <3>1, <3>2
  <2>2. CASE \E o \in 2 .. Len(todo) : i = Len(code) + Len(T) + (o - 1) /\ Items'[i] = todo[o]
    <3>1. PICK o \in 2 .. Len(todo) : i = Len(code) + Len(T) + (o - 1) /\ Items'[i] = todo[o]
      BY <2>2
    <3>2. (i - Len(T)) + 1 = Len(code) + o /\ Len(code) + o > Len(code)
      BY <1>4, <1>7, <3>1
    <3> QED
      BY <1>4, <3>1, <3>2
  <2> QED
    BY <1>6, <2>1, <2>2
<1>9. /\ \A x \in 1 .. Len(Items) : Items[x].do = "label" =>
           /\ Items[x] = Label(Items[x].label)
           /\ Items[x].label \in 1 .. label_no - 1
           /\ \A m \in (n - 1) + 1 .. Len(tree) : HasNumber(m) => tree[m].label_no # Items[x].label
      /\ \A x \in 1 .. Len(Items) : Items[x].do = "eval" =>
           Items[x] = Eval(Items[x].at, Items[x].part) /\ Items[x].at \in 1 .. n - 1
      /\ \A x, y \in 1 .. Len(Items) :
           Items[x].do = "label" /\ Items[y].do = "label" /\ Items[x].label = Items[y].label => x = y
      /\ \A x, y \in 1 .. Len(Items) :
           Items[x].do = "eval" /\ Items[y].do = "eval"
             /\ Items[x].at = Items[y].at /\ Items[x].part = Items[y].part => x = y
  BY <1>1 DEF Unique
<1>10. \A m \in n .. Len(tree) : HasNumber(m) => tree[m].label_no \in 1 .. label_no - 1
  <2>1. \A m \in n .. Len(tree) : m \in Nodes
    BY <1>1 DEF Nodes
  <2> QED
    BY <1>1, <2>1 DEF Numbers
<1>11. /\ \A a \in 1 .. Len(T) : T[a].do = "label" => T[a] = Label(T[a].label) /\ Own(n, T[a].label)
       /\ \A a \in 1 .. Len(T) : T[a].do = "eval" => T[a] = Eval(n, T[a].part)
       /\ \A a, b \in 1 .. Len(T) :
            /\ T[a].do = "label" /\ T[b].do = "label" /\ T[a].label = T[b].label => a = b
            /\ T[a].do = "eval" /\ T[b].do = "eval" /\ T[a].part = T[b].part => a = b
  BY <1>1 DEF Lays
<1>12. ASSUME NEW l, Own(n, l)
       PROVE  /\ l \in 1 .. label_no' - 1
              /\ l \in label_no .. label_no' - 1 \/ (HasNumber(n) /\ l = tree[n].label_no)
              /\ \A m \in n + 1 .. Len(tree) : HasNumber(m)' => tree'[m].label_no # l
  <2>1. l \in label_no .. label_no' - 1 \/ (HasNumber(n) /\ l = tree[n].label_no)
    BY <1>5, <1>12 DEF Own
  <2>2. l \in 1 .. label_no' - 1
    <3>1. l \in label_no .. label_no' - 1 \/ l \in 1 .. label_no - 1
      BY <1>1, <2>1 DEF Numbers
    <3> QED
      BY <1>3, <3>1, Ranges
  <2>3. ASSUME NEW m \in n + 1 .. Len(tree), HasNumber(m)', tree'[m].label_no = l
        PROVE  FALSE
    <3>1. m \in Nodes /\ m # n /\ m \in n .. Len(tree)
      BY <1>1 DEF Nodes
    <3>2. CASE HasNumber(m)
      <4>1. tree[m].label_no = l /\ l \in 1 .. label_no - 1
        BY <1>2, <1>10, <2>3, <3>1, <3>2
      <4>2. HasNumber(n) /\ l = tree[n].label_no
        BY <1>3, <2>1, <4>1
      <4> QED
        BY <1>1, <3>1, <3>2, <4>1, <4>2 DEF Numbers
    <3>3. CASE CaseOf(m, n)
      <4>1. tree[n].kind = "switch" /\ l \in label_no + 1 .. label_no' - 1
        BY <1>2, <2>3, <3>1, <3>3
      <4>2. tree[n].kind \notin Labelled
        BY <4>1 DEF Labelled
      <4>3. l = label_no
        BY <1>12, <4>1, <4>2 DEF Own
      <4> QED
        BY <1>3, <4>1, <4>3
    <3> QED
      BY <1>2, <2>3, <3>1, <3>2, <3>3
  <2> QED
    BY <2>1, <2>2, <2>3
<1>13. ASSUME NEW i \in 1 .. Len(Items'), Items'[i].do = "label"
       PROVE  /\ Items'[i] = Label(Items'[i].label)
              /\ Items'[i].label \in 1 .. label_no' - 1
              /\ \A m \in n + 1 .. Len(tree) : HasNumber(m)' => tree'[m].label_no # Items'[i].label
  <2>1. CASE \E a \in 1 .. Len(T) : Items'[i] = T[a]
    BY <1>11, <1>12, <1>13, <2>1
  <2>2. CASE \E x \in 1 .. Len(Items) : Items'[i] = Items[x]
    <3>1. PICK x \in 1 .. Len(Items) : Items'[i] = Items[x]
      BY <2>2
    <3>2. PICK l : l = Items'[i].label
      OBVIOUS
    <3>3. /\ Items'[i] = Label(l) /\ l \in 1 .. label_no - 1
          /\ \A m \in (n - 1) + 1 .. Len(tree) : HasNumber(m) => tree[m].label_no # l
      BY <1>9, <1>13, <3>1, <3>2
    <3>4. ASSUME NEW m \in n + 1 .. Len(tree), HasNumber(m)'
          PROVE  tree'[m].label_no # l
      <4>1. m \in Nodes /\ m \in (n - 1) + 1 .. Len(tree)
        BY <1>1 DEF Nodes
      <4>2. CASE HasNumber(m)
        BY <1>2, <3>3, <4>1, <4>2
      <4>3. CASE CaseOf(m, n)
        <5>1. tree'[m].label_no \in label_no + 1 .. label_no' - 1
          BY <1>2, <4>1, <4>3
        <5> QED
          BY <1>3, <3>3, <5>1
      <4> QED
        BY <1>2, <3>4, <4>1, <4>2, <4>3
    <3>5. l \in 1 .. label_no' - 1
      BY <1>3, <3>3, Ranges
    <3> QED
      BY <3>2, <3>3, <3>4, <3>5
  <2> QED
    BY <1>8, <2>1, <2>2
<1>14. ASSUME NEW i \in 1 .. Len(Items'), Items'[i].do = "eval"
       PROVE  Items'[i] = Eval(Items'[i].at, Items'[i].part) /\ Items'[i].at \in 1 .. n
  <2>1. CASE \E a \in 1 .. Len(T) : Items'[i] = T[a]
    <3>1. PICK q : Items'[i] = Eval(n, q)
      BY <1>11, <1>14, <2>1
    <3>2. Items'[i].at = n /\ Items'[i].part = q
      BY <3>1, ItemFields
    <3> QED
      BY <1>1, <3>1, <3>2
  <2>2. CASE \E x \in 1 .. Len(Items) : Items'[i] = Items[x]
    <3>1. Items'[i] = Eval(Items'[i].at, Items'[i].part) /\ Items'[i].at \in 1 .. n - 1
      BY <1>9, <1>14, <2>2
    <3> QED
      BY <1>1, <3>1
  <2> QED
    BY <1>8, <2>1, <2>2
<1>15. ASSUME NEW i \in 1 .. Len(Items'), NEW j \in 1 .. Len(Items'),
              Items'[i].do = Items'[j].do,
              \/ Items'[i].do = "label" /\ Items'[i].label = Items'[j].label
              \/ Items'[i].do = "eval" /\ Items'[i].at = Items'[j].at /\ Items'[i].part = Items'[j].part
       PROVE  i = j
  <2>0. i \in Int /\ j \in Int
    OBVIOUS
  <2>1. CASE /\ \E a \in 1 .. Len(T) : i = Len(code) + a /\ Items'[i] = T[a]
             /\ \E a \in 1 .. Len(T) : j = Len(code) + a /\ Items'[j] = T[a]
    <3>1. PICK a \in 1 .. Len(T) : i = Len(code) + a /\ Items'[i] = T[a]
      BY <2>1
    <3>2. PICK b \in 1 .. Len(T) : j = Len(code) + b /\ Items'[j] = T[b]
      BY <2>1
    <3>3. a = b
      BY <1>11, <1>15, <3>1, <3>2
    <3> QED
      BY <3>1, <3>2, <3>3
  <2>2. CASE /\ \E x \in 1 .. Len(Items) : /\ Items'[i] = Items[x]
                                           /\ \/ i = x /\ x <= Len(code)
                                              \/ (i - Len(T)) + 1 = x /\ x > Len(code)
             /\ \E x \in 1 .. Len(Items) : /\ Items'[j] = Items[x]
                                           /\ \/ j = x /\ x <= Len(code)
                                              \/ (j - Len(T)) + 1 = x /\ x > Len(code)
    <3>1. PICK x \in 1 .. Len(Items) : /\ Items'[i] = Items[x]
                                       /\ \/ i = x /\ x <= Len(code)
                                          \/ (i - Len(T)) + 1 = x /\ x > Len(code)
      BY <2>2
    <3>2. PICK y \in 1 .. Len(Items) : /\ Items'[j] = Items[y]
                                       /\ \/ j = y /\ y <= Len(code)
                                          \/ (j - Len(T)) + 1 = y /\ y > Len(code)
      BY <2>2
    <3>3. x = y
      BY <1>9, <1>15, <3>1, <3>2
    <3>4. /\ (i = x /\ x <= Len(code)) \/ ((i - Len(T)) + 1 = x /\ x > Len(code))
          /\ (j = x /\ x <= Len(code)) \/ ((j - Len(T)) + 1 = x /\ x > Len(code))
      BY <3>1, <3>2, <3>3
    <3>5. x \in Int
      OBVIOUS
    <3> QED
      BY <1>4, <1>7, <2>0, <3>4, <3>5
  <2>3. ASSUME NEW a \in 1 .. Len(T), NEW x \in 1 .. Len(Items), T[a].do = Items[x].do,
               \/ T[a].do = "label" /\ T[a].label = Items[x].label
               \/ T[a].do = "eval" /\ T[a].at = Items[x].at /\ T[a].part = Items[x].part
        PROVE  FALSE
    <3>1. CASE T[a].do = "label"
      <4>1. PICK l : l = T[a].label
        OBVIOUS
      <4>2. l \in label_no .. label_no' - 1 \/ (HasNumber(n) /\ l = tree[n].label_no)
        BY <1>11, <1>12, <3>1, <4>1
      <4>3. Items[x].do = "label" /\ Items[x].label = l
        BY <2>3, <3>1, <4>1
      <4>4. l \in 1 .. label_no - 1 /\ \A m \in (n - 1) + 1 .. Len(tree) : HasNumber(m) => tree[m].label_no # l
        BY <1>9, <4>3
      <4>5. n \in (n - 1) + 1 .. Len(tree)
        BY <1>1
      <4>6. CASE l \in label_no .. label_no' - 1
        BY <1>3, <4>4, <4>6
      <4>7. CASE HasNumber(n) /\ l = tree[n].label_no
        BY <4>4, <4>5, <4>7
      <4> QED
        BY <4>2, <4>6, <4>7
    <3>2. CASE T[a].do = "eval"
      <4>1. T[a].at = n
        BY <1>11, <3>2, ItemFields
      <4>2. Items[x].at \in 1 .. n - 1 /\ Items[x].at = n
        BY <1>9, <2>3, <3>2, <4>1
      <4> QED
        BY <1>1, <4>2
    <3> QED
      BY <2>3, <3>1, <3>2
  <2>4. CASE /\ \E a \in 1 .. Len(T) : Items'[i] = T[a]
             /\ \E x \in 1 .. Len(Items) : Items'[j] = Items[x]
    BY <1>15, <2>3, <2>4
  <2>5. CASE /\ \E a \in 1 .. Len(T) : Items'[j] = T[a]
             /\ \E x \in 1 .. Len(Items) : Items'[i] = Items[x]
    BY <1>15, <2>3, <2>5
  <2> QED
    BY <1>8, <2>1, <2>2, <2>4, <2>5, Zenon
<1>16. IsSeq(code')
  BY DEF Printing, Continued
<1>17. \A i \in 1 .. Len(code') : code'[i].do # "visit"
  <2>1. \A i \in 1 .. Len(code') : code'[i].do = "visit" => i \in 1 .. Len(code) /\ code'[i] = code[i]
    BY DEF Printing, Continued
  <2>2. \A i \in 1 .. Len(code) : code[i].do # "visit"
    BY <1>1 DEF Unique
  <2> QED
    BY <2>1, <2>2
<1> QED
  BY <1>1, <1>13, <1>14, <1>15, <1>16, <1>17 DEF Unique(* Where a jump goes is or will be printed: the label of n itself, of one  *)
(* of its cases, or one that was reached before.                           *)
LEMMA ReachableNext ==
  ASSUME Gen, NEW n, NEW T, NEW k, Printing(n, T, k), Visited' = n
  PROVE  Reachable'
<1> DEFINE Now(l) == \/ l = label_return
                     \/ \E i \in 1 .. Len(Items') : Items'[i] = Label(l)
                     \/ \E m \in n + 1 .. Len(tree) : HasNumber(m)' /\ tree'[m].label_no = l
<1>1. /\ Reachable /\ Whole /\ Shape /\ Referred /\ n \in 1 .. Len(tree) /\ n \in Nodes /\ Len(tree) \in Nat
      /\ Visited = n - 1 /\ Lays(n, T) /\ Given(n) /\ Len(tree') = Len(tree)
      /\ \A m \in Nodes : tree'[m].kind = tree[m].kind
  BY DEF Gen, Printing, Given, Nodes, Same
<1>2. /\ \A m \in Nodes : HasNumber(m)' <=> HasNumber(m) \/ CaseOf(m, n)
      /\ \A m \in Nodes : HasNumber(m) => ~ CaseOf(m, n) /\ tree'[m].label_no = tree[m].label_no
      /\ \A m \in Nodes : CaseOf(m, n) => n < m
  BY NumbersNext
<1>3. /\ \A a \in 1 .. Len(T) : \E i \in 1 .. Len(Items') : Items'[i] = T[a]
      /\ \A x \in 1 .. Len(Items) : Items[x] = Visit(n) \/ \E i \in 1 .. Len(Items') : Items'[i] = Items[x]
  <2>1. \A x \in 1 .. Len(Items) : Items[x] = Visit(n) \/ \E i \in 1 .. Len(Items') : Items'[i] = Items[x]
    BY ItemsNow
  <2> QED
    BY <2>1 DEF Printing, Continued
<1>4. ASSUME NEW l, \E a \in 1 .. Len(T) : T[a] = Label(l)
      PROVE  Now(l)
  BY <1>3, <1>4
<1>5. HasNumber(n) <=> tree[n].kind \in Labelled
  <2>1. tree[n].kind \in CaseKinds => tree[n].target \in 1 .. n - 1
    BY <1>1 DEF Referred, Around, CaseKinds
  <2> QED
    BY <1>1, <2>1 DEF HasNumber, Labelled, CaseKinds
<1>6. HasNumber(n) => Now(tree[n].label_no)
  <2>1. HasNumber(n) => \E a \in 1 .. Len(T) : T[a] = Label(tree[n].label_no)
    BY <1>1, <1>5 DEF Lays
  <2> QED
    BY <1>4, <2>1
<1>7. ASSUME NEW l, Reached(l)
      PROVE  Now(l)
  <2>1. CASE \E x \in 1 .. Len(Items) : Items[x] = Label(l)
    <3>1. PICK x \in 1 .. Len(Items) : Items[x] = Label(l)
      BY <2>1
    <3>2. Items[x] # Visit(n)
      BY <3>1, ItemFields
    <3> QED
      BY <1>3, <3>1, <3>2
  <2>2. CASE \E m \in (n - 1) + 1 .. Len(tree) : HasNumber(m) /\ tree[m].label_no = l
    <3>1. PICK m \in (n - 1) + 1 .. Len(tree) : HasNumber(m) /\ tree[m].label_no = l
      BY <2>2
    <3>2. CASE m = n
      BY <1>6, <3>1, <3>2
    <3>3. CASE m # n
      <4>1. m \in n + 1 .. Len(tree) /\ m \in Nodes
        BY <1>1, <3>3 DEF Nodes
      <4> QED
        BY <1>2, <3>1, <4>1
    <3> QED
      BY <3>2, <3>3
  <2> QED
    BY <1>1, <1>7, <2>1, <2>2 DEF Reached
<1>8. ASSUME NEW m \in Nodes, HasNumber(m)'
      PROVE  Now(tree'[m].label_no)
  <2>1. CASE m \in n + 1 .. Len(tree)
    BY <1>8, <2>1
  <2>2. CASE m \in 1 .. n
    <3>1. HasNumber(m)
      <4>1. ~ (n < m)
        BY <1>1, <2>2
      <4> QED
        BY <1>2, <1>8, <4>1
    <3>11. tree'[m].label_no = tree[m].label_no
      BY <1>2, <3>1
    <3>2. CASE m = n
      BY <1>6, <3>1, <3>11, <3>2
    <3>3. CASE m # n
      <4>1. m \in 1 .. Visited
        BY <1>1, <2>2, <3>3
      <4>2. Reached(tree[m].label_no)
        BY <1>1, <3>1, <4>1 DEF Reachable
      <4> QED
        BY <1>7, <3>11, <4>2
    <3> QED
      BY <3>2, <3>3
  <2>3. m \in n + 1 .. Len(tree) \/ m \in 1 .. n
    BY <1>1 DEF Nodes
  <2> QED
    BY <2>1, <2>2, <2>3
<1>9. /\ \A m \in 1 .. n - 1 : tree[m].kind \in Breakable => Now(tree[m].label_break)
      /\ \A m \in 1 .. n - 1 : tree[m].kind \in Loops => Now(tree[m].label_continue)
  <2>1. /\ \A m \in 1 .. n - 1 : tree[m].kind \in Breakable => Reached(tree[m].label_break)
        /\ \A m \in 1 .. n - 1 : tree[m].kind \in Loops => Reached(tree[m].label_continue)
    BY <1>1 DEF Reachable
  <2> QED
    BY <1>7, <2>1
<1>10. ASSUME NEW m \in 1 .. n
       PROVE  /\ tree'[m].kind \in Breakable => Now(tree'[m].label_break)
              /\ tree'[m].kind \in Loops => Now(tree'[m].label_continue)
  <2>1. m \in Nodes /\ tree'[m].kind = tree[m].kind
    BY <1>1 DEF Nodes
  <2>2. CASE m = n
    <3>1. /\ tree[n].kind \in Breakable => \E i \in 1 .. Len(T) : T[i] = Label(tree'[n].label_break)
          /\ tree[n].kind \in Loops => \E i \in 1 .. Len(T) : T[i] = Label(tree'[n].label_continue)
      BY <1>1 DEF Lays
    <3> QED
      BY <1>4, <2>1, <2>2, <3>1
  <2>3. CASE m # n
    <3>1. tree'[m].label_break = tree[m].label_break /\ tree'[m].label_continue = tree[m].label_continue
      BY <1>1, <2>1, <2>3 DEF Given
    <3>2. m \in 1 .. n - 1
      BY <1>1, <2>3
    <3> QED
      BY <1>9, <2>1, <3>1, <3>2
  <2> QED
    BY <2>2, <2>3
<1>11. ASSUME NEW a \in 1 .. Len(T), T[a].do \notin {"label", "eval", "visit"}
       PROVE  Now(T[a].label)
  <2>1. PICK l : l = T[a].label
    OBVIOUS
  <2>2. Goes(n, T, l)
    BY <1>1, <1>11, <2>1 DEF Lays
  <2>3. CASE tree[n].kind = "switch" /\ \E i \in 1 .. Len(tree[n].cases) : l = tree'[tree[n].cases[i]].label_no
    <3>1. PICK i \in 1 .. Len(tree[n].cases) : l = tree'[tree[n].cases[i]].label_no
      BY <2>3
    <3>2. PICK c : c = tree[n].cases[i]
      OBVIOUS
    <3>3. c \in Nodes /\ CaseOf(c, n)
      <4>1. Lists(tree[n].cases, {m \in OfKind(CaseKinds) : tree[m].target = n})
        BY <1>1 DEF Shape
      <4> QED
        BY <3>2, <4>1 DEF Lists, OfKind, CaseOf
    <3> QED
      BY <1>2, <1>8, <2>1, <3>1, <3>2, <3>3
  <2>4. CASE tree[n].kind = "goto" /\ l = tree[tree[n].target].label_no
    <3>1. PICK t : t = tree[n].target
      OBVIOUS
    <3>2. t \in Nodes /\ tree[t].kind = "label"
      BY <1>1, <2>4, <3>1 DEF Whole, OfKind
    <3>3. HasNumber(t)
      BY <3>2 DEF HasNumber
    <3> QED
      BY <1>2, <1>8, <2>1, <2>4, <3>1, <3>2, <3>3
  <2>5. CASE tree[n].kind = "break" /\ l = tree[tree[n].target].label_break
    <3>1. tree[n].target \in 1 .. n - 1 /\ tree[tree[n].target].kind \in Breakable
      BY <1>1, <2>5 DEF Referred, Around, OfKind
    <3> QED
      BY <1>9, <2>1, <2>5, <3>1
  <2>6. CASE tree[n].kind = "continue" /\ l = tree[tree[n].target].label_continue
    <3>1. tree[n].target \in 1 .. n - 1 /\ tree[tree[n].target].kind \in Loops
      BY <1>1, <2>6 DEF Referred, Around, OfKind
    <3> QED
      BY <1>9, <2>1, <2>6, <3>1
  <2>7. CASE l = label_return \/ \E j \in 1 .. Len(T) : T[j] = Label(l)
    BY <1>4, <2>1, <2>7
  <2> QED
    BY <2>2, <2>3, <2>4, <2>5, <2>6, <2>7 DEF Goes
<1>12. ASSUME NEW i \in 1 .. Len(Items'), Items'[i].do \notin {"label", "eval", "visit"}
       PROVE  Now(Items'[i].label)
  <2>1. \/ \E a \in 1 .. Len(T) : Items'[i] = T[a]
        \/ \E o \in 1 .. Len(code) : Items'[i] = code[o]
        \/ \E o \in 2 .. Len(todo) : Items'[i] = todo[o]
    BY DEF Printing, Continued
  <2>2. \/ \E a \in 1 .. Len(T) : Items'[i] = T[a]
        \/ \E x \in 1 .. Len(Items) : Items'[i] = Items[x]
    <3>1. /\ \A o \in 1 .. Len(code) : o \in 1 .. Len(Items) /\ Items[o] = code[o]
          /\ \A o \in 2 .. Len(todo) : Len(code) + o \in 1 .. Len(Items) /\ Items[Len(code) + o] = todo[o]
      BY ItemsNow
    <3> QED
      BY <2>1, <3>1
  <2>3. CASE \E a \in 1 .. Len(T) : Items'[i] = T[a]
    BY <1>11, <1>12, <2>3
  <2>4. CASE \E x \in 1 .. Len(Items) : Items'[i] = Items[x]
    <3>1. PICK x \in 1 .. Len(Items) : Items'[i] = Items[x]
      BY <2>4
    <3>2. Reached(Items[x].label)
      BY <1>1, <1>12, <3>1 DEF Reachable
    <3> QED
      BY <1>7, <3>1, <3>2
  <2> QED
    BY <2>2, <2>3, <2>4
<1>13. \A m \in 1 .. n : m \in Nodes
  BY <1>1 DEF Nodes
<1> QED
  BY <1>1, <1>8, <1>10, <1>12, <1>13, ZenonT(60) DEF Reachable, Reached

(* What is given labels stays whole.                                       *)
LEMMA WholeKept ==
  ASSUME Shape, Whole, Same, \A m \in Nodes : tree'[m].target = tree[m].target
  PROVE  Whole'
<1>1. Nodes' = Nodes /\ Len(tree') = Len(tree) /\ \A kinds : OfKind(kinds)' = OfKind(kinds)
  BY DEF Same, Nodes, OfKind
<1>2. \A m \in Nodes : /\ tree'[m].kind = tree[m].kind /\ tree'[m].kids = tree[m].kids
                       /\ tree'[m].ident = tree[m].ident
  BY DEF Same
<1>3. ASSUME NEW m \in OfKind({"goto"})
      PROVE  tree'[m].target \in OfKind({"label"}) /\ tree'[tree'[m].target].ident = tree'[m].ident
  <2>1. PICK t : t = tree[m].target
    OBVIOUS
  <2>2. t \in OfKind({"label"}) /\ t \in Nodes /\ tree[t].ident = tree[m].ident /\ m \in Nodes
    BY <1>3, <2>1 DEF Whole, OfKind
  <2> QED
    BY <1>2, <2>1, <2>2
<1> QED
  BY <1>1, <1>2, <1>3 DEF Whole

LEMMA GenStmt ==
  ASSUME Gen, gen_stmt
  PROVE  Gen'
<1>1. PICK n, T, k : Printing(n, T, k)
  BY GenStart
<1>2. Shape /\ Referred /\ Labels /\ Whole
  BY DEF Gen
<1>3. Given(n)
  BY <1>1 DEF Printing
<1>4. Same /\ \A m \in Nodes : tree'[m].target = tree[m].target
  BY <1>3 DEF Given
<1>5. Shape' /\ Referred' /\ Labels'
  BY <1>2, <1>4, SameTree
<1>6. Whole'
  BY <1>2, <1>4, WholeKept
<1>7. ToGo' /\ Visited' = n
  BY <1>1, VisitedNext
<1>8. Numbers'
  BY <1>1, <1>7, NumbersNext
<1>9. Unique'
  BY <1>1, <1>7, UniqueNext
<1>10. Reachable'
  BY <1>1, <1>7, ReachableNext
<1> QED
  BY <1>5, <1>6, <1>7, <1>8, <1>9, <1>10 DEF Gen
-----------------------------------------------------------------------------
(* The end of the function. *)
LEMMA GenFuncEnd ==
  ASSUME Gen, gen_func_end
  PROVE  phase' = "done" /\ Done'
<1>1. /\ todo = << >> /\ phase' = "done" /\ tree' = tree
      /\ UNCHANGED <<label_stmts, goto_stmts>>
      /\ code' = code \o <<Label(label_return), Eval(0, "end")>>
  BY DEF gen_func_end, targets
<1>2. Shape /\ Referred /\ Labels /\ Whole /\ Unique /\ Reachable /\ Numbers
  BY DEF Gen
<1>3. Same /\ \A m \in Nodes : tree'[m].target = tree[m].target
  BY <1>1, <1>2 DEF Same, Shape
<1>4. Shape' /\ Referred' /\ Labels'
  BY <1>2, <1>3, SameTree
<1>5. Whole'
  BY <1>2, <1>3, WholeKept
<1>6. /\ IsSeq(code) /\ Len(code) \in Nat /\ Items = code /\ Visited = Len(tree) /\ Len(tree) \in Nat
      /\ label_no \in Nat
  <2>1. IsSeq(code) /\ Len(code) \in Nat
    BY <1>2 DEF Unique, IsSeq
  <2>2. IsSeq(todo) /\ Len(todo) = 0
    BY <1>1 DEF IsSeq
  <2>3. /\ IsSeq(Items) /\ Len(Items) = Len(code) + Len(todo)
        /\ \A i \in 1 .. Len(code) : Items[i] = code[i]
    BY <2>1, <2>2, ConcatSeq DEF Items
  <2>4. Len(Items) = Len(code)
    BY <2>1, <2>2, <2>3
  <2>5. Items = code
    BY <2>1, <2>3, <2>4 DEF IsSeq
  <2> QED
    BY <1>1, <1>2, <2>1, <2>5 DEF Visited, Shape, IsSeq, Numbers
<1>7. PICK c : c = Len(code)
  OBVIOUS
<1>8. /\ DOMAIN code' = 1 .. c + 2 /\ c \in Nat
      /\ \A i \in 1 .. c : code'[i] = code[i]
      /\ code'[c + 1] = Label(label_return) /\ code'[c + 2] = Eval(0, "end")
  <2>1. PICK e : e = <<Label(label_return), Eval(0, "end")>>
    OBVIOUS
  <2>2. IsSeq(e) /\ Len(e) = 2 /\ e[1] = Label(label_return) /\ e[2] = Eval(0, "end")
    BY <2>1 DEF IsSeq
  <2>3. code' = code \o e
    BY <1>1, <2>1
  <2>4. /\ IsSeq(code \o e) /\ Len(code \o e) = Len(code) + Len(e)
        /\ \A i \in 1 .. Len(code) : (code \o e)[i] = code[i]
        /\ \A i \in Len(code) + 1 .. Len(code) + Len(e) : (code \o e)[i] = e[i - Len(code)]
    BY <1>6, <2>2, ConcatSeq
  <2>5. /\ IsSeq(code') /\ Len(code') = c + 2
        /\ \A i \in 1 .. c : code'[i] = code[i]
        /\ \A i \in c + 1 .. c + 2 : code'[i] = e[i - c]
    BY <1>7, <2>2, <2>3, <2>4
  <2>6. /\ c \in Nat /\ c + 1 \in c + 1 .. c + 2 /\ c + 2 \in c + 1 .. c + 2
        /\ (c + 1) - c = 1 /\ (c + 2) - c = 2
    BY <1>6, <1>7
  <2> QED
    BY <2>2, <2>5, <2>6 DEF IsSeq
<1>9. \A i \in 1 .. c + 2 : i \in 1 .. c \/ i = c + 1 \/ i = c + 2
  BY <1>8
<1>10. /\ \A i \in 1 .. c : code[i].do = "label" => code[i].label # label_return
       /\ \A i \in 1 .. c : code[i].do = "eval" => code[i].at # 0
       /\ \A i, j \in 1 .. c : code[i].do = "label" /\ code[i] = code[j] => i = j
       /\ \A i, j \in 1 .. c : code[i].do = "eval" /\ code[i] = code[j] => i = j
       /\ \A i \in 1 .. c : code[i].do \in {"label", "eval", "visit"} \/ Reached(code[i].label)
  BY <1>2, <1>6, <1>7 DEF Unique, Reachable, label_return
<1>11. \A i \in 1 .. c : code[i].do # "visit"
  BY <1>2, <1>7 DEF Unique
<1>12. ASSUME NEW i \in 1 .. c, Reached(code[i].label)
       PROVE  \E j \in 1 .. c + 2 : code'[j] = Label(code[i].label)
  <2>1. PICK l : l = code[i].label
    OBVIOUS
  <2>2. Visited + 1 .. Len(tree) = {}
    BY <1>6
  <2>3. l = label_return \/ \E j \in 1 .. c : code[j] = Label(l)
    BY <1>6, <1>7, <1>12, <2>1, <2>2 DEF Reached
  <2>4. c + 1 \in 1 .. c + 2 /\ \A j \in 1 .. c : j \in 1 .. c + 2
    BY <1>8
  <2> QED
    BY <1>8, <2>1, <2>3, <2>4
<1>13. ASSUME NEW i \in 1 .. c + 2, code'[i].do \notin {"label", "eval"}
       PROVE  \E j \in 1 .. c + 2 : code'[j] = Label(code'[i].label)
  <2>1. code'[c + 1].do = "label" /\ code'[c + 2].do = "eval"
    BY <1>8, ItemFields
  <2>2. i \in 1 .. c /\ code'[i] = code[i]
    BY <1>8, <1>9, <1>13, <2>1
  <2>3. Reached(code[i].label)
    BY <1>10, <1>11, <1>13, <2>2
  <2> QED
    BY <1>12, <2>2, <2>3
<1>14. ASSUME NEW i \in 1 .. c
       PROVE  code'[i] # code'[c + 1] /\ code'[i] # code'[c + 2]
  <2>1. code'[i] = code[i]
    BY <1>8
  <2>2. /\ code'[c + 1].do = "label" /\ code'[c + 1].label = label_return
        /\ code'[c + 2].do = "eval" /\ code'[c + 2].at = 0
    BY <1>8, ItemFields
  <2> QED
    BY <1>10, <2>1, <2>2
<1>15. ASSUME NEW i \in 1 .. c + 2, NEW j \in 1 .. c + 2, code'[i].do \in {"label", "eval"},
              code'[i] = code'[j]
       PROVE  i = j
  <2>1. code'[c + 1] # code'[c + 2]
    BY <1>8, ItemFields
  <2>2. CASE i \in 1 .. c /\ j \in 1 .. c
    BY <1>8, <1>10, <1>15, <2>2
  <2> QED
    BY <1>9, <1>14, <1>15, <2>1, <2>2
<1>16. PrintedOnce'
  BY <1>8, <1>13, <1>15 DEF PrintedOnce
<1> QED
  BY <1>1, <1>4, <1>5, <1>16 DEF Done

-----------------------------------------------------------------------------
(* A statement that refers to something refers to what C wants around it.  *)
LEMMA NoneIll ==
  ASSUME Shape, Referred, Labels, Whole
  PROVE  \A n \in DOMAIN tree : ~ Ill(n)
<1>1. DOMAIN tree = Nodes
  BY DEF Shape, IsSeq, Nodes
<1>2. ASSUME NEW n \in Nodes, NEW kinds, tree[n].target \in Around(n) \cap OfKind(kinds)
      PROVE  Encloses(n, kinds)
  BY <1>2 DEF Encloses, OfKind
<1>3. ASSUME NEW n \in Nodes
      PROVE  /\ tree[n].kind = "break" => Encloses(n, Loops \cup {"switch"})
             /\ tree[n].kind = "continue" => Encloses(n, Loops)
             /\ tree[n].kind \in {"case", "default"} => Encloses(n, {"switch"})
  BY <1>2 DEF Referred, CaseKinds, Breakable
<1>4. ASSUME NEW n \in Nodes, tree[n].kind = "goto"
      PROVE  LabelsNamed(tree[n].ident) # {}
  <2>1. tree[n].target \in OfKind({"label"}) /\ tree[tree[n].target].ident = tree[n].ident
    BY <1>4 DEF Whole, OfKind
  <2> QED
    BY <1>1, <2>1 DEF LabelsNamed, OfKind
<1>5. ASSUME NEW n \in Nodes, tree[n].kind = "label"
      PROVE  LabelsNamed(tree[n].ident) = {n}
  BY <1>1, <1>5 DEF LabelsNamed, OfKind, Labels
<1> QED
  BY <1>1, <1>3, <1>4, <1>5 DEF Ill

LEMMA SemaStep ==
  ASSUME phase = "sema", Sema, sema_stmt
  PROVE  Onward
<1>1. CASE sema_expr_stmt \/ sema_comp_stmt \/ sema_if \/ sema_return
  BY <1>1, SemaPlain
<1>2. CASE sema_loop \/ sema_switch
  BY <1>2, SemaLoop
<1>3. CASE \E kind \in {"case", "default"} : sema_case(kind)
  BY <1>3, SemaCase
<1>4. CASE \E ident \in LabelNames : sema_label(ident) \/ sema_goto(ident)
  BY <1>4, SemaLabel, SemaGoto
<1>5. CASE sema_continue
  BY <1>5, SemaContinue
<1>6. CASE sema_break
  BY <1>6, SemaBreak
<1>7. CASE sema_end
  BY <1>7, SemaEnd
<1> QED
  BY <1>1, <1>2, <1>3, <1>4, <1>5, <1>6, <1>7 DEF sema_stmt

(* Every handler of sema.c runs in its own phase. *)
LEMMA SemaPhase ==
  ASSUME sema_stmt
  PROVE  phase = "sema"
<1>1. ASSUME NEW kind, NEW items, NEW ident, NEW target, Enter(kind, items, ident, target)
      PROVE  phase = "sema"
  BY <1>1 DEF Enter
<1> QED
  BY <1>1 DEF sema_stmt, sema_expr_stmt, sema_comp_stmt, sema_if, sema_loop, sema_switch, sema_case,
              sema_label, sema_goto, sema_continue, sema_break, sema_return, sema_end

LEMMA InitInv ==
  Init => IInv
<1> SUFFICES ASSUME Init
             PROVE  IInv
  OBVIOUS
<1>1. /\ phase = "sema" /\ tree = << >> /\ todo = <<Visit(0)>> /\ label_no = 0 /\ code = << >>
      /\ label_stmts = << >> /\ goto_stmts = << >> /\ switch_stmts = << >>
      /\ continue_targets = << >> /\ break_targets = << >>
  BY DEF Init
<1>2. Len(tree) = 0 /\ Nodes = {} /\ IsSeq(tree)
  BY <1>1 DEF Nodes, IsSeq
<1>3. \A kinds : OfKind(kinds) = {} /\ Walked(kinds) = {}
  BY <1>2 DEF OfKind, Walked
<1>4. Shape /\ Referred /\ Complete
  BY <1>2 DEF Shape, Referred, Complete
<1>5. Labels /\ Targets
  BY <1>1, <1>3, ListsNone DEF Labels, Targets
<1> QED
  BY <1>1, <1>4, <1>5 DEF IInv, Sema, AtStart

LEMMA NextInv ==
  IInv /\ [Next]_vars => IInv'
<1> SUFFICES ASSUME IInv, [Next]_vars
             PROVE  IInv'
  OBVIOUS
<1>1. CASE sema_stmt
  BY <1>1, SemaPhase, SemaStep DEF IInv, Onward
<1>2. CASE sema_func_end
  <2>1. phase = "sema"
    BY <1>2 DEF sema_func_end
  <2> QED
    BY <1>2, <2>1, SemaFuncEnd DEF IInv
<1>3. CASE gen_stmt
  <2>1. phase = "gen" /\ phase' = "gen"
    BY <1>3 DEF gen_stmt
  <2> QED
    BY <1>3, <2>1, GenStmt DEF IInv
<1>4. CASE gen_func_end
  <2>1. phase = "gen"
    BY <1>4 DEF gen_func_end
  <2> QED
    BY <1>4, <2>1, GenFuncEnd DEF IInv
<1>5. CASE UNCHANGED vars
  <2>1. /\ phase' = phase /\ tree' = tree /\ todo' = todo /\ code' = code /\ label_no' = label_no
        /\ label_stmts' = label_stmts /\ goto_stmts' = goto_stmts /\ switch_stmts' = switch_stmts
        /\ continue_targets' = continue_targets /\ break_targets' = break_targets
    BY <1>5 DEF vars
  <2>2. /\ Nodes' = Nodes /\ Items' = Items /\ Visited' = Visited
        /\ \A kinds : OfKind(kinds)' = OfKind(kinds) /\ Walked(kinds)' = Walked(kinds)
        /\ \A n : Parent(n)' = Parent(n) /\ Pending(n)' = Pending(n)
    BY <2>1 DEF Nodes, Items, Visited, OfKind, Walked, Parent, Pending
  <2>3. \A n : Around(n)' = Around(n) /\ (Open(n)' <=> Open(n)) /\ (HasNumber(n)' <=> HasNumber(n))
    BY <2>1, <2>2 DEF Around, Open, HasNumber
  <2>4. Shape' = Shape /\ Referred' = Referred /\ Labels' = Labels /\ Whole' = Whole /\ Targets' = Targets
    BY <2>1, <2>2, <2>3 DEF Shape, Referred, Labels, Whole, Targets
  <2>5. Complete' = Complete /\ ToDo' = ToDo /\ AtStart' = AtStart /\ ToGo' = ToGo
    BY <2>1, <2>2, <2>3 DEF Complete, ToDo, AtStart, ToGo
  <2>6. Numbers' = Numbers /\ Unique' = Unique /\ Reachable' = Reachable
    BY <2>1, <2>2, <2>3 DEF Numbers, Unique, Reachable, Reached
  <2>7. PrintedOnce' = PrintedOnce /\ Rejected' = Rejected
    BY <2>1, <2>2, <2>3 DEF PrintedOnce, Rejected, Ill, Encloses, LabelsNamed
  <2> QED
    BY <2>1, <2>4, <2>5, <2>6, <2>7 DEF IInv, Sema, Gen, Done
<1> QED
  BY <1>1, <1>2, <1>3, <1>4, <1>5 DEF Next

LEMMA Invariant ==
  Spec => []IInv
BY InitInv, NextInv, PTL DEF Spec

(* sema.c stops at exactly the functions with a break, continue, case or   *)
(* default outside the statements it is for, a goto without its label or   *)
(* two labels of the same name, however deep the statements are nested.    *)
THEOREM StopsAtIll ==
  Spec => []RejectsIll
<1>1. IInv => RejectsIll
  <2>1. Gen \/ Done => \A n \in DOMAIN tree : ~ Ill(n)
    BY NoneIll DEF Gen, Done
  <2> QED
    BY <2>1 DEF IInv, Rejected, RejectsIll
<1> QED
  BY <1>1, Invariant, PTL

(* What gen.c prints for a function has each expression once and each      *)
(* label once, and every jump has its label, whatever the statements.      *)
THEOREM LabelsMeet ==
  Spec => []PrintedOnce
<1>1. IInv => PrintedOnce
  <2>1. Done => PrintedOnce
    BY DEF Done
  <2> QED
    BY <2>1 DEF IInv, PrintedOnce
<1> QED
  BY <1>1, Invariant, PTL

(***************************************************************************)
(* Whatever the statements of a function, what gen.c prints evaluates the  *)
(* expressions in the order C does.  The places of the function, between   *)
(* two evaluations, are places in the code; a step of control from one     *)
(* place to the next is some steps of the machine.                         *)
(***************************************************************************)
-----------------------------------------------------------------------------
(* Walks. *)

(* The function g, applied n times, leads from x to y. *)
Reaches(g, x, y, n) ==
  /\ n \in Nat
  /\ \E W : W[0] = x /\ W[n] = y /\ \A k \in 1 .. n : W[k] = g[W[k - 1]]

LEMMA WalkStays ==
  ASSUME NEW S, NEW W, NEW n \in Nat, W[0] \in S, \A k \in 1 .. n : W[k - 1] \in S => W[k] \in S
  PROVE  \A k \in 0 .. n : W[k] \in S
<1> DEFINE out == {k \in 0 .. n : W[k] \notin S}
<1>1. SUFFICES ASSUME out # {}
               PROVE  FALSE
  OBVIOUS
<1>2. PICK m \in out : \A k \in out : m <= k
  <2>1. out \in SUBSET Nat
    OBVIOUS
  <2> HIDE DEF out
  <2> QED
    BY <1>1, <2>1, Least
<1>3. m \in 1 .. n /\ m - 1 \in 0 .. n /\ ~ (m <= m - 1)
  BY <1>2
<1> QED
  BY <1>2, <1>3

HasWalk(S, g, x, n) == \E W \in [0 .. n -> S] : W[0] = x /\ \A k \in 1 .. n : W[k] = g[W[k - 1]]

LEMMA Walks ==
  ASSUME NEW S, NEW g \in [S -> S], NEW x \in S, NEW n \in Nat
  PROVE  HasWalk(S, g, x, n)
<1> DEFINE Walk(j) == \E W \in [0 .. j -> S] : W[0] = x /\ \A k \in 1 .. j : W[k] = g[W[k - 1]]
           none == {j \in 0 .. n : ~ Walk(j)}
<1>1. SUFFICES ASSUME none # {}
               PROVE  FALSE
  BY n \in 0 .. n DEF HasWalk
<1>2. PICK m \in none : \A k \in none : m <= k
  <2>1. none \in SUBSET Nat
    OBVIOUS
  <2> HIDE DEF none
  <2> QED
    BY <1>1, <2>1, Least
<1>3. Walk(0)
  <2>1. PICK W : W = [k \in 0 .. 0 |-> x]
    OBVIOUS
  <2>2. W \in [0 .. 0 -> S] /\ W[0] = x
    BY <2>1
  <2>3. \A k \in 1 .. 0 : W[k] = g[W[k - 1]]
    OBVIOUS
  <2> QED
    BY <2>2, <2>3
<1>4. m \in 1 .. n /\ m - 1 \in 0 .. n /\ Walk(m - 1)
  <2>1. m \in 0 .. n /\ ~ Walk(m) /\ m # 0
    BY <1>2, <1>3
  <2>2. m \in 1 .. n /\ m - 1 \in 0 .. n /\ ~ (m <= m - 1)
    BY <2>1
  <2>3. m - 1 \notin none
    BY <1>2, <2>2
  <2> QED
    BY <2>2, <2>3
<1>5. PICK W \in [0 .. m - 1 -> S] : W[0] = x /\ \A k \in 1 .. m - 1 : W[k] = g[W[k - 1]]
  BY <1>4
<1>6. DEFINE V == [k \in 0 .. m |-> IF k = m THEN g[W[m - 1]] ELSE W[k]]
<1>7. V \in [0 .. m -> S] /\ V[0] = x /\ \A k \in 1 .. m : V[k] = g[V[k - 1]]
  <2>1. \A k \in 0 .. m : k # m => k \in 0 .. m - 1
    BY <1>4
  <2>2. V \in [0 .. m -> S]
    BY <1>4, <1>5, <2>1
  <2>3. ASSUME NEW k \in 1 .. m
        PROVE  V[k] = g[V[k - 1]]
    <3>1. k - 1 \in 0 .. m /\ k - 1 # m /\ k \in 0 .. m
      BY <1>4
    <3> QED
      BY <1>4, <1>5, <3>1
  <2> QED
    BY <1>4, <1>5, <2>2, <2>3
<1> QED
  BY <1>2, <1>7

LEMMA ReachesStay ==
  ASSUME NEW g, NEW x, g[x] = x, NEW n \in Nat
  PROVE  Reaches(g, x, x, n)
<1>1. LET W == [k \in 0 .. n |-> x] IN W[0] = x /\ W[n] = x /\ \A k \in 1 .. n : W[k] = g[W[k - 1]]
  OBVIOUS
<1> QED
  BY <1>1 DEF Reaches

LEMMA ReachesNone ==
  ASSUME NEW g, NEW x
  PROVE  Reaches(g, x, x, 0)
<1> DEFINE W == [k \in 0 .. 0 |-> x]
<1>1. W[0] = x /\ \A k \in 1 .. 0 : W[k] = g[W[k - 1]]
  OBVIOUS
<1> HIDE DEF W
<1> QED
  BY <1>1 DEF Reaches

LEMMA ReachesOne ==
  ASSUME NEW g, NEW x
  PROVE  Reaches(g, x, g[x], 1)
<1>1. LET W == [k \in 0 .. 1 |-> IF k = 0 THEN x ELSE g[x]]
      IN  W[0] = x /\ W[1] = g[x] /\ \A k \in 1 .. 1 : W[k] = g[W[k - 1]]
  OBVIOUS
<1> QED
  BY <1>1 DEF Reaches

LEMMA ReachesThen ==
  ASSUME NEW g, NEW x, NEW y, NEW z, NEW m, NEW n, Reaches(g, x, y, m), Reaches(g, y, z, n)
  PROVE  Reaches(g, x, z, m + n)
<1>1. m \in Nat /\ n \in Nat
  BY DEF Reaches
<1>2. PICK U : U[0] = x /\ U[m] = y /\ \A k \in 1 .. m : U[k] = g[U[k - 1]]
  BY DEF Reaches
<1>3. PICK V : V[0] = y /\ V[n] = z /\ \A k \in 1 .. n : V[k] = g[V[k - 1]]
  BY DEF Reaches
<1> DEFINE W == [k \in 0 .. m + n |-> IF k <= m THEN U[k] ELSE V[k - m]]
<1>4. W[0] = x
  BY <1>1, <1>2
<1>5. W[m + n] = z
  <2>1. CASE n = 0
    BY <1>1, <1>2, <1>3, <2>1
  <2>2. CASE n # 0
    <3>1. ~ (m + n <= m) /\ (m + n) - m = n /\ m + n \in 0 .. m + n
      BY <1>1, <2>2
    <3> QED
      BY <1>3, <3>1
  <2> QED
    BY <2>1, <2>2
<1>6. ASSUME NEW k \in 1 .. m + n
      PROVE  W[k] = g[W[k - 1]]
  <2>1. k \in 0 .. m + n /\ k - 1 \in 0 .. m + n
    BY <1>1
  <2>2. CASE k <= m
    <3>1. k \in 1 .. m /\ k - 1 <= m
      BY <1>1, <2>2
    <3> QED
      BY <1>2, <2>1, <2>2, <3>1
  <2>3. CASE k = m + 1
    <3>1. 1 \in 1 .. n /\ k - m = 1 /\ ~ (k <= m) /\ k - 1 = m /\ k - 1 <= m
      BY <1>1, <2>3
    <3>2. W[k] = V[1] /\ W[k - 1] = U[m]
      BY <2>1, <3>1
    <3>3. V[1] = g[V[1 - 1]] /\ 1 - 1 = 0
      BY <1>3, <3>1
    <3> QED
      BY <1>2, <1>3, <3>2, <3>3
  <2>4. CASE k > m + 1
    <3>1. k - m \in 1 .. n /\ (k - m) - 1 = (k - 1) - m /\ ~ (k <= m) /\ ~ (k - 1 <= m)
      BY <1>1, <2>4
    <3>2. W[k] = V[k - m] /\ W[k - 1] = V[(k - 1) - m]
      BY <2>1, <3>1
    <3> QED
      BY <1>3, <3>1, <3>2
  <2> QED
    BY <1>1, <2>2, <2>3, <2>4
<1>7. m + n \in Nat
  BY <1>1
<1> HIDE DEF W
<1> QED
  BY <1>4, <1>5, <1>6, <1>7 DEF Reaches

LEMMA ReachesOnce ==
  ASSUME NEW g, NEW x, NEW y, NEW z, NEW n, Reaches(g, x, y, n), Reaches(g, x, z, n)
  PROVE  y = z
<1>1. n \in Nat
  BY DEF Reaches
<1>2. PICK U : U[0] = x /\ U[n] = y /\ \A k \in 1 .. n : U[k] = g[U[k - 1]]
  BY DEF Reaches
<1>3. PICK V : V[0] = x /\ V[n] = z /\ \A k \in 1 .. n : V[k] = g[V[k - 1]]
  BY DEF Reaches
<1> DEFINE apart == {k \in 0 .. n : U[k] # V[k]}
<1>4. apart = {}
  <2>1. SUFFICES ASSUME apart # {}
                 PROVE  FALSE
    OBVIOUS
  <2>2. PICK m \in apart : \A k \in apart : m <= k
    <3>1. apart \in SUBSET Nat
      OBVIOUS
    <3> HIDE DEF apart
    <3> QED
      BY <2>1, <3>1, Least
  <2>3. m \in 1 .. n /\ m - 1 \in 0 .. n /\ m - 1 \notin apart
    <3>1. m # 0 /\ m \in 0 .. n
      BY <1>2, <1>3, <2>2
    <3>2. m - 1 \in 0 .. n /\ ~ (m <= m - 1) /\ m \in 1 .. n
      BY <1>1, <3>1
    <3> QED
      BY <2>2, <3>2
  <2> QED
    BY <1>2, <1>3, <2>2, <2>3
<1> QED
  BY <1>1, <1>2, <1>3, <1>4

LEMMA ReachesBy ==
  ASSUME NEW g, NEW W, NEW n \in Nat, \A k \in 1 .. n : W[k] = g[W[k - 1]], NEW i \in 0 .. n, NEW j \in i .. n
  PROVE  Reaches(g, W[i], W[j], j - i)
<1> DEFINE V == [k \in 0 .. j - i |-> W[i + k]]
<1>1. V[0] = W[i] /\ V[j - i] = W[j]
  <2>1. 0 \in 0 .. j - i /\ j - i \in 0 .. j - i /\ i + 0 = i /\ i + (j - i) = j
    OBVIOUS
  <2> QED
    BY <2>1
<1>2. ASSUME NEW k \in 1 .. j - i
      PROVE  V[k] = g[V[k - 1]]
  <2>1. k \in 0 .. j - i /\ k - 1 \in 0 .. j - i /\ i + k \in 1 .. n /\ (i + k) - 1 = i + (k - 1)
    OBVIOUS
  <2>2. W[i + k] = g[W[(i + k) - 1]]
    BY <2>1
  <2> QED
    BY <2>1, <2>2
<1>3. j - i \in Nat
  OBVIOUS
<1> HIDE DEF V
<1> QED
  BY <1>1, <1>2, <1>3 DEF Reaches

(* A walk that leaves a set of M members for good has left it after M      *)
(* steps.                                                                  *)
LEMMA Bounded ==
  ASSUME NEW S, NEW g \in [S -> S], NEW T \in SUBSET S, NEW M \in Nat, NEW h \in [T -> 1 .. M],
         \A s, t \in T : h[s] = h[t] => s = t,
         \A s \in S \ T : g[s] = s,
         NEW x \in S, NEW y \in S \ T, NEW n, Reaches(g, x, y, n)
  PROVE  Reaches(g, x, y, M)
<1> DEFINE Out(k) == \E z \in S \ T : Reaches(g, x, z, k)
           out == {k \in Nat : Out(k)}
<1>1. n \in out
  BY DEF Reaches
<1>2. PICK m \in out : \A k \in out : m <= k
  <2>1. out \in SUBSET Nat /\ out # {}
    BY <1>1
  <2> HIDE DEF out
  <2> QED
    BY <2>1, Least
<1>3. PICK z \in S \ T : Reaches(g, x, z, m)
  BY <1>2
<1>4. m \in Nat /\ n \in Nat /\ m <= n
  BY <1>1, <1>2
<1>5. y = z
  <2>1. Reaches(g, z, z, n - m) /\ m + (n - m) = n
    BY <1>3, <1>4, ReachesStay
  <2>2. Reaches(g, x, z, m + (n - m))
    BY <1>3, <2>1, ReachesThen
  <2>3. Reaches(g, x, z, n)
    BY <2>1, <2>2
  <2> QED
    BY <2>3, ReachesOnce
<1>6. CASE m <= M
  <2>1. Reaches(g, z, z, M - m) /\ m + (M - m) = M
    BY <1>3, <1>4, <1>6, ReachesStay
  <2>2. Reaches(g, x, z, m + (M - m))
    BY <1>3, <2>1, ReachesThen
  <2> QED
    BY <1>5, <2>1, <2>2
<1>7. CASE m > M
  <2>1. PICK W : W[0] = x /\ W[m] = z /\ \A k \in 1 .. m : W[k] = g[W[k - 1]]
    BY <1>3 DEF Reaches
  <2>2. \A k \in 0 .. m : W[k] \in S
    BY <1>4, <2>1, WalkStays
  <2>3. ASSUME NEW k \in 0 .. m - 1
        PROVE  W[k] \in T
    <3>1. k \in Nat /\ k < m /\ k \in 0 .. m /\ 0 \in 0 .. m /\ k - 0 = k /\ k \in 0 .. m
      BY <1>4
    <3>2. Reaches(g, W[0], W[k], k - 0)
      BY <1>4, <2>1, <3>1, ReachesBy
    <3>3. Reaches(g, x, W[k], k)
      BY <2>1, <3>1, <3>2
    <3>4. W[k] \notin S \ T
      BY <1>2, <3>1, <3>3
    <3> QED
      BY <2>2, <3>1, <3>4
  <2>4. DEFINE f == [k \in 0 .. M |-> h[W[k]]]
  <2>5. f \in [0 .. M -> 1 .. M]
    <3>1. \A k \in 0 .. M : k \in 0 .. m - 1
      BY <1>4, <1>7
    <3> QED
      BY <2>3, <3>1
  <2>6. \E i, j \in 0 .. M : i # j /\ f[i] = f[j]
    <3>1. 0 \in Int /\ 1 \in Int /\ M \in Int
      OBVIOUS
    <3>2. /\ IsFiniteSet(0 .. M) /\ Cardinality(0 .. M) = (IF 0 > M THEN 0 ELSE (M - 0) + 1)
          /\ IsFiniteSet(1 .. M) /\ Cardinality(1 .. M) = (IF 1 > M THEN 0 ELSE (M - 1) + 1)
      BY <3>1, FS_Interval
    <3>3. Cardinality(1 .. M) < Cardinality(0 .. M)
      BY <3>2
    <3>4. PICK A, B, F : A = 0 .. M /\ B = 1 .. M /\ F = f
      OBVIOUS
    <3> HIDE DEF f
    <3>5. F \in [A -> B] /\ IsFiniteSet(A) /\ IsFiniteSet(B) /\ Cardinality(B) < Cardinality(A)
      BY <2>5, <3>2, <3>3, <3>4
    <3>6. \E i, j \in A : i # j /\ F[i] = F[j]
      BY ONLY <3>5, FS_PigeonHole
    <3> QED
      BY <3>4, <3>6
  <2>7. PICK i \in 0 .. M, j \in 0 .. M : i < j /\ f[i] = f[j]
    <3>1. PICK i \in 0 .. M, j \in 0 .. M : i # j /\ f[i] = f[j]
      BY <2>6
    <3>2. i < j \/ j < i
      BY <3>1
    <3> QED
      BY <3>1, <3>2
  <2>8. W[i] = W[j]
    <3>1. i \in 0 .. m - 1 /\ j \in 0 .. m - 1
      BY <1>4, <1>7
    <3> QED
      BY <2>3, <2>7, <3>1
  <2>9. /\ i \in 0 .. m /\ 0 \in 0 .. m /\ i \in 0 .. m /\ j \in 0 .. m /\ m \in j .. m /\ m \in 0 .. m /\ i - 0 = i
        /\ i + (m - j) \in Nat /\ i + (m - j) < m
    BY <1>4, <1>7, <2>7
  <2>10. Reaches(g, W[0], W[i], i - 0) /\ Reaches(g, W[j], W[m], m - j)
    BY <1>4, <2>1, <2>9, ReachesBy
  <2>11. Reaches(g, x, W[i], i) /\ Reaches(g, W[i], z, m - j)
    BY <2>1, <2>8, <2>9, <2>10
  <2>12. Reaches(g, x, z, i + (m - j))
    BY <2>11, ReachesThen
  <2> QED
    BY <1>2, <1>4, <2>9, <2>12
<1> QED
  BY <1>4, <1>6, <1>7

-----------------------------------------------------------------------------
(* The machine, one instruction after the other, with v in rax. *)
Spots == 0 .. Len(code) + 1

Halts(i) == i \notin DOMAIN code \/ code[i].do = "eval"

To(l) ==
  IF {i \in DOMAIN code : code[i] = Label(l)} = {} THEN 0
  ELSE CHOOSE i \in {i \in DOMAIN code : code[i] = Label(l)} : TRUE

Taken(c, v) ==
  \/ c.do = "jmp"
  \/ c.do = "je" /\ v = 0
  \/ c.do = "jne" /\ v # 0
  \/ c.do = "jcase" /\ v = c.at

Step(i, v) ==
  IF Halts(i) THEN i ELSE IF Taken(code[i], v) THEN To(code[i].label) ELSE i + 1

Machine(v) == [i \in Spots |-> Step(i, v)]

LEMMA MachineType ==
  ASSUME IsSeq(code), NEW v
  PROVE  Machine(v) \in [Spots -> Spots]
<1>1. DOMAIN code = 1 .. Len(code) /\ Len(code) \in Nat
  BY DEF IsSeq
<1>2. ASSUME NEW l
      PROVE  To(l) \in Spots
  <2>1. CASE {i \in DOMAIN code : code[i] = Label(l)} = {}
    BY <1>1, <2>1 DEF To, Spots
  <2>2. CASE {i \in DOMAIN code : code[i] = Label(l)} # {}
    <3>1. To(l) \in DOMAIN code
      BY <2>2 DEF To
    <3> QED
      BY <1>1, <3>1 DEF Spots
  <2> QED
    BY <2>1, <2>2
<1>3. ASSUME NEW i \in Spots
      PROVE  Step(i, v) \in Spots
  <2>1. ~ Halts(i) => i + 1 \in Spots
    BY <1>1 DEF Halts, Spots
  <2> QED
    BY <1>2, <2>1 DEF Step
<1> QED
  BY <1>3 DEF Machine

LEMMA RunsIs ==
  ASSUME IsSeq(code), NEW index \in Spots, NEW v
  PROVE  \E y \in Spots :
           /\ Reaches(Machine(v), index, y, Len(code) + 1)
           /\ Runs(index, v) = IF y \in DOMAIN code /\ Halts(y) THEN code[y] ELSE Lost
<1> DEFINE N == Len(code) + 1
           g == Machine(v)
           Walk[k \in 0 .. N] == IF k = 0 THEN index ELSE Step(Walk[k - 1], v)
<1>1. Runs(index, v) = IF Walk[N] \in DOMAIN code /\ Halts(Walk[N]) THEN code[Walk[N]] ELSE Lost
  BY DEF Runs, Step, Halts, Taken, To
<1>2. N \in Nat
  BY DEF IsSeq
<1>3. g \in [Spots -> Spots] /\ \A i \in Spots : g[i] = Step(i, v)
  BY MachineType DEF Machine
<1>4. PICK W \in [0 .. N -> Spots] : W[0] = index /\ \A k \in 1 .. N : W[k] = g[W[k - 1]]
  <2>1. PICK f, m : f = g /\ m = N
    OBVIOUS
  <2> HIDE DEF g, N
  <2>2. f \in [Spots -> Spots] /\ m \in Nat /\ index \in Spots
    BY <1>2, <1>3, <2>1
  <2>3. HasWalk(Spots, f, index, m)
    BY ONLY <2>2, Walks
  <2> QED
    BY <2>1, <2>3 DEF HasWalk
<1> HIDE DEF g
<1>5. W = [k \in 0 .. N |-> IF k = 0 THEN index ELSE Step(W[k - 1], v)]
  <2> HIDE DEF N
  <2>1. \A k \in 0 .. N : k # 0 => k \in 1 .. N /\ k - 1 \in 0 .. N
    BY <1>2
  <2>2. \A k \in 0 .. N : W[k] = IF k = 0 THEN index ELSE Step(W[k - 1], v)
    BY <1>3, <1>4, <2>1
  <2> QED
    BY <1>4, <2>2
<1>6. Walk = [k \in 0 .. N |-> IF k = 0 THEN index ELSE Step(Walk[k - 1], v)]
  <2> HIDE DEF N
  <2> QED
    BY <1>5
<1> HIDE DEF Walk, N
<1>7. Walk[0] = index /\ \A k \in 1 .. N : Walk[k] = Step(Walk[k - 1], v)
  BY <1>2, <1>6
<1>8. \A k \in 1 .. N : Walk[k - 1] \in Spots => Walk[k] \in Spots
  BY <1>3, <1>7
<1>9. \A k \in 0 .. N : Walk[k] \in Spots
  BY <1>2, <1>7, <1>8, WalkStays
<1>10. \A k \in 1 .. N : Walk[k] = g[Walk[k - 1]]
  <2>1. \A k \in 1 .. N : k - 1 \in 0 .. N
    BY <1>2
  <2> QED
    BY <1>3, <1>7, <1>9, <2>1
<1>11. Reaches(g, index, Walk[N], N) /\ Walk[N] \in Spots
  BY <1>2, <1>7, <1>9, <1>10 DEF Reaches
<1> QED
  BY <1>1, <1>11 DEF N, g

(* Control, from one place or evaluation to the next. *)
IsPlace(p) == "when" \in DOMAIN p

Onward1(p) == IF IsPlace(p) THEN Onwards(p) ELSE p

LEMMA ArriveIs ==
  ASSUME grammar.nodes \in Nat, NEW S, NEW g \in [S -> S], \A p \in S : g[p] = Onward1(p), NEW place \in S
  PROVE  \E last \in S :
           /\ Reaches(g, place, last, 3 * grammar.nodes)
           /\ Arrive(place) = IF IsPlace(last) THEN Lost ELSE last
<1> DEFINE N == 3 * grammar.nodes
           Walk[k \in 0 .. N] == IF k = 0 THEN place ELSE Onward1(Walk[k - 1])
<1>1. Arrive(place) = IF IsPlace(Walk[N]) THEN Lost ELSE Walk[N]
  BY DEF Arrive, Onward1, IsPlace
<1>2. N \in Nat
  OBVIOUS
<1>4. PICK W \in [0 .. N -> S] : W[0] = place /\ \A k \in 1 .. N : W[k] = g[W[k - 1]]
  <2>1. PICK m : m = N /\ m \in Nat
    BY <1>2
  <2> HIDE DEF N
  <2>2. g \in [S -> S] /\ m \in Nat /\ place \in S
    BY <2>1
  <2>3. HasWalk(S, g, place, m)
    BY ONLY <2>2, Walks
  <2> QED
    BY <2>1, <2>3 DEF HasWalk
<1>5. W = [k \in 0 .. N |-> IF k = 0 THEN place ELSE Onward1(W[k - 1])]
  <2> HIDE DEF N
  <2>1. \A k \in 0 .. N : k # 0 => k \in 1 .. N /\ k - 1 \in 0 .. N
    BY <1>2
  <2>2. \A k \in 0 .. N : W[k] = IF k = 0 THEN place ELSE Onward1(W[k - 1])
    BY <1>4, <2>1
  <2> QED
    BY <1>4, <2>2
<1>6. Walk = [k \in 0 .. N |-> IF k = 0 THEN place ELSE Onward1(Walk[k - 1])]
  <2> HIDE DEF N
  <2> QED
    BY <1>5
<1> HIDE DEF Walk, N
<1>7. Walk[0] = place /\ \A k \in 1 .. N : Walk[k] = Onward1(Walk[k - 1])
  BY <1>2, <1>6
<1>8. \A k \in 1 .. N : Walk[k - 1] \in S => Walk[k] \in S
  BY <1>7
<1>9. \A k \in 0 .. N : Walk[k] \in S
  BY <1>2, <1>7, <1>8, WalkStays
<1>10. \A k \in 1 .. N : Walk[k] = g[Walk[k - 1]]
  <2>1. \A k \in 1 .. N : k - 1 \in 0 .. N
    BY <1>2
  <2> QED
    BY <1>7, <1>9, <2>1
<1>11. Reaches(g, place, Walk[N], N) /\ Walk[N] \in S
  BY <1>2, <1>7, <1>9, <1>10 DEF Reaches
<1> QED
  BY <1>1, <1>11 DEF N

-----------------------------------------------------------------------------
(* The places of the tree in the code: b says where the code of each       *)
(* statement begins, f where what follows it does.                         *)
Body(n) == tree[n].kids[1]

Places == {Place(w, n) : w \in {"before", "after"}, n \in Nodes} \cup {Place("again", n) : n \in OfKind(Loops)}

Evals == {code[i] : i \in {i \in 1 .. Len(code) : code[i].do = "eval"}}

Position(b, f, p) ==
  IF p.when = "before" THEN b[p.at]
  ELSE IF p.when = "after" THEN f[p.at]
  ELSE IF tree[p.at].kind = "while" THEN b[p.at]
  ELSE f[Body(p.at)]

(* The instruction i is where control is. *)
Here(b, f, i, s) == i \in 1 .. Len(code) /\ IF IsPlace(s) THEN i = Position(b, f, s) ELSE code[i] = s

(* Whatever is in rax, the machine goes from i to j. *)
Leads(i, j) == ~ Halts(i) /\ \A v : \E c \in Nat \ {0} : Reaches(Machine(v), i, j, c)

(* The last statement inside n. *)
LastIn(n) ==
  CHOOSE e \in n .. Len(tree) :
    /\ \A k \in n + 1 .. e : Parent(k) >= n
    /\ e < Len(tree) => Parent(e + 1) < n

(* The places that are at the same instruction come in this order. *)
Width == Len(tree) + 2

Rank(p) ==
  IF p.when = "before" THEN p.at * Width
  ELSE IF p.when = "after" THEN LastIn(p.at) * Width + (Width - p.at)
  ELSE Width * Width

(* A step of control is some steps of the machine, or a step up.           *)
Advances(b, f, p) ==
  \E j \in 1 .. Len(code) :
    /\ Onwards(p) \in Places \cup Evals
    /\ Here(b, f, j, Onwards(p))
    /\ \/ Leads(Position(b, f, p), j)
       \/ j = Position(b, f, p) /\ (IsPlace(Onwards(p)) => Rank(p) < Rank(Onwards(p)))

Follow(b, f) ==
  /\ IsSeq(code) /\ Len(tree) \in Nat /\ grammar.nodes \in Nat /\ Len(tree) <= grammar.nodes
  /\ Width * Width \in Nat
  /\ \A p \in Places : /\ Position(b, f, p) \in 1 .. Len(code)
                       /\ Rank(p) \in 0 .. Width * Width
                       /\ Advances(b, f, p)
  /\ \A e \in Evals : ~ IsPlace(e)

Control == [p \in Places \cup Evals |-> Onward1(p)]

LEMMA PlaceFields ==
  /\ \A w, n : IsPlace(Place(w, n)) /\ Place(w, n).when = w /\ Place(w, n).at = n
  /\ \A p \in Places : /\ IsPlace(p) /\ p = Place(p.when, p.at) /\ p.at \in Nodes
                       /\ p.when \in {"before", "after", "again"}
                       /\ p.when = "again" => p.at \in OfKind(Loops)
<1>1. \A w, n : IsPlace(Place(w, n)) /\ Place(w, n).when = w /\ Place(w, n).at = n
  BY DEF IsPlace, Place
<1>2. OfKind(Loops) \subseteq Nodes
  BY DEF OfKind
<1>3. ASSUME NEW p \in Places
      PROVE  /\ IsPlace(p) /\ p = Place(p.when, p.at) /\ p.at \in Nodes
             /\ p.when \in {"before", "after", "again"}
             /\ p.when = "again" => p.at \in OfKind(Loops)
  <2>1. CASE p \in {Place(w, n) : w \in {"before", "after"}, n \in Nodes}
    <3>1. PICK w \in {"before", "after"}, n \in Nodes : p = Place(w, n)
      BY <2>1
    <3> QED
      BY <1>1, <3>1
  <2>2. CASE p \in {Place("again", n) : n \in OfKind(Loops)}
    <3>1. PICK n \in OfKind(Loops) : p = Place("again", n)
      BY <2>2
    <3> QED
      BY <1>1, <1>2, <3>1
  <2> QED
    BY <2>1, <2>2 DEF Places
<1> QED
  BY <1>1, <1>3

LEMMA ReachesRest ==
  ASSUME NEW g, NEW x, NEW y, NEW z, NEW a, NEW c, Reaches(g, x, y, a), Reaches(g, x, z, c), c <= a
  PROVE  Reaches(g, z, y, a - c)
<1>1. a \in Nat /\ c \in Nat
  BY DEF Reaches
<1>2. PICK W : W[0] = x /\ W[a] = y /\ \A k \in 1 .. a : W[k] = g[W[k - 1]]
  BY DEF Reaches
<1>3. 0 \in 0 .. a /\ c \in 0 .. a /\ a \in c .. a /\ c - 0 = c
  BY <1>1
<1>4. Reaches(g, W[0], W[c], c - 0)
  BY <1>1, <1>2, <1>3, ReachesBy
<1>5. Reaches(g, W[c], W[a], a - c)
  BY <1>1, <1>2, <1>3, ReachesBy
<1>6. W[c] = z
  BY <1>2, <1>3, <1>4, ReachesOnce
<1> QED
  BY <1>2, <1>5, <1>6

(* What the machine stops at, it stops at in time.                         *)
LEMMA RunsTo ==
  ASSUME IsSeq(code), NEW i \in Spots, NEW j \in 1 .. Len(code), NEW v, NEW c, Reaches(Machine(v), i, j, c),
         Halts(j)
  PROVE  Runs(i, v) = code[j]
<1> DEFINE T == {s \in Spots : ~ Halts(s)}
           h == [s \in T |-> s]
           M == Len(code) + 1
<1>1. DOMAIN code = 1 .. Len(code) /\ Len(code) \in Nat /\ M \in Nat
  BY DEF IsSeq
<1>2. Machine(v) \in [Spots -> Spots]
  BY MachineType
<1>3. T \in SUBSET Spots /\ h \in [T -> 1 .. M] /\ \A s, t \in T : h[s] = h[t] => s = t
  BY <1>1 DEF Halts, Spots
<1>4. \A s \in Spots \ T : Machine(v)[s] = s
  BY DEF Machine, Step
<1>5. j \in Spots \ T
  BY <1>1 DEF Spots
<1>6. Reaches(Machine(v), i, j, M)
  <2>1. PICK g, H, X : g = Machine(v) /\ H = h /\ X = T
    OBVIOUS
  <2> HIDE DEF h, T, M
  <2>2. /\ g \in [Spots -> Spots] /\ X \in SUBSET Spots /\ M \in Nat /\ H \in [X -> 1 .. M]
        /\ (\A s, t \in X : H[s] = H[t] => s = t)
        /\ (\A s \in Spots \ X : g[s] = s)
        /\ i \in Spots /\ j \in Spots \ X /\ Reaches(g, i, j, c)
    BY <1>1, <1>2, <1>3, <1>4, <1>5, <2>1
  <2>3. Reaches(g, i, j, M)
    BY ONLY <2>2, Bounded
  <2> QED
    BY <2>1, <2>3
<1>7. PICK y \in Spots :
           /\ Reaches(Machine(v), i, y, M)
           /\ Runs(i, v) = IF y \in DOMAIN code /\ Halts(y) THEN code[y] ELSE Lost
  BY RunsIs
<1>8. y = j
  BY <1>6, <1>7, ReachesOnce
<1> QED
  BY <1>1, <1>7, <1>8

LEMMA ControlType ==
  ASSUME NEW b, NEW f, Follow(b, f)
  PROVE  /\ Control \in [Places \cup Evals -> Places \cup Evals]
         /\ \A p \in Places : Control[p] = Onwards(p)
         /\ \A e \in Evals : Control[e] = e
<1>1. \A p \in Places : IsPlace(p) /\ Onwards(p) \in Places \cup Evals
  BY PlaceFields DEF Follow, Advances
<1>2. \A e \in Evals : ~ IsPlace(e)
  BY DEF Follow
<1> QED
  BY <1>1, <1>2 DEF Control, Onward1

(* So does control. *)
LEMMA ArrivesAt ==
  ASSUME NEW b, NEW f, Follow(b, f), NEW p \in Places, NEW e \in Evals, NEW n, Reaches(Control, p, e, n)
  PROVE  Arrive(p) = e
<1> DEFINE S == Places \cup Evals
           way(q) == IF q.when = "before" THEN 0 ELSE IF q.when = "after" THEN 1 ELSE 2
           h == [q \in Places |-> 3 * q.at - way(q)]
           M == 3 * grammar.nodes
<1>1. Len(tree) \in Nat /\ grammar.nodes \in Nat /\ Len(tree) <= grammar.nodes /\ M \in Nat
  BY DEF Follow
<1>2. /\ Control \in [S -> S]
      /\ \A q \in Places : Control[q] = Onwards(q)
      /\ \A q \in Evals : Control[q] = q
  BY ControlType
<1>3. \A q \in Places : q.at \in Nodes /\ q.at \in Nat /\ q.when \in {"before", "after", "again"}
                        /\ way(q) \in 0 .. 2 /\ IsPlace(q)
  BY PlaceFields DEF Nodes
<1>4. h \in [Places -> 1 .. M]
  <2>1. ASSUME NEW q \in Places
        PROVE  3 * q.at - way(q) \in 1 .. M
    <3>1. PICK a, w : a = q.at /\ w = way(q)
      OBVIOUS
    <3>2. a \in 1 .. Len(tree) /\ w \in 0 .. 2
      BY <1>3, <3>1 DEF Nodes
    <3>3. 3 * a - w \in 1 .. M
      BY <1>1, <3>2
    <3> QED
      BY <3>1, <3>3
  <2> QED
    BY <2>1
<1>5. ASSUME NEW q \in Places, NEW r \in Places, h[q] = h[r]
      PROVE  q = r
  <2>1. PICK a, w, c, u : a = q.at /\ w = way(q) /\ c = r.at /\ u = way(r)
    OBVIOUS
  <2>2. a \in Nat /\ w \in 0 .. 2 /\ c \in Nat /\ u \in 0 .. 2
    BY <1>3, <2>1
  <2>3. 3 * a - w = 3 * c - u
    BY <1>5, <2>1
  <2>4. a = c /\ w = u
    BY <2>2, <2>3
  <2>5. q.when = r.when
    <3>1. q.when \in {"before", "after", "again"} /\ r.when \in {"before", "after", "again"}
      BY <1>3
    <3> QED
      BY <2>1, <2>4, <3>1
  <2>6. q = Place(q.when, q.at) /\ r = Place(r.when, r.at)
    BY PlaceFields
  <2> QED
    BY <2>1, <2>4, <2>5, <2>6
<1>6. \A q \in Evals : ~ IsPlace(q)
  BY DEF Follow
<1>7. \A q \in S \ Places : Control[q] = q
  BY <1>2
<1>8. Reaches(Control, p, e, M)
  <2>1. PICK g, H, X, R, N : g = Control /\ H = h /\ X = Places /\ R = S /\ N = M
    OBVIOUS
  <2> HIDE DEF h, S, M
  <2>2. e \in S \ Places
    BY <1>3, <1>6 DEF S
  <2>3. Places \in SUBSET S
    BY DEF S
  <2>4. /\ g \in [R -> R] /\ X \in SUBSET R /\ N \in Nat /\ H \in [X -> 1 .. N]
        /\ (\A s, t \in X : H[s] = H[t] => s = t)
        /\ (\A s \in R \ X : g[s] = s)
        /\ p \in R /\ e \in R \ X /\ Reaches(g, p, e, n)
    BY <1>1, <1>2, <1>4, <1>5, <1>7, <2>1, <2>2, <2>3
  <2>5. Reaches(g, p, e, N)
    BY ONLY <2>4, Bounded
  <2> QED
    BY <2>1, <2>5
<1>9. \A q \in S : Control[q] = Onward1(q)
  BY DEF Control
<1>10. PICK last \in S :
           /\ Reaches(Control, p, last, M)
           /\ Arrive(p) = IF IsPlace(last) THEN Lost ELSE last
  <2>1. PICK g, R : g = Control /\ R = S
    OBVIOUS
  <2>2. g \in [R -> R] /\ (\A q \in R : g[q] = Onward1(q)) /\ p \in R /\ grammar.nodes \in Nat
    BY <1>1, <1>2, <1>9, <2>1
  <2>3. \E last \in R :
           /\ Reaches(g, p, last, 3 * grammar.nodes)
           /\ Arrive(p) = IF IsPlace(last) THEN Lost ELSE last
    BY ONLY <2>2, ArriveIs
  <2> QED
    BY <2>1, <2>3
<1>11. last = e
  BY <1>8, <1>10, ReachesOnce
<1> QED
  BY <1>6, <1>10, <1>11

(* Where control comes to an evaluation, the machine does. *)
LEMMA MachineFollows ==
  ASSUME NEW b, NEW f, Follow(b, f), NEW v, NEW p \in Places, NEW e \in Evals, NEW n,
         Reaches(Control, p, e, n)
  PROVE  \E j, c : j \in 1 .. Len(code) /\ code[j] = e /\ Reaches(Machine(v), Position(b, f, p), j, c)
<1> DEFINE Comes(q) == \E j, c : j \in 1 .. Len(code) /\ code[j] = e /\ Reaches(Machine(v), Position(b, f, q), j, c)
           late == {k \in Nat : \E q \in Places : Reaches(Control, q, e, k) /\ ~ Comes(q)}
<1>1. SUFFICES ASSUME late # {}
               PROVE  FALSE
  <2>1. n \in Nat
    BY DEF Reaches
  <2> QED
    BY <1>1, <2>1
<1>2. PICK m \in late : \A k \in late : m <= k
  <2>1. late \in SUBSET Nat
    OBVIOUS
  <2> HIDE DEF late
  <2> QED
    BY <1>1, <2>1, Least
<1>3. PICK q \in Places : Reaches(Control, q, e, m) /\ ~ Comes(q) /\ m \in Nat
  BY <1>2
<1>4. PICK o : o = Onwards(q)
  OBVIOUS
<1>5. PICK j \in 1 .. Len(code) :
        /\ o \in Places \cup Evals /\ Here(b, f, j, o)
        /\ Leads(Position(b, f, q), j) \/ j = Position(b, f, q)
  BY <1>4 DEF Follow, Advances
<1>6. PICK c \in Nat : Reaches(Machine(v), Position(b, f, q), j, c)
  <2>1. CASE Leads(Position(b, f, q), j)
    BY <2>1 DEF Leads
  <2>2. CASE j = Position(b, f, q)
    <3>1. Reaches(Machine(v), j, j, 0)
      BY ReachesNone
    <3> QED
      BY <2>2, <3>1
  <2> QED
    BY <1>5, <2>1, <2>2
<1>7. Reaches(Control, q, o, 1)
  BY <1>4, ControlType, ReachesOne
<1>8. m # 0
  <2>1. IsPlace(q) /\ ~ IsPlace(e)
    BY PlaceFields DEF Follow
  <2>2. m = 0 => q = e
    BY <1>3 DEF Reaches
  <2> QED
    BY <2>1, <2>2
<1>9. Reaches(Control, o, e, m - 1)
  <2>1. 1 <= m
    BY <1>3, <1>8
  <2> QED
    BY <1>3, <1>7, <2>1, ReachesRest
<1>10. CASE o \in Evals
  <2>1. Control[o] = o /\ m - 1 \in Nat
    BY <1>3, <1>8, <1>10, ControlType
  <2>2. Reaches(Control, o, o, m - 1)
    BY <2>1, ReachesStay
  <2>3. o = e
    BY <1>9, <2>2, ReachesOnce
  <2>4. ~ IsPlace(o) /\ code[j] = e
    BY <1>5, <1>10, <2>3 DEF Follow, Here
  <2> QED
    BY <1>3, <1>6, <2>4
<1>11. CASE o \in Places
  <2>1. j = Position(b, f, o)
    BY <1>5, <1>11, PlaceFields DEF Here
  <2>2. m - 1 \in Nat /\ ~ (m <= m - 1)
    BY <1>3, <1>8
  <2>3. m - 1 \notin late
    BY <1>2, <2>2
  <2>4. Comes(o)
    BY <1>9, <1>11, <2>2, <2>3
  <2>5. PICK i, d : i \in 1 .. Len(code) /\ code[i] = e /\ Reaches(Machine(v), j, i, d)
    BY <2>1, <2>4
  <2>6. Reaches(Machine(v), Position(b, f, q), i, c + d)
    BY <1>6, <2>5, ReachesThen
  <2> QED
    BY <1>3, <2>5, <2>6
<1> QED
  BY <1>5, <1>10, <1>11

(* Where the machine stops, control has come to an evaluation. *)
LEMMA ControlFollows ==
  ASSUME NEW b, NEW f, Follow(b, f), NEW v, NEW p \in Places, NEW y, Halts(y), NEW n,
         Reaches(Machine(v), Position(b, f, p), y, n), y \in Spots
  PROVE  \E e, c : e \in Evals /\ Reaches(Control, p, e, c)
<1> DEFINE Comes(q) == \E e, c : e \in Evals /\ Reaches(Control, q, e, c)
           Late(k) == {q \in Places : Reaches(Machine(v), Position(b, f, q), y, k) /\ ~ Comes(q)}
           late == {k \in Nat : Late(k) # {}}
           top == Width * Width
<1>1. SUFFICES ASSUME late # {}
               PROVE  FALSE
  <2>1. n \in Nat
    BY DEF Reaches
  <2> QED
    BY <1>1, <2>1
<1>2. PICK m \in late : \A k \in late : m <= k
  <2>1. late \in SUBSET Nat
    OBVIOUS
  <2> HIDE DEF late
  <2> QED
    BY <1>1, <2>1, Least
<1>3. m \in Nat /\ Late(m) # {} /\ top \in Nat
  BY <1>2 DEF Follow
<1>4. \A q \in Places : Rank(q) \in 0 .. top
  BY DEF Follow
<1> HIDE DEF top
<1>5. PICK q \in Late(m) : \A r \in Late(m) : Rank(r) <= Rank(q)
  <2> DEFINE below == {top - Rank(r) : r \in Late(m)}
  <2>1. below # {}
    BY <1>3
  <2>2. below \in SUBSET Nat
    BY <1>3, <1>4
  <2>3. PICK l \in below : \A k \in below : l <= k
    <3> HIDE DEF below
    <3> QED
      BY <2>1, <2>2, Least
  <2>4. PICK q \in Late(m) : l = top - Rank(q)
    BY <2>3
  <2>5. ASSUME NEW r \in Late(m)
        PROVE  Rank(r) <= Rank(q)
    <3>1. PICK x, z : x = Rank(r) /\ z = Rank(q)
      OBVIOUS
    <3>2. x \in 0 .. top /\ z \in 0 .. top /\ top - z <= top - x
      BY <1>4, <2>3, <2>4, <3>1
    <3>3. x <= z
      BY <1>3, <3>2
    <3> QED
      BY <3>1, <3>3
  <2> QED
    BY <2>5
<1>6. q \in Places /\ Reaches(Machine(v), Position(b, f, q), y, m) /\ ~ Comes(q)
  BY <1>5
<1>7. PICK o : o = Onwards(q)
  OBVIOUS
<1>8. PICK j \in 1 .. Len(code) :
        /\ o \in Places \cup Evals /\ Here(b, f, j, o)
        /\ \/ Leads(Position(b, f, q), j)
           \/ j = Position(b, f, q) /\ (IsPlace(o) => Rank(q) < Rank(o))
  BY <1>6, <1>7 DEF Follow, Advances
<1>9. Reaches(Control, q, o, 1)
  BY <1>6, <1>7, ControlType, ReachesOne
<1>10. ~ Comes(o)
  <2>1. ASSUME NEW e \in Evals, NEW c, Reaches(Control, o, e, c)
        PROVE  Reaches(Control, q, e, 1 + c)
    BY <1>9, <2>1, ReachesThen
  <2> QED
    BY <1>6, <2>1
<1>11. o \in Places /\ IsPlace(o) /\ j = Position(b, f, o)
  <2>1. o \notin Evals
    BY <1>6, <1>9
  <2>2. o \in Places
    BY <1>8, <2>1
  <2> QED
    BY <1>8, <2>2, PlaceFields DEF Here
<1>12. CASE j = Position(b, f, q) /\ Rank(q) < Rank(o)
  <2>1. o \in Late(m)
    BY <1>6, <1>10, <1>11, <1>12
  <2>2. Rank(o) <= Rank(q)
    BY <1>5, <2>1
  <2>3. Rank(o) \in Nat /\ Rank(q) \in Nat
    BY <1>3, <1>4, <1>6, <1>11
  <2> QED
    BY <1>12, <2>2, <2>3
<1>13. CASE Leads(Position(b, f, q), j)
  <2>1. PICK c \in Nat \ {0} : Reaches(Machine(v), Position(b, f, q), j, c)
    BY <1>13 DEF Leads
  <2>2. m # 0
    <3>1. m = 0 => y = Position(b, f, q)
      BY <1>6 DEF Reaches
    <3> QED
      BY <1>13, <3>1 DEF Leads
  <2>3. PICK k \in Nat : k < m /\ Reaches(Machine(v), j, y, k)
    <3>1. CASE c <= m
      <4>1. Reaches(Machine(v), j, y, m - c)
        BY <1>6, <2>1, <3>1, ReachesRest
      <4>2. m - c \in Nat /\ m - c < m
        BY <1>3, <2>1, <3>1
      <4> QED
        BY <4>1, <4>2
    <3>2. CASE m < c
      <4>1. Machine(v)[y] = y
        BY DEF Machine, Step
      <4>2. Reaches(Machine(v), y, j, c - m)
        <5>1. m <= c
          BY <1>3, <2>1, <3>2
        <5> QED
          BY <1>6, <2>1, <5>1, ReachesRest
      <4>3. c - m \in Nat
        BY <1>3, <2>1, <3>2
      <4>4. Reaches(Machine(v), y, y, c - m)
        BY <4>1, <4>3, ReachesStay
      <4>5. j = y
        BY <4>2, <4>4, ReachesOnce
      <4>6. Reaches(Machine(v), y, y, 0)
        BY <4>1, ReachesStay
      <4> QED
        BY <1>3, <2>2, <4>5, <4>6
    <3> QED
      BY <1>3, <2>1, <3>1, <3>2
  <2>4. o \in Late(k)
    BY <1>10, <1>11, <2>3
  <2>5. m <= k
    BY <1>2, <2>4
  <2> QED
    BY <1>3, <2>3, <2>5
<1> QED
  BY <1>8, <1>11, <1>12, <1>13

(* Control and the machine come to the same.                               *)
LEMMA RunsArrives ==
  ASSUME NEW b, NEW f, Follow(b, f), NEW v, NEW p \in Places, NEW i \in Spots, NEW c,
         Reaches(Machine(v), i, Position(b, f, p), c)
  PROVE  Runs(i, v) = Arrive(p)
<1>1. IsSeq(code) /\ DOMAIN code = 1 .. Len(code) /\ Len(code) \in Nat
  BY DEF Follow, IsSeq
<1>2. CASE \E e, n : e \in Evals /\ Reaches(Control, p, e, n)
  <2>1. PICK e, n : e \in Evals /\ Reaches(Control, p, e, n)
    BY <1>2
  <2>2. Arrive(p) = e
    BY <2>1, ArrivesAt
  <2>3. PICK j, d : j \in 1 .. Len(code) /\ code[j] = e /\ Reaches(Machine(v), Position(b, f, p), j, d)
    BY <2>1, MachineFollows
  <2>4. Reaches(Machine(v), i, j, c + d)
    BY <2>3, ReachesThen
  <2>5. Halts(j)
    BY <2>1, <2>3 DEF Evals, Halts
  <2> QED
    BY <1>1, <2>2, <2>3, <2>4, <2>5, RunsTo
<1>3. CASE ~ \E e, n : e \in Evals /\ Reaches(Control, p, e, n)
  <2>1. Arrive(p) = Lost
    <3>1. /\ grammar.nodes \in Nat
          /\ Control \in [Places \cup Evals -> Places \cup Evals]
          /\ \A q \in Places \cup Evals : Control[q] = Onward1(q)
      BY ControlType DEF Follow, Control
    <3>2. PICK g, R : g = Control /\ R = Places \cup Evals
      OBVIOUS
    <3>3. g \in [R -> R] /\ (\A q \in R : g[q] = Onward1(q)) /\ p \in R /\ grammar.nodes \in Nat
      BY <3>1, <3>2
    <3>4. \E last \in R :
             /\ Reaches(g, p, last, 3 * grammar.nodes)
             /\ Arrive(p) = IF IsPlace(last) THEN Lost ELSE last
      BY ONLY <3>3, ArriveIs
    <3>5. PICK last \in Places \cup Evals :
             /\ Reaches(Control, p, last, 3 * grammar.nodes)
             /\ Arrive(p) = IF IsPlace(last) THEN Lost ELSE last
      BY <3>2, <3>4
    <3>6. last \in Places
      BY <1>3, <3>5
    <3> QED
      BY <3>5, <3>6, PlaceFields
  <2>2. PICK y \in Spots :
           /\ Reaches(Machine(v), i, y, Len(code) + 1)
           /\ Runs(i, v) = IF y \in DOMAIN code /\ Halts(y) THEN code[y] ELSE Lost
    BY <1>1, RunsIs
  <2>3. ASSUME Halts(y)
        PROVE  FALSE
    <3>1. c \in Nat /\ Machine(v)[y] = y /\ Len(code) + 1 \in Nat
      BY <1>1, <2>3 DEF Reaches, Machine, Step
    <3>2. \E n : Reaches(Machine(v), Position(b, f, p), y, n)
      <4>1. CASE c <= Len(code) + 1
        BY <2>2, <4>1, ReachesRest
      <4>2. CASE Len(code) + 1 < c
        <5>1. Reaches(Machine(v), y, Position(b, f, p), c - (Len(code) + 1))
          <6>1. Len(code) + 1 <= c
            BY <3>1, <4>2
          <6> QED
            BY <2>2, <6>1, ReachesRest
        <5>2. c - (Len(code) + 1) \in Nat
          BY <3>1, <4>2
        <5>3. Reaches(Machine(v), y, y, c - (Len(code) + 1))
          BY <3>1, <5>2, ReachesStay
        <5>4. y = Position(b, f, p)
          BY <5>1, <5>3, ReachesOnce
        <5>5. Reaches(Machine(v), y, y, 0)
          BY <3>1, ReachesStay
        <5> QED
          BY <5>4, <5>5
      <4> QED
        BY <3>1, <4>1, <4>2
    <3> QED
      BY <1>3, <2>3, <3>2, ControlFollows
  <2> QED
    BY <2>1, <2>2, <2>3
<1> QED
  BY <1>2, <1>3

-----------------------------------------------------------------------------
(* The order of the places. *)
LEMMA KidsOf ==
  ASSUME Shape, NEW n \in Nodes
  PROVE  /\ Len(tree) \in Nat /\ n \in Nat /\ Nodes = 1 .. Len(tree)
         /\ Len(tree[n].kids) \in Nat /\ DOMAIN tree[n].kids = 1 .. Len(tree[n].kids)
         /\ \A i \in 1 .. Len(tree[n].kids) : /\ tree[n].kids[i] \in Nodes /\ Parent(tree[n].kids[i]) = n
                                              /\ n < tree[n].kids[i]
         /\ \A i, j \in 1 .. Len(tree[n].kids) : i < j => tree[n].kids[i] < tree[n].kids[j]
         /\ Parent(n) \in 0 .. n - 1 /\ (Parent(n) = 0 => n = 1)
         /\ Parent(n) # 0 =>
              /\ Parent(n) \in Nodes
              /\ \E i \in 1 .. Len(tree[Parent(n)].kids) : tree[Parent(n)].kids[i] = n
         /\ \A m \in Parent(n) + 1 .. n : Parent(m) >= Parent(n)
<1>1. Len(tree) \in Nat /\ Nodes = 1 .. Len(tree) /\ n \in Nat
  BY DEF Shape, IsSeq, Nodes
<1>2. \A m \in Nodes : Parent(m) \in 0 .. m - 1
  BY Zenon DEF Shape
<1>3. Lists(tree[n].kids, {m \in Nodes : Parent(m) = n})
  BY DEF Shape
<1>4. /\ Len(tree[n].kids) \in Nat /\ DOMAIN tree[n].kids = 1 .. Len(tree[n].kids)
      /\ \A i \in 1 .. Len(tree[n].kids) : tree[n].kids[i] \in Nodes /\ Parent(tree[n].kids[i]) = n
      /\ \A i, j \in 1 .. Len(tree[n].kids) : i < j => tree[n].kids[i] < tree[n].kids[j]
  BY <1>3 DEF Lists, IsSeq
<1>5. \A i \in 1 .. Len(tree[n].kids) : n < tree[n].kids[i]
  BY <1>1, <1>2, <1>4
<1>6. Parent(n) \in 0 .. n - 1 /\ (Parent(n) = 0 => n = 1) /\ \A m \in Parent(n) + 1 .. n : Parent(m) >= Parent(n)
  BY Zenon DEF Shape
<1>7. ASSUME Parent(n) # 0
      PROVE  /\ Parent(n) \in Nodes
             /\ \E i \in 1 .. Len(tree[Parent(n)].kids) : tree[Parent(n)].kids[i] = n
  <2>1. Parent(n) \in Nodes
    BY <1>1, <1>6, <1>7
  <2>2. Lists(tree[Parent(n)].kids, {m \in Nodes : Parent(m) = Parent(n)})
    BY <2>1 DEF Shape
  <2> QED
    BY <2>1, <2>2 DEF Lists
<1> QED
  BY <1>1, <1>4, <1>5, <1>6, <1>7

LEMMA LastInIs ==
  ASSUME Shape, NEW n \in Nodes
  PROVE  /\ LastIn(n) \in n .. Len(tree)
         /\ \A k \in n + 1 .. LastIn(n) : Parent(k) >= n
         /\ LastIn(n) < Len(tree) => Parent(LastIn(n) + 1) < n
<1>1. Len(tree) \in Nat /\ n \in 1 .. Len(tree) /\ \A k \in 1 .. Len(tree) : Parent(k) \in Nat
  <2>1. Len(tree) \in Nat /\ Nodes = 1 .. Len(tree)
    BY DEF Shape, IsSeq, Nodes
  <2>2. \A m \in Nodes : Parent(m) \in 0 .. m - 1
    BY Zenon DEF Shape
  <2> QED
    BY <2>1, <2>2
<1> DEFINE outside == {k \in n + 1 .. Len(tree) : Parent(k) < n}
<1>2. \E e \in n .. Len(tree) :
        /\ \A k \in n + 1 .. e : Parent(k) >= n
        /\ e < Len(tree) => Parent(e + 1) < n
  <2>1. CASE outside = {}
    <3>1. \A k \in n + 1 .. Len(tree) : Parent(k) >= n
      BY <1>1, <2>1
    <3>2. Len(tree) \in n .. Len(tree) /\ ~ (Len(tree) < Len(tree))
      BY <1>1
    <3> QED
      BY <3>1, <3>2
  <2>2. CASE outside # {}
    <3>1. PICK m \in outside : \A k \in outside : m <= k
      <4>1. outside \in SUBSET Nat
        BY <1>1
      <4> HIDE DEF outside
      <4> QED
        BY <2>2, <4>1, Least
    <3>2. m \in n + 1 .. Len(tree) /\ Parent(m) < n
      BY <3>1
    <3>3. m - 1 \in n .. Len(tree) /\ (m - 1) + 1 = m
      BY <1>1, <3>2
    <3>4. ASSUME NEW k \in n + 1 .. m - 1
          PROVE  Parent(k) >= n
      <4>1. k \in n + 1 .. Len(tree) /\ k \in 1 .. Len(tree) /\ ~ (m <= k)
        BY <1>1, <3>2
      <4>2. k \notin outside
        BY <3>1, <4>1
      <4> QED
        BY <1>1, <4>1, <4>2
    <3> QED
      BY <3>2, <3>3, <3>4
  <2> QED
    BY <2>1, <2>2
<1>3. PICK c : c = LastIn(n)
  OBVIOUS
<1>4. /\ c \in n .. Len(tree)
      /\ \A k \in n + 1 .. c : Parent(k) >= n
      /\ c < Len(tree) => Parent(c + 1) < n
  BY <1>2, <1>3 DEF LastIn
<1> QED
  BY <1>3, <1>4

LEMMA Times ==
  ASSUME NEW a \in Nat, NEW c \in Nat, NEW w \in Nat, a < c
  PROVE  a * w + w <= c * w /\ a * w \in Nat /\ c * w \in Nat
<1>1. PICK d \in Nat : c = (a + 1) + d
  <2>1. c - (a + 1) \in Nat /\ c = (a + 1) + (c - (a + 1))
    OBVIOUS
  <2> QED
    BY <2>1
<1>2. c * w = (a * w + w) + d * w
  BY <1>1
<1>3. d * w \in Nat /\ a * w \in Nat /\ c * w \in Nat
  OBVIOUS
<1> QED
  BY <1>2, <1>3

LEMMA Order ==
  ASSUME Shape, NEW n \in Nodes
  PROVE  /\ Width * Width \in Nat
         /\ Rank(Place("before", n)) \in 0 .. Width * Width
         /\ Rank(Place("after", n)) \in 0 .. Width * Width
         /\ Rank(Place("again", n)) \in 0 .. Width * Width
         /\ Rank(Place("before", n)) < Rank(Place("after", n))
         /\ \A m \in Nodes : n < m => Rank(Place("before", n)) < Rank(Place("before", m))
         /\ \A m \in Nodes : LastIn(n) < m => Rank(Place("after", n)) < Rank(Place("before", m))
         /\ \A m \in Nodes : m < n /\ LastIn(n) <= LastIn(m) =>
              Rank(Place("after", n)) < Rank(Place("after", m))
         /\ \A m \in Nodes : Rank(Place("after", n)) < Rank(Place("again", m))
<1> DEFINE w == Width
<1>1. Len(tree) \in Nat /\ w = Len(tree) + 2 /\ w \in Nat /\ Nodes = 1 .. Len(tree)
  BY KidsOf DEF Width
<1> HIDE DEF w
<1>2. \A m \in Nodes : /\ Rank(Place("before", m)) = m * w
                       /\ Rank(Place("after", m)) = LastIn(m) * w + (w - m)
                       /\ Rank(Place("again", m)) = w * w
                       /\ LastIn(m) \in m .. Len(tree)
  BY PlaceFields, LastInIs DEF Rank, w
<1>3. PICK e : e = LastIn(n)
  OBVIOUS
<1>4. n \in 1 .. Len(tree) /\ e \in n .. Len(tree) /\ w - n \in 2 .. w /\ w \in Nat /\ e \in Nat /\ n \in Nat
  <2>1. n \in 1 .. Len(tree) /\ e \in n .. Len(tree)
    BY <1>1, <1>2, <1>3
  <2>2. PICK l : l = Len(tree)
    OBVIOUS
  <2>3. l \in Nat /\ w = l + 2 /\ n \in 1 .. l /\ e \in n .. l
    BY <1>1, <2>1, <2>2
  <2>4. w - n \in 2 .. w /\ w \in Nat /\ e \in Nat /\ n \in Nat
    BY <2>3
  <2> QED
    BY <2>1, <2>4
<1>5. e * w + w <= w * w /\ n * w + w <= w * w /\ w * w \in Nat /\ e * w \in Nat /\ n * w \in Nat
  <2>1. e < w /\ n < w
    BY <1>1, <1>4
  <2> QED
    BY <1>4, <2>1, Times
<1>6. n * w <= e * w
  <2>1. CASE n = e
    BY <1>5, <2>1
  <2>2. CASE n # e
    <3>1. n < e
      BY <1>4, <2>2
    <3> QED
      BY <1>4, <3>1, Times
  <2> QED
    BY <2>1, <2>2
<1>7. PICK E, N, W, d : E = e * w /\ N = n * w /\ W = w * w /\ d = w - n
  OBVIOUS
<1>8. /\ E \in Nat /\ N \in Nat /\ W \in Nat /\ d \in 2 .. w /\ w \in Nat /\ E + w <= W /\ N + w <= W /\ N <= E /\ d < w
  BY <1>4, <1>5, <1>6, <1>7
<1>9. N \in 0 .. W /\ E + d \in 0 .. W /\ W \in 0 .. W /\ N < E + d /\ E + d < W
  BY <1>8
<1>10. ASSUME NEW m \in Nodes, n < m
       PROVE  N < m * w
  <2>1. m \in Nat
    BY <1>1
  <2>2. N + w <= m * w /\ m * w \in Nat
    BY <1>4, <1>7, <1>10, <2>1, Times
  <2> QED
    BY <1>8, <2>2
<1>11. ASSUME NEW m \in Nodes, e < m
       PROVE  E + d < m * w
  <2>1. m \in Nat
    BY <1>1
  <2>2. E + w <= m * w /\ m * w \in Nat
    BY <1>4, <1>7, <1>11, <2>1, Times
  <2> QED
    BY <1>8, <2>2
<1>12. ASSUME NEW m \in Nodes, m < n, e <= LastIn(m)
       PROVE  E + d < LastIn(m) * w + (w - m)
  <2>1. PICK c : c = LastIn(m)
    OBVIOUS
  <2>2. m \in Nat /\ c \in Nat /\ e <= c
    BY <1>1, <1>2, <1>12, <2>1
  <2>3. E <= c * w /\ c * w \in Nat
    <3>1. CASE e = c
      BY <1>7, <1>8, <3>1
    <3>2. CASE e # c
      <4>1. e < c
        BY <1>4, <2>2, <3>2
      <4>2. E + w <= c * w /\ c * w \in Nat
        BY <1>4, <1>7, <2>2, <4>1, Times
      <4> QED
        BY <1>8, <4>2
    <3> QED
      BY <3>1, <3>2
  <2>4. d < w - m
    BY <1>4, <1>7, <1>12, <2>2
  <2>5. PICK C : C = c * w
    OBVIOUS
  <2>6. E + d < C + (w - m)
    BY <1>8, <2>2, <2>3, <2>4, <2>5
  <2> QED
    BY <2>1, <2>5, <2>6
<1>13. /\ Rank(Place("before", n)) = N /\ Rank(Place("after", n)) = E + d /\ Rank(Place("again", n)) = W
       /\ \A m \in Nodes : Rank(Place("again", m)) = W
  BY <1>2, <1>3, <1>7
<1>14. Width * Width = W
  BY <1>7 DEF w
<1> QED
  BY <1>2, <1>3, <1>8, <1>9, <1>10, <1>11, <1>12, <1>13, <1>14

(* What is directly inside the same statement comes one after the other,   *)
(* and ends before what is around it does.                                 *)
LEMMA KidsApart ==
  ASSUME Shape, NEW n \in Nodes, NEW p \in Nodes, Parent(n) = p
  PROVE  /\ p < n /\ LastIn(n) <= LastIn(p)
         /\ \A m \in Nodes : Parent(m) = p /\ n < m => LastIn(n) < m
<1>1. /\ Len(tree) \in Nat /\ Nodes = 1 .. Len(tree) /\ n \in Nat /\ p \in 0 .. n - 1
      /\ \A m \in p + 1 .. n : Parent(m) >= p
      /\ \A m \in Nodes : Parent(m) \in 0 .. m - 1
  BY KidsOf
<1>2. PICK e, c : e = LastIn(n) /\ c = LastIn(p)
  OBVIOUS
<1>3. /\ e \in n .. Len(tree) /\ (\A k \in n + 1 .. e : Parent(k) >= n)
      /\ c \in p .. Len(tree) /\ (c < Len(tree) => Parent(c + 1) < p)
  BY <1>2, LastInIs
<1>4. e <= c
  <2>1. SUFFICES ASSUME c < e
                 PROVE  FALSE
    BY <1>1, <1>3
  <2>2. c < Len(tree) /\ c + 1 \in Nodes /\ Parent(c + 1) \in Int
    BY <1>1, <1>3, <2>1
  <2>3. CASE c + 1 <= n
    <3>1. c + 1 \in p + 1 .. n
      BY <1>1, <1>3, <2>3
    <3> QED
      BY <1>1, <1>3, <2>2, <3>1
  <2>4. CASE n < c + 1
    <3>1. c + 1 \in n + 1 .. e
      BY <1>1, <1>3, <2>1, <2>4
    <3>2. Parent(c + 1) >= n /\ Parent(c + 1) < p
      BY <1>3, <2>2, <3>1
    <3> QED
      BY <1>1, <2>2, <3>2
  <2> QED
    BY <1>1, <1>3, <2>3, <2>4
<1>5. ASSUME NEW m \in Nodes, Parent(m) = p, n < m
      PROVE  e < m
  <2>1. SUFFICES ASSUME m <= e
                 PROVE  FALSE
    BY <1>1, <1>3
  <2>2. m \in n + 1 .. e
    BY <1>1, <1>3, <1>5, <2>1
  <2> QED
    BY <1>1, <1>3, <1>5, <2>2
<1> QED
  BY <1>1, <1>2, <1>4, <1>5

-----------------------------------------------------------------------------
(* What is printed for each statement, and where. *)
Is(i, c) == i \in 1 .. Len(code) /\ code[i] = c

(* The items of the statement n, with its labels from l on, stand in s     *)
(* before e, with what is printed for the statements inside it in between. *)
Laid(s, e, b, f, l, n) ==
  LET T == Template(n, tree, l)
  IN  \E q : /\ q[1] = b[n] /\ q[Len(T) + 1] = f[n]
             /\ \A j \in 1 .. Len(T) + 1 : q[j] \in 1 .. e
             /\ \A j \in 1 .. Len(T) :
                  IF T[j].do = "visit" THEN b[T[j].at] = q[j] /\ f[T[j].at] = q[j + 1]
                  ELSE q[j] \in 1 .. Len(s) /\ s[q[j]] = T[j] /\ q[j + 1] = q[j] + 1

Named(n, l) ==
  /\ tree[n].kind = "while" => tree[n].label_continue = l /\ tree[n].label_break = l + 1
  /\ tree[n].kind \in {"do", "for", "forever"} =>
       tree[n].label_continue = l + 1 /\ tree[n].label_break = l + 2
  /\ tree[n].kind = "switch" => tree[n].label_break = l

(* The item of a switch for one of its cases. *)
Dispatched(c) == IF tree[c].kind = "case" THEN JumpCase(c, tree[c].label_no) ELSE Jump(tree[c].label_no)

Block(b, f, n) ==
  LET i    == b[n]
      e    == f[Body(n)]
      kind == tree[n].kind
  IN  /\ kind \in {"expr", "return"} => Is(i, Eval(n, kind))
      /\ kind = "expr" => f[n] = i + 1
      /\ kind = "return" => Is(i + 1, Jump(label_return))
      /\ kind = "comp" =>
           /\ tree[n].kids = << >> => f[n] = i
           /\ tree[n].kids # << >> => b[Body(n)] = i /\ f[tree[n].kids[Len(tree[n].kids)]] = f[n]
           /\ \A j \in 1 .. Len(tree[n].kids) - 1 : b[tree[n].kids[j + 1]] = f[tree[n].kids[j]]
      /\ kind = "if" =>
           \E l : /\ Is(i, Eval(n, "cond")) /\ Is(i + 1, Je(l)) /\ b[Body(n)] = i + 2
                  /\ Is(e, Jump(l + 1)) /\ Is(e + 1, Label(l)) /\ Is(e + 2, Label(l + 1)) /\ f[n] = e + 3
      /\ kind = "ifelse" =>
           \E l, k : /\ Is(i, Eval(n, "cond")) /\ Is(i + 1, Je(l)) /\ b[Body(n)] = i + 2
                     /\ Is(e, Jump(l + 1)) /\ Is(e + 1, Label(l)) /\ k = tree[n].kids[2] /\ b[k] = e + 2
                     /\ Is(f[k], Label(l + 1)) /\ f[n] = f[k] + 1
      /\ kind = "while" =>
           \E l : /\ Is(i, Label(l)) /\ Is(i + 1, Eval(n, "cond")) /\ Is(i + 2, Je(l + 1))
                  /\ b[Body(n)] = i + 3
                  /\ Is(e, Jump(l)) /\ Is(e + 1, Label(l + 1)) /\ f[n] = e + 2
                  /\ tree[n].label_continue = l /\ tree[n].label_break = l + 1
      /\ kind = "do" =>
           \E l : /\ Is(i, Label(l)) /\ b[Body(n)] = i + 1
                  /\ Is(e, Label(l + 1)) /\ Is(e + 1, Eval(n, "cond")) /\ Is(e + 2, Jne(l))
                  /\ Is(e + 3, Label(l + 2)) /\ f[n] = e + 4
                  /\ tree[n].label_continue = l + 1 /\ tree[n].label_break = l + 2
      /\ kind = "for" =>
           \E l : /\ Is(i, Eval(n, "init")) /\ Is(i + 1, Label(l)) /\ Is(i + 2, Eval(n, "cond"))
                  /\ Is(i + 3, Je(l + 2)) /\ b[Body(n)] = i + 4
                  /\ Is(e, Label(l + 1)) /\ Is(e + 1, Eval(n, "after")) /\ Is(e + 2, Jump(l))
                  /\ Is(e + 3, Label(l + 2)) /\ f[n] = e + 4
                  /\ tree[n].label_continue = l + 1 /\ tree[n].label_break = l + 2
      /\ kind = "forever" =>
           \E l : /\ Is(i, Label(l)) /\ b[Body(n)] = i + 1
                  /\ Is(e, Label(l + 1)) /\ Is(e + 1, Jump(l)) /\ Is(e + 2, Label(l + 2)) /\ f[n] = e + 3
                  /\ tree[n].label_continue = l + 1 /\ tree[n].label_break = l + 2
      /\ kind = "switch" =>
           /\ Is(i, Eval(n, "cond"))
           /\ \A j \in 1 .. Len(tree[n].cases) : Is(i + j, Dispatched(tree[n].cases[j]))
           /\ b[Body(n)] = (i + Len(tree[n].cases)) + 1
           /\ Is(e, Label(tree[n].label_break)) /\ f[n] = e + 1
      /\ kind \in Labelled => Is(i, Label(tree[n].label_no)) /\ b[Body(n)] = i + 1 /\ f[n] = e
      /\ kind = "goto" => Is(i, Jump(tree[tree[n].target].label_no)) /\ f[n] = i + 1
      /\ kind = "break" => Is(i, Jump(tree[tree[n].target].label_break)) /\ f[n] = i + 1
      /\ kind = "continue" => Is(i, Jump(tree[tree[n].target].label_continue)) /\ f[n] = i + 1

(* The places of the items T of n. *)
Rows(T, e, b, f, n) ==
  \E q : /\ b[n] = q[1] /\ f[n] = q[Len(T) + 1]
         /\ \A j \in 1 .. Len(T) + 1 : q[j] \in 1 .. e /\ q[j] \in Nat
         /\ \A j \in 1 .. Len(T) :
              /\ T[j].do # "visit" => Is(q[j], T[j]) /\ q[j + 1] = q[j] + 1
              /\ \A m : T[j] = Visit(m) => b[m] = q[j] /\ f[m] = q[j + 1]

LEMMA LaidRows ==
  ASSUME NEW e \in Nat, IsSeq(code), NEW b, NEW f, NEW l, NEW n, Laid(code, e, b, f, l, n),
         NEW T, T = Template(n, tree, l), Len(T) \in Nat
  PROVE  Rows(T, e, b, f, n)
<1>1. PICK q : /\ q[1] = b[n] /\ q[Len(T) + 1] = f[n]
               /\ \A j \in 1 .. Len(T) + 1 : q[j] \in 1 .. e
               /\ \A j \in 1 .. Len(T) :
                    IF T[j].do = "visit" THEN b[T[j].at] = q[j] /\ f[T[j].at] = q[j + 1]
                    ELSE q[j] \in 1 .. Len(code) /\ code[q[j]] = T[j] /\ q[j + 1] = q[j] + 1
  BY DEF Laid
<1>2. \A j \in 1 .. Len(T) + 1 : q[j] \in 1 .. e /\ q[j] \in Nat
  BY <1>1
<1>3. \A j \in 1 .. Len(T) :
        /\ T[j].do # "visit" => Is(q[j], T[j]) /\ q[j + 1] = q[j] + 1
        /\ \A m : T[j] = Visit(m) => b[m] = q[j] /\ f[m] = q[j + 1]
  BY <1>1, ItemFields DEF Is
<1> QED
  BY <1>1, <1>2, <1>3 DEF Rows

LEMMA LaidBlock ==
  ASSUME IsSeq(code), NEW e \in Nat, NEW b, NEW f, NEW l, NEW n, Laid(code, e, b, f, l, n), Named(n, l),
         tree[n].kind \in AllKinds, IsSeq(tree[n].kids), IsSeq(tree[n].cases)
  PROVE  Block(b, f, n)
<1> DEFINE kind == tree[n].kind
<1>1. PICK T : T = Template(n, tree, l)
  OBVIOUS
<1>2. PICK k, m : k = Body(n) /\ m = tree[n].kids[2]
  OBVIOUS
<1>3. ASSUME Len(T) \in Nat
      PROVE  \E q : /\ b[n] = q[1] /\ f[n] = q[Len(T) + 1]
                    /\ \A j \in 1 .. Len(T) + 1 : q[j] \in 1 .. e /\ q[j] \in Nat
                    /\ \A j \in 1 .. Len(T) :
                         /\ T[j].do # "visit" => Is(q[j], T[j]) /\ q[j + 1] = q[j] + 1
                         /\ \A x : T[j] = Visit(x) => b[x] = q[j] /\ f[x] = q[j + 1]
  <2>1. Rows(T, e, b, f, n)
    BY <1>1, <1>3, LaidRows
  <2> QED
    BY <2>1 DEF Rows
<1>4. CASE kind = "expr"
  <2>1. T = <<Eval(n, "expr")>>
    BY <1>1, <1>2, <1>4 DEF Template, Body, Labelled
  <2>2. Len(T) = 1 /\ 1 .. Len(T) = 1 .. 1
    BY <2>1
  <2>3. /\ T[1] = Eval(n, "expr")
    BY <2>1
  <2>4. PICK q : /\ b[n] = q[1] /\ f[n] = q[2]
                 /\ \A j \in 1 .. 2 : q[j] \in Nat
                 /\ \A j \in 1 .. 1 :
                      /\ T[j].do # "visit" => Is(q[j], T[j]) /\ q[j + 1] = q[j] + 1
                      /\ \A x : T[j] = Visit(x) => b[x] = q[j] /\ f[x] = q[j + 1]
    BY <1>3, <2>2
  <2>5. /\ Is(q[1], Eval(n, "expr")) /\ q[2] = q[1] + 1
    BY <2>3, <2>4, ItemFields
  <2>6. q[1] \in Nat /\ q[2] \in Nat
    BY <2>4
  <2> QED
    BY <1>2, <1>4, <2>4, <2>5, <2>6 DEF Block, Named, Labelled
<1>5. CASE kind = "if"
  <2>1. T = <<Eval(n, "cond"), Je(l), Visit(k), Jump(l + 1), Label(l), Label(l + 1)>>
    BY <1>1, <1>2, <1>5 DEF Template, Body, Labelled
  <2>2. Len(T) = 6 /\ 1 .. Len(T) = 1 .. 6
    BY <2>1
  <2>3. /\ T[1] = Eval(n, "cond")
        /\ T[2] = Je(l)
        /\ T[3] = Visit(k)
        /\ T[4] = Jump(l + 1)
        /\ T[5] = Label(l)
        /\ T[6] = Label(l + 1)
    BY <2>1
  <2>4. PICK q : /\ b[n] = q[1] /\ f[n] = q[7]
                 /\ \A j \in 1 .. 7 : q[j] \in Nat
                 /\ \A j \in 1 .. 6 :
                      /\ T[j].do # "visit" => Is(q[j], T[j]) /\ q[j + 1] = q[j] + 1
                      /\ \A x : T[j] = Visit(x) => b[x] = q[j] /\ f[x] = q[j + 1]
    BY <1>3, <2>2
  <2>5. /\ Is(q[1], Eval(n, "cond")) /\ q[2] = q[1] + 1
        /\ Is(q[2], Je(l)) /\ q[3] = q[2] + 1
        /\ b[k] = q[3] /\ f[k] = q[4]
        /\ Is(q[4], Jump(l + 1)) /\ q[5] = q[4] + 1
        /\ Is(q[5], Label(l)) /\ q[6] = q[5] + 1
        /\ Is(q[6], Label(l + 1)) /\ q[7] = q[6] + 1
    BY <2>3, <2>4, ItemFields
  <2>6. q[1] \in Nat /\ q[2] \in Nat /\ q[3] \in Nat /\ q[4] \in Nat /\ q[5] \in Nat /\ q[6] \in Nat /\ q[7] \in Nat
    BY <2>4
  <2> QED
    BY <1>2, <1>5, <2>4, <2>5, <2>6 DEF Block, Named, Labelled
<1>6. CASE kind = "ifelse"
  <2>1. T = <<Eval(n, "cond"), Je(l), Visit(k), Jump(l + 1), Label(l), Visit(m), Label(l + 1)>>
    BY <1>1, <1>2, <1>6 DEF Template, Body, Labelled
  <2>2. Len(T) = 7 /\ 1 .. Len(T) = 1 .. 7
    BY <2>1
  <2>3. /\ T[1] = Eval(n, "cond")
        /\ T[2] = Je(l)
        /\ T[3] = Visit(k)
        /\ T[4] = Jump(l + 1)
        /\ T[5] = Label(l)
        /\ T[6] = Visit(m)
        /\ T[7] = Label(l + 1)
    BY <2>1
  <2>4. PICK q : /\ b[n] = q[1] /\ f[n] = q[8]
                 /\ \A j \in 1 .. 8 : q[j] \in Nat
                 /\ \A j \in 1 .. 7 :
                      /\ T[j].do # "visit" => Is(q[j], T[j]) /\ q[j + 1] = q[j] + 1
                      /\ \A x : T[j] = Visit(x) => b[x] = q[j] /\ f[x] = q[j + 1]
    BY <1>3, <2>2
  <2>5. /\ Is(q[1], Eval(n, "cond")) /\ q[2] = q[1] + 1
        /\ Is(q[2], Je(l)) /\ q[3] = q[2] + 1
        /\ b[k] = q[3] /\ f[k] = q[4]
        /\ Is(q[4], Jump(l + 1)) /\ q[5] = q[4] + 1
        /\ Is(q[5], Label(l)) /\ q[6] = q[5] + 1
        /\ b[m] = q[6] /\ f[m] = q[7]
        /\ Is(q[7], Label(l + 1)) /\ q[8] = q[7] + 1
    BY <2>3, <2>4, ItemFields
  <2>6. q[1] \in Nat /\ q[2] \in Nat /\ q[3] \in Nat /\ q[4] \in Nat /\ q[5] \in Nat /\ q[6] \in Nat /\ q[7] \in Nat /\ q[8] \in Nat
    BY <2>4
  <2> QED
    BY <1>2, <1>6, <2>4, <2>5, <2>6 DEF Block, Named, Labelled
<1>7. CASE kind = "while"
  <2>1. T = <<Label(l), Eval(n, "cond"), Je(l + 1), Visit(k), Jump(l), Label(l + 1)>>
    BY <1>1, <1>2, <1>7 DEF Template, Body, Labelled
  <2>2. Len(T) = 6 /\ 1 .. Len(T) = 1 .. 6
    BY <2>1
  <2>3. /\ T[1] = Label(l)
        /\ T[2] = Eval(n, "cond")
        /\ T[3] = Je(l + 1)
        /\ T[4] = Visit(k)
        /\ T[5] = Jump(l)
        /\ T[6] = Label(l + 1)
    BY <2>1
  <2>4. PICK q : /\ b[n] = q[1] /\ f[n] = q[7]
                 /\ \A j \in 1 .. 7 : q[j] \in Nat
                 /\ \A j \in 1 .. 6 :
                      /\ T[j].do # "visit" => Is(q[j], T[j]) /\ q[j + 1] = q[j] + 1
                      /\ \A x : T[j] = Visit(x) => b[x] = q[j] /\ f[x] = q[j + 1]
    BY <1>3, <2>2
  <2>5. /\ Is(q[1], Label(l)) /\ q[2] = q[1] + 1
        /\ Is(q[2], Eval(n, "cond")) /\ q[3] = q[2] + 1
        /\ Is(q[3], Je(l + 1)) /\ q[4] = q[3] + 1
        /\ b[k] = q[4] /\ f[k] = q[5]
        /\ Is(q[5], Jump(l)) /\ q[6] = q[5] + 1
        /\ Is(q[6], Label(l + 1)) /\ q[7] = q[6] + 1
    BY <2>3, <2>4, ItemFields
  <2>6. q[1] \in Nat /\ q[2] \in Nat /\ q[3] \in Nat /\ q[4] \in Nat /\ q[5] \in Nat /\ q[6] \in Nat /\ q[7] \in Nat
    BY <2>4
  <2> QED
    BY <1>2, <1>7, <2>4, <2>5, <2>6 DEF Block, Named, Labelled
<1>8. CASE kind = "do"
  <2>1. T = <<Label(l), Visit(k), Label(l + 1), Eval(n, "cond"), Jne(l), Label(l + 2)>>
    BY <1>1, <1>2, <1>8 DEF Template, Body, Labelled
  <2>2. Len(T) = 6 /\ 1 .. Len(T) = 1 .. 6
    BY <2>1
  <2>3. /\ T[1] = Label(l)
        /\ T[2] = Visit(k)
        /\ T[3] = Label(l + 1)
        /\ T[4] = Eval(n, "cond")
        /\ T[5] = Jne(l)
        /\ T[6] = Label(l + 2)
    BY <2>1
  <2>4. PICK q : /\ b[n] = q[1] /\ f[n] = q[7]
                 /\ \A j \in 1 .. 7 : q[j] \in Nat
                 /\ \A j \in 1 .. 6 :
                      /\ T[j].do # "visit" => Is(q[j], T[j]) /\ q[j + 1] = q[j] + 1
                      /\ \A x : T[j] = Visit(x) => b[x] = q[j] /\ f[x] = q[j + 1]
    BY <1>3, <2>2
  <2>5. /\ Is(q[1], Label(l)) /\ q[2] = q[1] + 1
        /\ b[k] = q[2] /\ f[k] = q[3]
        /\ Is(q[3], Label(l + 1)) /\ q[4] = q[3] + 1
        /\ Is(q[4], Eval(n, "cond")) /\ q[5] = q[4] + 1
        /\ Is(q[5], Jne(l)) /\ q[6] = q[5] + 1
        /\ Is(q[6], Label(l + 2)) /\ q[7] = q[6] + 1
    BY <2>3, <2>4, ItemFields
  <2>6. q[1] \in Nat /\ q[2] \in Nat /\ q[3] \in Nat /\ q[4] \in Nat /\ q[5] \in Nat /\ q[6] \in Nat /\ q[7] \in Nat
    BY <2>4
  <2> QED
    BY <1>2, <1>8, <2>4, <2>5, <2>6 DEF Block, Named, Labelled
<1>9. CASE kind = "for"
  <2>1. T = <<Eval(n, "init"), Label(l), Eval(n, "cond"), Je(l + 2), Visit(k),
              Label(l + 1), Eval(n, "after"), Jump(l), Label(l + 2)>>
    BY <1>1, <1>2, <1>9 DEF Template, Body, Labelled
  <2>2. Len(T) = 9 /\ 1 .. Len(T) = 1 .. 9
    BY <2>1
  <2>3. /\ T[1] = Eval(n, "init")
        /\ T[2] = Label(l)
        /\ T[3] = Eval(n, "cond")
        /\ T[4] = Je(l + 2)
        /\ T[5] = Visit(k)
        /\ T[6] = Label(l + 1)
        /\ T[7] = Eval(n, "after")
        /\ T[8] = Jump(l)
        /\ T[9] = Label(l + 2)
    BY <2>1
  <2>4. PICK q : /\ b[n] = q[1] /\ f[n] = q[10]
                 /\ \A j \in 1 .. 10 : q[j] \in Nat
                 /\ \A j \in 1 .. 9 :
                      /\ T[j].do # "visit" => Is(q[j], T[j]) /\ q[j + 1] = q[j] + 1
                      /\ \A x : T[j] = Visit(x) => b[x] = q[j] /\ f[x] = q[j + 1]
    BY <1>3, <2>2
  <2>5. /\ Is(q[1], Eval(n, "init")) /\ q[2] = q[1] + 1
        /\ Is(q[2], Label(l)) /\ q[3] = q[2] + 1
        /\ Is(q[3], Eval(n, "cond")) /\ q[4] = q[3] + 1
        /\ Is(q[4], Je(l + 2)) /\ q[5] = q[4] + 1
        /\ b[k] = q[5] /\ f[k] = q[6]
        /\ Is(q[6], Label(l + 1)) /\ q[7] = q[6] + 1
        /\ Is(q[7], Eval(n, "after")) /\ q[8] = q[7] + 1
        /\ Is(q[8], Jump(l)) /\ q[9] = q[8] + 1
        /\ Is(q[9], Label(l + 2)) /\ q[10] = q[9] + 1
    BY <2>3, <2>4, ItemFields
  <2>6. q[1] \in Nat /\ q[2] \in Nat /\ q[3] \in Nat /\ q[4] \in Nat /\ q[5] \in Nat /\ q[6] \in Nat /\ q[7] \in Nat /\ q[8] \in Nat /\ q[9] \in Nat /\ q[10] \in Nat
    BY <2>4
  <2> QED
    BY <1>2, <1>9, <2>4, <2>5, <2>6 DEF Block, Named, Labelled
<1>10. CASE kind = "forever"
  <2>1. T = <<Label(l), Visit(k), Label(l + 1), Jump(l), Label(l + 2)>>
    BY <1>1, <1>2, <1>10 DEF Template, Body, Labelled
  <2>2. Len(T) = 5 /\ 1 .. Len(T) = 1 .. 5
    BY <2>1
  <2>3. /\ T[1] = Label(l)
        /\ T[2] = Visit(k)
        /\ T[3] = Label(l + 1)
        /\ T[4] = Jump(l)
        /\ T[5] = Label(l + 2)
    BY <2>1
  <2>4. PICK q : /\ b[n] = q[1] /\ f[n] = q[6]
                 /\ \A j \in 1 .. 6 : q[j] \in Nat
                 /\ \A j \in 1 .. 5 :
                      /\ T[j].do # "visit" => Is(q[j], T[j]) /\ q[j + 1] = q[j] + 1
                      /\ \A x : T[j] = Visit(x) => b[x] = q[j] /\ f[x] = q[j + 1]
    BY <1>3, <2>2
  <2>5. /\ Is(q[1], Label(l)) /\ q[2] = q[1] + 1
        /\ b[k] = q[2] /\ f[k] = q[3]
        /\ Is(q[3], Label(l + 1)) /\ q[4] = q[3] + 1
        /\ Is(q[4], Jump(l)) /\ q[5] = q[4] + 1
        /\ Is(q[5], Label(l + 2)) /\ q[6] = q[5] + 1
    BY <2>3, <2>4, ItemFields
  <2>6. q[1] \in Nat /\ q[2] \in Nat /\ q[3] \in Nat /\ q[4] \in Nat /\ q[5] \in Nat /\ q[6] \in Nat
    BY <2>4
  <2> QED
    BY <1>2, <1>10, <2>4, <2>5, <2>6 DEF Block, Named, Labelled
<1>11. CASE kind = "goto"
  <2>1. T = <<Jump(tree[tree[n].target].label_no)>>
    BY <1>1, <1>2, <1>11 DEF Template, Body, Labelled
  <2>2. Len(T) = 1 /\ 1 .. Len(T) = 1 .. 1
    BY <2>1
  <2>3. /\ T[1] = Jump(tree[tree[n].target].label_no)
    BY <2>1
  <2>4. PICK q : /\ b[n] = q[1] /\ f[n] = q[2]
                 /\ \A j \in 1 .. 2 : q[j] \in Nat
                 /\ \A j \in 1 .. 1 :
                      /\ T[j].do # "visit" => Is(q[j], T[j]) /\ q[j + 1] = q[j] + 1
                      /\ \A x : T[j] = Visit(x) => b[x] = q[j] /\ f[x] = q[j + 1]
    BY <1>3, <2>2
  <2>5. /\ Is(q[1], Jump(tree[tree[n].target].label_no)) /\ q[2] = q[1] + 1
    BY <2>3, <2>4, ItemFields
  <2>6. q[1] \in Nat /\ q[2] \in Nat
    BY <2>4
  <2> QED
    BY <1>2, <1>11, <2>4, <2>5, <2>6 DEF Block, Named, Labelled
<1>12. CASE kind = "break"
  <2>1. T = <<Jump(tree[tree[n].target].label_break)>>
    BY <1>1, <1>2, <1>12 DEF Template, Body, Labelled
  <2>2. Len(T) = 1 /\ 1 .. Len(T) = 1 .. 1
    BY <2>1
  <2>3. /\ T[1] = Jump(tree[tree[n].target].label_break)
    BY <2>1
  <2>4. PICK q : /\ b[n] = q[1] /\ f[n] = q[2]
                 /\ \A j \in 1 .. 2 : q[j] \in Nat
                 /\ \A j \in 1 .. 1 :
                      /\ T[j].do # "visit" => Is(q[j], T[j]) /\ q[j + 1] = q[j] + 1
                      /\ \A x : T[j] = Visit(x) => b[x] = q[j] /\ f[x] = q[j + 1]
    BY <1>3, <2>2
  <2>5. /\ Is(q[1], Jump(tree[tree[n].target].label_break)) /\ q[2] = q[1] + 1
    BY <2>3, <2>4, ItemFields
  <2>6. q[1] \in Nat /\ q[2] \in Nat
    BY <2>4
  <2> QED
    BY <1>2, <1>12, <2>4, <2>5, <2>6 DEF Block, Named, Labelled
<1>13. CASE kind = "continue"
  <2>1. T = <<Jump(tree[tree[n].target].label_continue)>>
    BY <1>1, <1>2, <1>13 DEF Template, Body, Labelled
  <2>2. Len(T) = 1 /\ 1 .. Len(T) = 1 .. 1
    BY <2>1
  <2>3. /\ T[1] = Jump(tree[tree[n].target].label_continue)
    BY <2>1
  <2>4. PICK q : /\ b[n] = q[1] /\ f[n] = q[2]
                 /\ \A j \in 1 .. 2 : q[j] \in Nat
                 /\ \A j \in 1 .. 1 :
                      /\ T[j].do # "visit" => Is(q[j], T[j]) /\ q[j + 1] = q[j] + 1
                      /\ \A x : T[j] = Visit(x) => b[x] = q[j] /\ f[x] = q[j + 1]
    BY <1>3, <2>2
  <2>5. /\ Is(q[1], Jump(tree[tree[n].target].label_continue)) /\ q[2] = q[1] + 1
    BY <2>3, <2>4, ItemFields
  <2>6. q[1] \in Nat /\ q[2] \in Nat
    BY <2>4
  <2> QED
    BY <1>2, <1>13, <2>4, <2>5, <2>6 DEF Block, Named, Labelled
<1>14. CASE kind = "return"
  <2>1. T = <<Eval(n, "return"), Jump(label_return)>>
    BY <1>1, <1>2, <1>14 DEF Template, Body, Labelled
  <2>2. Len(T) = 2 /\ 1 .. Len(T) = 1 .. 2
    BY <2>1
  <2>3. /\ T[1] = Eval(n, "return")
        /\ T[2] = Jump(label_return)
    BY <2>1
  <2>4. PICK q : /\ b[n] = q[1] /\ f[n] = q[3]
                 /\ \A j \in 1 .. 3 : q[j] \in Nat
                 /\ \A j \in 1 .. 2 :
                      /\ T[j].do # "visit" => Is(q[j], T[j]) /\ q[j + 1] = q[j] + 1
                      /\ \A x : T[j] = Visit(x) => b[x] = q[j] /\ f[x] = q[j + 1]
    BY <1>3, <2>2
  <2>5. /\ Is(q[1], Eval(n, "return")) /\ q[2] = q[1] + 1
        /\ Is(q[2], Jump(label_return)) /\ q[3] = q[2] + 1
    BY <2>3, <2>4, ItemFields
  <2>6. q[1] \in Nat /\ q[2] \in Nat /\ q[3] \in Nat
    BY <2>4
  <2> QED
    BY <1>2, <1>14, <2>4, <2>5, <2>6 DEF Block, Named, Labelled
<1>15. CASE kind \in Labelled
  <2>1. T = <<Label(tree[n].label_no), Visit(k)>>
    BY <1>1, <1>2, <1>15 DEF Template, Body, Labelled
  <2>2. Len(T) = 2 /\ 1 .. Len(T) = 1 .. 2
    BY <2>1
  <2>3. /\ T[1] = Label(tree[n].label_no)
        /\ T[2] = Visit(k)
    BY <2>1
  <2>4. PICK q : /\ b[n] = q[1] /\ f[n] = q[3]
                 /\ \A j \in 1 .. 3 : q[j] \in Nat
                 /\ \A j \in 1 .. 2 :
                      /\ T[j].do # "visit" => Is(q[j], T[j]) /\ q[j + 1] = q[j] + 1
                      /\ \A x : T[j] = Visit(x) => b[x] = q[j] /\ f[x] = q[j + 1]
    BY <1>3, <2>2
  <2>5. /\ Is(q[1], Label(tree[n].label_no)) /\ q[2] = q[1] + 1
        /\ b[k] = q[2] /\ f[k] = q[3]
    BY <2>3, <2>4, ItemFields
  <2>6. q[1] \in Nat /\ q[2] \in Nat /\ q[3] \in Nat
    BY <2>4
  <2> QED
    BY <1>2, <1>15, <2>4, <2>5, <2>6 DEF Block, Named, Labelled
<1>16. CASE kind = "comp"
  <2>1. PICK s, c : s = tree[n].kids /\ c = Len(s)
    OBVIOUS
  <2>2. IsSeq(s) /\ c \in Nat /\ DOMAIN s = 1 .. c
    BY <2>1 DEF IsSeq
  <2>3. T = [i \in 1 .. c |-> Visit(s[i])]
    BY <1>1, <1>16, <2>1, <2>2 DEF Template
  <2>4. Len(T) = c /\ \A i \in 1 .. c : T[i] = Visit(s[i])
    BY <2>2, <2>3
  <2>5. PICK q : /\ b[n] = q[1] /\ f[n] = q[c + 1]
                 /\ \A j \in 1 .. c :
                      /\ T[j].do # "visit" => Is(q[j], T[j]) /\ q[j + 1] = q[j] + 1
                      /\ \A x : T[j] = Visit(x) => b[x] = q[j] /\ f[x] = q[j + 1]
    <3>1. Len(T) \in Nat
      BY <2>2, <2>4
    <3> QED
      BY <1>3, <2>4, <3>1
  <2>6. \A j \in 1 .. c : b[s[j]] = q[j] /\ f[s[j]] = q[j + 1]
    BY <2>4, <2>5
  <2>7. s = << >> => c = 0
    BY <2>1
  <2>8. s # << >> => 1 \in 1 .. c /\ c \in 1 .. c
    <3>1. c = 0 => s = << >>
      BY <2>1, <2>2 DEF IsSeq
    <3> QED
      BY <2>2, <3>1
  <2>9. \A j \in 1 .. c - 1 : j \in 1 .. c /\ j + 1 \in 1 .. c
    BY <2>2
  <2>10. /\ s = << >> => f[n] = b[n]
         /\ s # << >> => b[s[1]] = b[n] /\ f[s[c]] = f[n]
         /\ \A j \in 1 .. c - 1 : b[s[j + 1]] = f[s[j]]
    <3>1. s # << >> => b[s[1]] = b[n] /\ f[s[c]] = f[n]
      BY <2>5, <2>6, <2>8
    <3>3. s = << >> => f[n] = b[n]
      <4>1. c = 0 => c + 1 = 1
        OBVIOUS
      <4> QED
        BY <2>5, <2>7, <4>1
    <3>2. \A j \in 1 .. c - 1 : b[s[j + 1]] = q[j + 1] /\ f[s[j]] = q[j + 1]
      BY ONLY <2>6, <2>9
    <3> QED
      BY <3>1, <3>2, <3>3
  <2> QED
    BY <1>16, <2>1, <2>10 DEF Block, Labelled, Body
<1>17. CASE kind = "switch"
  <2>1. PICK s, c, J : s = tree[n].cases /\ c = Len(s) /\ J = [i \in 1 .. c |-> Dispatched(s[i])]
    OBVIOUS
  <2>2. IsSeq(s) /\ c \in Nat /\ DOMAIN s = 1 .. c
    BY <2>1 DEF IsSeq
  <2>3. T = <<Eval(n, "cond")>> \o J \o <<Visit(k), Label(l)>>
    BY <1>1, <1>2, <1>17, <2>1, <2>2 DEF Template, Body, Dispatched
  <2>4. IsSeq(J) /\ Len(J) = c /\ \A i \in 1 .. c : J[i] = Dispatched(s[i]) /\ J[i].do # "visit"
    <3>1. IsSeq(J) /\ Len(J) = c /\ \A i \in 1 .. c : J[i] = Dispatched(s[i])
      BY ONLY <2>1, <2>2 DEF IsSeq
    <3>2. \A x : Dispatched(x).do # "visit"
      BY ItemFields DEF Dispatched
    <3> QED
      BY ONLY <3>1, <3>2
  <2>5. PICK A, B, E : A = <<Eval(n, "cond")>> /\ B = A \o J /\ E = <<Visit(k), Label(l)>>
    OBVIOUS
  <2>6. /\ IsSeq(A) /\ Len(A) = 1 /\ A[1] = Eval(n, "cond")
        /\ IsSeq(E) /\ Len(E) = 2 /\ E[1] = Visit(k) /\ E[2] = Label(l)
    BY <2>5 DEF IsSeq
  <2>7. /\ IsSeq(B) /\ Len(B) = 1 + c
        /\ B[1] = A[1]
        /\ \A i \in 1 + 1 .. 1 + c : B[i] = J[i - 1]
    <3>1. IsSeq(A) /\ IsSeq(J) /\ B = A \o J
      BY <2>4, <2>5, <2>6
    <3>2. /\ IsSeq(B) /\ Len(B) = Len(A) + Len(J)
          /\ \A i \in 1 .. Len(A) : B[i] = A[i]
          /\ \A i \in Len(A) + 1 .. Len(A) + Len(J) : B[i] = J[i - Len(A)]
      BY <3>1, ConcatSeq
    <3>3. Len(A) = 1 /\ Len(J) = c
      BY <2>4, <2>6
    <3> QED
      BY <3>2, <3>3
  <2>8. /\ IsSeq(T) /\ Len(T) = (1 + c) + 2
        /\ \A i \in 1 .. 1 + c : T[i] = B[i]
        /\ \A i \in (1 + c) + 1 .. (1 + c) + 2 : T[i] = E[i - (1 + c)]
    <3>1. T = B \o E
      BY <2>3, <2>5
    <3>2. IsSeq(B) /\ IsSeq(E)
      BY <2>6, <2>7
    <3>3. /\ IsSeq(T) /\ Len(T) = Len(B) + Len(E)
          /\ \A i \in 1 .. Len(B) : T[i] = B[i]
          /\ \A i \in Len(B) + 1 .. Len(B) + Len(E) : T[i] = E[i - Len(B)]
      BY <3>1, <3>2, ConcatSeq
    <3>4. Len(B) = 1 + c /\ Len(E) = 2
      BY <2>6, <2>7
    <3> QED
      BY <3>3, <3>4
  <2>9. /\ T[1] = Eval(n, "cond") /\ T[c + 2] = Visit(k) /\ T[c + 3] = Label(l)
        /\ \A i \in 2 .. 1 + c : T[i] = Dispatched(s[i - 1]) /\ T[i].do # "visit"
    <3>1. T[1] = Eval(n, "cond")
      BY <2>2, <2>6, <2>7, <2>8
    <3>2. T[c + 2] = E[1] /\ T[c + 3] = E[2]
      <4>1. /\ c + 2 \in (1 + c) + 1 .. (1 + c) + 2 /\ (c + 2) - (1 + c) = 1
            /\ c + 3 \in (1 + c) + 1 .. (1 + c) + 2 /\ (c + 3) - (1 + c) = 2
        BY <2>2
      <4>2. /\ T[c + 2] = E[(c + 2) - (1 + c)]
            /\ T[c + 3] = E[(c + 3) - (1 + c)]
        BY <2>8, <4>1, Zenon
      <4> QED
        BY <4>1, <4>2
    <3>3. \A i \in 2 .. 1 + c : T[i] = J[i - 1] /\ i - 1 \in 1 .. c
      BY <2>2, <2>7, <2>8
    <3> QED
      BY <2>4, <2>6, <3>1, <3>2, <3>3
  <2>10. PICK q : /\ b[n] = q[1] /\ f[n] = q[Len(T) + 1]
                  /\ \A j \in 1 .. Len(T) + 1 : q[j] \in 1 .. e /\ q[j] \in Nat
                  /\ \A j \in 1 .. Len(T) :
                       /\ T[j].do # "visit" => Is(q[j], T[j]) /\ q[j + 1] = q[j] + 1
                       /\ \A x : T[j] = Visit(x) => b[x] = q[j] /\ f[x] = q[j + 1]
    BY <1>3, <2>2, <2>8
  <2>11. /\ f[n] = q[c + 4] /\ \A j \in 1 .. c + 4 : q[j] \in Nat
         /\ \A j \in 1 .. c + 3 :
              /\ T[j].do # "visit" => Is(q[j], T[j]) /\ q[j + 1] = q[j] + 1
              /\ \A x : T[j] = Visit(x) => b[x] = q[j] /\ f[x] = q[j + 1]
    <3>1. Len(T) = c + 3 /\ Len(T) + 1 = c + 4
      BY <2>2, <2>8
    <3> QED
      BY <2>10, <3>1
  <2>12. \A j \in 1 .. c + 1 : q[j + 1] = q[j] + 1
    <3>1. \A j \in 1 .. c + 1 : j \in 1 .. c + 3 /\ (j = 1 \/ j \in 2 .. 1 + c)
      BY <2>2
    <3> QED
      BY <2>9, <2>11, <3>1, ItemFields
  <2>13. \A j \in 1 .. c + 2 : q[j] = q[1] + (j - 1)
    <3> DEFINE far == {j \in 1 .. c + 2 : q[j] # q[1] + (j - 1)}
    <3>1. SUFFICES ASSUME far # {}
                   PROVE  FALSE
      OBVIOUS
    <3>2. PICK j \in far : \A x \in far : j <= x
      <4>1. far \in SUBSET Nat
        BY <2>2
      <4> HIDE DEF far
      <4> QED
        BY <3>1, <4>1, Least
    <3>3. q[1] \in Nat /\ j \in 1 .. c + 2
      BY <2>2, <2>11, <3>2
    <3>4. j # 1
      BY <3>2, <3>3
    <3>5. j - 1 \in 1 .. c + 1 /\ j - 1 \in 1 .. c + 2 /\ (j - 1) + 1 = j /\ ~ (j <= j - 1)
      BY <2>2, <3>3, <3>4
    <3>6. q[j] = q[j - 1] + 1 /\ q[j - 1] = q[1] + ((j - 1) - 1)
      BY <2>12, <3>2, <3>5
    <3>7. q[j] = q[1] + (j - 1)
      BY <3>3, <3>6
    <3> QED
      BY <3>2, <3>7
  <2>14. \A j \in 1 .. c : Is(q[1] + j, Dispatched(s[j]))
    <3>1. \A j \in 1 .. c : j + 1 \in 2 .. 1 + c /\ j + 1 \in 1 .. c + 3 /\ j + 1 \in 1 .. c + 2 /\ (j + 1) - 1 = j
      BY <2>2
    <3>2. \A j \in 1 .. c : q[j + 1] = q[1] + j /\ T[j + 1] = Dispatched(s[j]) /\ T[j + 1].do # "visit"
      BY <2>9, <2>13, <3>1
    <3> QED
      BY <2>11, <3>1, <3>2
  <2>15. Is(q[1], Eval(n, "cond"))
    <3>1. 1 \in 1 .. c + 3
      BY <2>2
    <3> QED
      BY <2>9, <2>11, <3>1, ItemFields
  <2>16. b[k] = (q[1] + c) + 1 /\ f[k] = q[c + 3] /\ Is(f[k], Label(l)) /\ f[n] = f[k] + 1
    <3>1. /\ c + 2 \in 1 .. c + 3 /\ c + 3 \in 1 .. c + 3 /\ c + 2 \in 1 .. c + 2
          /\ (c + 2) + 1 = c + 3 /\ (c + 3) + 1 = c + 4
      BY <2>2
    <3>2. b[k] = q[c + 2] /\ f[k] = q[c + 3] /\ Is(q[c + 3], Label(l)) /\ q[c + 4] = q[c + 3] + 1
      BY <2>9, <2>11, <3>1, ItemFields
    <3>3. q[c + 2] = q[1] + ((c + 2) - 1) /\ q[1] \in Nat
      BY <2>11, <2>13, <3>1
    <3> QED
      BY <2>2, <2>11, <3>2, <3>3
  <2>17. tree[n].label_break = l
    BY <1>17 DEF Named
  <2> QED
    BY <1>2, <1>17, <2>1, <2>10, <2>14, <2>15, <2>16, <2>17 DEF Block, Labelled
<1> QED
  BY <1>4, <1>5, <1>6, <1>7, <1>8, <1>9, <1>10, <1>11, <1>12, <1>13, <1>14, <1>15, <1>16, <1>17 DEF AllKinds, Labelled

-----------------------------------------------------------------------------
(* What the machine does at each instruction. *)
Once == \A i, j \in DOMAIN code : code[i].do \in {"label", "eval"} /\ code[i] = code[j] => i = j

LEMMA ToIs ==
  ASSUME IsSeq(code), Once, NEW j, NEW l, Is(j, Label(l))
  PROVE  To(l) = j
<1>1. j \in DOMAIN code /\ code[j] = Label(l)
  BY DEF Is, IsSeq
<1>2. {i \in DOMAIN code : code[i] = Label(l)} = {j}
  BY <1>1, ItemFields DEF Once
<1> QED
  BY <1>2 DEF To

LEMMA AtIs ==
  ASSUME IsSeq(code), NEW i, NEW c, Is(i, c), c.do # "eval", NEW v
  PROVE  ~ Halts(i) /\ Machine(v)[i] = IF Taken(c, v) THEN To(c.label) ELSE i + 1
<1>1. i \in DOMAIN code /\ code[i] = c /\ i \in Spots
  BY DEF Is, IsSeq, Spots
<1> QED
  BY <1>1 DEF Halts, Machine, Step

LEMMA LeadsThen ==
  ASSUME NEW i, NEW j, NEW k, Leads(i, j), Leads(j, k)
  PROVE  Leads(i, k)
<1>1. ASSUME NEW v
      PROVE  \E c \in Nat \ {0} : Reaches(Machine(v), i, k, c)
  <2>1. PICK c \in Nat \ {0}, d \in Nat \ {0} : Reaches(Machine(v), i, j, c) /\ Reaches(Machine(v), j, k, d)
    BY DEF Leads
  <2>2. Reaches(Machine(v), i, k, c + d)
    BY <2>1, ReachesThen
  <2>3. c + d \in Nat \ {0}
    OBVIOUS
  <2> QED
    BY <2>2, <2>3
<1> QED
  BY <1>1 DEF Leads

LEMMA LeadsOne ==
  ASSUME NEW i, NEW j, ~ Halts(i), \A v : Machine(v)[i] = j
  PROVE  Leads(i, j)
<1>1. ASSUME NEW v
      PROVE  \E c \in Nat \ {0} : Reaches(Machine(v), i, j, c)
  <2>1. Reaches(Machine(v), i, Machine(v)[i], 1)
    BY ReachesOne
  <2> QED
    BY <2>1
<1> QED
  BY <1>1 DEF Leads

LEMMA LabelLeads ==
  ASSUME IsSeq(code), NEW i, NEW l, Is(i, Label(l))
  PROVE  Leads(i, i + 1)
<1>1. \A v : ~ Halts(i) /\ Machine(v)[i] = IF Taken(Label(l), v) THEN To(Label(l).label) ELSE i + 1
  BY ItemFields, AtIs
<1>2. \A v : ~ Taken(Label(l), v)
  BY ItemFields DEF Taken
<1> QED
  BY <1>1, <1>2, LeadsOne

LEMMA JumpLeads ==
  ASSUME IsSeq(code), Once, NEW i, NEW j, NEW l, Is(i, Jump(l)), Is(j, Label(l))
  PROVE  Leads(i, j)
<1>1. \A v : ~ Halts(i) /\ Machine(v)[i] = IF Taken(Jump(l), v) THEN To(Jump(l).label) ELSE i + 1
  BY ItemFields, AtIs
<1>2. (\A v : Taken(Jump(l), v)) /\ Jump(l).label = l
  BY ItemFields DEF Taken
<1>3. To(l) = j
  BY ToIs
<1> QED
  BY <1>1, <1>2, <1>3, LeadsOne

LEMMA BranchReaches ==
  ASSUME IsSeq(code), Once, NEW i, NEW j, NEW l, NEW v, Is(j, Label(l))
  PROVE  /\ Is(i, Je(l)) => Reaches(Machine(v), i, IF v = 0 THEN j ELSE i + 1, 1)
         /\ Is(i, Jne(l)) => Reaches(Machine(v), i, IF v # 0 THEN j ELSE i + 1, 1)
         /\ \A m : Is(i, JumpCase(m, l)) => Reaches(Machine(v), i, IF v = m THEN j ELSE i + 1, 1)
<1>1. To(l) = j
  BY ToIs
<1>2. \A m : JumpCase(m, l).at = m
  BY DEF JumpCase
<1>3. Reaches(Machine(v), i, Machine(v)[i], 1)
  BY ReachesOne
<1>4. ASSUME Is(i, Je(l))
      PROVE  Machine(v)[i] = IF v = 0 THEN j ELSE i + 1
  <2>1. Machine(v)[i] = IF Taken(Je(l), v) THEN To(Je(l).label) ELSE i + 1
    BY <1>4, ItemFields, AtIs
  <2>2. Taken(Je(l), v) <=> v = 0
    BY ItemFields DEF Taken
  <2> QED
    BY <1>1, <2>1, <2>2, ItemFields
<1>5. ASSUME Is(i, Jne(l))
      PROVE  Machine(v)[i] = IF v # 0 THEN j ELSE i + 1
  <2>1. Machine(v)[i] = IF Taken(Jne(l), v) THEN To(Jne(l).label) ELSE i + 1
    BY <1>5, ItemFields, AtIs
  <2>2. Taken(Jne(l), v) <=> v # 0
    BY ItemFields DEF Taken
  <2> QED
    BY <1>1, <2>1, <2>2, ItemFields
<1>6. ASSUME NEW m, Is(i, JumpCase(m, l))
      PROVE  Machine(v)[i] = IF v = m THEN j ELSE i + 1
  <2>1. Machine(v)[i] = IF Taken(JumpCase(m, l), v) THEN To(JumpCase(m, l).label) ELSE i + 1
    BY <1>6, ItemFields, AtIs
  <2>2. Taken(JumpCase(m, l), v) <=> v = m
    BY <1>2, ItemFields DEF Taken
  <2> QED
    BY <1>1, <2>1, <2>2, ItemFields
<1> QED
  BY <1>3, <1>4, <1>5, <1>6

-----------------------------------------------------------------------------
(* Each step of control is made in the code. *)
Targeted ==
  \A n \in Nodes :
    /\ tree[n].kind = "break" => tree[n].target = Innermost(n, Breakable)
    /\ tree[n].kind = "continue" => tree[n].target = Innermost(n, Loops)
    /\ tree[n].kind \in CaseKinds => tree[n].target = Innermost(n, {"switch"})

Small == grammar.nodes \in Nat /\ Len(tree) <= grammar.nodes

Known == Shape /\ Referred /\ Labels /\ Whole /\ Targeted /\ Small

(* What is evaluated of a statement. *)
Parts(kind) ==
  IF kind \in {"expr", "return"} THEN {kind}
  ELSE IF kind = "for" THEN {"init", "cond", "after"}
  ELSE IF kind \in {"if", "ifelse", "while", "do", "switch"} THEN {"cond"}
  ELSE {}

Printout(b, f) ==
  /\ IsSeq(code) /\ Once
  /\ \A n \in Nodes : Block(b, f, n) /\ b[n] \in 1 .. Len(code) /\ f[n] \in 1 .. Len(code)
  /\ b[1] = 1 /\ Is(f[1], Label(label_return)) /\ Is(f[1] + 1, EndOfFunction)
  /\ \A i \in 1 .. Len(code) : code[i].do = "eval" =>
       \/ code[i] = EndOfFunction
       \/ \E n \in Nodes : \E w \in Parts(tree[n].kind) : code[i] = Eval(n, w)

LEMMA PositionIs ==
  ASSUME NEW b, NEW f, NEW n
  PROVE  /\ Position(b, f, Place("before", n)) = b[n]
         /\ Position(b, f, Place("after", n)) = f[n]
         /\ Position(b, f, Place("again", n)) = IF tree[n].kind = "while" THEN b[n] ELSE f[Body(n)]
BY PlaceFields DEF Position

LEMMA ToEval ==
  ASSUME NEW b, NEW f, NEW p, NEW i, NEW j, NEW m, NEW w, i = Position(b, f, p), Onwards(p) = Eval(m, w),
         Is(j, Eval(m, w)), j = i \/ Leads(i, j)
  PROVE  Advances(b, f, p)
<1>1. Eval(m, w) \in Evals /\ j \in 1 .. Len(code) /\ code[j] = Eval(m, w)
  BY ItemFields DEF Is, Evals
<1>2. ~ IsPlace(Eval(m, w))
  BY DEF IsPlace, Eval
<1> QED
  BY <1>1, <1>2 DEF Advances, Here

LEMMA ToPlace ==
  ASSUME NEW b, NEW f, NEW p, NEW i, NEW j \in 1 .. Len(code), NEW q \in Places, i = Position(b, f, p),
         Onwards(p) = q, j = Position(b, f, q), Leads(i, j) \/ (j = i /\ Rank(p) < Rank(q))
  PROVE  Advances(b, f, p)
<1>1. IsPlace(q)
  BY PlaceFields
<1> QED
  BY <1>1 DEF Advances, Here

LEMMA BeforeIs ==
  ASSUME NEW n, tree[n].kind \in AllKinds
  PROVE  LET o == Onwards(Place("before", n))
             kind == tree[n].kind
         IN  /\ kind \in {"if", "ifelse", "while", "switch"} => o = Eval(n, "cond")
             /\ kind = "for" => o = Eval(n, "init")
             /\ kind \in {"expr", "return"} => o = Eval(n, kind)
             /\ kind = "comp" /\ tree[n].kids = << >> => o = Place("after", n)
             /\ (kind = "comp" /\ tree[n].kids # << >>) \/ kind \in {"do", "forever"} \cup Labelled =>
                  o = Place("before", Body(n))
             /\ kind = "goto" => o = Place("before", CHOOSE m \in LabelsNamed(tree[n].ident) : TRUE)
             /\ kind = "break" => o = Place("after", Innermost(n, Breakable))
             /\ kind = "continue" => o = Place("again", Innermost(n, Loops))
<1>1. Place("before", n).at = n /\ Place("before", n).when = "before"
  BY PlaceFields
<1> QED
  BY <1>1 DEF Onwards, Labelled, AllKinds, Body, Breakable

LEMMA AgainIs ==
  ASSUME NEW n, tree[n].kind \in Loops
  PROVE  LET o == Onwards(Place("again", n))
             kind == tree[n].kind
         IN  /\ kind \in {"while", "do"} => o = Eval(n, "cond")
             /\ kind = "for" => o = Eval(n, "after")
             /\ kind = "forever" => o = Place("before", Body(n))
<1>1. Place("again", n).at = n /\ Place("again", n).when = "again"
  BY PlaceFields
<1> QED
  BY <1>1 DEF Onwards, Loops, Body

LEMMA AfterIs ==
  ASSUME Shape, NEW n \in Nodes, NEW p, p = Parent(n)
  PROVE  LET o == Onwards(Place("after", n))
         IN  /\ p = 0 => o = EndOfFunction
             /\ p # 0 /\ tree[p].kind \in Loops => o = Place("again", p)
             /\ p # 0 /\ tree[p].kind \notin Loops \cup {"comp"} => o = Place("after", p)
             /\ \A i \in 1 .. Len(tree[p].kids) :
                  p # 0 /\ tree[p].kind = "comp" /\ tree[p].kids[i] = n =>
                    o = IF i < Len(tree[p].kids) THEN Place("before", tree[p].kids[i + 1])
                        ELSE Place("after", p)
<1>1. Place("after", n).at = n /\ Place("after", n).when = "after"
  BY PlaceFields
<1>2. PICK c : c = CHOOSE k \in DOMAIN tree[p].kids : tree[p].kids[k] = n
  OBVIOUS
<1>3. PICK o : o = Onwards(Place("after", n))
  OBVIOUS
<1>4. o = CASE p = 0 -> EndOfFunction
            [] p # 0 /\ tree[p].kind \in Loops -> Place("again", p)
            [] p # 0 /\ tree[p].kind = "comp" /\ c < Len(tree[p].kids) -> Place("before", tree[p].kids[c + 1])
            [] OTHER -> Place("after", p)
  <2>1. o = AfterIn(n)
    BY <1>1, <1>3 DEF Onwards
  <2> QED
    BY <1>2, <2>1 DEF AfterIn
<1>5. ASSUME NEW i \in 1 .. Len(tree[p].kids), p # 0, tree[p].kids[i] = n
      PROVE  c = i
  <2>1. p \in Nodes
    BY <1>5, KidsOf
  <2>2. /\ DOMAIN tree[p].kids = 1 .. Len(tree[p].kids) /\ Len(tree[p].kids) \in Nat
        /\ \A x, y \in 1 .. Len(tree[p].kids) : x < y => tree[p].kids[x] < tree[p].kids[y]
        /\ \A x \in 1 .. Len(tree[p].kids) : tree[p].kids[x] \in Nodes
        /\ Nodes = 1 .. Len(tree) /\ Len(tree) \in Nat
    BY <2>1, KidsOf
  <2>3. c \in 1 .. Len(tree[p].kids) /\ tree[p].kids[c] = n
    BY <1>2, <1>5, <2>2
  <2> QED
    BY <1>5, <2>2, <2>3
<1>6. "comp" \notin Loops
  BY DEF Loops
<1> QED
  BY <1>3, <1>4, <1>5, <1>6

LEMMA BodyIs ==
  ASSUME Known, NEW n \in Nodes
  PROVE  /\ tree[n].kind \in AllKinds /\ n \in Nat
         /\ \/ tree[n].kind \in {"if", "ifelse", "switch"} \cup Loops \cup Labelled
            \/ tree[n].kind = "comp" /\ tree[n].kids # << >>
            => Body(n) \in Nodes /\ n < Body(n) /\ Parent(Body(n)) = n
         /\ tree[n].kind = "ifelse" =>
              tree[n].kids[2] \in Nodes /\ n < tree[n].kids[2] /\ Parent(tree[n].kids[2]) = n
         /\ \A m \in Nodes : Parent(m) = n /\ tree[n].kind # "comp" =>
              /\ tree[n].kind \in {"if", "ifelse", "switch"} \cup Loops \cup Labelled
              /\ m = Body(n) \/ (tree[n].kind = "ifelse" /\ m = tree[n].kids[2])
<1>1. /\ n \in Nat /\ Len(tree[n].kids) \in Nat /\ DOMAIN tree[n].kids = 1 .. Len(tree[n].kids)
      /\ \A i \in 1 .. Len(tree[n].kids) : /\ tree[n].kids[i] \in Nodes /\ Parent(tree[n].kids[i]) = n
                                           /\ n < tree[n].kids[i]
      /\ Lists(tree[n].kids, {m \in Nodes : Parent(m) = n}) /\ tree[n].kind \in AllKinds
  BY KidsOf DEF Known, Shape
<1>2. tree[n].kind # "comp" => Len(tree[n].kids) = Arity(tree[n].kind)
  BY DEF Known, Whole
<1>3. PICK c, s : s = tree[n].kids /\ c = Len(s)
  OBVIOUS
<1>4. /\ c \in Nat /\ (tree[n].kind # "comp" => c = Arity(tree[n].kind))
      /\ \A i \in 1 .. c : s[i] \in Nodes /\ Parent(s[i]) = n /\ n < s[i]
      /\ \A m \in Nodes : Parent(m) = n => \E i \in 1 .. c : s[i] = m
  BY <1>1, <1>2, <1>3 DEF Lists
<1>5. s # << >> => 1 \in 1 .. c
  <2>1. c = 0 => s = << >>
    BY <1>1, <1>3 DEF Lists, IsSeq
  <2> QED
    BY <1>4, <2>1
<1>6. /\ tree[n].kind \in {"if", "switch"} \cup Loops \cup Labelled => c = 1
      /\ tree[n].kind = "ifelse" => c = 2
      /\ tree[n].kind # "comp" /\ tree[n].kind \notin {"if", "ifelse", "switch"} \cup Loops \cup Labelled => c = 0
  BY <1>1, <1>4 DEF AllKinds, Loops, Labelled, Arity
<1>7. ASSUME NEW m \in Nodes, Parent(m) = n, tree[n].kind # "comp"
      PROVE  /\ tree[n].kind \in {"if", "ifelse", "switch"} \cup Loops \cup Labelled
             /\ m = Body(n) \/ (tree[n].kind = "ifelse" /\ m = tree[n].kids[2])
  <2>1. PICK i \in 1 .. c : s[i] = m
    BY <1>4, <1>7
  <2>2. tree[n].kind \in {"if", "ifelse", "switch"} \cup Loops \cup Labelled
    BY <1>4, <1>6, <1>7, <2>1
  <2>3. i = 1 \/ (i = 2 /\ tree[n].kind = "ifelse")
    BY <1>4, <1>6, <2>1, <2>2
  <2> QED
    BY <1>3, <2>1, <2>2, <2>3 DEF Body
<1>8. \/ tree[n].kind \in {"if", "ifelse", "switch"} \cup Loops \cup Labelled
      \/ tree[n].kind = "comp" /\ tree[n].kids # << >>
      => 1 \in 1 .. c
  BY <1>3, <1>5, <1>6
<1>9. tree[n].kind = "ifelse" => 2 \in 1 .. c
  BY <1>6
<1> QED
  BY <1>1, <1>3, <1>4, <1>7, <1>8, <1>9 DEF Body

LEMMA PlacesOf ==
  ASSUME Shape, NEW n \in Nodes
  PROVE  /\ Place("before", n) \in Places /\ Place("after", n) \in Places
         /\ tree[n].kind \in Loops => Place("again", n) \in Places
BY DEF Places, OfKind

(* Where break, continue and goto go. *)
LEMMA BreaksTo ==
  ASSUME Known, NEW b, NEW f, Printout(b, f), NEW t \in OfKind(Breakable)
  PROVE  /\ t \in Nodes /\ Is(f[t] - 1, Label(tree[t].label_break)) /\ Leads(f[t] - 1, f[t])
         /\ t \in OfKind(Loops) => Is(Position(b, f, Place("again", t)), Label(tree[t].label_continue))
<1>1. t \in Nodes /\ tree[t].kind \in Breakable
  BY DEF OfKind
<1>2. /\ IsSeq(code) /\ Block(b, f, t) /\ b[t] \in Nat /\ f[t] \in Nat
      /\ Body(t) \in Nodes /\ f[Body(t)] \in Nat
  BY <1>1, BodyIs DEF Printout, Breakable
<1>3. Is(f[t] - 1, Label(tree[t].label_break))
  <2>1. PICK x, e : x = f[t] /\ e = f[Body(t)]
    OBVIOUS
  <2>2. CASE tree[t].kind = "while"
    <3>1. x = e + 2 /\ Is(e + 1, Label(tree[t].label_break))
      BY <1>2, <2>1, <2>2 DEF Block
    <3>2. x - 1 = e + 1
      BY <1>2, <2>1, <3>1
    <3> QED
      BY <2>1, <3>1, <3>2
  <2>3. CASE tree[t].kind \in {"do", "for"}
    <3>1. x = e + 4 /\ Is(e + 3, Label(tree[t].label_break))
      BY <1>2, <2>1, <2>3 DEF Block
    <3>2. x - 1 = e + 3
      BY <1>2, <2>1, <3>1
    <3> QED
      BY <2>1, <3>1, <3>2
  <2>4. CASE tree[t].kind = "forever"
    <3>1. x = e + 3 /\ Is(e + 2, Label(tree[t].label_break))
      BY <1>2, <2>1, <2>4 DEF Block
    <3>2. x - 1 = e + 2
      BY <1>2, <2>1, <3>1
    <3> QED
      BY <2>1, <3>1, <3>2
  <2>5. CASE tree[t].kind = "switch"
    <3>1. x = e + 1 /\ Is(e, Label(tree[t].label_break))
      BY <1>2, <2>1, <2>5 DEF Block
    <3>2. x - 1 = e
      BY <1>2, <2>1, <3>1
    <3> QED
      BY <2>1, <3>1, <3>2
  <2> QED
    BY <1>1, <2>2, <2>3, <2>4, <2>5 DEF Breakable, Loops
<1>4. Leads(f[t] - 1, f[t])
  <2>1. Leads(f[t] - 1, (f[t] - 1) + 1)
    BY <1>2, <1>3, LabelLeads
  <2>2. (f[t] - 1) + 1 = f[t]
    BY <1>2
  <2> QED
    BY <2>1, <2>2
<1>5. ASSUME t \in OfKind(Loops)
      PROVE  Is(Position(b, f, Place("again", t)), Label(tree[t].label_continue))
  <2>1. tree[t].kind \in Loops
    BY <1>5 DEF OfKind
  <2>2. CASE tree[t].kind = "while"
    BY <1>2, <2>2, PositionIs DEF Block
  <2>3. CASE tree[t].kind \in {"do", "for", "forever"}
    <3>1. Is(f[Body(t)], Label(tree[t].label_continue))
      BY <1>2, <2>3 DEF Block
    <3> QED
      BY <2>3, <3>1, PositionIs
  <2> QED
    BY <2>1, <2>2, <2>3 DEF Loops
<1> QED
  BY <1>1, <1>3, <1>4, <1>5

LEMMA BeforeAdvances ==
  ASSUME Known, NEW b, NEW f, Printout(b, f), NEW n \in Nodes
  PROVE  Advances(b, f, Place("before", n))
<1>1. /\ IsSeq(code) /\ Once /\ Block(b, f, n) /\ b[n] \in 1 .. Len(code) /\ f[n] \in 1 .. Len(code)
      /\ tree[n].kind \in AllKinds /\ Shape /\ b[n] \in Nat
  BY BodyIs DEF Printout, Known
<1>2. PICK p, i, kind : p = Place("before", n) /\ i = b[n] /\ kind = tree[n].kind
  OBVIOUS
<1>3. i = Position(b, f, p)
  BY <1>2, PositionIs
<1>4. CASE kind \in {"if", "ifelse", "switch"}
  <2>1. Onwards(p) = Eval(n, "cond") /\ Is(i, Eval(n, "cond"))
    BY <1>1, <1>2, <1>4, BeforeIs DEF Block
  <2> QED
    BY <1>2, <1>3, <2>1, ToEval
<1>5. CASE kind \in {"expr", "return"}
  <2>1. Onwards(p) = Eval(n, kind) /\ Is(i, Eval(n, kind))
    BY <1>1, <1>2, <1>5, BeforeIs DEF Block
  <2> QED
    BY <1>2, <1>3, <2>1, ToEval
<1>6. CASE kind = "for"
  <2>1. Onwards(p) = Eval(n, "init") /\ Is(i, Eval(n, "init"))
    BY <1>1, <1>2, <1>6, BeforeIs DEF Block
  <2> QED
    BY <1>2, <1>3, <2>1, ToEval
<1>7. CASE kind = "while"
  <2>1. PICK l : Is(i, Label(l)) /\ Is(i + 1, Eval(n, "cond"))
    BY <1>1, <1>2, <1>7 DEF Block
  <2>2. Onwards(p) = Eval(n, "cond")
    BY <1>1, <1>2, <1>7, BeforeIs
  <2>3. Leads(i, i + 1)
    BY <1>1, <2>1, LabelLeads
  <2> QED
    BY <1>2, <1>3, <2>1, <2>2, <2>3, ToEval
<1>8. CASE kind = "comp" /\ tree[n].kids = << >>
  <2>1. Onwards(p) = Place("after", n) /\ f[n] = i
    BY <1>1, <1>2, <1>8, BeforeIs DEF Block
  <2>2. Rank(p) < Rank(Place("after", n)) /\ Place("after", n) \in Places /\ f[n] = Position(b, f, Place("after", n))
    BY <1>1, <1>2, Order, PlacesOf, PositionIs
  <2> QED
    BY <1>1, <1>2, <1>3, <2>1, <2>2, ToPlace
<1>9. ASSUME (kind = "comp" /\ tree[n].kids # << >>) \/ kind \in {"do", "forever"} \cup Labelled
      PROVE  /\ Onwards(p) = Place("before", Body(n)) /\ Body(n) \in Nodes /\ Place("before", Body(n)) \in Places
             /\ b[Body(n)] = Position(b, f, Place("before", Body(n))) /\ b[Body(n)] \in 1 .. Len(code)
             /\ Rank(p) < Rank(Place("before", Body(n)))
  <2>1. Onwards(p) = Place("before", Body(n))
    BY <1>1, <1>2, <1>9, BeforeIs
  <2>2. Body(n) \in Nodes /\ n < Body(n)
    BY <1>2, <1>9, BodyIs DEF Loops
  <2>3. Rank(p) < Rank(Place("before", Body(n)))
    BY <1>1, <1>2, <2>2, Order
  <2> QED
    BY <1>1, <2>1, <2>2, <2>3, PlacesOf, PositionIs DEF Printout
<1>10. CASE kind = "comp" /\ tree[n].kids # << >>
  <2>1. b[Body(n)] = i
    BY <1>1, <1>2, <1>10 DEF Block
  <2> QED
    BY <1>2, <1>3, <1>9, <1>10, <2>1, ToPlace
<1>11. CASE kind \in {"do", "forever"} \cup Labelled
  <2>1. PICK l : Is(i, Label(l)) /\ b[Body(n)] = i + 1
    BY <1>1, <1>2, <1>11 DEF Block
  <2>2. Leads(i, i + 1)
    BY <1>1, <2>1, LabelLeads
  <2> QED
    BY <1>2, <1>3, <1>9, <1>11, <2>1, <2>2, ToPlace
<1>12. CASE kind = "goto"
  <2>1. PICK m : m = CHOOSE x \in LabelsNamed(tree[n].ident) : TRUE
    OBVIOUS
  <2>2. m = tree[n].target /\ m \in Nodes /\ tree[m].kind = "label"
    <3>1. tree[n].target \in OfKind({"label"}) /\ tree[tree[n].target].ident = tree[n].ident
      BY <1>2, <1>12 DEF Known, Whole, OfKind
    <3>2. DOMAIN tree = Nodes
      BY <1>1 DEF Shape, IsSeq, Nodes
    <3>3. tree[n].target \in LabelsNamed(tree[n].ident) /\ LabelsNamed(tree[n].ident) \subseteq OfKind({"label"})
      BY <3>1, <3>2 DEF LabelsNamed, OfKind
    <3>4. m \in OfKind({"label"}) /\ tree[m].ident = tree[n].ident
      BY <2>1, <3>3 DEF LabelsNamed
    <3>5. m = tree[n].target
      BY <3>1, <3>4 DEF Known, Labels
    <3> QED
      BY <3>4, <3>5 DEF OfKind
  <2>3. Onwards(p) = Place("before", m) /\ Is(i, Jump(tree[m].label_no))
    BY <1>1, <1>2, <1>12, <2>1, <2>2, BeforeIs DEF Block
  <2>4. Is(b[m], Label(tree[m].label_no)) /\ b[m] \in 1 .. Len(code)
    BY <2>2 DEF Printout, Block, Labelled
  <2>5. Leads(i, b[m])
    BY <1>1, <2>3, <2>4, JumpLeads
  <2>6. Place("before", m) \in Places /\ b[m] = Position(b, f, Place("before", m))
    BY <1>1, <2>2, PlacesOf, PositionIs
  <2> QED
    BY <1>2, <1>3, <2>3, <2>4, <2>5, <2>6, ToPlace
<1>13. CASE kind = "break"
  <2>1. PICK t : t = tree[n].target
    OBVIOUS
  <2>2. t = Innermost(n, Breakable) /\ t \in OfKind(Breakable)
    BY <1>2, <1>13, <2>1 DEF Known, Targeted, Referred
  <2>3. Onwards(p) = Place("after", t) /\ Is(i, Jump(tree[t].label_break))
    <3>1. Onwards(p) = Place("after", t)
      BY <1>1, <1>2, <1>13, <2>1, <2>2, BeforeIs
    <3>2. Is(i, Jump(tree[t].label_break))
      BY <1>1, <1>2, <1>13, <2>1 DEF Block
    <3> QED
      BY <3>1, <3>2
  <2>4. t \in Nodes /\ Is(f[t] - 1, Label(tree[t].label_break)) /\ Leads(f[t] - 1, f[t])
    BY <2>2, BreaksTo
  <2>5. Leads(i, f[t])
    <3>1. Leads(i, f[t] - 1)
      BY <1>1, <2>3, <2>4, JumpLeads
    <3> QED
      BY <2>4, <3>1, LeadsThen
  <2>6. Place("after", t) \in Places /\ f[t] = Position(b, f, Place("after", t)) /\ f[t] \in 1 .. Len(code)
    BY <1>1, <2>4, PlacesOf, PositionIs DEF Printout
  <2> QED
    BY <1>2, <1>3, <2>3, <2>5, <2>6, ToPlace
<1>14. CASE kind = "continue"
  <2>1. PICK t : t = tree[n].target
    OBVIOUS
  <2>2. t = Innermost(n, Loops) /\ t \in OfKind(Loops) /\ t \in OfKind(Breakable)
    BY <1>2, <1>14, <2>1 DEF Known, Targeted, Referred, OfKind, Breakable
  <2>3. Onwards(p) = Place("again", t) /\ Is(i, Jump(tree[t].label_continue))
    <3>1. Onwards(p) = Place("again", t)
      BY <1>1, <1>2, <1>14, <2>1, <2>2, BeforeIs
    <3>2. Is(i, Jump(tree[t].label_continue))
      BY <1>1, <1>2, <1>14, <2>1 DEF Block
    <3> QED
      BY <3>1, <3>2
  <2>4. PICK j : j = Position(b, f, Place("again", t))
    OBVIOUS
  <2>5. Is(j, Label(tree[t].label_continue)) /\ t \in Nodes
    BY <2>2, <2>4, BreaksTo
  <2>6. Leads(i, j)
    BY <1>1, <2>3, <2>5, JumpLeads
  <2>7. Place("again", t) \in Places /\ j \in 1 .. Len(code)
    BY <1>1, <2>2, <2>5, PlacesOf DEF OfKind, Is
  <2> QED
    BY <1>2, <1>3, <2>3, <2>4, <2>6, <2>7, ToPlace
<1> QED
  BY <1>1, <1>2, <1>4, <1>5, <1>6, <1>7, <1>8, <1>10, <1>11, <1>12, <1>13, <1>14 DEF AllKinds, Labelled

LEMMA AgainAdvances ==
  ASSUME Known, NEW b, NEW f, Printout(b, f), NEW n \in OfKind(Loops)
  PROVE  Advances(b, f, Place("again", n))
<1>1. n \in Nodes /\ tree[n].kind \in Loops /\ Shape
  BY DEF OfKind, Known
<1>2. /\ IsSeq(code) /\ Once /\ Block(b, f, n) /\ Body(n) \in Nodes
      /\ b[Body(n)] \in 1 .. Len(code)
  BY <1>1, BodyIs DEF Printout
<1>3. PICK p, i, e, kind : p = Place("again", n) /\ i = b[n] /\ e = f[Body(n)] /\ kind = tree[n].kind
  OBVIOUS
<1>4. Position(b, f, p) = IF kind = "while" THEN i ELSE e
  BY <1>3, PositionIs
<1>5. CASE kind = "while"
  <2>1. PICK l : Is(i, Label(l)) /\ Is(i + 1, Eval(n, "cond"))
    BY <1>2, <1>3, <1>5 DEF Block
  <2>2. Onwards(p) = Eval(n, "cond") /\ Leads(i, i + 1)
    BY <1>1, <1>2, <1>3, <1>5, <2>1, AgainIs, LabelLeads
  <2> QED
    BY <1>3, <1>4, <1>5, <2>1, <2>2, ToEval
<1>6. CASE kind = "do"
  <2>1. PICK l : Is(e, Label(l + 1)) /\ Is(e + 1, Eval(n, "cond"))
    BY <1>2, <1>3, <1>6 DEF Block
  <2>2. Onwards(p) = Eval(n, "cond") /\ Leads(e, e + 1)
    BY <1>1, <1>2, <1>3, <1>6, <2>1, AgainIs, LabelLeads
  <2> QED
    BY <1>3, <1>4, <1>6, <2>1, <2>2, ToEval
<1>7. CASE kind = "for"
  <2>1. PICK l : Is(e, Label(l + 1)) /\ Is(e + 1, Eval(n, "after"))
    BY <1>2, <1>3, <1>7 DEF Block
  <2>2. Onwards(p) = Eval(n, "after") /\ Leads(e, e + 1)
    BY <1>1, <1>2, <1>3, <1>7, <2>1, AgainIs, LabelLeads
  <2> QED
    BY <1>3, <1>4, <1>7, <2>1, <2>2, ToEval
<1>8. CASE kind = "forever"
  <2>1. PICK l : Is(i, Label(l)) /\ b[Body(n)] = i + 1 /\ Is(e, Label(l + 1)) /\ Is(e + 1, Jump(l))
    BY <1>2, <1>3, <1>8 DEF Block
  <2>2. Leads(e, e + 1) /\ Leads(e + 1, i) /\ Leads(i, i + 1)
    BY <1>2, <2>1, LabelLeads, JumpLeads
  <2>3. Leads(e, i + 1)
    BY <2>2, LeadsThen
  <2>4. Onwards(p) = Place("before", Body(n)) /\ Place("before", Body(n)) \in Places
    BY <1>1, <1>2, <1>3, <1>8, AgainIs, PlacesOf
  <2>5. b[Body(n)] = Position(b, f, Place("before", Body(n)))
    BY PositionIs
  <2> QED
    BY <1>2, <1>3, <1>4, <1>8, <2>1, <2>3, <2>4, <2>5, ToPlace
<1> QED
  BY <1>1, <1>3, <1>5, <1>6, <1>7, <1>8 DEF Loops

LEMMA AfterAdvances ==
  ASSUME Known, NEW b, NEW f, Printout(b, f), NEW n \in Nodes
  PROVE  Advances(b, f, Place("after", n))
<1>1. /\ IsSeq(code) /\ Once /\ Shape /\ b[n] \in 1 .. Len(code) /\ f[n] \in 1 .. Len(code)
  BY DEF Printout, Known
<1>2. PICK p, q, i : q = Place("after", n) /\ p = Parent(n) /\ i = f[n]
  OBVIOUS
<1>3. i = Position(b, f, q) /\ i \in Nat
  BY <1>1, <1>2, PositionIs
<1>4. CASE p = 0
  <2>1. n = 1
    BY <1>1, <1>2, <1>4, KidsOf
  <2>2. Is(i, Label(label_return)) /\ Is(i + 1, EndOfFunction)
    BY <1>2, <2>1 DEF Printout
  <2>3. Leads(i, i + 1)
    BY <1>1, <2>2, LabelLeads
  <2>4. Onwards(q) = EndOfFunction
    BY <1>1, <1>2, <1>4, AfterIs
  <2> QED
    BY <1>2, <1>3, <2>2, <2>3, <2>4, ToEval DEF EndOfFunction
<1>5. ASSUME p # 0
      PROVE  /\ p \in Nodes /\ Block(b, f, p) /\ tree[p].kind \in AllKinds
             /\ p < n /\ LastIn(n) <= LastIn(p)
             /\ \A m \in Nodes : Parent(m) = p /\ n < m => LastIn(n) < m
             /\ tree[p].kind # "comp" =>
                  /\ tree[p].kind \in {"if", "ifelse", "switch"} \cup Loops \cup Labelled
                  /\ n = Body(p) \/ (tree[p].kind = "ifelse" /\ n = tree[p].kids[2])
             /\ b[p] \in 1 .. Len(code) /\ f[p] \in 1 .. Len(code)
             /\ Place("after", p) \in Places /\ f[p] = Position(b, f, Place("after", p))
             /\ Rank(q) < Rank(Place("after", p))
  <2>1. p \in Nodes
    BY <1>1, <1>2, <1>5, KidsOf
  <2>2. p < n /\ LastIn(n) <= LastIn(p) /\ \A m \in Nodes : Parent(m) = p /\ n < m => LastIn(n) < m
    BY <1>1, <1>2, <2>1, KidsApart
  <2>3. Rank(q) < Rank(Place("after", p))
    BY <1>1, <1>2, <2>1, <2>2, Order
  <2> QED
    BY <1>1, <1>2, <2>1, <2>2, <2>3, BodyIs, PlacesOf, PositionIs DEF Printout
<1>6. CASE p # 0 /\ tree[p].kind \in Loops
  <2>1. Onwards(q) = Place("again", p)
    BY <1>1, <1>2, <1>6, AfterIs
  <2>2. n = Body(p)
    BY <1>5, <1>6 DEF Loops
  <2>3. Place("again", p) \in Places
    BY <1>1, <1>5, <1>6, PlacesOf
  <2>4. CASE tree[p].kind = "while"
    <3>1. PICK l : Is(b[p], Label(l)) /\ Is(i, Jump(l))
      BY <1>2, <1>5, <1>6, <2>2, <2>4 DEF Block
    <3>2. Leads(i, b[p])
      BY <1>1, <3>1, JumpLeads
    <3>3. b[p] = Position(b, f, Place("again", p))
      BY <2>4, PositionIs
    <3> QED
      BY <1>2, <1>3, <1>5, <1>6, <2>1, <2>3, <3>2, <3>3, ToPlace
  <2>5. CASE tree[p].kind # "while"
    <3>1. i = Position(b, f, Place("again", p))
      BY <1>2, <2>2, <2>5, PositionIs
    <3>2. Rank(q) < Rank(Place("again", p))
      BY <1>1, <1>2, <1>5, <1>6, Order
    <3> QED
      BY <1>1, <1>2, <1>3, <2>1, <2>3, <3>1, <3>2, ToPlace
  <2> QED
    BY <2>4, <2>5
<1>7. CASE p # 0 /\ tree[p].kind = "comp"
  <2>1. PICK s, c : s = tree[p].kids /\ c = Len(s)
    OBVIOUS
  <2>2. /\ c \in Nat /\ DOMAIN s = 1 .. c
        /\ \A j \in 1 .. c : s[j] \in Nodes /\ Parent(s[j]) = p
        /\ \A j, k \in 1 .. c : j < k => s[j] < s[k]
    BY <1>1, <1>5, <1>7, <2>1, KidsOf
  <2>3. PICK j \in 1 .. c : s[j] = n
    BY <1>1, <1>2, <1>7, <2>1, KidsOf
  <2>4. Onwards(q) = IF j < c THEN Place("before", s[j + 1]) ELSE Place("after", p)
    BY <1>1, <1>2, <1>7, <2>1, <2>3, AfterIs
  <2>5. CASE j < c
    <3>1. j + 1 \in 1 .. c /\ j \in 1 .. c - 1 /\ j < j + 1
      BY <2>2, <2>3, <2>5
    <3>2. s[j + 1] \in Nodes /\ Parent(s[j + 1]) = p /\ n < s[j + 1]
      BY <2>2, <2>3, <3>1
    <3>3. b[s[j + 1]] = i
      BY <1>2, <1>5, <1>7, <2>1, <2>3, <3>1 DEF Block
    <3>4. Rank(q) < Rank(Place("before", s[j + 1]))
      <4>1. LastIn(n) < s[j + 1]
        BY <1>5, <1>7, <3>2
      <4> QED
        BY <1>1, <1>2, <3>2, <4>1, Order
    <3>5. Place("before", s[j + 1]) \in Places /\ i = Position(b, f, Place("before", s[j + 1]))
      BY <1>1, <3>2, <3>3, PlacesOf, PositionIs
    <3> QED
      BY <1>1, <1>2, <1>3, <2>4, <2>5, <3>4, <3>5, ToPlace
  <2>6. CASE ~ (j < c)
    <3>1. j = c /\ s # << >>
      BY <2>2, <2>3, <2>6
    <3>2. f[p] = i
      BY <1>2, <1>5, <1>7, <2>1, <2>3, <3>1 DEF Block
    <3> QED
      BY <1>1, <1>2, <1>3, <1>5, <1>7, <2>4, <2>6, <3>2, ToPlace
  <2> QED
    BY <2>5, <2>6
<1>8. CASE p # 0 /\ tree[p].kind \notin Loops \cup {"comp"}
  <2>1. Onwards(q) = Place("after", p)
    BY <1>1, <1>2, <1>8, AfterIs
  <2>2. tree[p].kind \in {"if", "ifelse", "switch"} \cup Labelled
    BY <1>5, <1>8
  <2>3. Leads(i, f[p]) => Advances(b, f, q)
    BY <1>2, <1>3, <1>5, <1>8, <2>1, ToPlace
  <2>4. CASE tree[p].kind = "if"
    <3>1. PICK l : Is(i, Jump(l + 1)) /\ Is(i + 2, Label(l + 1)) /\ f[p] = i + 3
      BY <1>2, <1>5, <1>8, <2>4 DEF Block
    <3>2. Leads(i, i + 2) /\ Leads(i + 2, (i + 2) + 1)
      BY <1>1, <3>1, JumpLeads, LabelLeads
    <3>3. (i + 2) + 1 = f[p]
      BY <1>3, <3>1
    <3>4. Leads(i, f[p])
      BY <3>2, <3>3, LeadsThen
    <3> QED
      BY <1>2, <2>3, <3>4
  <2>5. CASE tree[p].kind = "ifelse"
    <3>1. PICK l, e, k : /\ e = f[Body(p)] /\ k = tree[p].kids[2] /\ Is(e, Jump(l + 1))
                         /\ Is(f[k], Label(l + 1)) /\ f[p] = f[k] + 1
      BY <1>5, <1>8, <2>5 DEF Block
    <3>2. Leads(f[k], f[k] + 1) /\ Leads(e, f[k])
      BY <1>1, <3>1, JumpLeads, LabelLeads
    <3>3. Leads(e, f[p]) /\ Leads(f[k], f[p])
      BY <3>1, <3>2, LeadsThen
    <3>4. i = e \/ i = f[k]
      BY <1>2, <1>5, <1>8, <2>5, <3>1
    <3> QED
      BY <1>2, <2>3, <3>3, <3>4
  <2>6. CASE tree[p].kind = "switch"
    <3>1. Is(i, Label(tree[p].label_break)) /\ f[p] = i + 1
      BY <1>2, <1>5, <1>8, <2>6 DEF Block
    <3>2. Leads(i, f[p])
      BY <1>1, <3>1, LabelLeads
    <3> QED
      BY <1>2, <2>3, <3>2
  <2>7. CASE tree[p].kind \in Labelled
    <3>1. f[p] = i
      BY <1>2, <1>5, <1>8, <2>7 DEF Block, Labelled
    <3> QED
      BY <1>1, <1>2, <1>3, <1>5, <1>8, <2>1, <3>1, ToPlace
  <2> QED
    BY <2>2, <2>4, <2>5, <2>6, <2>7
<1> QED
  BY <1>4, <1>6, <1>7, <1>8

(* So the machine follows control. *)
LEMMA Follows1 ==
  ASSUME Known, NEW b, NEW f, Printout(b, f)
  PROVE  Follow(b, f)
<1>1. Shape /\ IsSeq(code) /\ grammar.nodes \in Nat /\ Len(tree) <= grammar.nodes /\ Len(tree) \in Nat
  BY DEF Known, Small, Printout, Shape, IsSeq
<1>2. \A n \in Nodes : /\ Advances(b, f, Place("before", n)) /\ Advances(b, f, Place("after", n))
                       /\ Position(b, f, Place("before", n)) \in 1 .. Len(code)
                       /\ Position(b, f, Place("after", n)) \in 1 .. Len(code)
                       /\ Rank(Place("before", n)) \in 0 .. Width * Width
                       /\ Rank(Place("after", n)) \in 0 .. Width * Width
  BY <1>1, BeforeAdvances, AfterAdvances, PositionIs, Order DEF Printout
<1>3. \A n \in OfKind(Loops) : /\ Advances(b, f, Place("again", n))
                               /\ Position(b, f, Place("again", n)) \in 1 .. Len(code)
                               /\ Rank(Place("again", n)) \in 0 .. Width * Width
  <2> TAKE n \in OfKind(Loops)
  <2>1. n \in Nodes /\ tree[n].kind \in Loops
    BY DEF OfKind
  <2>2. Body(n) \in Nodes
    BY <2>1, BodyIs
  <2>3. Advances(b, f, Place("again", n))
    BY AgainAdvances
  <2>4. Position(b, f, Place("again", n)) \in 1 .. Len(code)
    <3>1. b[n] \in 1 .. Len(code) /\ f[Body(n)] \in 1 .. Len(code)
      BY <2>1, <2>2 DEF Printout
    <3> QED
      BY <3>1, PositionIs
  <2>5. Rank(Place("again", n)) \in 0 .. Width * Width
    BY <1>1, <2>1, Order
  <2> QED
    BY <2>3, <2>4, <2>5
<1>4. ASSUME NEW p \in Places
      PROVE  /\ Position(b, f, p) \in 1 .. Len(code) /\ Rank(p) \in 0 .. Width * Width
             /\ Advances(b, f, p)
  <2>1. CASE p \in {Place(w, n) : w \in {"before", "after"}, n \in Nodes}
    BY <1>2, <2>1
  <2>2. CASE p \in {Place("again", n) : n \in OfKind(Loops)}
    BY <1>3, <2>2
  <2> QED
    BY <2>1, <2>2 DEF Places
<1>5. Width * Width \in Nat
  BY <1>1 DEF Width
<1>6. \A e \in Evals : ~ IsPlace(e)
  <2>1. \A n, w : ~ IsPlace(Eval(n, w))
    BY DEF IsPlace, Eval
  <2> QED
    BY <2>1 DEF Evals, Printout, EndOfFunction
<1> QED
  BY <1>1, <1>4, <1>5, <1>6 DEF Follow

-----------------------------------------------------------------------------
(* From an evaluation to the next. *)
LEMMA RunsAt ==
  ASSUME Known, NEW b, NEW f, Printout(b, f), NEW i \in 1 .. Len(code), NEW v, NEW p \in Places, NEW j,
         j = Position(b, f, p), i = j \/ Leads(i, j) \/ \E c : Reaches(Machine(v), i, j, c)
  PROVE  Runs(i, v) = Arrive(p)
<1>1. Follow(b, f) /\ i \in Spots
  <2>1. Len(code) \in Nat
    BY DEF Printout, IsSeq
  <2> QED
    BY <2>1, Follows1 DEF Spots
<1>2. \E c : Reaches(Machine(v), i, j, c)
  BY ReachesNone DEF Leads
<1> QED
  BY <1>1, <1>2, RunsArrives

LEMMA RunsEval ==
  ASSUME IsSeq(code), NEW i \in 1 .. Len(code), NEW v, NEW j, NEW m, NEW w, Is(j, Eval(m, w)),
         Leads(i, j)
  PROVE  Runs(i, v) = Eval(m, w)
<1>1. i \in Spots /\ j \in 1 .. Len(code) /\ code[j] = Eval(m, w) /\ Len(code) \in Nat
  BY DEF IsSeq, Spots, Is
<1>2. Halts(j)
  BY <1>1, ItemFields DEF Halts
<1>3. PICK c : Reaches(Machine(v), i, j, c)
  BY DEF Leads
<1> QED
  BY <1>1, <1>2, <1>3, RunsTo

LEMMA OnlyAt ==
  ASSUME IsSeq(code), Once, NEW i \in 1 .. Len(code), NEW j, NEW n, NEW w, code[i] = Eval(n, w), Is(j, Eval(n, w))
  PROVE  i = j
<1>1. i \in DOMAIN code /\ j \in DOMAIN code /\ code[i] = code[j] /\ code[i].do \in {"label", "eval"}
  BY ItemFields DEF Is, IsSeq
<1> QED
  BY <1>1 DEF Once

LEMMA FollowsIs ==
  ASSUME NEW n, NEW w, NEW v
  PROVE  /\ w = "return" => Follows(Eval(n, w), v) = EndOfFunction
         /\ w = "expr" => Follows(Eval(n, w), v) = Arrive(Place("after", n))
         /\ w \in {"init", "after"} => Follows(Eval(n, w), v) = Eval(n, "cond")
         /\ w = "cond" /\ tree[n].kind # "switch" =>
              Follows(Eval(n, w), v) = Arrive(IF v = 1 THEN Place("before", Body(n))
                                              ELSE IF tree[n].kind = "ifelse" THEN Place("before", tree[n].kids[2])
                                              ELSE Place("after", n))
         /\ w = "cond" /\ tree[n].kind = "switch" =>
              Follows(Eval(n, w), v) =
                Arrive(IF v # 0 THEN Place("before", v)
                       ELSE IF CasesOf(n, "default") # {}
                         THEN Place("before", CHOOSE m \in CasesOf(n, "default") : TRUE)
                       ELSE Place("after", n))
         /\ w # "cond" => Values(Eval(n, w)) = {0}
         /\ w = "cond" /\ tree[n].kind # "switch" => Values(Eval(n, w)) = {0, 1}
         /\ w = "cond" /\ tree[n].kind = "switch" => Values(Eval(n, w)) = {0} \cup CasesOf(n, "case")
<1>1. PICK e : e = Eval(n, w) /\ e.at = n /\ e.part = w
  BY ItemFields
<1>2. /\ w # "cond" => Values(e) = {0}
      /\ w = "cond" /\ tree[n].kind # "switch" => Values(e) = {0, 1}
      /\ w = "cond" /\ tree[n].kind = "switch" => Values(e) = {0} \cup CasesOf(n, "case")
  BY <1>1 DEF Values
<1>3. /\ w = "return" => Follows(e, v) = EndOfFunction
      /\ w = "expr" => Follows(e, v) = Arrive(Place("after", n))
      /\ w \in {"init", "after"} => Follows(e, v) = Eval(n, "cond")
  BY <1>1 DEF Follows
<1>4. ASSUME w = "cond", tree[n].kind # "switch"
      PROVE  Follows(e, v) = Arrive(IF v = 1 THEN Place("before", Body(n))
                                    ELSE IF tree[n].kind = "ifelse" THEN Place("before", tree[n].kids[2])
                                    ELSE Place("after", n))
  BY <1>1, <1>4 DEF Follows, Body
<1>5. ASSUME w = "cond", tree[n].kind = "switch"
      PROVE  Follows(e, v) =
                Arrive(IF v # 0 THEN Place("before", v)
                       ELSE IF CasesOf(n, "default") # {}
                         THEN Place("before", CHOOSE m \in CasesOf(n, "default") : TRUE)
                       ELSE Place("after", n))
  BY <1>1, <1>5 DEF Follows
<1> QED
  BY <1>1, <1>2, <1>3, <1>4, <1>5

LEMMA PlainFollows ==
  ASSUME Known, NEW b, NEW f, Printout(b, f), NEW n \in Nodes, NEW w \in Parts(tree[n].kind), w # "cond",
         NEW i \in 1 .. Len(code), code[i] = Eval(n, w)
  PROVE  \A v \in Values(code[i]) : Runs(i + 1, v) = Follows(code[i], v)
<1>1. /\ IsSeq(code) /\ Once /\ Block(b, f, n) /\ b[n] \in Nat /\ b[n] \in 1 .. Len(code) /\ Shape
      /\ f[n] \in 1 .. Len(code) /\ Len(code) \in Nat
  BY DEF Printout, Known, IsSeq
<1>2. SUFFICES ASSUME NEW v
               PROVE  Runs(i + 1, v) = Follows(Eval(n, w), v)
  OBVIOUS
<1>3. CASE tree[n].kind = "expr"
  <2>1. w = "expr"
    BY <1>3 DEF Parts
  <2>2. Is(b[n], Eval(n, w)) /\ f[n] = b[n] + 1
    BY <1>1, <1>3, <2>1 DEF Block
  <2>3. i = b[n]
    BY <1>1, <2>2, OnlyAt
  <2>4. Place("after", n) \in Places /\ f[n] = Position(b, f, Place("after", n))
    BY <1>1, PlacesOf, PositionIs
  <2>5. i + 1 = f[n]
    BY <2>2, <2>3
  <2>6. Runs(f[n], v) = Arrive(Place("after", n))
    BY <1>1, <2>4, RunsAt
  <2> QED
    BY <2>1, <2>5, <2>6, FollowsIs
<1>4. CASE tree[n].kind = "return"
  <2>1. w = "return"
    BY <1>4 DEF Parts
  <2>2. Is(b[n], Eval(n, w)) /\ Is(b[n] + 1, Jump(label_return))
    BY <1>1, <1>4, <2>1 DEF Block
  <2>3. i = b[n]
    BY <1>1, <2>2, OnlyAt
  <2>4. Is(f[1], Label(label_return)) /\ Is(f[1] + 1, EndOfFunction)
    BY DEF Printout
  <2>5. Leads(i + 1, f[1] + 1)
    BY <1>1, <2>2, <2>3, <2>4, JumpLeads, LabelLeads, LeadsThen
  <2>6. Runs(i + 1, v) = EndOfFunction
    BY <1>1, <2>2, <2>3, <2>4, <2>5, RunsEval DEF EndOfFunction, Is
  <2> QED
    BY <2>1, <2>6, FollowsIs
<1>5. CASE tree[n].kind = "for"
  <2>1. PICK l, e : /\ e = f[Body(n)]
                    /\ Is(b[n], Eval(n, "init")) /\ Is(b[n] + 1, Label(l)) /\ Is(b[n] + 2, Eval(n, "cond"))
                    /\ Is(e + 1, Eval(n, "after")) /\ Is(e + 2, Jump(l))
    BY <1>1, <1>5 DEF Block
  <2>2. Leads(b[n] + 1, b[n] + 2)
    <3>1. Leads(b[n] + 1, (b[n] + 1) + 1)
      BY <1>1, <2>1, LabelLeads
    <3>2. (b[n] + 1) + 1 = b[n] + 2
      BY <1>1
    <3> QED
      BY <3>1, <3>2
  <2>3. CASE w = "init"
    <3>1. i = b[n]
      BY <1>1, <2>1, <2>3, OnlyAt
    <3>2. Runs(i + 1, v) = Eval(n, "cond")
      BY <1>1, <2>1, <2>2, <3>1, RunsEval DEF Is
    <3> QED
      BY <2>3, <3>2, FollowsIs
  <2>4. CASE w = "after"
    <3>1. i = e + 1
      BY <1>1, <2>1, <2>4, OnlyAt
    <3>2. i + 1 = e + 2
      <4>1. Body(n) \in Nodes
        BY <1>5, BodyIs DEF Loops
      <4>2. e \in Nat
        BY <2>1, <4>1 DEF Printout
      <4> QED
        BY <3>1, <4>2
    <3>3. Leads(i + 1, b[n] + 2)
      BY <1>1, <2>1, <2>2, <3>2, JumpLeads, LeadsThen
    <3>4. Runs(i + 1, v) = Eval(n, "cond")
      BY <1>1, <2>1, <3>2, <3>3, RunsEval DEF Is
    <3> QED
      BY <2>4, <3>4, FollowsIs
  <2> QED
    BY <1>5, <2>3, <2>4 DEF Parts
<1> QED
  BY <1>3, <1>4, <1>5 DEF Parts

LEMMA ReachesLeads ==
  ASSUME NEW v, NEW i, NEW j, NEW k, NEW c, Reaches(Machine(v), i, j, c), Leads(j, k)
  PROVE  \E d : Reaches(Machine(v), i, k, d)
<1>1. PICK d : Reaches(Machine(v), j, k, d)
  BY DEF Leads
<1> QED
  BY <1>1, ReachesThen

LEMMA CondFollows ==
  ASSUME Known, NEW b, NEW f, Printout(b, f), NEW n \in Nodes,
         tree[n].kind \in {"if", "ifelse", "while", "do", "for"},
         NEW i \in 1 .. Len(code), code[i] = Eval(n, "cond"), NEW v \in {0, 1}
  PROVE  Runs(i + 1, v) = Follows(code[i], v)
<1>1. /\ IsSeq(code) /\ Once /\ Block(b, f, n) /\ b[n] \in Nat /\ Shape /\ f[n] \in Nat
      /\ Body(n) \in Nodes /\ f[Body(n)] \in Nat /\ b[Body(n)] \in Nat
  BY BodyIs DEF Printout, Known, Loops
<1>2. PICK p, e, k : p = b[n] /\ e = f[Body(n)] /\ k = tree[n].kids[2]
  OBVIOUS
<1>3. p \in Nat /\ e \in Nat
  BY <1>1, <1>2
<1>4. /\ Place("before", Body(n)) \in Places /\ Place("after", n) \in Places
      /\ Position(b, f, Place("before", Body(n))) = b[Body(n)] /\ Position(b, f, Place("after", n)) = f[n]
  BY <1>1, PlacesOf, PositionIs
<1>5. SUFFICES /\ i + 1 \in 1 .. Len(code)
               /\ v = 1 => \E c : Reaches(Machine(v), i + 1, b[Body(n)], c)
               /\ v = 0 /\ tree[n].kind # "ifelse" => \E c : Reaches(Machine(v), i + 1, f[n], c)
               /\ v = 0 /\ tree[n].kind = "ifelse" => \E c : Reaches(Machine(v), i + 1, b[k], c)
  <2>1. i + 1 \in 1 .. Len(code)
    BY <1>5
  <2>2. CASE v = 1
    <3>1. Runs(i + 1, v) = Arrive(Place("before", Body(n)))
      BY <1>4, <1>5, <2>1, <2>2, RunsAt
    <3> QED
      BY <2>2, <3>1, FollowsIs
  <2>3. CASE v = 0 /\ tree[n].kind # "ifelse"
    <3>1. Runs(i + 1, v) = Arrive(Place("after", n))
      BY <1>4, <1>5, <2>1, <2>3, RunsAt
    <3>2. Follows(Eval(n, "cond"), v) = Arrive(Place("after", n))
      <4>1. v # 1 /\ tree[n].kind # "switch" /\ tree[n].kind # "ifelse"
        BY <2>3
      <4> QED
        BY <4>1, FollowsIs
    <3> QED
      BY <3>1, <3>2
  <2>4. CASE v = 0 /\ tree[n].kind = "ifelse"
    <3>1. Place("before", k) \in Places /\ Position(b, f, Place("before", k)) = b[k]
      BY <1>1, <1>2, <2>4, BodyIs, PlacesOf, PositionIs
    <3>2. Runs(i + 1, v) = Arrive(Place("before", k))
      BY <1>5, <2>1, <2>4, <3>1, RunsAt
    <3>3. Follows(Eval(n, "cond"), v) = Arrive(Place("before", k))
      <4>1. v # 1 /\ tree[n].kind # "switch"
        BY <2>4
      <4> QED
        BY <1>2, <2>4, <4>1, FollowsIs, ZenonT(60)
    <3> QED
      BY <3>2, <3>3
  <2> QED
    BY <2>2, <2>3, <2>4
<1>6. CASE tree[n].kind = "if"
  <2>1. PICK l : /\ Is(p, Eval(n, "cond")) /\ Is(p + 1, Je(l)) /\ b[Body(n)] = p + 2
                 /\ Is(e + 1, Label(l)) /\ Is(e + 2, Label(l + 1)) /\ f[n] = e + 3
    BY <1>1, <1>2, <1>6 DEF Block
  <2>2. i = p
    BY <1>1, <2>1, OnlyAt
  <2>3. Reaches(Machine(v), i + 1, IF v = 0 THEN e + 1 ELSE (i + 1) + 1, 1)
    BY <1>1, <2>1, <2>2, BranchReaches
  <2>4. Leads(e + 1, f[n])
    <3>1. Leads(e + 1, (e + 1) + 1) /\ Leads(e + 2, (e + 2) + 1)
      BY <1>1, <2>1, LabelLeads
    <3>2. (e + 1) + 1 = e + 2 /\ (e + 2) + 1 = f[n]
      BY <1>3, <2>1
    <3> QED
      BY <3>1, <3>2, LeadsThen
  <2>5. (i + 1) + 1 = b[Body(n)]
    BY <1>3, <2>1, <2>2
  <2>6. v = 0 => \E c : Reaches(Machine(v), i + 1, f[n], c)
    BY <2>3, <2>4, ReachesLeads
  <2> QED
    BY <1>6, <2>1, <2>2, <2>3, <2>5, <2>6 DEF Is
<1>7. CASE tree[n].kind = "ifelse"
  <2>1. PICK l : /\ Is(p, Eval(n, "cond")) /\ Is(p + 1, Je(l)) /\ b[Body(n)] = p + 2
                 /\ Is(e + 1, Label(l)) /\ b[k] = e + 2
    BY <1>1, <1>2, <1>7 DEF Block
  <2>2. i = p
    BY <1>1, <2>1, OnlyAt
  <2>3. Reaches(Machine(v), i + 1, IF v = 0 THEN e + 1 ELSE (i + 1) + 1, 1)
    BY <1>1, <2>1, <2>2, BranchReaches
  <2>4. Leads(e + 1, b[k])
    <3>1. Leads(e + 1, (e + 1) + 1)
      BY <1>1, <2>1, LabelLeads
    <3>2. (e + 1) + 1 = b[k]
      BY <1>3, <2>1
    <3> QED
      BY <3>1, <3>2
  <2>5. (i + 1) + 1 = b[Body(n)]
    BY <1>3, <2>1, <2>2
  <2>6. v = 0 => \E c : Reaches(Machine(v), i + 1, b[k], c)
    BY <2>3, <2>4, ReachesLeads
  <2> QED
    BY <1>7, <2>1, <2>2, <2>3, <2>5, <2>6 DEF Is
<1>8. CASE tree[n].kind = "while"
  <2>1. PICK l : /\ Is(p + 1, Eval(n, "cond")) /\ Is(p + 2, Je(l + 1)) /\ b[Body(n)] = p + 3
                 /\ Is(e + 1, Label(l + 1)) /\ f[n] = e + 2
    BY <1>1, <1>2, <1>8 DEF Block
  <2>2. i = p + 1
    BY <1>1, <2>1, OnlyAt
  <2>3. i + 1 = p + 2 /\ (i + 1) + 1 = b[Body(n)]
    BY <1>3, <2>1, <2>2
  <2>4. Reaches(Machine(v), i + 1, IF v = 0 THEN e + 1 ELSE (i + 1) + 1, 1)
    BY <1>1, <2>1, <2>3, BranchReaches
  <2>5. Leads(e + 1, f[n])
    <3>1. Leads(e + 1, (e + 1) + 1)
      BY <1>1, <2>1, LabelLeads
    <3>2. (e + 1) + 1 = f[n]
      BY <1>3, <2>1
    <3> QED
      BY <3>1, <3>2
  <2>6. v = 0 => \E c : Reaches(Machine(v), i + 1, f[n], c)
    BY <2>4, <2>5, ReachesLeads
  <2> QED
    BY <1>8, <2>1, <2>3, <2>4, <2>6 DEF Is
<1>9. CASE tree[n].kind = "do"
  <2>1. PICK l : /\ Is(p, Label(l)) /\ b[Body(n)] = p + 1
                 /\ Is(e + 1, Eval(n, "cond")) /\ Is(e + 2, Jne(l))
                 /\ Is(e + 3, Label(l + 2)) /\ f[n] = e + 4
    BY <1>1, <1>2, <1>9 DEF Block
  <2>2. i = e + 1
    BY <1>1, <2>1, OnlyAt
  <2>3. i + 1 = e + 2 /\ (i + 1) + 1 = e + 3
    BY <1>3, <2>2
  <2>4. Reaches(Machine(v), i + 1, IF v # 0 THEN p ELSE (i + 1) + 1, 1)
    BY <1>1, <2>1, <2>3, BranchReaches
  <2>5. Leads(e + 3, f[n]) /\ Leads(p, b[Body(n)])
    <3>1. Leads(e + 3, (e + 3) + 1) /\ Leads(p, p + 1)
      BY <1>1, <2>1, LabelLeads
    <3>2. (e + 3) + 1 = f[n]
      BY <1>3, <2>1
    <3> QED
      BY <2>1, <3>1, <3>2
  <2>6. v = 0 => \E c : Reaches(Machine(v), i + 1, f[n], c)
    BY <2>3, <2>4, <2>5, ReachesLeads
  <2>7. v = 1 => \E c : Reaches(Machine(v), i + 1, b[Body(n)], c)
    BY <2>4, <2>5, ReachesLeads
  <2> QED
    BY <1>9, <2>1, <2>3, <2>6, <2>7 DEF Is
<1>10. CASE tree[n].kind = "for"
  <2>1. PICK l : /\ Is(p + 2, Eval(n, "cond")) /\ Is(p + 3, Je(l + 2)) /\ b[Body(n)] = p + 4
                 /\ Is(e + 3, Label(l + 2)) /\ f[n] = e + 4
    BY <1>1, <1>2, <1>10 DEF Block
  <2>2. i = p + 2
    BY <1>1, <2>1, OnlyAt
  <2>3. i + 1 = p + 3 /\ (i + 1) + 1 = b[Body(n)]
    BY <1>3, <2>1, <2>2
  <2>4. Reaches(Machine(v), i + 1, IF v = 0 THEN e + 3 ELSE (i + 1) + 1, 1)
    BY <1>1, <2>1, <2>3, BranchReaches
  <2>5. Leads(e + 3, f[n])
    <3>1. Leads(e + 3, (e + 3) + 1)
      BY <1>1, <2>1, LabelLeads
    <3>2. (e + 3) + 1 = f[n]
      BY <1>3, <2>1
    <3> QED
      BY <3>1, <3>2
  <2>6. v = 0 => \E c : Reaches(Machine(v), i + 1, f[n], c)
    BY <2>4, <2>5, ReachesLeads
  <2> QED
    BY <1>10, <2>1, <2>3, <2>4, <2>6 DEF Is
<1> QED
  BY <1>6, <1>7, <1>8, <1>9, <1>10

LEMMA CasesAre ==
  ASSUME Known, NEW n \in Nodes, NEW kind \in CaseKinds
  PROVE  /\ CasesOf(n, kind) = {m \in OfKind(CaseKinds) : tree[m].target = n /\ tree[m].kind = kind}
         /\ Lists(tree[n].cases, {m \in OfKind(CaseKinds) : tree[m].target = n})
<1>1. DOMAIN tree = Nodes
  BY DEF Known, Shape, IsSeq, Nodes
<1>2. ASSUME NEW m \in Nodes, tree[m].kind = kind
      PROVE  Innermost(m, {"switch"}) = tree[m].target
  BY <1>2 DEF Known, Targeted
<1>3. CasesOf(n, kind) = {m \in OfKind(CaseKinds) : tree[m].target = n /\ tree[m].kind = kind}
  BY <1>1, <1>2 DEF CasesOf, OfKind
<1>4. Lists(tree[n].cases, {m \in OfKind(CaseKinds) : tree[m].target = n})
  BY DEF Known, Shape
<1> QED
  BY <1>3, <1>4

LEMMA SwitchFollows ==
  ASSUME Known, NEW b, NEW f, Printout(b, f), NEW n \in Nodes, tree[n].kind = "switch", DefaultLast(n),
         NEW i \in 1 .. Len(code), code[i] = Eval(n, "cond"), NEW v \in {0} \cup CasesOf(n, "case")
  PROVE  Runs(i + 1, v) = Follows(code[i], v)
<1>1. /\ IsSeq(code) /\ Once /\ Block(b, f, n) /\ Shape /\ Len(code) \in Nat
      /\ Nodes = 1 .. Len(tree) /\ Len(tree) \in Nat
  BY KidsOf DEF Printout, Known, IsSeq
<1>2. PICK s, c, S : /\ s = tree[n].cases /\ c = Len(s)
                     /\ S = {m \in OfKind(CaseKinds) : tree[m].target = n}
  OBVIOUS
<1>3. /\ IsSeq(s) /\ c \in Nat /\ DOMAIN s = 1 .. c /\ s # << >>
      /\ \A j \in 1 .. c : s[j] \in Nodes /\ tree[s[j]].kind \in CaseKinds /\ tree[s[j]].target = n
      /\ \A m \in S : \E j \in 1 .. c : s[j] = m
      /\ \A j, k \in 1 .. c : j < k => s[j] < s[k]
      /\ \A j \in 1 .. c : tree[s[j]].kind = "default" <=> j = c
  <2>1. Lists(s, S)
    <3>1. "case" \in CaseKinds
      BY DEF CaseKinds
    <3> QED
      BY <1>2, <3>1, CasesAre
  <2>2. IsSeq(s) /\ c \in Nat /\ DOMAIN s = 1 .. c
    BY <1>2, <2>1 DEF Lists, IsSeq
  <2> QED
    BY <1>2, <2>1, <2>2 DEF Lists, DefaultLast, OfKind
<1>4. c \in 1 .. c
  <2>1. c = 0 => s = << >>
    BY <1>2, <1>3 DEF IsSeq
  <2> QED
    BY <1>3, <2>1
<1>5. i = b[n] /\ i \in Nat
  <2>1. Is(b[n], Eval(n, "cond"))
    BY <1>1 DEF Block
  <2> QED
    BY <1>1, <2>1, OnlyAt
<1>6. ASSUME NEW j \in 1 .. c
      PROVE  /\ Is(i + j, IF j = c THEN Jump(tree[s[j]].label_no) ELSE JumpCase(s[j], tree[s[j]].label_no))
             /\ Is(b[s[j]], Label(tree[s[j]].label_no))
             /\ Place("before", s[j]) \in Places /\ b[s[j]] = Position(b, f, Place("before", s[j]))
             /\ i + j \in 1 .. Len(code)
  <2>1. Is(i + j, Dispatched(s[j]))
    BY <1>1, <1>2, <1>5 DEF Block
  <2>2. s[j] \in Nodes /\ tree[s[j]].kind \in Labelled /\ (tree[s[j]].kind = "case" <=> j # c)
    BY <1>3 DEF CaseKinds, Labelled
  <2>3. Is(b[s[j]], Label(tree[s[j]].label_no))
    BY <2>2 DEF Printout, Block
  <2>4. Is(i + j, IF j = c THEN Jump(tree[s[j]].label_no) ELSE JumpCase(s[j], tree[s[j]].label_no))
    BY <2>1, <2>2 DEF Dispatched
  <2> QED
    BY <1>1, <2>1, <2>2, <2>3, <2>4, PlacesOf, PositionIs DEF Is
<1>7. ASSUME NEW a \in 1 .. c, \A j \in 1 .. a - 1 : v # s[j]
      PROVE  Reaches(Machine(v), i + 1, i + a, a - 1)
  <2> DEFINE short == {k \in 1 .. a : ~ Reaches(Machine(v), i + 1, i + k, k - 1)}
  <2>1. SUFFICES ASSUME short # {}
                 PROVE  FALSE
    <3>1. a \in 1 .. a
      BY <1>3
    <3>2. a \notin short
      BY <2>1
    <3> QED
      BY <3>1, <3>2
  <2>2. PICK k \in short : \A x \in short : k <= x
    <3>1. short \in SUBSET Nat
      BY <1>3
    <3> HIDE DEF short
    <3> QED
      BY <2>1, <3>1, Least
  <2>3. k \in 1 .. a /\ ~ Reaches(Machine(v), i + 1, i + k, k - 1)
    BY <2>2
  <2>4. k # 1
    <3>1. Reaches(Machine(v), i + 1, i + 1, 0)
      BY ReachesNone
    <3>2. k = 1 => k - 1 = 0 /\ i + k = i + 1
      OBVIOUS
    <3> QED
      BY <2>3, <3>1, <3>2
  <2>5. PICK m : m = k - 1
    OBVIOUS
  <2>6. /\ m \in 1 .. c /\ m # c /\ m \in 1 .. a - 1 /\ m \in 1 .. a /\ ~ (k <= m)
        /\ (m - 1) + 1 = k - 1 /\ (i + m) + 1 = i + k
    <3>1. c \in Nat /\ i \in Nat /\ a \in 1 .. c /\ k \in 1 .. a
      BY <1>3, <1>5, <2>3
    <3> QED
      BY ONLY <2>4, <2>5, <3>1
  <2>7. Reaches(Machine(v), i + 1, i + m, m - 1)
    BY <2>2, <2>6
  <2>8. Is(i + m, JumpCase(s[m], tree[s[m]].label_no)) /\ Is(b[s[m]], Label(tree[s[m]].label_no))
    BY <1>6, <2>6
  <2>10. v # s[m]
    BY <1>7, <2>6
  <2>9. Reaches(Machine(v), i + m, (i + m) + 1, 1)
    <3>1. PICK x, y, l, d : x = i + m /\ y = s[m] /\ l = tree[y].label_no /\ d = b[y]
      OBVIOUS
    <3>2. Is(x, JumpCase(y, l)) /\ Is(d, Label(l)) /\ v # y
      BY <2>8, <2>10, <3>1
    <3>3. \A z : Is(x, JumpCase(z, l)) => Reaches(Machine(v), x, IF v = z THEN d ELSE x + 1, 1)
      BY <1>1, <3>2, BranchReaches
    <3>4. Reaches(Machine(v), x, x + 1, 1)
      BY <3>2, <3>3
    <3> QED
      BY <3>1, <3>4
  <2>11. Reaches(Machine(v), i + 1, (i + m) + 1, (m - 1) + 1)
    BY <2>7, <2>9, ReachesThen
  <2> QED
    BY <2>3, <2>6, <2>11
<1>8. /\ 1 \in 1 .. c /\ i + 1 \in 1 .. Len(code)
      /\ \A j \in 1 .. c : i + j \in 1 .. Len(code)
  <2>1. 1 \in 1 .. c
    BY <1>3, <1>4
  <2> QED
    BY <1>6, <2>1
<1>9. CASE v = 0
  <2>1. \A j \in 1 .. c - 1 : v # s[j]
    <3>1. \A j \in 1 .. c - 1 : j \in 1 .. c
      BY <1>3
    <3> QED
      BY <1>1, <1>3, <1>9, <3>1
  <2>2. Reaches(Machine(v), i + 1, i + c, c - 1)
    BY <1>4, <1>7, <2>1
  <2>3. Leads(i + c, b[s[c]])
    BY <1>1, <1>4, <1>6, JumpLeads
  <2>4. \E d : Reaches(Machine(v), i + 1, b[s[c]], d)
    BY <2>2, <2>3, ReachesLeads
  <2>5. Runs(i + 1, v) = Arrive(Place("before", s[c]))
    BY <1>4, <1>6, <1>8, <2>4, RunsAt
  <2>6. PICK D : D = CasesOf(n, "default")
    OBVIOUS
  <2>7. D = {s[c]}
    <3>1. "default" \in CaseKinds
      BY DEF CaseKinds
    <3>2. D = {m \in OfKind(CaseKinds) : tree[m].target = n /\ tree[m].kind = "default"}
      BY <2>6, <3>1, CasesAre
    <3>3. \A m \in D : m = s[c]
      BY <1>2, <1>3, <3>2
    <3>4. s[c] \in D
      BY <1>3, <1>4, <3>2 DEF OfKind
    <3> QED
      BY <3>3, <3>4
  <2>8. D # {} /\ (CHOOSE m \in D : TRUE) = s[c]
    BY <2>7
  <2>9. Follows(Eval(n, "cond"), v) =
          Arrive(IF v # 0 THEN Place("before", v)
                 ELSE IF D # {} THEN Place("before", CHOOSE m \in D : TRUE) ELSE Place("after", n))
    BY <2>6, FollowsIs
  <2>10. Follows(Eval(n, "cond"), v) = Arrive(Place("before", s[c]))
    BY <1>9, <2>8, <2>9
  <2> QED
    BY <2>5, <2>10
<1>10. CASE v # 0
  <2>1. PICK a \in 1 .. c : s[a] = v /\ a # c
    <3>1. "case" \in CaseKinds
      BY DEF CaseKinds
    <3>3. CasesOf(n, "case") = {m \in OfKind(CaseKinds) : tree[m].target = n /\ tree[m].kind = "case"}
      BY <3>1, CasesAre
    <3>4. v \in CasesOf(n, "case")
      BY <1>10
    <3>2. v \in S /\ tree[v].kind = "case"
      BY <1>2, <3>3, <3>4
    <3> QED
      BY <1>3, <3>2
  <2>2. \A j \in 1 .. a - 1 : v # s[j]
    <3>1. \A j \in 1 .. a - 1 : j \in 1 .. c /\ j < a
      BY <1>3
    <3>2. \A j \in 1 .. c : s[j] \in Nat
      BY <1>1, <1>3
    <3> QED
      BY <1>3, <2>1, <3>1, <3>2
  <2>3. Reaches(Machine(v), i + 1, i + a, a - 1)
    BY <1>7, <2>2
  <2>4. Is(i + a, JumpCase(s[a], tree[s[a]].label_no)) /\ Is(b[s[a]], Label(tree[s[a]].label_no))
    BY <1>6, <2>1
  <2>5. Reaches(Machine(v), i + a, b[s[a]], 1)
    <3>1. PICK x, y, l, d : x = i + a /\ y = s[a] /\ l = tree[y].label_no /\ d = b[y]
      OBVIOUS
    <3>2. Is(x, JumpCase(y, l)) /\ Is(d, Label(l)) /\ v = y
      BY <2>1, <2>4, <3>1
    <3>3. \A z : Is(x, JumpCase(z, l)) => Reaches(Machine(v), x, IF v = z THEN d ELSE x + 1, 1)
      BY <1>1, <3>2, BranchReaches
    <3>4. Reaches(Machine(v), x, d, 1)
      BY <3>2, <3>3
    <3> QED
      BY <3>1, <3>4
  <2>6. \E d : Reaches(Machine(v), i + 1, b[s[a]], d)
    <3>1. Reaches(Machine(v), i + 1, b[s[a]], (a - 1) + 1)
      BY <2>3, <2>5, ReachesThen
    <3> QED
      BY <3>1
  <2>7. Runs(i + 1, v) = Arrive(Place("before", s[a]))
    BY <1>6, <1>8, <2>6, RunsAt
  <2>8. Follows(Eval(n, "cond"), v) = Arrive(Place("before", v))
    <3>1. PICK p, q : /\ p = Place("before", v)
                      /\ q = IF CasesOf(n, "default") # {}
                               THEN Place("before", CHOOSE m \in CasesOf(n, "default") : TRUE)
                             ELSE Place("after", n)
      OBVIOUS
    <3>2. Follows(Eval(n, "cond"), v) = Arrive(IF v # 0 THEN p ELSE q)
      BY <3>1, FollowsIs
    <3> QED
      BY <1>10, <3>1, <3>2
  <2> QED
    BY <2>1, <2>7, <2>8
<1> QED
  BY <1>9, <1>10

LEMMA Agrees ==
  ASSUME Known, NEW b, NEW f, Printout(b, f), \A n \in OfKind({"switch"}) : DefaultLast(n), Len(tree) > 0
  PROVE  FlowAgrees
<1>1. Shape /\ DOMAIN code = 1 .. Len(code) /\ 1 \in Nodes /\ b[1] = 1 /\ b[1] \in 1 .. Len(code)
  <2>1. Shape /\ DOMAIN code = 1 .. Len(code) /\ 1 \in Nodes
    <3>1. Shape /\ DOMAIN code = 1 .. Len(code)
      BY DEF Known, Printout, IsSeq
    <3>2. Len(tree) \in Nat
      BY <3>1 DEF Shape, IsSeq
    <3>3. 1 \in Nodes
      BY <3>2 DEF Nodes
    <3> QED
      BY <3>1, <3>3
  <2> QED
    BY <2>1 DEF Printout
<1>2. Runs(1, 0) = Arrive(Place("before", 1))
  <2>1. PICK i, p, j, v : i = 1 /\ v = 0 /\ p = Place("before", 1) /\ j = b[1]
    OBVIOUS
  <2>2. i \in 1 .. Len(code) /\ p \in Places /\ j = Position(b, f, p) /\ i = j /\ Known /\ Printout(b, f)
    BY <1>1, <2>1, PlacesOf, PositionIs
  <2>3. Runs(i, v) = Arrive(p)
    BY ONLY <2>2, RunsAt
  <2> QED
    BY <2>1, <2>3
<1>3. ASSUME NEW i \in DOMAIN code, code[i].do = "eval", code[i] # EndOfFunction, NEW v \in Values(code[i])
      PROVE  Runs(i + 1, v) = Follows(code[i], v)
  <2>1. PICK n \in Nodes : \E w \in Parts(tree[n].kind) : code[i] = Eval(n, w)
    BY <1>1, <1>3 DEF Printout
  <2>4. PICK w \in Parts(tree[n].kind) : code[i] = Eval(n, w)
    BY <2>1
  <2>2. CASE w # "cond"
    BY <1>1, <1>3, <2>4, <2>2, PlainFollows
  <2>3. CASE w = "cond"
    <3>1. tree[n].kind \in {"if", "ifelse", "while", "do", "for", "switch"}
      BY <2>4, <2>3 DEF Parts
    <3>2. CASE tree[n].kind = "switch"
      <4>1. v \in {0} \cup CasesOf(n, "case")
        <5>1. Values(Eval(n, w)) = {0} \cup CasesOf(n, "case")
          BY <2>3, <3>2, FollowsIs
        <5> QED
          BY <1>3, <2>4, <5>1
      <4>2. DefaultLast(n)
        BY <3>2 DEF OfKind
      <4> QED
        BY <1>1, <2>4, <2>3, <3>2, <4>1, <4>2, SwitchFollows
    <3>3. CASE tree[n].kind # "switch"
      <4>1. v \in {0, 1}
        <5>1. Values(Eval(n, w)) = {0, 1}
          BY <2>3, <3>3, FollowsIs
        <5> QED
          BY <1>3, <2>4, <5>1
      <4> QED
        BY <1>1, <2>4, <2>3, <3>1, <3>3, <4>1, CondFollows
    <3> QED
      BY <3>2, <3>3
  <2> QED
    BY <2>2, <2>3
<1> QED
  BY <1>2, <1>3 DEF FlowAgrees

-----------------------------------------------------------------------------
(* What sema.c leaves besides: each break, continue and case belongs to    *)
(* the innermost statement it can belong to, and each switch that has been *)
(* left has its default last.                                              *)
Closed == \A n \in OfKind({"switch"}) \ Walked({"switch"}) : DefaultLast(n)

Switches == \A n \in OfKind({"switch"}) : DefaultLast(n)

Aimed(kind, target) ==
  /\ kind = "break" => break_targets # << >> /\ target = Last(break_targets)
  /\ kind = "continue" => continue_targets # << >> /\ target = Last(continue_targets)
  /\ kind \in CaseKinds => switch_stmts # << >> /\ target = Last(switch_stmts)

LEMMA Enters ==
  ASSUME sema_stmt, phase' = "sema"
  PROVE  \/ sema_end
         \/ \E kind, items, ident, target :
              kind \in AllKinds /\ items \in Nat /\ Enter(kind, items, ident, target) /\ Aimed(kind, target)
<1>1. 0 \in Nat /\ 1 \in Nat /\ 2 \in Nat /\ \A items \in 0 .. grammar.items : items \in Nat
  OBVIOUS
<1>2. ASSUME NEW kind \in AllKinds, NEW items \in Nat, NEW ident, NEW target,
             Enter(kind, items, ident, target), Aimed(kind, target)
      PROVE  \E k, i, d, t : k \in AllKinds /\ i \in Nat /\ Enter(k, i, d, t) /\ Aimed(k, t)
  BY <1>2
<1>3. ASSUME NEW kind \in AllKinds \ ({"break", "continue"} \cup CaseKinds), NEW target
      PROVE  Aimed(kind, target)
  BY <1>3 DEF Aimed
<1>4. CASE sema_expr_stmt \/ sema_comp_stmt \/ sema_if \/ sema_return \/ sema_loop \/ sema_switch
  <2>1. \A kind \in {"expr", "comp", "if", "ifelse", "return", "switch"} \cup Loops :
          kind \in AllKinds \ ({"break", "continue"} \cup CaseKinds)
    BY DEF AllKinds, CaseKinds, Loops
  <2>2. PICK kind, items, ident :
          /\ kind \in {"expr", "comp", "if", "ifelse", "return", "switch"} \cup Loops /\ items \in Nat
          /\ Enter(kind, items, ident, 0)
    BY <1>1, <1>4 DEF sema_expr_stmt, sema_comp_stmt, sema_if, sema_return, sema_loop, sema_switch
  <2>3. kind \in AllKinds /\ Aimed(kind, 0)
    BY <1>3, <2>1, <2>2
  <2> QED
    BY <1>2, <2>2, <2>3
<1>5. CASE \E kind \in {"case", "default"} : sema_case(kind)
  <2>1. PICK kind \in {"case", "default"} : sema_case(kind)
    BY <1>5
  <2>2. switch_stmts # << >>
    BY <2>1 DEF sema_case, Reject
  <2>3. PICK target : target = Last(switch_stmts) /\ Enter(kind, 1, "none", target)
    BY <2>1, <2>2 DEF sema_case
  <2>4. Aimed(kind, target) /\ kind \in AllKinds
    BY <2>2, <2>3 DEF Aimed, AllKinds
  <2> QED
    BY <1>1, <1>2, <2>3, <2>4
<1>6. CASE \E ident \in LabelNames : sema_label(ident) \/ sema_goto(ident)
  <2>1. PICK kind, items, ident : kind \in {"label", "goto"} /\ items \in Nat /\ Enter(kind, items, ident, 0)
    BY <1>1, <1>6 DEF sema_label, sema_goto
  <2>2. kind \in AllKinds /\ Aimed(kind, 0)
    BY <1>3, <2>1 DEF AllKinds, CaseKinds
  <2> QED
    BY <1>2, <2>1, <2>2
<1>7. CASE sema_continue
  <2>1. continue_targets # << >>
    BY <1>7 DEF sema_continue, Reject
  <2>2. PICK target : target = Last(continue_targets) /\ Enter("continue", 0, "none", target)
    BY <1>7, <2>1 DEF sema_continue
  <2>3. Aimed("continue", target) /\ "continue" \in AllKinds
    BY <2>1, <2>2 DEF Aimed, AllKinds, CaseKinds
  <2> QED
    BY <1>1, <1>2, <2>2, <2>3
<1>8. CASE sema_break
  <2>1. break_targets # << >>
    BY <1>8 DEF sema_break, Reject
  <2>2. PICK target : target = Last(break_targets) /\ Enter("break", 0, "none", target)
    BY <1>8, <2>1 DEF sema_break
  <2>3. Aimed("break", target) /\ "break" \in AllKinds
    BY <2>1, <2>2 DEF Aimed, AllKinds, CaseKinds
  <2> QED
    BY <1>1, <1>2, <2>2, <2>3
<1> QED
  BY <1>4, <1>5, <1>6, <1>7, <1>8 DEF sema_stmt

LEMMA LastIsMost ==
  ASSUME NEW S \in SUBSET Int, NEW s, Lists(s, S), s # << >>
  PROVE  Last(s) \in S /\ \A m \in S : m <= Last(s)
<1>1. Len(s) > 0 /\ Last(s) = s[Len(s)] /\ Last(s) \in S
  BY ListsLast
<1>2. PICK c : c = Len(s)
  OBVIOUS
<1>3. /\ c \in Nat /\ c > 0 /\ Last(s) = s[c]
      /\ \A m \in S : \E i \in 1 .. c : s[i] = m
      /\ \A i, j \in 1 .. c : i < j => s[i] < s[j]
  BY <1>1, <1>2 DEF Lists, IsSeq
<1>4. ASSUME NEW m \in S
      PROVE  m <= s[c]
  <2>1. PICK i \in 1 .. c : s[i] = m
    BY <1>3
  <2>2. c \in 1 .. c /\ s[c] \in Int
    <3>1. c \in 1 .. c
      BY ONLY <1>3
    <3> QED
      BY <1>1, <1>3, <3>1
  <2>3. CASE i = c
    BY <2>1, <2>2, <2>3
  <2>4. CASE i # c
    <3>1. i < c
      BY ONLY <1>3, <2>1, <2>4
    <3> QED
      BY <1>3, <2>1, <2>2, <3>1
  <2> QED
    BY <2>3, <2>4
<1> QED
  BY <1>1, <1>3, <1>4

(* The innermost of the statements being walked. *)
LEMMA InnermostNew ==
  ASSUME Sema, NEW kind \in AllKinds, NEW items \in Nat, NEW ident, NEW target, Enter(kind, items, ident, target),
         NEW kinds \in SUBSET Breakable, NEW s, Lists(s, Walked(kinds)), s # << >>, NEW n, n = New
  PROVE  Innermost(n, kinds)' = Last(s)
<1> DEFINE p == Head(todo).at
<1>1. todo # << >> /\ Head(todo).do = "visit" /\ Len(tree) \in Nat /\ p \in 0 .. Len(tree) /\ Shape
  BY AtHead DEF Enter, Sema
<1>2. Grown(kind, p, ident, target)
  BY EnterTree DEF Sema
<1>3. Nodes' = Nodes \cup {New} /\ Around(n)' = {m \in 1 .. p : Open(m)}
  BY <1>1, <1>2, GrownTree
<1>4. Walked(kinds) = {m \in 1 .. p : Open(m)} \cap OfKind(kinds)
  BY <1>1, WalkedIsOpen
<1>5. \A m \in 1 .. p : m \in Nodes /\ tree'[m].kind = tree[m].kind
  BY <1>1, <1>2 DEF Grown, Nodes
<1>6. PICK outer : outer = {m \in {m \in 1 .. p : Open(m)} : tree'[m].kind \in kinds}
  OBVIOUS
<1>7. outer = Walked(kinds)
  BY <1>4, <1>5, <1>6 DEF OfKind
<1>8. Innermost(n, kinds)' = IF outer = {} THEN 0 ELSE CHOOSE m \in outer : \A o \in outer : o <= m
  BY <1>3, <1>6 DEF Innermost
<1>9. outer \in SUBSET Int /\ Last(s) \in outer /\ \A m \in outer : m <= Last(s)
  <2>1. Walked(kinds) \in SUBSET Int
    BY <1>4
  <2> QED
    BY <1>7, <2>1, LastIsMost
<1>10. PICK z : z = Last(s)
  OBVIOUS
<1>11. z \in outer /\ \A m \in outer : m <= z
  BY <1>9, <1>10
<1>12. \A x \in outer : (\A o \in outer : o <= x) => x = z
  <2>1. outer \in SUBSET Int
    BY <1>9
  <2> QED
    BY ONLY <1>11, <2>1
<1> QED
  BY <1>8, <1>10, <1>11, <1>12

LEMMA InnermostOld ==
  ASSUME Len(tree) \in Nat, NEW p \in 0 .. Len(tree), NEW kind, NEW ident, NEW target,
         Grown(kind, p, ident, target), NEW n \in Nodes, NEW kinds
  PROVE  Innermost(n, kinds)' = Innermost(n, kinds)
<1>1. Around(n)' = Around(n)
  BY GrownTree
<1>2. \A m \in Around(n) : tree'[m].kind = tree[m].kind
  <2>1. \A m \in Around(n) : m \in Nodes
    BY DEF Around, Nodes
  <2> QED
    BY <2>1 DEF Grown
<1>3. {m \in Around(n) : tree'[m].kind \in kinds} = {m \in Around(n) : tree[m].kind \in kinds}
  BY <1>2
<1>4. PICK outer : outer = {m \in Around(n) : tree[m].kind \in kinds}
  OBVIOUS
<1>5. Innermost(n, kinds) = IF outer = {} THEN 0 ELSE CHOOSE m \in outer : \A o \in outer : o <= m
  BY <1>4 DEF Innermost
<1>6. Innermost(n, kinds)' = IF outer = {} THEN 0 ELSE CHOOSE m \in outer : \A o \in outer : o <= m
  <2>1. PICK A : A = Around(n)
    OBVIOUS
  <2>2. Around(n)' = A /\ outer = {m \in A : tree'[m].kind \in kinds}
    BY <1>1, <1>3, <1>4, <2>1
  <2> QED
    BY <2>2 DEF Innermost
<1> QED
  BY <1>5, <1>6
LEMMA SomeToVisit ==
  ASSUME IsSeq(todo), Len(todo) > 0, todo[1].do = "visit"
  PROVE  ToVisit \in Nat /\ ToVisit >= 1
<1>1. PICK S : S = {i \in DOMAIN todo : todo[i].do = "visit"}
  OBVIOUS
<1>2. Len(todo) \in Nat /\ DOMAIN todo = 1 .. Len(todo) /\ 1 \in S /\ S \subseteq 1 .. Len(todo)
  BY <1>1 DEF IsSeq
<1>3. IsFiniteSet(S)
  <2>1. PICK n : n = Len(todo)
    OBVIOUS
  <2>2. n \in Int /\ 1 \in Int
    BY <1>2, <2>1
  <2>3. IsFiniteSet(1 .. n)
    BY <2>2, FS_Interval
  <2> QED
    BY <1>2, <2>1, <2>3, FS_Subset
<1>4. Cardinality(S) \in Nat /\ Cardinality(S) # 0
  BY <1>2, <1>3, FS_CardinalityType, FS_EmptySet
<1>5. ToVisit = Cardinality(S)
  BY <1>1 DEF ToVisit
<1> QED
  BY <1>4, <1>5

LEMMA CasesIn ==
  ASSUME Shape, NEW n \in Nodes, NEW s, s = tree[n].cases
  PROVE  /\ IsSeq(s) /\ DOMAIN s = 1 .. Len(s)
         /\ \A i \in DOMAIN s : s[i] \in Nodes /\ tree[s[i]].kind \in CaseKinds /\ tree[s[i]].target = n
<1>1. PICK S : S = {m \in OfKind(CaseKinds) : tree[m].target = n}
  OBVIOUS
<1>2. Lists(s, S) /\ \A m \in S : m \in Nodes /\ tree[m].kind \in CaseKinds /\ tree[m].target = n
  <2>1. Lists(s, S)
    BY <1>1 DEF Shape
  <2> QED
    BY <1>1, <2>1 DEF OfKind
<1>3. IsSeq(s) /\ DOMAIN s = 1 .. Len(s)
  BY <1>2 DEF Lists, IsSeq
<1>4. \A i \in 1 .. Len(s) : s[i] \in S
  BY <1>2 DEF Lists
<1> QED
  BY <1>2, <1>3, <1>4

LEMMA EnterFlow ==
  ASSUME Sema, Small, Targeted, Closed, NEW kind \in AllKinds, NEW items \in Nat, NEW ident, NEW target,
         Enter(kind, items, ident, target), Aimed(kind, target)
  PROVE  Small' /\ Targeted' /\ Closed'
<1> DEFINE p == Head(todo).at
<1>1. /\ todo # << >> /\ Head(todo).do = "visit" /\ Len(tree) \in Nat /\ Shape /\ Referred /\ Targets
      /\ Head(todo) = todo[1] /\ IsSeq(todo) /\ Len(todo) > 0
      /\ p \in 0 .. Len(tree)
  <2>1. todo # << >> /\ Head(todo).do = "visit"
    BY DEF Enter
  <2>2. /\ Len(tree) \in Nat /\ Head(todo) = todo[1] /\ IsSeq(todo) /\ Len(todo) \in Nat \ {0}
        /\ p \in 0 .. Len(tree)
    BY <2>1, AtHead
  <2>3. Shape /\ Referred /\ Targets
    BY DEF Sema
  <2> QED
    BY <2>1, <2>2, <2>3
<1>2. Grown(kind, p, ident, target)
  BY EnterTree DEF Sema
<1>3. /\ Nodes' = Nodes \cup {New} /\ New \notin Nodes /\ New = Len(tree) + 1
      /\ \A kinds : OfKind(kinds)' = OfKind(kinds) \cup (IF kind \in kinds THEN {New} ELSE {})
  BY <1>1, <1>2, GrownTree
<1>4. Loops \in SUBSET Breakable /\ Breakable \in SUBSET Breakable /\ {"switch"} \in SUBSET Breakable
  BY DEF Breakable
<1>5. Small'
  <2>1. ToVisit \in Nat /\ ToVisit >= 1
    BY <1>1, SomeToVisit
  <2>2. Len(tree) + ToVisit + items <= grammar.nodes /\ grammar' = grammar
    BY DEF Enter, Fits
  <2>3. Len(tree) + 1 <= grammar.nodes
    BY <1>1, <2>1, <2>2 DEF Small
  <2> QED
    BY <1>2, <1>3, <2>2, <2>3 DEF Small, Grown
<1>6. Targeted'
  <2>1. ASSUME NEW n \in Nodes
        PROVE  /\ tree'[n].kind = tree[n].kind /\ tree'[n].target = tree[n].target
               /\ \A kinds : Innermost(n, kinds)' = Innermost(n, kinds)
    BY <1>1, <1>2, InnermostOld DEF Grown
  <2>2. ASSUME NEW n, n = New
        PROVE  /\ kind = "break" => target = Innermost(n, Breakable)'
               /\ kind = "continue" => target = Innermost(n, Loops)'
               /\ kind \in CaseKinds => target = Innermost(n, {"switch"})'
    <3>1. PICK b, c, s : b = break_targets /\ c = continue_targets /\ s = switch_stmts
      OBVIOUS
    <3>2. /\ Lists(b, Walked(Breakable)) /\ Lists(c, Walked(Loops)) /\ Lists(s, Walked({"switch"}))
          /\ kind = "break" => b # << >> /\ target = Last(b)
          /\ kind = "continue" => c # << >> /\ target = Last(c)
          /\ kind \in CaseKinds => s # << >> /\ target = Last(s)
      BY <1>1, <3>1 DEF Targets, Aimed
    <3> QED
      BY <1>4, <2>2, <3>2, InnermostNew
  <2>3. tree'[New].kind = kind /\ tree'[New].target = target
    BY <1>2 DEF Grown
  <2>4. ASSUME NEW n \in Nodes'
        PROVE  /\ tree'[n].kind = "break" => tree'[n].target = Innermost(n, Breakable)'
               /\ tree'[n].kind = "continue" => tree'[n].target = Innermost(n, Loops)'
               /\ tree'[n].kind \in CaseKinds => tree'[n].target = Innermost(n, {"switch"})'
    <3>1. CASE n \in Nodes
      <4>1. /\ tree[n].kind = "break" => tree[n].target = Innermost(n, Breakable)
            /\ tree[n].kind = "continue" => tree[n].target = Innermost(n, Loops)
            /\ tree[n].kind \in CaseKinds => tree[n].target = Innermost(n, {"switch"})
        BY <3>1 DEF Targeted
      <4> QED
        BY <2>1, <3>1, <4>1
    <3>2. CASE n = New
      BY <2>2, <2>3, <3>2
    <3> QED
      BY <1>3, <3>1, <3>2
  <2> QED
    BY <2>4 DEF Targeted
<1>7. Closed'
  <2>1. Walked({"switch"})' = Walked({"switch"}) \cup (IF kind \in {"switch"} THEN {New} ELSE {})
    BY <1>4, WalkedEntered
  <2>2. \A n \in (OfKind({"switch"}) \ Walked({"switch"}))' : n \in OfKind({"switch"}) \ Walked({"switch"})
    BY <1>3, <2>1
  <2>3. kind \in CaseKinds => target \in Walked({"switch"})
    <3>1. PICK s, S : s = switch_stmts /\ S = Walked({"switch"})
      OBVIOUS
    <3>2. Lists(s, S) /\ S \in SUBSET Int
      BY <1>1, <3>1 DEF Targets, Walked, OfKind, Nodes
    <3>3. kind \in CaseKinds => s # << >> /\ target = Last(s)
      BY <3>1 DEF Aimed
    <3> QED
      BY <3>1, <3>2, <3>3, LastIsMost
  <2>4. ASSUME NEW n \in OfKind({"switch"}) \ Walked({"switch"})
        PROVE  DefaultLast(n)'
    <3>1. n \in Nodes /\ DefaultLast(n)
      BY DEF Closed, OfKind
    <3>2. ~ (kind \in CaseKinds /\ n = target)
      BY <2>3
    <3>3. tree'[n].cases = tree[n].cases
      BY <1>2, <3>1, <3>2 DEF Grown
    <3>4. PICK s : s = tree[n].cases
      OBVIOUS
    <3>5. /\ DOMAIN s = 1 .. Len(s) /\ \A i \in DOMAIN s : s[i] \in Nodes
      BY <1>1, <3>1, <3>4, CasesIn
    <3>6. \A i \in DOMAIN s : tree'[s[i]].kind = tree[s[i]].kind
      BY <1>2, <3>5 DEF Grown
    <3> QED
      BY <3>1, <3>3, <3>4, <3>6 DEF DefaultLast
  <2> QED
    BY <2>2, <2>4 DEF Closed
<1> QED
  BY <1>5, <1>6, <1>7

LEMMA EndFlow ==
  ASSUME AnySwitch = FALSE, Sema, Small, Targeted, Closed, sema_end
  PROVE  Small' /\ Targeted' /\ Closed'
<1>1. /\ todo # << >> /\ Head(todo).do = "leave" /\ todo' = Tail(todo)
      /\ tree' = tree /\ grammar' = grammar
  BY DEF sema_end
<1>2. PICK n : n = Head(todo).at
  OBVIOUS
<1>3. /\ Walked({"switch"})' = Walked({"switch"}) \ {n}
      /\ tree[n].kind \in {"switch"} <=> n \in Walked({"switch"})
  BY <1>1, <1>2, EndWalked
<1>4. tree[n].kind = "switch" => DefaultLast(n)
  BY <1>2 DEF sema_end
<1>5. Small'
  BY <1>1 DEF Small
<1>6. Targeted'
  <2>1. Nodes' = Nodes /\ \A m : Around(m)' = Around(m)
    BY <1>1 DEF Around, Parent, Nodes
  <2>2. ASSUME NEW m, NEW kinds
        PROVE  Innermost(m, kinds)' = Innermost(m, kinds)
    <3>1. PICK A, outer : A = Around(m) /\ outer = {x \in A : tree[x].kind \in kinds}
      OBVIOUS
    <3>2. Around(m)' = A /\ outer = {x \in A : tree'[x].kind \in kinds}
      BY <1>1, <2>1, <3>1
    <3>3. Innermost(m, kinds) = IF outer = {} THEN 0 ELSE CHOOSE x \in outer : \A o \in outer : o <= x
      BY <3>1 DEF Innermost
    <3>4. Innermost(m, kinds)' = IF outer = {} THEN 0 ELSE CHOOSE x \in outer : \A o \in outer : o <= x
      BY <3>2 DEF Innermost
    <3> QED
      BY <3>3, <3>4
  <2> QED
    BY <1>1, <2>1, <2>2 DEF Targeted
<1>7. /\ OfKind({"switch"})' = OfKind({"switch"})
      /\ \A m : DefaultLast(m)' <=> DefaultLast(m)
  BY <1>1 DEF OfKind, Nodes, DefaultLast
<1>8. Closed'
  BY <1>3, <1>4, <1>7 DEF Closed
<1> QED
  BY <1>5, <1>6, <1>8

(* From the end of sema.c on none of this changes. *)
LEMMA SameFlow ==
  ASSUME Shape, Referred, Labels, Same, Small, Targeted, Switches, grammar' = grammar
  PROVE  Small' /\ Targeted' /\ Switches'
<1>1. /\ Nodes' = Nodes /\ Len(tree') = Len(tree)
      /\ \A kinds : OfKind(kinds)' = OfKind(kinds)
      /\ \A n \in Nodes : Parent(n)' = Parent(n)
      /\ Nodes = 1 .. Len(tree) /\ Len(tree) \in Nat
  BY SameTree DEF Same, Nodes, Shape, IsSeq
<1>2. \A n \in Nodes : tree'[n].kind = tree[n].kind /\ tree'[n].cases = tree[n].cases
                       /\ (tree[n].kind # "goto" => tree'[n].target = tree[n].target)
  BY DEF Same
<1>3. ASSUME NEW n \in Nodes, NEW kinds
      PROVE  Innermost(n, kinds)' = Innermost(n, kinds)
  <2>1. \A m \in 1 .. n - 1 : \A k \in m + 1 .. n : k \in Nodes
    BY <1>1
  <2>2. Around(n)' = Around(n)
    BY <1>1, <2>1 DEF Around
  <2>3. \A m \in Around(n) : m \in Nodes
    BY <1>1 DEF Around
  <2>4. PICK A, outer : A = Around(n) /\ outer = {m \in A : tree[m].kind \in kinds}
    OBVIOUS
  <2>5. Around(n)' = A /\ outer = {m \in A : tree'[m].kind \in kinds}
    BY <1>2, <2>2, <2>3, <2>4
  <2>6. Innermost(n, kinds) = IF outer = {} THEN 0 ELSE CHOOSE m \in outer : \A o \in outer : o <= m
    BY <2>4 DEF Innermost
  <2>7. Innermost(n, kinds)' = IF outer = {} THEN 0 ELSE CHOOSE m \in outer : \A o \in outer : o <= m
    BY <2>5 DEF Innermost
  <2> QED
    BY <2>6, <2>7
<1>4. Small'
  BY <1>1 DEF Small
<1>5. Targeted'
  BY <1>1, <1>2, <1>3 DEF Targeted, CaseKinds
<1>6. ASSUME NEW n \in OfKind({"switch"})
      PROVE  DefaultLast(n)'
  <2>1. n \in Nodes /\ DefaultLast(n)
    BY DEF Switches, OfKind
  <2>2. PICK s : s = tree[n].cases
    OBVIOUS
  <2>3. DOMAIN s = 1 .. Len(s) /\ \A i \in DOMAIN s : s[i] \in Nodes
    BY <2>1, <2>2, CasesIn
  <2>4. \A i \in DOMAIN s : tree'[s[i]].kind = tree[s[i]].kind
    BY <1>2, <2>3
  <2> QED
    BY <1>2, <2>1, <2>2, <2>4 DEF DefaultLast
<1>7. Switches'
  BY <1>1, <1>6 DEF Switches
<1> QED
  BY <1>4, <1>5, <1>7
-----------------------------------------------------------------------------
(* Where what is printed stands in the end. *)
(* What a statement is printed as. *)
LEMMA TemplateIs ==
  ASSUME NEW n, NEW t, NEW l, NEW T, T = Template(n, t, l), t[n].kind \in AllKinds,
         IsSeq(t[n].kids), IsSeq(t[n].cases), t[n].kind # "comp" => Len(t[n].kids) = Arity(t[n].kind)
  PROVE  /\ IsSeq(T)
         /\ \A i \in 1 .. Len(T) :
              /\ T[i].do = "visit" => \E k \in 1 .. Len(t[n].kids) : T[i] = Visit(t[n].kids[k])
              /\ T[i].do = "eval" => T[i] = Eval(n, T[i].part) /\ T[i].part \in Parts(t[n].kind)
<1>1. PICK s, body, k : s = t[n] /\ body = Visit(t[n].kids[1]) /\ k = Visit(t[n].kids[2])
  OBVIOUS
<1>2. CASE s.kind = "expr"
  <2>1. T = <<Eval(n, "expr")>>
    BY <1>1, <1>2 DEF Template
  <2>2. IsSeq(T) /\ Len(T) = 1 /\ 1 .. Len(T) = 1 .. 1
    BY <2>1 DEF IsSeq
  <2>3. T[1] = Eval(n, "expr")
    BY <2>1
  <2> QED
    BY <1>1, <1>2, <2>2, <2>3, ItemFields DEF Parts
<1>3. CASE s.kind = "if"
  <2>1. T = <<Eval(n, "cond"), Je(l), body, Jump(l + 1), Label(l), Label(l + 1)>>
    BY <1>1, <1>3 DEF Template
  <2>2. IsSeq(T) /\ Len(T) = 6 /\ 1 .. Len(T) = 1 .. 6
    BY <2>1 DEF IsSeq
  <2>3. T[1] = Eval(n, "cond") /\ T[2] = Je(l) /\ T[3] = body /\ T[4] = Jump(l + 1) /\
        T[5] = Label(l) /\ T[6] = Label(l + 1)
    BY <2>1
  <2>4. 1 .. Len(s.kids) = 1 .. 1
    BY <1>1, <1>3 DEF Arity
  <2> QED
    BY <1>1, <1>3, <2>2, <2>3, <2>4, ItemFields DEF Parts
<1>4. CASE s.kind = "ifelse"
  <2>1. T = <<Eval(n, "cond"), Je(l), body, Jump(l + 1), Label(l), k, Label(l + 1)>>
    BY <1>1, <1>4 DEF Template
  <2>2. IsSeq(T) /\ Len(T) = 7 /\ 1 .. Len(T) = 1 .. 7
    BY <2>1 DEF IsSeq
  <2>3. T[1] = Eval(n, "cond") /\ T[2] = Je(l) /\ T[3] = body /\ T[4] = Jump(l + 1) /\
        T[5] = Label(l) /\ T[6] = k /\ T[7] = Label(l + 1)
    BY <2>1
  <2>4. 1 .. Len(s.kids) = 1 .. 2
    BY <1>1, <1>4 DEF Arity
  <2> QED
    BY <1>1, <1>4, <2>2, <2>3, <2>4, ItemFields DEF Parts
<1>5. CASE s.kind = "while"
  <2>1. T = <<Label(l), Eval(n, "cond"), Je(l + 1), body, Jump(l), Label(l + 1)>>
    BY <1>1, <1>5 DEF Template
  <2>2. IsSeq(T) /\ Len(T) = 6 /\ 1 .. Len(T) = 1 .. 6
    BY <2>1 DEF IsSeq
  <2>3. T[1] = Label(l) /\ T[2] = Eval(n, "cond") /\ T[3] = Je(l + 1) /\ T[4] = body /\
        T[5] = Jump(l) /\ T[6] = Label(l + 1)
    BY <2>1
  <2>4. 1 .. Len(s.kids) = 1 .. 1
    BY <1>1, <1>5 DEF Arity
  <2> QED
    BY <1>1, <1>5, <2>2, <2>3, <2>4, ItemFields DEF Parts
<1>6. CASE s.kind = "do"
  <2>1. T = <<Label(l), body, Label(l + 1), Eval(n, "cond"), Jne(l), Label(l + 2)>>
    BY <1>1, <1>6 DEF Template
  <2>2. IsSeq(T) /\ Len(T) = 6 /\ 1 .. Len(T) = 1 .. 6
    BY <2>1 DEF IsSeq
  <2>3. T[1] = Label(l) /\ T[2] = body /\ T[3] = Label(l + 1) /\ T[4] = Eval(n, "cond") /\
        T[5] = Jne(l) /\ T[6] = Label(l + 2)
    BY <2>1
  <2>4. 1 .. Len(s.kids) = 1 .. 1
    BY <1>1, <1>6 DEF Arity
  <2> QED
    BY <1>1, <1>6, <2>2, <2>3, <2>4, ItemFields DEF Parts
<1>7. CASE s.kind = "for"
  <2>1. T = <<Eval(n, "init"), Label(l), Eval(n, "cond"), Je(l + 2), body, Label(l + 1),
              Eval(n, "after"), Jump(l), Label(l + 2)>>
    BY <1>1, <1>7 DEF Template
  <2>2. IsSeq(T) /\ Len(T) = 9 /\ 1 .. Len(T) = 1 .. 9
    BY <2>1 DEF IsSeq
  <2>3. T[1] = Eval(n, "init") /\ T[2] = Label(l) /\ T[3] = Eval(n, "cond") /\
        T[4] = Je(l + 2) /\ T[5] = body /\ T[6] = Label(l + 1) /\
        T[7] = Eval(n, "after") /\ T[8] = Jump(l) /\ T[9] = Label(l + 2)
    BY <2>1
  <2>4. 1 .. Len(s.kids) = 1 .. 1
    BY <1>1, <1>7 DEF Arity
  <2> QED
    BY <1>1, <1>7, <2>2, <2>3, <2>4, ItemFields DEF Parts
<1>8. CASE s.kind = "forever"
  <2>1. T = <<Label(l), body, Label(l + 1), Jump(l), Label(l + 2)>>
    BY <1>1, <1>8 DEF Template
  <2>2. IsSeq(T) /\ Len(T) = 5 /\ 1 .. Len(T) = 1 .. 5
    BY <2>1 DEF IsSeq
  <2>3. T[1] = Label(l) /\ T[2] = body /\ T[3] = Label(l + 1) /\ T[4] = Jump(l) /\
        T[5] = Label(l + 2)
    BY <2>1
  <2>4. 1 .. Len(s.kids) = 1 .. 1
    BY <1>1, <1>8 DEF Arity
  <2> QED
    BY <1>1, <1>8, <2>2, <2>3, <2>4, ItemFields DEF Parts
<1>9. CASE s.kind = "goto"
  <2>1. T = <<Jump(t[s.target].label_no)>>
    BY <1>1, <1>9 DEF Template
  <2>2. IsSeq(T) /\ Len(T) = 1 /\ 1 .. Len(T) = 1 .. 1
    BY <2>1 DEF IsSeq
  <2>3. T[1] = Jump(t[s.target].label_no)
    BY <2>1
  <2> QED
    BY <1>1, <1>9, <2>2, <2>3, ItemFields DEF Parts
<1>10. CASE s.kind = "break"
  <2>1. T = <<Jump(t[s.target].label_break)>>
    BY <1>1, <1>10 DEF Template
  <2>2. IsSeq(T) /\ Len(T) = 1 /\ 1 .. Len(T) = 1 .. 1
    BY <2>1 DEF IsSeq
  <2>3. T[1] = Jump(t[s.target].label_break)
    BY <2>1
  <2> QED
    BY <1>1, <1>10, <2>2, <2>3, ItemFields DEF Parts
<1>11. CASE s.kind = "continue"
  <2>1. T = <<Jump(t[s.target].label_continue)>>
    BY <1>1, <1>11 DEF Template
  <2>2. IsSeq(T) /\ Len(T) = 1 /\ 1 .. Len(T) = 1 .. 1
    BY <2>1 DEF IsSeq
  <2>3. T[1] = Jump(t[s.target].label_continue)
    BY <2>1
  <2> QED
    BY <1>1, <1>11, <2>2, <2>3, ItemFields DEF Parts
<1>12. CASE s.kind = "return"
  <2>1. T = <<Eval(n, "return"), Jump(label_return)>>
    BY <1>1, <1>12 DEF Template
  <2>2. IsSeq(T) /\ Len(T) = 2 /\ 1 .. Len(T) = 1 .. 2
    BY <2>1 DEF IsSeq
  <2>3. T[1] = Eval(n, "return") /\ T[2] = Jump(label_return)
    BY <2>1
  <2> QED
    BY <1>1, <1>12, <2>2, <2>3, ItemFields DEF Parts
<1>13. CASE s.kind \in Labelled
  <2>1. T = <<Label(s.label_no), body>>
    BY <1>1, <1>13 DEF Template, Labelled
  <2>2. IsSeq(T) /\ Len(T) = 2 /\ 1 .. Len(T) = 1 .. 2
    BY <2>1 DEF IsSeq
  <2>3. T[1] = Label(s.label_no) /\ T[2] = body
    BY <2>1
  <2>4. 1 .. Len(s.kids) = 1 .. 1
    BY <1>1, <1>13 DEF Arity, Labelled
  <2> QED
    BY <1>1, <1>13, <2>2, <2>3, <2>4, ItemFields DEF Parts, Labelled
<1>14. CASE s.kind = "comp"
  <2>1. PICK c : c = Len(s.kids) /\ c \in Nat /\ DOMAIN s.kids = 1 .. c
    BY <1>1 DEF IsSeq
  <2>2. T = [i \in 1 .. c |-> Visit(s.kids[i])]
    BY <1>1, <1>14, <2>1 DEF Template
  <2>3. IsSeq(T) /\ Len(T) = c /\ \A i \in 1 .. c : T[i] = Visit(s.kids[i])
    BY <2>1, <2>2 DEF IsSeq
  <2> QED
    BY <1>1, <1>14, <2>1, <2>3, ItemFields
<1>15. CASE s.kind = "switch"
  <2>1. PICK c, J : /\ c = Len(s.cases)
                    /\ J = [i \in 1 .. Len(s.cases) |->
                             IF t[s.cases[i]].kind = "case" THEN JumpCase(s.cases[i], t[s.cases[i]].label_no)
                             ELSE Jump(t[s.cases[i]].label_no)]
    OBVIOUS
  <2>2. c \in Nat /\ DOMAIN s.cases = 1 .. c
    BY <1>1, <2>1 DEF IsSeq
  <2>3. T = <<Eval(n, "cond")>> \o J \o <<body, Label(l)>>
    BY <1>1, <1>15, <2>1, <2>2 DEF Template
  <2>4. IsSeq(J) /\ Len(J) = c /\ \A i \in 1 .. c : J[i].do \notin {"label", "eval", "visit"}
    BY <2>1, <2>2, ItemFields, SMTT(40) DEF IsSeq
  <2>5. PICK A, B, E : A = <<Eval(n, "cond")>> /\ B = A \o J /\ E = <<body, Label(l)>>
    OBVIOUS
  <2>6. /\ IsSeq(A) /\ Len(A) = 1 /\ A[1] = Eval(n, "cond")
        /\ IsSeq(E) /\ Len(E) = 2 /\ E[1] = body /\ E[2] = Label(l)
    BY <2>5 DEF IsSeq
  <2>7. /\ IsSeq(B) /\ Len(B) = Len(A) + Len(J)
        /\ \A i \in 1 .. Len(A) : B[i] = A[i]
        /\ \A i \in Len(A) + 1 .. Len(A) + Len(J) : B[i] = J[i - Len(A)]
    <3>1. IsSeq(A) /\ IsSeq(J) /\ B = A \o J
      BY <2>4, <2>5, <2>6
    <3> QED
      BY <3>1, ConcatSeq
  <2>8. /\ IsSeq(T) /\ Len(T) = Len(B) + Len(E)
        /\ \A i \in 1 .. Len(B) : T[i] = B[i]
        /\ \A i \in Len(B) + 1 .. Len(B) + Len(E) : T[i] = E[i - Len(B)]
    <3>1. T = B \o E /\ IsSeq(B) /\ IsSeq(E)
      BY <2>3, <2>5, <2>6, <2>7
    <3> QED
      BY <3>1, ConcatSeq
  <2>9. ASSUME NEW i \in 1 .. Len(T)
        PROVE  T[i] = Eval(n, "cond") \/ T[i] = body \/ T[i] = Label(l) \/ \E j \in 1 .. c : T[i] = J[j]
    <3>1. PICK a, b, e, z : a = Len(A) /\ b = Len(B) /\ e = Len(E) /\ z = Len(T)
      OBVIOUS
    <3>2. a = 1 /\ b = 1 + c /\ e = 2 /\ z = (1 + c) + 2
      BY <2>4, <2>6, <2>7, <2>8, <3>1
    <3>3. \/ i = 1 /\ i \in 1 .. b /\ i \in 1 .. a
          \/ i \in 1 .. b /\ i \in a + 1 .. a + c /\ i - a \in 1 .. c
          \/ i \in b + 1 .. b + e /\ (i - b = 1 \/ i - b = 2)
      <4>1. i \in 1 .. z
        BY <2>9, <3>1
      <4> QED
        BY ONLY <2>2, <3>2, <4>1
    <3>4. CASE i = 1 /\ i \in 1 .. b /\ i \in 1 .. a
      BY <2>6, <2>7, <2>8, <3>1, <3>4
    <3>5. CASE i \in 1 .. b /\ i \in a + 1 .. a + c /\ i - a \in 1 .. c
      BY <2>4, <2>7, <2>8, <3>1, <3>5
    <3>6. CASE i \in b + 1 .. b + e /\ (i - b = 1 \/ i - b = 2)
      BY <2>6, <2>8, <3>1, <3>6
    <3> QED
      BY <3>3, <3>4, <3>5, <3>6
  <2>10. 1 \in 1 .. Len(s.kids)
    BY <1>1, <1>15 DEF Arity
  <2>11. ASSUME NEW i \in 1 .. Len(T)
         PROVE  /\ T[i].do = "visit" => T[i] = body
                /\ T[i].do = "eval" => T[i] = Eval(n, "cond")
    <3>1. /\ body.do = "visit" /\ Label(l).do = "label" /\ Eval(n, "cond").do = "eval"
          /\ \A j \in 1 .. c : J[j].do # "visit" /\ J[j].do # "eval"
      BY <1>1, <2>4, ItemFields
    <3> QED
      BY <2>9, <3>1
  <2>12. "cond" \in Parts(t[n].kind) /\ Eval(n, "cond").part = "cond"
    BY <1>1, <1>15, ItemFields DEF Parts
  <2> QED
    BY <1>1, <2>8, <2>10, <2>11, <2>12
<1> QED
  BY <1>1, <1>2, <1>3, <1>4, <1>5, <1>6, <1>7, <1>8, <1>9, <1>10, <1>11, <1>12, <1>13, <1>14, <1>15
     DEF AllKinds, Labelled

(* It depends on the statement and on the labels of those it refers to.    *)
LEMMA SameTemplate ==
  ASSUME NEW n, NEW t, NEW u, NEW l, t[n].kind \in AllKinds, IsSeq(t[n].cases),
         u[n].kind = t[n].kind, u[n].kids = t[n].kids, u[n].cases = t[n].cases,
         t[n].kind \in Labelled => u[n].label_no = t[n].label_no,
         t[n].kind = "goto" => u[u[n].target].label_no = t[t[n].target].label_no,
         t[n].kind = "break" => u[u[n].target].label_break = t[t[n].target].label_break,
         t[n].kind = "continue" => u[u[n].target].label_continue = t[t[n].target].label_continue,
         t[n].kind = "switch" => \A i \in DOMAIN t[n].cases :
                                   /\ u[t[n].cases[i]].kind = t[t[n].cases[i]].kind
                                   /\ u[t[n].cases[i]].label_no = t[t[n].cases[i]].label_no
  PROVE  Template(n, u, l) = Template(n, t, l)
<1>1. CASE t[n].kind \in {"expr", "comp", "if", "ifelse", "while", "do", "for", "forever", "return"}
  BY <1>1 DEF Template
<1>2. CASE t[n].kind \in Labelled
  BY <1>2 DEF Template, Labelled
<1>3. CASE t[n].kind \in {"goto", "break", "continue"}
  BY <1>3 DEF Template
<1>4. CASE t[n].kind = "switch"
  <2>1. PICK J : J = [i \in DOMAIN t[n].cases |->
                        IF t[t[n].cases[i]].kind = "case"
                          THEN JumpCase(t[n].cases[i], t[t[n].cases[i]].label_no)
                          ELSE Jump(t[t[n].cases[i]].label_no)]
    OBVIOUS
  <2>2. J = [i \in DOMAIN t[n].cases |->
               IF u[t[n].cases[i]].kind = "case"
                 THEN JumpCase(t[n].cases[i], u[t[n].cases[i]].label_no)
                 ELSE Jump(u[t[n].cases[i]].label_no)]
    BY <1>4, <2>1
  <2>3. Template(n, t, l) = <<Eval(n, "cond")>> \o J \o <<Visit(t[n].kids[1]), Label(l)>>
    BY <1>4, <2>1 DEF Template
  <2>4. Template(n, u, l) = <<Eval(n, "cond")>> \o J \o <<Visit(t[n].kids[1]), Label(l)>>
    BY <1>4, <2>2 DEF Template
  <2> QED
    BY <2>3, <2>4
<1> QED
  BY <1>1, <1>2, <1>3, <1>4 DEF AllKinds, Labelled
(* Where the place x is once the call at p has become t items. *)
Moved(x, p, t) == IF x <= p THEN x ELSE (x + t) - 1

(* r, before e, is s, before d, with t items for the call at p. *)
Opened(s, d, p, t, r, e) ==
  /\ Len(s) \in Nat /\ t \in Nat /\ p \in 1 .. Len(s) /\ s[p].do = "visit"
  /\ Len(r) = (Len(s) + t) - 1
  /\ \A x \in 1 .. Len(s) : x # p => r[Moved(x, p, t)] = s[x]
  /\ d = Len(s) + 1 /\ e = Len(r) + 1

(* The places of n and of the statements its items T call move with them. *)
Carried(T, n, p, t, b, f, c, g) ==
  /\ Len(T) \in Nat
  /\ c[n] = Moved(b[n], p, t) /\ g[n] = Moved(f[n], p, t)
  /\ \A j \in 1 .. Len(T) : T[j].do = "visit" =>
       c[T[j].at] = Moved(b[T[j].at], p, t) /\ g[T[j].at] = Moved(f[T[j].at], p, t)

(* Laid, for the items T. *)
LaidAs(T, s, e, b, f, n) ==
  \E q : /\ q[1] = b[n] /\ q[Len(T) + 1] = f[n]
         /\ \A j \in 1 .. Len(T) + 1 : q[j] \in 1 .. e
         /\ \A j \in 1 .. Len(T) :
              IF T[j].do = "visit" THEN b[T[j].at] = q[j] /\ f[T[j].at] = q[j + 1]
              ELSE q[j] \in 1 .. Len(s) /\ s[q[j]] = T[j] /\ q[j + 1] = q[j] + 1

LEMMA LaidMoved ==
  ASSUME NEW s, NEW d, NEW p, NEW t, NEW r, NEW e, Opened(s, d, p, t, r, e),
         NEW T, NEW n, NEW b, NEW f, NEW c, NEW g, Carried(T, n, p, t, b, f, c, g),
         LaidAs(T, s, d, b, f, n)
  PROVE  LaidAs(T, r, e, c, g, n)
<1>1. PICK z, w, m : z = Len(s) /\ w = Len(r) /\ m = Len(T)
  OBVIOUS
<1>12. /\ s[p].do = "visit"
       /\ \A x \in 1 .. z : x # p => r[Moved(x, p, t)] = s[x]
       /\ c[n] = Moved(b[n], p, t) /\ g[n] = Moved(f[n], p, t)
       /\ \A j \in 1 .. m : T[j].do = "visit" =>
            c[T[j].at] = Moved(b[T[j].at], p, t) /\ g[T[j].at] = Moved(f[T[j].at], p, t)
  BY <1>1 DEF Opened, Carried
<1>2. z \in Nat /\ w = (z + t) - 1 /\ m \in Nat /\ p \in 1 .. z /\ w \in Nat /\ t \in Nat
  BY <1>1 DEF Opened, Carried
<1>0. d = z + 1 /\ e = w + 1
  BY <1>1 DEF Opened
<1>3. PICK q : /\ q[1] = b[n] /\ q[m + 1] = f[n]
               /\ \A j \in 1 .. m + 1 : q[j] \in 1 .. z + 1
               /\ \A j \in 1 .. m :
                    IF T[j].do = "visit" THEN b[T[j].at] = q[j] /\ f[T[j].at] = q[j + 1]
                    ELSE q[j] \in 1 .. z /\ s[q[j]] = T[j] /\ q[j + 1] = q[j] + 1
  <2>1. PICK q : /\ q[1] = b[n] /\ q[Len(T) + 1] = f[n]
                 /\ \A j \in 1 .. Len(T) + 1 : q[j] \in 1 .. d
                 /\ \A j \in 1 .. Len(T) :
                      IF T[j].do = "visit" THEN b[T[j].at] = q[j] /\ f[T[j].at] = q[j + 1]
                      ELSE q[j] \in 1 .. Len(s) /\ s[q[j]] = T[j] /\ q[j + 1] = q[j] + 1
    BY DEF LaidAs
  <2> QED
    BY ONLY <1>0, <1>1, <2>1
<1>4. PICK y : y = [j \in 1 .. m + 1 |-> Moved(q[j], p, t)]
  OBVIOUS
<1>5. 1 \in 1 .. m + 1 /\ m + 1 \in 1 .. m + 1 /\ \A j \in 1 .. m : j \in 1 .. m + 1 /\ j + 1 \in 1 .. m + 1
  BY <1>2
<1>6. y[1] = c[n] /\ y[m + 1] = g[n]
  BY ONLY <1>3, <1>4, <1>5, <1>12
<1>7. \A x \in 1 .. z + 1 : Moved(x, p, t) \in 1 .. w + 1
  BY ONLY <1>2 DEF Moved
<1>8. \A j \in 1 .. m + 1 : y[j] \in 1 .. w + 1
  BY <1>3, <1>4, <1>7
<1>9. \A x \in 1 .. z : x # p => Moved(x, p, t) \in 1 .. w /\ Moved(x + 1, p, t) = Moved(x, p, t) + 1
  BY ONLY <1>2 DEF Moved
<1>10. ASSUME NEW j \in 1 .. m
       PROVE  IF T[j].do = "visit" THEN c[T[j].at] = y[j] /\ g[T[j].at] = y[j + 1]
              ELSE y[j] \in 1 .. w /\ r[y[j]] = T[j] /\ y[j + 1] = y[j] + 1
  <2>1. y[j] = Moved(q[j], p, t) /\ y[j + 1] = Moved(q[j + 1], p, t)
    BY <1>4, <1>5
  <2>2. CASE T[j].do = "visit"
    BY ONLY <1>3, <1>10, <1>12, <2>1, <2>2
  <2>3. CASE T[j].do # "visit"
    <3>1. q[j] \in 1 .. z /\ s[q[j]] = T[j] /\ q[j + 1] = q[j] + 1
      BY <1>3, <2>3
    <3>2. q[j] # p
      BY <1>12, <2>3, <3>1
    <3>3. r[Moved(q[j], p, t)] = s[q[j]]
      BY <1>12, <3>1, <3>2
    <3> QED
      BY <1>9, <2>1, <2>3, <3>1, <3>2, <3>3
  <2> QED
    BY <2>2, <2>3
<1>11. /\ y[1] = c[n] /\ y[Len(T) + 1] = g[n]
       /\ \A j \in 1 .. Len(T) + 1 : y[j] \in 1 .. e
       /\ \A j \in 1 .. Len(T) :
            IF T[j].do = "visit" THEN c[T[j].at] = y[j] /\ g[T[j].at] = y[j + 1]
            ELSE y[j] \in 1 .. Len(r) /\ r[y[j]] = T[j] /\ y[j + 1] = y[j] + 1
  BY <1>0, <1>1, <1>6, <1>8, <1>10
<1> QED
  BY <1>11 DEF LaidAs

(* The items of n take the place of the call. *)
LEMMA LaidHere ==
  ASSUME NEW r, NEW c, NEW g, NEW l, NEW n, NEW p \in Nat \ {0}, NEW T, T = Template(n, tree', l), Len(T) \in Nat,
         Len(r) \in Nat, (p + Len(T)) - 1 <= Len(r),
         \A j \in 1 .. Len(T) : r[(p - 1) + j] = T[j],
         c[n] = p, g[n] = p + Len(T),
         \A j \in 1 .. Len(T) : T[j].do = "visit" =>
           c[T[j].at] = (p - 1) + j /\ g[T[j].at] = ((p - 1) + j) + 1
  PROVE  Laid(r, Len(r) + 1, c, g, l, n)'
<1>1. PICK w, m : w = Len(r) /\ m = Len(T)
  OBVIOUS
<1>2. w \in Nat /\ m \in Nat /\ (p + m) - 1 <= w
  BY <1>1
<1>3. PICK y : y = [j \in 1 .. m + 1 |-> (p - 1) + j]
  OBVIOUS
<1>4. 1 \in 1 .. m + 1 /\ m + 1 \in 1 .. m + 1 /\ \A j \in 1 .. m : j \in 1 .. m + 1 /\ j + 1 \in 1 .. m + 1
  BY <1>2
<1>5. /\ y[1] = p /\ y[m + 1] = p + m
      /\ \A j \in 1 .. m + 1 : y[j] = (p - 1) + j /\ y[j] \in 1 .. w + 1
      /\ \A j \in 1 .. m : y[j] \in 1 .. w /\ y[j + 1] = ((p - 1) + j) + 1 /\ y[j] = (p - 1) + j
  BY <1>2, <1>3, <1>4
<1>6. /\ y[1] = c[n] /\ y[Len(T) + 1] = g[n]
      /\ \A j \in 1 .. Len(T) + 1 : y[j] \in 1 .. Len(r) + 1
      /\ \A j \in 1 .. Len(T) :
           IF T[j].do = "visit" THEN c[T[j].at] = y[j] /\ g[T[j].at] = y[j + 1]
           ELSE y[j] \in 1 .. Len(r) /\ r[y[j]] = T[j] /\ y[j + 1] = y[j] + 1
  BY <1>1, <1>5
<1> QED
  BY <1>6 DEF Laid

(* The items T take the place of the call for n at p. *)
Inserted(n, T, p) ==
  /\ Len(Items) \in Nat /\ Len(T) \in Nat /\ Len(Items') = (Len(Items) + Len(T)) - 1
  /\ p \in 1 .. Len(Items) /\ Items[p] = Visit(n)
  /\ \A x \in 1 .. Len(Items) : x # p => Items'[Moved(x, p, Len(T))] = Items[x] /\ Items[x] # Visit(n)
  /\ \A a \in 1 .. Len(T) : Items'[(p - 1) + a] = T[a]

LEMMA ItemsAt ==
  ASSUME Gen, NEW n, NEW T, NEW k, Printing(n, T, k), NEW p, p = Len(code) + 1
  PROVE  Inserted(n, T, p)
<1>1. /\ IsSeq(code) /\ IsSeq(todo) /\ IsSeq(T) /\ todo[1] = Visit(n) /\ Len(todo) \in Nat \ {0}
      /\ \A i \in 1 .. Len(code) : code[i].do # "visit"
      /\ \A i, j \in 1 .. Len(todo) :
           i < j /\ todo[i].do = "visit" /\ todo[j].do = "visit" => todo[i].at < todo[j].at
  BY DEF Gen, Unique, ToGo, Printing, Lays
<1>2. PICK c, o, t, z, w : c = Len(code) /\ o = Len(todo) /\ t = Len(T) /\ z = Len(Items) /\ w = Len(Items')
  OBVIOUS
<1>3. /\ z = c + o /\ c \in Nat /\ o \in Nat \ {0} /\ t \in Nat
      /\ \A i \in 1 .. c : Items[i] = code[i]
      /\ \A i \in c + 1 .. c + o : Items[i] = todo[i - c]
  <2>1. /\ Len(Items) = Len(code) + Len(todo)
        /\ \A i \in 1 .. Len(code) : Items[i] = code[i]
        /\ \A i \in Len(code) + 1 .. Len(code) + Len(todo) : Items[i] = todo[i - Len(code)]
    BY <1>1, ConcatSeq DEF Items
  <2> QED
    BY <1>1, <1>2, <2>1 DEF IsSeq
<1>4. /\ w = (c + t) + (o - 1)
      /\ \A i \in 1 .. w :
           \/ \E a \in 1 .. t : i = c + a /\ Items'[i] = T[a]
           \/ \E x \in 1 .. c : i = x /\ Items'[i] = code[x]
           \/ \E x \in 2 .. o : i = c + t + (x - 1) /\ Items'[i] = todo[x]
  <2>1. Continued(T, k)
    BY DEF Printing
  <2> QED
    BY ONLY <1>2, <2>1, ZenonT(60) DEF Continued
<1>5. p = c + 1 /\ p \in 1 .. z /\ p \in c + 1 .. c + o /\ p - c = 1
  BY <1>2, <1>3
<1>6. Items[p] = Visit(n)
  BY <1>1, <1>3, <1>5
<1>7. ASSUME NEW a \in 1 .. t
      PROVE  Items'[(p - 1) + a] = T[a]
  <2>1. PICK i : i = (p - 1) + a
    OBVIOUS
  <2>0. w = (c + t) + (o - 1) /\ c \in Nat /\ t \in Nat /\ o \in Nat \ {0} /\ p = c + 1
    BY <1>3, <1>4, <1>5
  <2>2. i \in 1 .. w /\ i = c + a
    BY ONLY <1>7, <2>0, <2>1
  <2>3. /\ \A x \in 1 .. t : i = c + x => x = a
        /\ \A x \in 1 .. c : i # x
        /\ \A x \in 2 .. o : i # c + t + (x - 1)
    BY ONLY <1>3, <1>7, <2>2
  <2> QED
    BY <1>4, <2>1, <2>2, <2>3
<1>8. ASSUME NEW x \in 1 .. z, x # p
      PROVE  Items'[Moved(x, p, t)] = Items[x] /\ Items[x] # Visit(n)
  <2>1. CASE x \in 1 .. c
    <3>1. /\ Moved(x, p, t) = x /\ x \in 1 .. w
          /\ \A y \in 1 .. t : x # c + y
          /\ \A y \in 2 .. o : x # c + t + (y - 1)
      BY <1>3, <1>4, <1>5, <2>1 DEF Moved
    <3>2. Items'[x] = code[x]
      BY <1>4, <3>1
    <3>3. code[x] # Visit(n)
      BY <1>1, <1>2, <2>1, ItemFields
    <3> QED
      BY <1>3, <2>1, <3>1, <3>2, <3>3
  <2>2. CASE x \notin 1 .. c
    <3>1. PICK i, d : i = (x + t) - 1 /\ d = x - c
      OBVIOUS
    <3>2. /\ Moved(x, p, t) = i /\ i \in 1 .. w /\ d \in 2 .. o /\ i = c + t + (d - 1)
          /\ x \in c + 1 .. c + o /\ d \in 1 .. o /\ 1 < d
      BY <1>3, <1>4, <1>5, <1>8, <2>2, <3>1 DEF Moved
    <3>3. /\ \A y \in 1 .. t : i # c + y
          /\ \A y \in 1 .. c : i # y
          /\ \A y \in 2 .. o : i = c + t + (y - 1) => y = d
      BY ONLY <1>3, <3>2
    <3>4. Items'[i] = todo[d]
      BY <1>4, <3>2, <3>3
    <3>5. Items[x] = todo[d]
      BY <1>3, <3>1, <3>2
    <3>6. todo[d] # Visit(n)
      <4>1. SUFFICES ASSUME todo[d] = Visit(n)
                     PROVE  FALSE
        OBVIOUS
      <4>2. 1 \in 1 .. Len(todo) /\ d \in 1 .. Len(todo)
        BY <1>2, <1>3, <3>2
      <4>3. todo[1].at < todo[d].at /\ todo[1].at = n /\ todo[d].at = n
        BY <1>1, <3>2, <4>1, <4>2, ItemFields
      <4>4. n \in Nat
        BY DEF Printing, Nodes
      <4> QED
        BY <4>3, <4>4
    <3> QED
      BY <3>2, <3>4, <3>5, <3>6
  <2> QED
    BY <2>1, <2>2
<1>9. z \in Nat /\ w = (z + t) - 1
  BY <1>3, <1>4
<1> QED
  BY <1>2, <1>3, <1>5, <1>6, <1>7, <1>8, <1>9 DEF Inserted

(* The statements before n keep what they are printed as. *)
LEMMA KeptTemplate ==
  ASSUME Shape, Referred, Whole, NEW n \in Nodes, Given(n), NEW m \in 1 .. n - 1, NEW l
  PROVE  Template(m, tree', l) = Template(m, tree, l) /\ (Named(m, l)' <=> Named(m, l))
<1>1. /\ m \in Nodes /\ m # n /\ n \in Nat /\ tree[m].kind \in AllKinds
      /\ tree'[m].kind = tree[m].kind /\ tree'[m].kids = tree[m].kids /\ tree'[m].cases = tree[m].cases
      /\ tree'[m].target = tree[m].target
      /\ tree'[m].label_break = tree[m].label_break /\ tree'[m].label_continue = tree[m].label_continue
  <2>1. m \in Nodes /\ m # n /\ n \in Nat
    BY DEF Nodes
  <2> QED
    BY <2>1 DEF Given, Same, Shape
<1>2. PICK d : d = tree[n].cases
  OBVIOUS
<1>3. /\ DOMAIN d = 1 .. Len(d)
      /\ \A i \in DOMAIN d : d[i] \in Nodes /\ tree[d[i]].kind \in CaseKinds /\ tree[d[i]].target = n
  BY <1>2, CasesIn
<1>4. \A x \in Nodes : (\A i \in 1 .. Len(d) : d[i] # x) => tree'[x].label_no = tree[x].label_no
  BY <1>2 DEF Given
<1>5. \A x \in Nodes : ~ (tree[x].kind \in CaseKinds /\ tree[x].target = n) => tree'[x].label_no = tree[x].label_no
  BY <1>3, <1>4
<1>6. tree'[m].label_no = tree[m].label_no
  <2>1. tree[m].kind \in CaseKinds => tree[m].target \in 1 .. m - 1
    BY <1>1 DEF Referred, Around
  <2>2. tree[m].kind \in CaseKinds => tree[m].target # n
    BY <1>1, <2>1
  <2> QED
    BY <1>1, <1>5, <2>2
<1>7. PICK x : x = tree[m].target
  OBVIOUS
<1>8. tree[m].kind = "goto" => tree'[x].label_no = tree[x].label_no
  <2>1. tree[m].kind = "goto" => x \in Nodes /\ tree[x].kind = "label"
    BY <1>1, <1>7 DEF Whole, OfKind
  <2> QED
    BY <1>5, <2>1 DEF CaseKinds
<1>9. tree[m].kind \in {"break", "continue"} =>
        /\ tree'[x].label_break = tree[x].label_break
        /\ tree'[x].label_continue = tree[x].label_continue
  <2>1. tree[m].kind \in {"break", "continue"} => x \in 1 .. m - 1
    BY <1>1, <1>7 DEF Referred, Around
  <2>2. x \in 1 .. m - 1 => x \in Nodes /\ x # n
    BY <1>1 DEF Nodes
  <2> QED
    BY <2>1, <2>2 DEF Given
<1>10. PICK e : e = tree[m].cases
  OBVIOUS
<1>11. IsSeq(e) /\ \A i \in DOMAIN e : tree'[e[i]].kind = tree[e[i]].kind /\ tree'[e[i]].label_no = tree[e[i]].label_no
  <2>0. m \in Nodes
    BY <1>1
  <2>1. /\ IsSeq(e) /\ DOMAIN e = 1 .. Len(e)
        /\ \A i \in DOMAIN e : e[i] \in Nodes /\ tree[e[i]].kind \in CaseKinds /\ tree[e[i]].target = m
    BY <1>10, <2>0, CasesIn
  <2>2. \A y \in Nodes : tree'[y].kind = tree[y].kind
    BY DEF Given, Same
  <2> QED
    BY <1>1, <1>5, <2>1, <2>2
<1>12. Template(m, tree', l) = Template(m, tree, l)
  <2>1. PICK u : u = tree'
    OBVIOUS
  <2>2. /\ u[m].kind = tree[m].kind /\ u[m].kids = tree[m].kids /\ u[m].cases = tree[m].cases
        /\ IsSeq(tree[m].cases)
        /\ u[m].label_no = tree[m].label_no
        /\ tree[m].kind = "goto" => u[u[m].target].label_no = tree[tree[m].target].label_no
        /\ tree[m].kind = "break" => u[u[m].target].label_break = tree[tree[m].target].label_break
        /\ tree[m].kind = "continue" => u[u[m].target].label_continue = tree[tree[m].target].label_continue
        /\ \A i \in DOMAIN tree[m].cases :
             /\ u[tree[m].cases[i]].kind = tree[tree[m].cases[i]].kind
             /\ u[tree[m].cases[i]].label_no = tree[tree[m].cases[i]].label_no
    BY <1>1, <1>6, <1>7, <1>8, <1>9, <1>10, <1>11, <2>1
  <2>3. Template(m, u, l) = Template(m, tree, l)
    BY <1>1, <2>2, SameTemplate
  <2> QED
    BY <2>1, <2>3
<1> QED
  BY <1>1, <1>12 DEF Named

(* The text s, in which the statements up to m have become what is printed *)
(* for them: n is at b[n] to f[n], with its labels from lab[n] on.         *)
Layout(s, m, b, f, lab) ==
  /\ Len(s) \in Nat
  /\ b[1] = 1 /\ f[1] = Len(s) + 1
  /\ \A n \in 1 .. m : Laid(s, Len(s) + 1, b, f, lab[n], n) /\ Named(n, lab[n])
  /\ \A n \in m + 1 .. Len(tree) : Parent(n) <= m =>
       b[n] \in 1 .. Len(s) /\ s[b[n]] = Visit(n) /\ f[n] = b[n] + 1
  /\ \A i \in 1 .. Len(s) : s[i].do = "eval" => s[i].part \in Parts(tree[s[i].at].kind)

LEMMA KidsInTemplate ==
  ASSUME Gen, NEW n, NEW T, NEW k, Printing(n, T, k)
  PROVE  /\ \A j \in 1 .. Len(T) : T[j].do = "visit" =>
              T[j] = Visit(T[j].at) /\ T[j].at \in Nodes /\ Parent(T[j].at) = n
         /\ \A m \in Nodes : Parent(m) = n => \E j \in 1 .. Len(T) : T[j] = Visit(m)
         /\ \A i, j \in 1 .. Len(T) : T[i].do = "visit" /\ T[i] = T[j] => i = j
<1>1. PICK s : s = tree[n].kids
  OBVIOUS
<1>2. /\ \A i \in 1 .. Len(s) : s[i] \in Nodes /\ Parent(s[i]) = n
      /\ \A m \in Nodes : Parent(m) = n => \E i \in 1 .. Len(s) : s[i] = m
  <2>1. Lists(s, {m \in Nodes : Parent(m) = n})
    BY <1>1 DEF Gen, Shape, Printing
  <2> QED
    BY <2>1 DEF Lists
<1>3. /\ \A i \in 1 .. Len(T) : T[i].do = "visit" => \E k1 \in 1 .. Len(s) : T[i] = Visit(s[k1])
      /\ \A k1 \in 1 .. Len(s) : \E i \in 1 .. Len(T) : T[i] = Visit(s[k1])
      /\ \A i, j \in 1 .. Len(T) : i < j /\ T[i].do = "visit" /\ T[j].do = "visit" => T[i].at < T[j].at
      /\ Len(T) \in Nat
  BY <1>1 DEF Printing, Lays, IsSeq
<1>4. \A j \in 1 .. Len(T) : T[j].do = "visit" =>
        T[j] = Visit(T[j].at) /\ T[j].at \in Nodes /\ Parent(T[j].at) = n
  BY <1>2, <1>3, ItemFields
<1>5. \A m \in Nodes : Parent(m) = n => \E j \in 1 .. Len(T) : T[j] = Visit(m)
  BY <1>2, <1>3
<1>6. ASSUME NEW i \in 1 .. Len(T), NEW j \in 1 .. Len(T), T[i].do = "visit", T[i] = T[j]
      PROVE  i = j
  <2>1. PICK x : x = T[i].at
    OBVIOUS
  <2>2. x \in Int /\ T[j].at = x /\ T[j].do = "visit"
    BY <1>4, <1>6, <2>1 DEF Nodes
  <2>3. ~ (i < j) /\ ~ (j < i)
    BY <1>3, <1>6, <2>1, <2>2
  <2> QED
    BY <1>3, <2>3
<1> QED
  BY <1>4, <1>5, <1>6
LEMMA LayoutNext ==
  ASSUME Gen, NEW n, NEW T, NEW k, Printing(n, T, k), T = Template(n, tree', label_no), Visited' = n,
         NEW b, NEW f, NEW lab, Layout(Items, Visited, b, f, lab)
  PROVE  \E c, g, a : Layout(Items, Visited, c, g, a)'
<1>1. /\ Shape /\ Referred /\ Labels /\ Whole /\ Unique /\ Given(n) /\ Same /\ Lays(n, T)
      /\ n \in Nodes /\ Visited = n - 1 /\ Len(tree) \in Nat /\ n \in 1 .. Len(tree)
  BY DEF Gen, Printing, Given, Nodes
<1>2. PICK p, t, s, r : p = Len(code) + 1 /\ t = Len(T) /\ s = Items /\ r = Items'
  OBVIOUS
<1>3. /\ Len(s) \in Nat /\ t \in Nat /\ Len(r) = (Len(s) + t) - 1
      /\ p \in 1 .. Len(s) /\ s[p] = Visit(n)
      /\ \A x \in 1 .. Len(s) : x # p => r[Moved(x, p, t)] = s[x] /\ s[x] # Visit(n)
      /\ \A j \in 1 .. t : r[(p - 1) + j] = T[j]
  <2>1. Inserted(n, T, p)
    <3>1. p = Len(code) + 1
      BY <1>2
    <3> QED
      BY ONLY Gen, Printing(n, T, k), <3>1, ItemsAt
  <2> QED
    BY <1>2, <2>1 DEF Inserted
<1>4. /\ Nodes' = Nodes /\ Len(tree') = Len(tree) /\ Nodes = 1 .. Len(tree)
      /\ \A m \in Nodes : Parent(m)' = Parent(m) /\ tree'[m].kind = tree[m].kind
      /\ \A m \in Nodes : Parent(m) \in 0 .. m - 1
  <2>1. \A m \in Nodes : Parent(m) \in 0 .. m - 1
    BY <1>1, Zenon DEF Shape
  <2> QED
    BY <1>1, <2>1, SameTree DEF Same, Nodes
<1>5. /\ b[1] = 1 /\ f[1] = Len(s) + 1
      /\ \A m \in 1 .. n - 1 : Laid(s, Len(s) + 1, b, f, lab[m], m) /\ Named(m, lab[m])
      /\ \A m \in n .. Len(tree) : Parent(m) <= n - 1 =>
           b[m] \in 1 .. Len(s) /\ s[b[m]] = Visit(m) /\ f[m] = b[m] + 1
      /\ \A i \in 1 .. Len(s) : s[i].do = "eval" => s[i].part \in Parts(tree[s[i].at].kind)
  <2>1. Layout(s, n - 1, b, f, lab) /\ (n - 1) + 1 = n
    BY <1>1, <1>2
  <2> QED
    BY <2>1 DEF Layout
<1>6. /\ \A j \in 1 .. t : T[j].do = "visit" =>
           T[j] = Visit(T[j].at) /\ T[j].at \in Nodes /\ Parent(T[j].at) = n
      /\ \A m \in Nodes : Parent(m) = n => \E j \in 1 .. t : T[j] = Visit(m)
      /\ \A i, j \in 1 .. t : T[i].do = "visit" /\ T[i] = T[j] => i = j
  BY <1>2, KidsInTemplate
<1>7. PICK c, g, a :
        /\ c = [m \in Nodes |-> IF Parent(m) = n THEN (p - 1) + CHOOSE j \in 1 .. t : T[j] = Visit(m)
                                ELSE Moved(b[m], p, t)]
        /\ g = [m \in Nodes |-> IF Parent(m) = n THEN ((p - 1) + CHOOSE j \in 1 .. t : T[j] = Visit(m)) + 1
                                ELSE Moved(f[m], p, t)]
        /\ a = [m \in Nodes |-> IF m = n THEN label_no ELSE lab[m]]
  OBVIOUS
<1>8. ASSUME NEW m \in Nodes, Parent(m) = n
      PROVE  \E j \in 1 .. t : T[j] = Visit(m) /\ c[m] = (p - 1) + j /\ g[m] = ((p - 1) + j) + 1
  <2>1. PICK y : y = CHOOSE j \in 1 .. t : T[j] = Visit(m)
    OBVIOUS
  <2>2. y \in 1 .. t /\ T[y] = Visit(m)
    BY <1>6, <1>8, <2>1
  <2>3. c[m] = (p - 1) + y /\ g[m] = ((p - 1) + y) + 1
    BY <1>7, <1>8, <2>1
  <2> QED
    BY <2>2, <2>3
<1>9. \A m \in Nodes : Parent(m) # n => c[m] = Moved(b[m], p, t) /\ g[m] = Moved(f[m], p, t)
  BY <1>7
<1>10. \A j \in 1 .. t : T[j].do = "visit" => c[T[j].at] = (p - 1) + j /\ g[T[j].at] = ((p - 1) + j) + 1
  <2>1. SUFFICES ASSUME NEW j \in 1 .. t, T[j].do = "visit"
                 PROVE  c[T[j].at] = (p - 1) + j /\ g[T[j].at] = ((p - 1) + j) + 1
    OBVIOUS
  <2>2. PICK m \in Nodes : T[j] = Visit(m) /\ Parent(m) = n /\ m = T[j].at
    BY <1>6, <2>1
  <2>3. PICK i \in 1 .. t : T[i] = Visit(m) /\ c[m] = (p - 1) + i /\ g[m] = ((p - 1) + i) + 1
    BY <1>8, <2>2
  <2>4. i = j
    BY <1>6, <2>1, <2>2, <2>3
  <2> QED
    BY <2>2, <2>3, <2>4
<1>11. Parent(n) # n /\ Parent(n) <= n - 1 /\ n \in n .. Len(tree)
  BY <1>1, <1>4
<1>12. b[n] = p /\ f[n] = p + 1
  <2>1. b[n] \in 1 .. Len(s) /\ s[b[n]] = Visit(n) /\ f[n] = b[n] + 1
    BY <1>5, <1>11
  <2> QED
    BY <1>3, <2>1
<1>13. c[n] = p /\ g[n] = p + t
  <2>1. c[n] = Moved(p, p, t) /\ g[n] = Moved(p + 1, p, t)
    BY <1>1, <1>9, <1>11, <1>12
  <2>2. p \in Nat /\ t \in Nat
    BY <1>3
  <2>3. Moved(p, p, t) = p /\ Moved(p + 1, p, t) = p + t
    BY ONLY <2>2 DEF Moved
  <2> QED
    BY <2>1, <2>3
<1>14. c[1] = 1 /\ g[1] = Len(r) + 1
  <2>1. 1 \in Nodes /\ Parent(1) # n
    <3>1. 1 \in Nodes
      BY <1>1, <1>4
    <3>2. Parent(1) \in 0 .. 1 - 1
      BY <1>4, <3>1
    <3> QED
      BY <1>1, <3>1, <3>2
  <2>2. c[1] = Moved(1, p, t) /\ g[1] = Moved(Len(s) + 1, p, t)
    BY <1>5, <1>9, <2>1
  <2>3. Moved(1, p, t) = 1
    BY <1>3 DEF Moved
  <2>4. PICK z : z = Len(s)
    OBVIOUS
  <2>5. Moved(z + 1, p, t) = ((z + t) - 1) + 1
    BY <1>3, <2>4 DEF Moved
  <2> QED
    BY <1>3, <2>2, <2>3, <2>4, <2>5
<1>15. ASSUME NEW m \in 1 .. n - 1
       PROVE  Laid(r, Len(r) + 1, c, g, a[m], m)' /\ Named(m, a[m])'
  <2>1. m \in Nodes /\ m # n /\ Parent(m) # n /\ a[m] = lab[m]
    BY <1>1, <1>4, <1>7
  <2>2. PICK l, U : l = lab[m] /\ U = Template(m, tree, l)
    OBVIOUS
  <2>3. Template(m, tree', l) = U /\ (Named(m, l)' <=> Named(m, l)) /\ Laid(s, Len(s) + 1, b, f, l, m) /\ Named(m, l)
    BY <1>1, <1>5, <2>2, KeptTemplate
  <2>4. /\ IsSeq(U)
        /\ \A i \in 1 .. Len(U) : U[i].do = "visit" => \E x \in 1 .. Len(tree[m].kids) : U[i] = Visit(tree[m].kids[x])
    <3>1. tree[m].kind \in AllKinds /\ IsSeq(tree[m].kids) /\ IsSeq(tree[m].cases)
      BY <1>1, <2>1 DEF Shape, Lists
    <3>2. tree[m].kind # "comp" => Len(tree[m].kids) = Arity(tree[m].kind)
      BY <1>1, <2>1 DEF Whole
    <3> QED
      BY <2>2, <3>1, <3>2, TemplateIs
  <2>5. \A x \in 1 .. Len(tree[m].kids) : tree[m].kids[x] \in Nodes /\ Parent(tree[m].kids[x]) = m
    <3>1. Lists(tree[m].kids, {y \in Nodes : Parent(y) = m})
      BY <1>1, <2>1 DEF Shape
    <3> QED
      BY <3>1 DEF Lists
  <2>6. \A i \in 1 .. Len(U) : U[i].do = "visit" =>
          c[U[i].at] = Moved(b[U[i].at], p, t) /\ g[U[i].at] = Moved(f[U[i].at], p, t)
    BY <1>9, <2>1, <2>4, <2>5, ItemFields
  <2>7. /\ c[m] = Moved(b[m], p, t) /\ g[m] = Moved(f[m], p, t) /\ Len(U) \in Nat
        /\ s[p].do = "visit"
        /\ \A x \in 1 .. Len(s) : x # p => r[Moved(x, p, t)] = s[x]
    BY <1>3, <1>9, <2>1, <2>4, ItemFields DEF IsSeq
  <2>8. Laid(r, Len(r) + 1, c, g, l, m)'
    <3>0. PICK d, e, u : d = Len(s) + 1 /\ e = Len(r) + 1 /\ u = tree'
      OBVIOUS
    <3>1. Opened(s, d, p, t, r, e)
      BY <1>3, <2>7, <3>0 DEF Opened
    <3>3. Carried(U, m, p, t, b, f, c, g)
      BY <2>6, <2>7 DEF Carried
    <3>4. LaidAs(U, s, d, b, f, m)
      BY <2>2, <2>3, <3>0 DEF Laid, LaidAs
    <3>5. LaidAs(U, r, e, c, g, m)
      BY ONLY <3>1, <3>3, <3>4, LaidMoved
    <3>2. Laid(r, e, c, g, l, m)'
      <4>1. Template(m, tree', l) = U
        BY <2>3
      <4> QED
        BY ONLY <3>5, <4>1 DEF Laid, LaidAs
    <3> QED
      BY <3>0, <3>2
  <2> QED
    BY <2>1, <2>2, <2>3, <2>8
<1>16. Laid(r, Len(r) + 1, c, g, a[n], n)' /\ Named(n, a[n])'
  <2>1. a[n] = label_no
    BY <1>1, <1>7
  <2>2. PICK l : l = label_no
    OBVIOUS
  <2>3. Named(n, l)'
    BY <1>1, <1>4, <2>2 DEF Given, Named
  <2>4. p \in Nat \ {0} /\ Len(T) \in Nat /\ Len(r) \in Nat /\ (p + Len(T)) - 1 <= Len(r)
    BY <1>2, <1>3
  <2>5. /\ T = Template(n, tree', l)
        /\ \A j \in 1 .. Len(T) : r[(p - 1) + j] = T[j]
        /\ c[n] = p /\ g[n] = p + Len(T)
        /\ \A j \in 1 .. Len(T) : T[j].do = "visit" =>
             c[T[j].at] = (p - 1) + j /\ g[T[j].at] = ((p - 1) + j) + 1
    BY <1>2, <1>3, <1>10, <1>13, <2>2
  <2>6. Laid(r, Len(r) + 1, c, g, l, n)'
    BY <2>4, <2>5, LaidHere
  <2> QED
    BY <2>1, <2>2, <2>3, <2>6
<1>17. ASSUME NEW m \in n + 1 .. Len(tree), Parent(m) <= n
       PROVE  c[m] \in 1 .. Len(r) /\ r[c[m]] = Visit(m) /\ g[m] = c[m] + 1
  <2>1. m \in Nodes /\ m \in n .. Len(tree) /\ m # n
    BY <1>1, <1>4
  <2>2. CASE Parent(m) = n
    <3>1. PICK j \in 1 .. t : T[j] = Visit(m) /\ c[m] = (p - 1) + j /\ g[m] = ((p - 1) + j) + 1
      BY <1>8, <2>1, <2>2
    <3>2. r[(p - 1) + j] = T[j] /\ (p - 1) + j \in 1 .. Len(r)
      BY <1>3
    <3> QED
      BY <3>1, <3>2
  <2>3. CASE Parent(m) # n
    <3>1. Parent(m) <= n - 1
      BY <1>1, <1>4, <1>17, <2>1, <2>3
    <3>2. b[m] \in 1 .. Len(s) /\ s[b[m]] = Visit(m) /\ f[m] = b[m] + 1
      BY <1>5, <2>1, <3>1
    <3>3. b[m] # p
      BY <1>3, <2>1, <3>2, ItemFields
    <3>4. r[Moved(b[m], p, t)] = Visit(m)
      BY <1>3, <3>2, <3>3
    <3>5. PICK x, z, w : x = b[m] /\ z = Len(s) /\ w = Len(r)
      OBVIOUS
    <3>6. x \in 1 .. z /\ x # p /\ z \in Nat /\ t \in Nat /\ p \in 1 .. z /\ w = (z + t) - 1
      BY <1>3, <3>2, <3>3, <3>5
    <3>7. Moved(x, p, t) \in 1 .. w /\ Moved(x + 1, p, t) = Moved(x, p, t) + 1
      BY ONLY <3>6 DEF Moved
    <3> QED
      BY <1>9, <2>1, <2>3, <3>2, <3>4, <3>5, <3>7
  <2> QED
    BY <2>2, <2>3
<1>18. ASSUME NEW i \in 1 .. Len(r), r[i].do = "eval"
       PROVE  r[i].part \in Parts(tree'[r[i].at].kind)
  <2>1. (\E j \in 1 .. t : r[i] = T[j]) \/ \E x \in 1 .. Len(s) : r[i] = s[x]
    <3>1. PICK z, w : z = Len(s) /\ w = Len(r)
      OBVIOUS
    <3>2. z \in Nat /\ t \in Nat /\ w = (z + t) - 1 /\ p \in 1 .. z /\ i \in 1 .. w
      BY <1>3, <3>1
    <3>3. CASE i < p
      <4>1. i \in 1 .. z /\ i # p /\ Moved(i, p, t) = i
        BY ONLY <3>2, <3>3 DEF Moved
      <4> QED
        BY <1>3, <3>1, <4>1
    <3>4. CASE i >= p /\ i < p + t
      <4>1. PICK j : j = i - (p - 1)
        OBVIOUS
      <4>2. j \in 1 .. t /\ (p - 1) + j = i
        BY ONLY <3>2, <3>4, <4>1
      <4> QED
        BY <1>3, <4>2
    <3>5. CASE i >= p + t
      <4>1. PICK x : x = (i - t) + 1
        OBVIOUS
      <4>2. x \in 1 .. z /\ x # p /\ Moved(x, p, t) = i
        BY ONLY <3>2, <3>5, <4>1 DEF Moved
      <4> QED
        BY <1>3, <3>1, <4>2
    <3> QED
      BY ONLY <3>2, <3>3, <3>4, <3>5
  <2>2. CASE \E j \in 1 .. t : r[i] = T[j]
    <3>1. PICK u, l : u = tree' /\ l = label_no
      OBVIOUS
    <3>2. /\ u[n].kind \in AllKinds /\ IsSeq(u[n].kids) /\ IsSeq(u[n].cases)
          /\ u[n].kind # "comp" => Len(u[n].kids) = Arity(u[n].kind)
      <4>1. tree[n].kind \in AllKinds /\ IsSeq(tree[n].kids) /\ IsSeq(tree[n].cases)
        BY <1>1 DEF Shape, Lists
      <4>2. tree[n].kind # "comp" => Len(tree[n].kids) = Arity(tree[n].kind)
        BY <1>1 DEF Whole
      <4>3. u[n].kind = tree[n].kind /\ u[n].kids = tree[n].kids /\ u[n].cases = tree[n].cases
        BY <1>1, <3>1 DEF Same
      <4> QED
        BY <4>1, <4>2, <4>3
    <3>3. \A j \in 1 .. Len(T) : T[j].do = "eval" => T[j] = Eval(n, T[j].part) /\ T[j].part \in Parts(u[n].kind)
      <4>1. T = Template(n, u, l)
        BY <3>1
      <4> QED
        BY <3>2, <4>1, TemplateIs
    <3>4. r[i] = Eval(n, r[i].part) /\ r[i].part \in Parts(u[n].kind)
      BY <1>2, <1>18, <2>2, <3>3
    <3>5. r[i].at = n
      BY <3>4, ItemFields
    <3> QED
      BY <3>1, <3>4, <3>5
  <2>3. CASE \E x \in 1 .. Len(s) : r[i] = s[x]
    <3>1. PICK x \in 1 .. Len(s) : r[i] = s[x]
      BY <2>3
    <3>2. s[x].at \in 1 .. Visited
      BY <1>1, <1>2, <1>18, <3>1 DEF Unique
    <3>3. s[x].at \in Nodes
      BY <1>1, <1>4, <3>2
    <3> QED
      BY <1>4, <1>5, <1>18, <3>1, <3>3
  <2> QED
    BY <2>1, <2>2, <2>3
<1>19. Layout(r, n, c, g, a)'
  <2>1. \A m \in 1 .. n : Laid(r, Len(r) + 1, c, g, a[m], m)' /\ Named(m, a[m])'
    <3>1. \A m \in 1 .. n : m = n \/ m \in 1 .. n - 1
      BY <1>1
    <3> QED
      BY <1>15, <1>16, <3>1
  <2>2. \A m \in n + 1 .. Len(tree') : Parent(m)' <= n =>
          c[m] \in 1 .. Len(r) /\ r[c[m]] = Visit(m) /\ g[m] = c[m] + 1
    <3>1. \A m \in n + 1 .. Len(tree) : m \in Nodes
      BY <1>1, <1>4
    <3> QED
      BY <1>4, <1>17, <3>1
  <2>3. Len(r) \in Nat
    <3>1. PICK z, w : z = Len(s) /\ w = Len(r)
      OBVIOUS
    <3>2. z \in Nat /\ t \in Nat /\ w = (z + t) - 1 /\ p \in 1 .. z
      BY <1>3, <3>1
    <3>3. w \in Nat
      BY ONLY <3>2
    <3> QED
      BY <3>1, <3>3
  <2> QED
    BY <1>14, <1>18, <2>1, <2>2, <2>3 DEF Layout
<1>20. Layout(Items, Visited, c, g, a)'
  BY <1>2, <1>19
<1> QED
  BY <1>20

(* gen_func starts with the call for the body of the function.             *)
LEMMA LayoutStarts ==
  ASSUME phase = "sema", Sema, sema_func_end, phase' = "gen", Gen', Same
  PROVE  \E b, f, lab : Layout(Items, Visited, b, f, lab)'
<1>1. todo' = <<Visit(1)>> /\ code' = << >>
  <2>1. code = << >> /\ "gen" # "error"
    BY DEF Sema
  <2> QED
    BY <2>1 DEF sema_func_end, Reject
<1>2. Len(todo') = 1 /\ todo'[1] = Visit(1) /\ todo' # << >> /\ Visited' = 0
  BY <1>1, ItemFields DEF Visited, Visit
<1>3. PICK s : s = Items'
  OBVIOUS
<1>4. Len(s) = 1 /\ s[1] = Visit(1)
  BY <1>1, <1>3 DEF Items
<1>5. PICK z : z = Len(s)
  OBVIOUS
<1>6. z = 1 /\ \A i \in 1 .. z : i = 1
  BY <1>4, <1>5
<1>7. Visit(1).do # "eval"
  BY ItemFields
<1>8. ASSUME NEW n \in 1 .. Len(tree'), Parent(n)' <= 0
      PROVE  n = 1
  <2>1. n \in Nodes'
    BY DEF Nodes
  <2>2. Parent(n)' \in 0 .. n - 1 /\ (Parent(n)' = 0 => n = 1)
    <3>1. Shape'
      BY DEF Gen
    <3> QED
      BY <2>1, <3>1 DEF Shape
  <2> QED
    BY <1>8, <2>2
<1>9. PICK b, f, lab : b = [n \in Nat |-> 1] /\ f = [n \in Nat |-> 2] /\ lab = [n \in Nat |-> 0]
  OBVIOUS
<1>10. b[1] = 1 /\ f[1] = 2
  BY <1>9
<1>11. /\ z \in Nat /\ b[1] = 1 /\ f[1] = z + 1
       /\ \A n \in 1 .. 0 : Laid(s, z + 1, b, f, lab[n], n)' /\ Named(n, lab[n])'
       /\ \A n \in 0 + 1 .. Len(tree') : Parent(n)' <= 0 => b[n] \in 1 .. z /\ s[b[n]] = Visit(n) /\ f[n] = b[n] + 1
       /\ \A i \in 1 .. z : s[i].do = "eval" => s[i].part \in Parts(tree'[s[i].at].kind)
  <2>1. 1 .. 0 = {} /\ 0 + 1 = 1
    OBVIOUS
  <2>2. \A i \in 1 .. z : s[i].do # "eval"
    BY <1>4, <1>6, <1>7
  <2>3. ASSUME NEW n \in 1 .. Len(tree'), Parent(n)' <= 0
        PROVE  b[n] \in 1 .. z /\ s[b[n]] = Visit(n) /\ f[n] = b[n] + 1
    <3>1. n = 1
      BY <1>8, <2>3
    <3> QED
      BY <1>4, <1>6, <1>10, <3>1
  <2> QED
    BY <1>6, <1>10, <2>1, <2>2, <2>3
<1>12. Layout(s, 0, b, f, lab)'
  BY <1>5, <1>11 DEF Layout
<1> QED
  BY <1>2, <1>3, <1>12

(* gen_func ends: the code is the text of the body, with every statement   *)
(* printed, the label of return and the end.                               *)
Ended(s, b, f, lab) ==
  /\ IsSeq(code) /\ Len(s) \in Nat /\ Len(code) = Len(s) + 2
  /\ \A i \in 1 .. Len(s) : code[i] = s[i]
  /\ code[Len(s) + 1] = Label(label_return) /\ code[Len(s) + 2] = EndOfFunction
  /\ Layout(s, Len(tree), b, f, lab)
  /\ \A i \in 1 .. Len(s) : s[i].do = "eval" => s[i] = Eval(s[i].at, s[i].part) /\ s[i].at \in Nodes

LEMMA LayoutEnds ==
  ASSUME Gen, gen_func_end, NEW b, NEW f, NEW lab, Layout(Items, Visited, b, f, lab)
  PROVE  \E s : Ended(s, b, f, lab)'
<1>1. /\ todo = << >> /\ tree' = tree
      /\ code' = code \o <<Label(label_return), EndOfFunction>>
  BY DEF gen_func_end, EndOfFunction
<1>2. Shape /\ Unique
  BY DEF Gen
<1>3. IsSeq(code) /\ Items = code /\ Visited = Len(tree)
  <2>1. IsSeq(code) /\ Len(code) \in Nat
    BY <1>2 DEF Unique, IsSeq
  <2>2. IsSeq(todo) /\ Len(todo) = 0
    BY <1>1 DEF IsSeq
  <2>3. /\ IsSeq(Items) /\ Len(Items) = Len(code) + Len(todo)
        /\ \A i \in 1 .. Len(code) : Items[i] = code[i]
    BY <2>1, <2>2, ConcatSeq DEF Items
  <2>4. Len(Items) = Len(code)
    BY <2>1, <2>2, <2>3
  <2>5. Items = code
    BY <2>1, <2>3, <2>4 DEF IsSeq
  <2> QED
    BY <1>1, <2>1, <2>5 DEF Visited
<1>4. PICK s, c : s = code /\ c = Len(s)
  OBVIOUS
<1>5. c \in Nat
  BY <1>3, <1>4 DEF IsSeq
<1>6. /\ IsSeq(code') /\ Len(code') = c + 2
      /\ \A i \in 1 .. c : code'[i] = s[i]
      /\ code'[c + 1] = Label(label_return) /\ code'[c + 2] = EndOfFunction
  <2>1. PICK e : e = <<Label(label_return), EndOfFunction>>
    OBVIOUS
  <2>2. IsSeq(e) /\ Len(e) = 2 /\ e[1] = Label(label_return) /\ e[2] = EndOfFunction
    BY <2>1 DEF IsSeq
  <2>3. code' = s \o e /\ IsSeq(s)
    BY <1>1, <1>3, <1>4, <2>1
  <2>4. /\ IsSeq(s \o e) /\ Len(s \o e) = Len(s) + Len(e)
        /\ \A i \in 1 .. Len(s) : (s \o e)[i] = s[i]
        /\ \A i \in Len(s) + 1 .. Len(s) + Len(e) : (s \o e)[i] = e[i - Len(s)]
    BY <2>2, <2>3, ConcatSeq
  <2>5. /\ IsSeq(code') /\ Len(code') = c + 2
        /\ \A i \in 1 .. c : code'[i] = s[i]
        /\ \A i \in c + 1 .. c + 2 : code'[i] = e[i - c]
    BY <1>4, <2>2, <2>3, <2>4
  <2>6. /\ c + 1 \in c + 1 .. c + 2 /\ c + 2 \in c + 1 .. c + 2
        /\ (c + 1) - c = 1 /\ (c + 2) - c = 2
    BY <1>5
  <2> QED
    BY <2>2, <2>5, <2>6
<1>7. \A i \in 1 .. c : s[i].do = "eval" => s[i] = Eval(s[i].at, s[i].part) /\ s[i].at \in Nodes'
  <2>1. Nodes' = 1 .. Visited
    BY <1>1, <1>3 DEF Nodes
  <2> QED
    BY <1>2, <1>3, <1>4, <2>1 DEF Unique
<1>8. Layout(s, Len(tree), b, f, lab)'
  <2>1. Layout(s, Len(tree), b, f, lab)
    BY <1>3, <1>4
  <2>2. \A n, l : (Laid(s, Len(s) + 1, b, f, l, n)' <=> Laid(s, Len(s) + 1, b, f, l, n))
                  /\ (Named(n, l)' <=> Named(n, l)) /\ Parent(n)' = Parent(n)
    BY <1>1 DEF Laid, Named, Parent
  <2> QED
    BY <1>1, <2>1, <2>2 DEF Layout
<1> QED
  BY <1>4, <1>5, <1>6, <1>7, <1>8 DEF Ended

LEMMA EndedPrints ==
  ASSUME phase = "done", Done, NEW s, NEW b, NEW f, NEW lab, Ended(s, b, f, lab)
  PROVE  Printout(b, f)
<1>1. /\ Shape /\ Whole /\ PrintedOnce /\ IsSeq(code) /\ Layout(s, Len(tree), b, f, lab)
      /\ Nodes = 1 .. Len(tree)
  BY DEF Done, Ended, Nodes
<1>2. PICK c, w : c = Len(s) /\ w = Len(code)
  OBVIOUS
<1>3. /\ c \in Nat /\ w = c + 2
      /\ \A i \in 1 .. c : code[i] = s[i]
      /\ code[c + 1] = Label(label_return) /\ code[c + 2] = EndOfFunction
      /\ \A i \in 1 .. c : s[i].do = "eval" => s[i] = Eval(s[i].at, s[i].part) /\ s[i].at \in Nodes
  BY <1>2 DEF Ended
<1>4. /\ b[1] = 1 /\ f[1] = c + 1
      /\ \A n \in Nodes : Laid(s, c + 1, b, f, lab[n], n) /\ Named(n, lab[n])
      /\ \A i \in 1 .. c : s[i].do = "eval" => s[i].part \in Parts(tree[s[i].at].kind)
  BY <1>1, <1>2 DEF Layout
<1>5. /\ 1 .. c \subseteq 1 .. w /\ 1 .. c + 1 \subseteq 1 .. w /\ c + 1 \in 1 .. w /\ c + 2 \in 1 .. w
      /\ c + 1 \in Nat /\ (c + 1) + 1 = c + 2
      /\ \A i \in 1 .. w : i \in 1 .. c \/ i = c + 1 \/ i = c + 2
  BY ONLY <1>3
<1>6. ASSUME NEW n \in Nodes
      PROVE  Block(b, f, n) /\ b[n] \in 1 .. w /\ f[n] \in 1 .. w
  <2>1. tree[n].kind \in AllKinds /\ IsSeq(tree[n].kids) /\ IsSeq(tree[n].cases)
    BY <1>1 DEF Shape, Lists
  <2>2. PICK T, l : T = Template(n, tree, l) /\ l = lab[n]
    OBVIOUS
  <2>3. IsSeq(T)
    <3>1. tree[n].kind # "comp" => Len(tree[n].kids) = Arity(tree[n].kind)
      BY <1>1 DEF Whole
    <3> QED
      BY <2>1, <2>2, <3>1, TemplateIs
  <2>4. PICK m : m = Len(T)
    OBVIOUS
  <2>5. m \in Nat /\ 1 \in 1 .. m + 1 /\ m + 1 \in 1 .. m + 1
    BY <2>3, <2>4 DEF IsSeq
  <2>6. PICK q : /\ q[1] = b[n] /\ q[m + 1] = f[n]
                 /\ \A j \in 1 .. m + 1 : q[j] \in 1 .. c + 1
                 /\ \A j \in 1 .. m :
                      IF T[j].do = "visit" THEN b[T[j].at] = q[j] /\ f[T[j].at] = q[j + 1]
                      ELSE q[j] \in 1 .. c /\ s[q[j]] = T[j] /\ q[j + 1] = q[j] + 1
    <3>1. Laid(s, c + 1, b, f, l, n)
      BY <1>4, <2>2
    <3> QED
      BY ONLY <1>2, <2>2, <2>4, <3>1 DEF Laid
  <2>7. /\ q[1] = b[n] /\ q[Len(T) + 1] = f[n]
        /\ \A j \in 1 .. Len(T) + 1 : q[j] \in 1 .. c + 1
        /\ \A j \in 1 .. Len(T) :
             IF T[j].do = "visit" THEN b[T[j].at] = q[j] /\ f[T[j].at] = q[j + 1]
             ELSE q[j] \in 1 .. Len(code) /\ code[q[j]] = T[j] /\ q[j + 1] = q[j] + 1
    BY <1>2, <1>3, <1>5, <2>4, <2>6
  <2>8. Laid(code, c + 1, b, f, l, n)
    BY ONLY <2>2, <2>7 DEF Laid
  <2>9. Block(b, f, n)
    <3>1. PICK e : e = c + 1
      OBVIOUS
    <3>2. Named(n, l) /\ e \in Nat /\ Laid(code, e, b, f, l, n)
      BY <1>4, <1>5, <2>2, <2>8, <3>1
    <3> QED
      BY <1>1, <2>1, <3>2, LaidBlock
  <2>10. b[n] \in 1 .. w /\ f[n] \in 1 .. w
    BY <1>5, <2>5, <2>6
  <2> QED
    BY <2>9, <2>10
<1>7. Is(f[1], Label(label_return)) /\ Is(f[1] + 1, EndOfFunction)
  BY <1>2, <1>3, <1>4, <1>5 DEF Is
<1>8. Once
  <2>1. phase = "done" => Once
    BY <1>1 DEF PrintedOnce, Once
  <2> QED
    BY <2>1
<1>9. ASSUME NEW i \in 1 .. w, code[i].do = "eval"
      PROVE  code[i] = EndOfFunction \/ \E n \in Nodes : \E p \in Parts(tree[n].kind) : code[i] = Eval(n, p)
  <2>1. CASE i \in 1 .. c
    <3>1. s[i] = Eval(s[i].at, s[i].part) /\ s[i].at \in Nodes /\ s[i].part \in Parts(tree[s[i].at].kind)
          /\ code[i] = s[i]
      BY <1>3, <1>4, <1>9, <2>1
    <3> QED
      BY <3>1
  <2>2. CASE i = c + 1
    BY <1>3, <1>9, <2>2, ItemFields
  <2>3. CASE i = c + 2
    BY <1>3, <2>3
  <2> QED
    BY <1>5, <2>1, <2>2, <2>3
<1> QED
  BY <1>1, <1>2, <1>4, <1>6, <1>7, <1>8, <1>9 DEF Printout

-----------------------------------------------------------------------------
(* What is known of the tree and the code in each phase.                   *)
Flowing ==
  /\ phase = "sema" => Small /\ Targeted /\ Closed
  /\ phase = "gen"  => Small /\ Targeted /\ Switches /\ \E b, f, lab : Layout(Items, Visited, b, f, lab)
  /\ phase = "done" => Small /\ Targeted /\ Switches /\ \E s, b, f, lab : Ended(s, b, f, lab)

LEMMA InitFlow ==
  Init => Flowing
<1> SUFFICES ASSUME Init
             PROVE  Flowing
  OBVIOUS
<1>1. grammar \in Grammars /\ phase = "sema" /\ tree = << >> /\ Len(tree) = 0 /\ Nodes = {}
  BY DEF Init, Nodes
<1>2. Small
  BY <1>1, StmtsAssumption DEF Small
<1>3. Targeted /\ Closed
  BY <1>1 DEF Targeted, Closed, OfKind
<1> QED
  BY <1>1, <1>2, <1>3 DEF Flowing

LEMMA SemaFlow ==
  ASSUME AnySwitch = FALSE, phase = "sema", Sema, Flowing, sema_stmt, phase' = "sema"
  PROVE  Flowing'
<1>1. Small /\ Targeted /\ Closed
  BY DEF Flowing
<1>2. CASE sema_end
  BY <1>1, <1>2, EndFlow DEF Flowing
<1>3. CASE \E kind, items, ident, target :
             kind \in AllKinds /\ items \in Nat /\ Enter(kind, items, ident, target) /\ Aimed(kind, target)
  <2>1. PICK kind, items, ident, target :
          kind \in AllKinds /\ items \in Nat /\ Enter(kind, items, ident, target) /\ Aimed(kind, target)
    BY <1>3
  <2> QED
    BY <1>1, <2>1, EnterFlow DEF Flowing
<1> QED
  BY <1>2, <1>3, Enters

LEMMA SemaFuncEndFlow ==
  ASSUME phase = "sema", Sema, Flowing, sema_func_end, phase' = "gen"
  PROVE  Flowing'
<1>1. Small /\ Targeted /\ Closed
  BY DEF Flowing
<1>2. Gen' /\ Same
  BY SemaFuncEnd
<1>3. Shape /\ Referred /\ Labels /\ todo = << >> /\ grammar' = grammar
  BY DEF Sema, sema_func_end
<1>4. Switches
  <2>1. \A n \in Nodes : Pending(n) = {}
    BY <1>3 DEF Pending
  <2>2. Walked({"switch"}) = {}
    BY <1>3 DEF Walked
  <2> QED
    BY <1>1, <2>2 DEF Closed, Switches
<1>5. Small' /\ Targeted' /\ Switches'
  BY <1>1, <1>2, <1>3, <1>4, SameFlow
<1>6. \E b, f, lab : Layout(Items, Visited, b, f, lab)'
  BY <1>2, LayoutStarts
<1> QED
  BY <1>5, <1>6 DEF Flowing

LEMMA GenFlow ==
  ASSUME phase = "gen", Gen, Flowing, gen_stmt, phase' = "gen"
  PROVE  Flowing'
<1>1. PICK n, T, k : Printing(n, T, k) /\ T = Template(n, tree', label_no)
  BY GenStart
<1>2. Shape /\ Referred /\ Labels /\ Same /\ grammar' = grammar
  BY <1>1 DEF Gen, Printing, Given, gen_stmt
<1>3. Small' /\ Targeted' /\ Switches'
  BY <1>2, SameFlow DEF Flowing
<1>4. PICK b, f, lab : Layout(Items, Visited, b, f, lab)
  BY DEF Flowing
<1>5. Visited' = n
  BY <1>1, VisitedNext
<1>6. \E c, g, a : Layout(Items, Visited, c, g, a)'
  BY <1>1, <1>4, <1>5, LayoutNext
<1> QED
  BY <1>3, <1>6 DEF Flowing

LEMMA GenFuncEndFlow ==
  ASSUME phase = "gen", Gen, Flowing, gen_func_end
  PROVE  Flowing'
<1>1. phase' = "done" /\ tree' = tree /\ grammar' = grammar /\ UNCHANGED <<label_stmts, goto_stmts>>
  BY DEF gen_func_end, targets
<1>2. Shape /\ Referred /\ Labels /\ Same
  BY <1>1 DEF Gen, Same, Shape
<1>3. Small' /\ Targeted' /\ Switches'
  BY <1>1, <1>2, SameFlow DEF Flowing
<1>4. PICK b, f, lab : Layout(Items, Visited, b, f, lab)
  BY DEF Flowing
<1>5. \E s : Ended(s, b, f, lab)'
  BY <1>4, LayoutEnds
<1> QED
  BY <1>1, <1>3, <1>5 DEF Flowing

LEMMA NextFlow ==
  ASSUME AnySwitch = FALSE
  PROVE  IInv /\ Flowing /\ [Next]_vars => Flowing'
<1> SUFFICES ASSUME IInv, Flowing, [Next]_vars
             PROVE  Flowing'
  OBVIOUS
<1>1. CASE sema_stmt
  <2>1. phase = "sema" /\ Sema
    BY <1>1, SemaPhase DEF IInv
  <2>2. phase' \in {"sema", "error"}
    BY <1>1, <2>1, SemaStep DEF Onward
  <2>3. phase' = "sema" => Flowing'
    BY <1>1, <2>1, SemaFlow
  <2>4. phase' = "error" => Flowing'
    BY DEF Flowing
  <2> QED
    BY <2>2, <2>3, <2>4
<1>2. CASE sema_func_end
  <2>1. phase = "sema" /\ Sema
    BY <1>2 DEF sema_func_end, IInv
  <2>2. phase' \in {"gen", "error"}
    BY <1>2, <2>1, SemaFuncEnd
  <2>3. phase' = "gen" => Flowing'
    BY <1>2, <2>1, SemaFuncEndFlow
  <2>4. phase' = "error" => Flowing'
    BY DEF Flowing
  <2> QED
    BY <2>2, <2>3, <2>4
<1>3. CASE gen_stmt
  <2>1. phase = "gen" /\ phase' = "gen" /\ Gen
    BY <1>3 DEF gen_stmt, IInv
  <2> QED
    BY <1>3, <2>1, GenFlow
<1>4. CASE gen_func_end
  <2>1. phase = "gen" /\ Gen
    BY <1>4 DEF gen_func_end, IInv
  <2> QED
    BY <1>4, <2>1, GenFuncEndFlow
<1>5. CASE UNCHANGED vars
  <2>1. phase' = phase /\ tree' = tree /\ todo' = todo /\ code' = code /\ grammar' = grammar
    BY <1>5 DEF vars
  <2>2. /\ Nodes' = Nodes /\ Items' = Items /\ Visited' = Visited
        /\ \A kinds : OfKind(kinds)' = OfKind(kinds) /\ Walked(kinds)' = Walked(kinds)
        /\ \A n : Parent(n)' = Parent(n)
    BY <2>1 DEF Nodes, Items, Visited, OfKind, Walked, Pending, Parent
  <2>3. \A n : Around(n)' = Around(n) /\ (DefaultLast(n)' <=> DefaultLast(n))
    BY <2>1, <2>2 DEF Around, DefaultLast
  <2>4. ASSUME NEW n, NEW kinds
        PROVE  Innermost(n, kinds)' = Innermost(n, kinds)
    <3>1. PICK A, t : A = Around(n) /\ t = tree
      OBVIOUS
    <3>2. Around(n)' = A /\ tree' = t
      BY <2>1, <2>3, <3>1
    <3>3. PICK outer : outer = {m \in A : t[m].kind \in kinds}
      OBVIOUS
    <3>4. Innermost(n, kinds) = IF outer = {} THEN 0 ELSE CHOOSE m \in outer : \A o \in outer : o <= m
      BY <3>1, <3>3 DEF Innermost
    <3>5. Innermost(n, kinds)' = IF outer = {} THEN 0 ELSE CHOOSE m \in outer : \A o \in outer : o <= m
      BY <3>2, <3>3 DEF Innermost
    <3> QED
      BY <3>4, <3>5
  <2>5. Small' = Small /\ Targeted' = Targeted /\ Closed' = Closed /\ Switches' = Switches
    BY <2>1, <2>2, <2>3, <2>4 DEF Small, Targeted, Closed, Switches
  <2>6. \A s, e, b, f, l, n : (Laid(s, e, b, f, l, n)' <=> Laid(s, e, b, f, l, n)) /\ (Named(n, l)' <=> Named(n, l))
    BY <2>1 DEF Laid, Named
  <2>7. \A s, m, b, f, lab : Layout(s, m, b, f, lab)' <=> Layout(s, m, b, f, lab)
    BY <2>1, <2>2, <2>6 DEF Layout
  <2>8. \A s, b, f, lab : Ended(s, b, f, lab)' <=> Ended(s, b, f, lab)
    BY <2>1, <2>2, <2>7 DEF Ended
  <2> QED
    BY <2>1, <2>2, <2>5, <2>7, <2>8 DEF Flowing
<1> QED
  BY <1>1, <1>2, <1>3, <1>4, <1>5 DEF Next

LEMMA FlowingAgrees ==
  IInv /\ Flowing => FlowAgrees
<1> SUFFICES ASSUME IInv, Flowing
             PROVE  FlowAgrees
  OBVIOUS
<1>1. CASE phase # "done"
  BY <1>1 DEF FlowAgrees
<1>2. CASE phase = "done"
  <2>1. Done /\ Small /\ Targeted /\ Switches
    BY <1>2 DEF IInv, Flowing
  <2>2. PICK s, b, f, lab : Ended(s, b, f, lab)
    BY <1>2 DEF Flowing
  <2>3. Printout(b, f)
    BY <1>2, <2>1, <2>2, EndedPrints
  <2>4. Known /\ Len(tree) > 0 /\ \A n \in OfKind({"switch"}) : DefaultLast(n)
    BY <2>1 DEF Done, Known, Whole, Switches
  <2> QED
    BY <2>3, <2>4, Agrees
<1> QED
  BY <1>1, <1>2

(* In a function whose switches have their one default after their cases,  *)
(* the code gen.c prints evaluates, after every evaluation and whatever    *)
(* its value, what C evaluates next.                                       *)
THEOREM FollowsControl ==
  ASSUME AnySwitch = FALSE
  PROVE  Spec => []FlowAgrees
<1>1. Spec => []IInv
  BY Invariant
<1>2. Init => Flowing
  BY InitFlow
<1>3. IInv /\ Flowing /\ [Next]_vars => Flowing'
  BY NextFlow
<1>4. IInv /\ Flowing => FlowAgrees
  BY FlowingAgrees
<1> QED
  BY <1>1, <1>2, <1>3, <1>4, PTL DEF Spec
=============================================================================
