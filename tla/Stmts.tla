-------------------------------- MODULE Stmts ---------------------------------
(***************************************************************************)
(* Statements.  sema.c walks the statements of a function with stacks of   *)
(* the loops and switches it is in, and notes in each break, continue,     *)
(* goto and case which statement it belongs to; gen.c then prints labels   *)
(* and jumps.  What is printed is compared with the order of evaluation C  *)
(* gives the same statements.                                              *)
(*                                                                         *)
(* The tree of statements is chosen while sema.c walks it, so every tree   *)
(* of at most so many statements of certain kinds is covered.  The code    *)
(* is the sequence of what matters to control: labels, jumps and the       *)
(* expressions evaluated.                                                  *)
(***************************************************************************)
EXTENDS Integers, Sequences, FiniteSets, SequencesExt

CONSTANTS Grammars,   \* the functions: what kinds of statement they are made of,
                      \* how many statements, how many items in a compound statement
          LabelNames, \* the identifiers of their labels
          AnySwitch   \* TRUE: any switch; FALSE: one default, the last of the cases

AllKinds == {"expr", "comp", "if", "ifelse", "while", "do", "for", "forever", "switch", "case",
             "default", "label", "goto", "break", "continue", "return"}

ASSUME StmtsAssumption ==
  /\ \A g \in Grammars : g.kinds \subseteq AllKinds /\ g.nodes \in Nat \ {0} /\ g.items \in Nat
  /\ AnySwitch \in BOOLEAN

VARIABLES grammar,           \* what the function may be made of
          phase,             \* "sema", "gen", "done" or "error"
          tree,              \* the statements, each before those inside it
          todo,              \* what the recursion of sema_stmt or gen_stmt still has to do
          label_stmts, goto_stmts, switch_stmts, continue_targets, break_targets,
          label_no,          \* the global of gen.c
          code               \* what gen.c has printed

vars == <<grammar, phase, tree, todo, label_stmts, goto_stmts, switch_stmts, continue_targets,
          break_targets, label_no, code>>

targets == <<label_stmts, goto_stmts, switch_stmts, continue_targets, break_targets>>

Visit(n)  == [do |-> "visit", at |-> n]
Leave(n)  == [do |-> "leave", at |-> n]

(* target is where a break, continue or goto goes and the switch of a case;*)
(* cases are the cases of a switch.                                        *)
Node(kind, parent, ident, target) ==
  [kind |-> kind, parent |-> parent, kids |-> << >>, ident |-> ident, target |-> target,
   cases |-> << >>, label_no |-> 0, label_break |-> 0, label_continue |-> 0]

Loops == {"while", "do", "for", "forever"}

-----------------------------------------------------------------------------
(* sema.c *)

ToVisit == Cardinality({i \in DOMAIN todo : todo[i].do = "visit"})

Fits(kind, items) ==
  /\ kind \in grammar.kinds
  /\ Len(tree) + ToVisit + items <= grammar.nodes

(* A statement of this kind is found where sema_stmt is to go next, with   *)
(* so many statements directly inside it.                                  *)
Enter(kind, items, ident, target) ==
  LET n      == Len(tree) + 1
      parent == Head(todo).at
      switch == IF kind \in {"case", "default"} THEN target ELSE 0
  IN  /\ phase = "sema"
      /\ todo # << >> /\ Head(todo).do = "visit"
      /\ Fits(kind, items)
      /\ parent = 0 => kind = "comp"
      /\ tree' = [m \in 1 .. n |->
                    IF m = n THEN Node(kind, parent, ident, target)
                    ELSE [tree[m] EXCEPT !.kids = IF m = parent THEN Append(@, n) ELSE @,
                                         !.cases = IF m = switch THEN Append(@, n) ELSE @]]
      /\ todo' = [i \in 1 .. items |-> Visit(n)]
                   \o (IF kind \in Loops \cup {"switch"} THEN <<Leave(n)>> ELSE << >>)
                   \o Tail(todo)
      /\ UNCHANGED grammar

New == Len(tree) + 1

Reject ==
  /\ phase' = "error"
  /\ UNCHANGED <<targets, label_no, code>>

Accept ==
  /\ UNCHANGED <<phase, label_no, code>>

sema_expr_stmt ==
  /\ Enter("expr", 0, "none", 0)
  /\ Accept
  /\ UNCHANGED targets

sema_comp_stmt ==
  /\ \E items \in 0 .. grammar.items : Enter("comp", items, "none", 0)
  /\ Accept
  /\ UNCHANGED targets

sema_if ==
  /\ Enter("if", 1, "none", 0) \/ Enter("ifelse", 2, "none", 0)
  /\ Accept
  /\ UNCHANGED targets

(* loop_begin *)
sema_loop ==
  /\ \E kind \in Loops : Enter(kind, 1, "none", 0)
  /\ continue_targets' = Append(continue_targets, New)
  /\ break_targets' = Append(break_targets, New)
  /\ Accept
  /\ UNCHANGED <<label_stmts, goto_stmts, switch_stmts>>

(* switch_begin *)
sema_switch ==
  /\ Enter("switch", 1, "none", 0)
  /\ switch_stmts' = Append(switch_stmts, New)
  /\ break_targets' = Append(break_targets, New)
  /\ Accept
  /\ UNCHANGED <<label_stmts, goto_stmts, continue_targets>>

(* A case or default joins the innermost switch. *)
sema_case(kind) ==
  /\ kind \in {"case", "default"}
  /\ IF switch_stmts # << >>
       THEN /\ Enter(kind, 1, "none", Last(switch_stmts))
            /\ Accept
            /\ UNCHANGED targets
       ELSE Enter(kind, 1, "none", 0) /\ Reject

(* Variant: a second label of the same name goes unnoticed. *)
sema_label_Twice(ident) ==
  /\ Enter("label", 1, ident, 0)
  /\ label_stmts' = Append(label_stmts, New)
  /\ Accept
  /\ UNCHANGED <<goto_stmts, switch_stmts, continue_targets, break_targets>>

sema_label(ident) ==
  /\ Enter("label", 1, ident, 0)
  /\ IF \E i \in DOMAIN label_stmts : tree[label_stmts[i]].ident = ident
       THEN Reject
       ELSE /\ label_stmts' = Append(label_stmts, New)
            /\ Accept
            /\ UNCHANGED <<goto_stmts, switch_stmts, continue_targets, break_targets>>

sema_goto(ident) ==
  /\ Enter("goto", 0, ident, 0)
  /\ goto_stmts' = Append(goto_stmts, New)
  /\ Accept
  /\ UNCHANGED <<label_stmts, switch_stmts, continue_targets, break_targets>>

sema_continue ==
  IF continue_targets # << >>
    THEN /\ Enter("continue", 0, "none", Last(continue_targets))
         /\ Accept
         /\ UNCHANGED targets
    ELSE Enter("continue", 0, "none", 0) /\ Reject

sema_break ==
  IF break_targets # << >>
    THEN /\ Enter("break", 0, "none", Last(break_targets))
         /\ Accept
         /\ UNCHANGED targets
    ELSE Enter("break", 0, "none", 0) /\ Reject

sema_return ==
  /\ Enter("return", 0, "none", 0)
  /\ Accept
  /\ UNCHANGED targets

DefaultLast(n) ==
  LET cases == tree[n].cases
  IN  /\ cases # << >>
      /\ \A i \in DOMAIN cases : tree[cases[i]].kind = "default" <=> i = Len(cases)

(* switch_end and loop_end *)
sema_end ==
  /\ phase = "sema"
  /\ todo # << >> /\ Head(todo).do = "leave"
  /\ todo' = Tail(todo)
  /\ break_targets' = Front(break_targets)
  /\ IF tree[Head(todo).at].kind = "switch"
       THEN /\ AnySwitch \/ DefaultLast(Head(todo).at)
            /\ switch_stmts' = Front(switch_stmts)
            /\ UNCHANGED continue_targets
       ELSE /\ continue_targets' = Front(continue_targets)
            /\ UNCHANGED switch_stmts
  /\ UNCHANGED <<grammar, phase, tree, label_stmts, goto_stmts, label_no, code>>

(* The labels a goto is compared equal to; the last of them is kept. *)
Found(g) == {i \in DOMAIN label_stmts : tree[label_stmts[i]].ident = tree[g].ident}

goto_target(g) == label_stmts[CHOOSE i \in Found(g) : \A j \in Found(g) : j <= i]

(* gen_func: label_no++ for label_return, then for each label in turn. *)
NumberOf(n) == label_no + CHOOSE i \in DOMAIN label_stmts : label_stmts[i] = n

(* The end of sema_func: each goto finds its label, and gen_func numbers   *)
(* the return label and the labels of the function before it prints.       *)
sema_func_end ==
  /\ phase = "sema"
  /\ todo = << >>
  /\ UNCHANGED grammar
  /\ LET gotos  == {goto_stmts[i] : i \in DOMAIN goto_stmts}
         labels == {label_stmts[i] : i \in DOMAIN label_stmts}
     IN  IF \E g \in gotos : Found(g) = {}
           THEN /\ Reject
                /\ UNCHANGED <<tree, todo>>
           ELSE /\ tree' = [n \in DOMAIN tree |->
                              CASE n \in gotos  -> [tree[n] EXCEPT !.target = goto_target(n)]
                                [] n \in labels -> [tree[n] EXCEPT !.label_no = NumberOf(n)]
                                [] OTHER        -> tree[n]]
                /\ label_no' = label_no + 1 + Len(label_stmts)
                /\ phase' = "gen"
                /\ todo' = <<Visit(1)>>
                /\ UNCHANGED <<targets, code>>

-----------------------------------------------------------------------------
(* gen.c *)
Eval(n, part)   == [do |-> "eval", at |-> n, part |-> part, label |-> 0]
Label(l)        == [do |-> "label", at |-> 0, part |-> "none", label |-> l]
Jump(l)         == [do |-> "jmp", at |-> 0, part |-> "none", label |-> l]
Je(l)           == [do |-> "je", at |-> 0, part |-> "none", label |-> l]
Jne(l)          == [do |-> "jne", at |-> 0, part |-> "none", label |-> l]
JumpCase(n, l)  == [do |-> "jcase", at |-> n, part |-> "none", label |-> l]

label_return == 0

(* The items of a statement that has been given its labels: what is        *)
(* printed, with the recursive calls of gen_stmt where they are made.      *)
Template(n, t, l) ==
  LET s    == t[n]
      body == Visit(s.kids[1])
  IN  CASE s.kind = "expr"     -> <<Eval(n, "expr")>>
        [] s.kind = "comp"     -> [i \in DOMAIN s.kids |-> Visit(s.kids[i])]
        [] s.kind = "if"       -> <<Eval(n, "cond"), Je(l), body, Jump(l + 1), Label(l),
                                    Label(l + 1)>>
        [] s.kind = "ifelse"   -> <<Eval(n, "cond"), Je(l), body, Jump(l + 1), Label(l),
                                    Visit(s.kids[2]), Label(l + 1)>>
        [] s.kind = "while"    -> <<Label(l), Eval(n, "cond"), Je(l + 1), body, Jump(l),
                                    Label(l + 1)>>
        [] s.kind = "do"       -> <<Label(l), body, Label(l + 1), Eval(n, "cond"), Jne(l),
                                    Label(l + 2)>>
        [] s.kind = "for"      -> <<Eval(n, "init"), Label(l), Eval(n, "cond"), Je(l + 2), body,
                                    Label(l + 1), Eval(n, "after"), Jump(l), Label(l + 2)>>
        [] s.kind = "forever"  -> <<Label(l), body, Label(l + 1), Jump(l), Label(l + 2)>>
        [] s.kind = "switch"   -> LET Dispatch(c) == IF t[c].kind = "case" THEN JumpCase(c, t[c].label_no)
                                                      ELSE Jump(t[c].label_no)
                                  IN  <<Eval(n, "cond")>>
                                        \o [i \in DOMAIN s.cases |-> Dispatch(s.cases[i])]
                                        \o <<body, Label(l)>>
        [] s.kind \in {"case", "default", "label"} -> <<Label(s.label_no), body>>
        [] s.kind = "goto"     -> <<Jump(t[s.target].label_no)>>
        [] s.kind = "break"    -> <<Jump(t[s.target].label_break)>>
        [] s.kind = "continue" -> <<Jump(t[s.target].label_continue)>>
        [] s.kind = "return"   -> <<Eval(n, "return"), Jump(label_return)>>

(* Variant: two labels for a do or for. *)
LabelCount_Two(n) ==
  CASE tree[n].kind \in {"if", "ifelse"} \cup Loops -> 2
    [] tree[n].kind = "switch"                     -> 1 + Len(tree[n].cases)
    [] OTHER                                       -> 0

(* The labels a statement takes when gen_stmt comes to it. *)
LabelCount(n) ==
  CASE tree[n].kind \in {"if", "ifelse", "while"} -> 2
    [] tree[n].kind \in {"do", "for", "forever"}  -> 3
    [] tree[n].kind = "switch"                    -> 1 + Len(tree[n].cases)
    [] OTHER                                      -> 0

(* Variant: continue in a do or for goes to the label of its beginning. *)
Numbered_ToBegin(n) ==
  LET l == label_no
  IN  CASE tree[n].kind = "while" ->
             [tree EXCEPT ![n].label_continue = l, ![n].label_break = l + 1]
        [] tree[n].kind \in {"do", "for", "forever"} ->
             [tree EXCEPT ![n].label_continue = l, ![n].label_break = l + 2]
        [] OTHER -> tree

Numbered(n) ==
  LET l == label_no
  IN  CASE tree[n].kind = "while" ->
             [tree EXCEPT ![n].label_continue = l, ![n].label_break = l + 1]
        [] tree[n].kind \in {"do", "for", "forever"} ->
             [tree EXCEPT ![n].label_continue = l + 1, ![n].label_break = l + 2]
        [] tree[n].kind = "switch" ->
             LET cases == tree[n].cases
             IN  [m \in DOMAIN tree |->
                    IF m = n THEN [tree[n] EXCEPT !.label_break = l]
                    ELSE IF \E i \in DOMAIN cases : cases[i] = m
                      THEN [tree[m] EXCEPT !.label_no = l + CHOOSE i \in DOMAIN cases : cases[i] = m]
                    ELSE tree[m]]
        [] OTHER -> tree

(* What stands before the first recursive call is printed. *)
Printed(items) ==
  LET calls == {i \in DOMAIN items : items[i].do = "visit"}
  IN  IF calls = {} THEN items
      ELSE SubSeq(items, 1, (CHOOSE i \in calls : \A j \in calls : i <= j) - 1)

gen_stmt ==
  /\ phase = "gen"
  /\ todo # << >>
  /\ LET n     == Head(todo).at
         items == Template(n, Numbered(n), label_no) \o Tail(todo)
     IN  /\ tree' = Numbered(n)
         /\ label_no' = label_no + LabelCount(n)
         /\ code' = code \o Printed(items)
         /\ todo' = SubSeq(items, Len(Printed(items)) + 1, Len(items))
  /\ UNCHANGED <<grammar, phase, targets>>

gen_func_end ==
  /\ phase = "gen"
  /\ todo = << >>
  /\ code' = code \o <<Label(label_return), Eval(0, "end")>>
  /\ phase' = "done"
  /\ UNCHANGED <<grammar, tree, todo, targets, label_no>>

Init ==
  /\ grammar \in Grammars
  /\ phase = "sema"
  /\ tree = << >>
  /\ todo = <<Visit(0)>>
  /\ label_stmts = << >> /\ goto_stmts = << >> /\ switch_stmts = << >>
  /\ continue_targets = << >> /\ break_targets = << >>
  /\ label_no = 0
  /\ code = << >>

sema_stmt ==
  \/ sema_expr_stmt \/ sema_comp_stmt \/ sema_if \/ sema_loop \/ sema_switch
  \/ \E kind \in {"case", "default"} : sema_case(kind)
  \/ \E ident \in LabelNames : sema_label(ident) \/ sema_goto(ident)
  \/ sema_continue \/ sema_break \/ sema_return \/ sema_end

Next == sema_stmt \/ sema_func_end \/ gen_stmt \/ gen_func_end

Spec == Init /\ [][Next]_vars

-----------------------------------------------------------------------------
(* The order of evaluation C gives the statements of the tree, told from   *)
(* the statements that enclose each one.  Between two evaluations control  *)
(* passes through places: before a statement, after it, or where a loop    *)
(* goes when its body ends.                                                *)
Place(when, n) == [when |-> when, at |-> n]

Parent(n) == tree[n].parent

(* The statements around n: those before n that nothing up to n is outside *)
(* of.                                                                     *)
Around(n) == {m \in 1 .. n - 1 : \A k \in m + 1 .. n : Parent(k) >= m}

Innermost(n, kinds) ==
  LET outer == {m \in Around(n) : tree[m].kind \in kinds}
  IN  IF outer = {} THEN 0 ELSE CHOOSE m \in outer : \A o \in outer : o <= m

CasesOf(n, kind) ==
  {m \in DOMAIN tree : tree[m].kind = kind /\ Innermost(m, {"switch"}) = n}

LabelsNamed(ident) == {m \in DOMAIN tree : tree[m].kind = "label" /\ tree[m].ident = ident}

Lost == [do |-> "lost"]

EndOfFunction == Eval(0, "end")

AfterIn(n) ==
  LET p == Parent(n)
      i == CHOOSE k \in DOMAIN tree[p].kids : tree[p].kids[k] = n
  IN  CASE p = 0                     -> EndOfFunction
        [] p # 0 /\ tree[p].kind \in Loops -> Place("again", p)
        [] p # 0 /\ tree[p].kind = "comp" /\ i < Len(tree[p].kids) ->
             Place("before", tree[p].kids[i + 1])
        [] OTHER                     -> Place("after", p)

Onwards(place) ==
  LET n    == place.at
      kind == tree[n].kind
  IN  CASE place.when = "after" -> AfterIn(n)
        [] place.when = "again" ->
             (CASE kind \in {"while", "do"} -> Eval(n, "cond")
                [] kind = "for"             -> Eval(n, "after")
                [] kind = "forever"         -> Place("before", tree[n].kids[1]))
        [] place.when = "before" ->
             (CASE kind = "for"                                  -> Eval(n, "init")
                [] kind \in {"if", "ifelse", "while", "switch"}  -> Eval(n, "cond")
                [] kind \in {"expr", "return"}                   -> Eval(n, kind)
                [] kind = "comp" /\ tree[n].kids = << >>         -> Place("after", n)
                [] kind = "goto"     -> Place("before", CHOOSE m \in LabelsNamed(tree[n].ident) : TRUE)
                [] kind = "break"    -> Place("after", Innermost(n, Loops \cup {"switch"}))
                [] kind = "continue" -> Place("again", Innermost(n, Loops))
                [] OTHER             -> Place("before", tree[n].kids[1]))

(* The next evaluation from a place; Lost when control circles without one.*)
Arrive(place) ==
  LET Walk[k \in 0 .. 3 * grammar.nodes] ==
        IF k = 0 THEN place
        ELSE LET p == Walk[k - 1]
             IN  IF "when" \in DOMAIN p THEN Onwards(p) ELSE p
      last == Walk[3 * grammar.nodes]
  IN  IF "when" \in DOMAIN last THEN Lost ELSE last

(* What C evaluates after e has come out as the value v: of a condition 1  *)
(* or 0, of a switch the case it selects or 0.                             *)
Follows(e, v) ==
  LET n    == e.at
      kind == tree[n].kind
  IN  CASE e.part = "return"  -> EndOfFunction
        [] e.part = "expr"    -> Arrive(Place("after", n))
        [] e.part \in {"init", "after"} -> Eval(n, "cond")
        [] e.part = "cond" /\ kind = "switch" ->
             Arrive(IF v # 0 THEN Place("before", v)
                    ELSE IF CasesOf(n, "default") # {}
                      THEN Place("before", CHOOSE m \in CasesOf(n, "default") : TRUE)
                    ELSE Place("after", n))
        [] e.part = "cond" /\ kind # "switch" ->
             Arrive(IF v = 1 THEN Place("before", tree[n].kids[1])
                    ELSE IF kind = "ifelse" THEN Place("before", tree[n].kids[2])
                    ELSE Place("after", n))

Values(e) ==
  IF e.part # "cond" THEN {0}
  ELSE IF tree[e.at].kind = "switch" THEN {0} \cup CasesOf(e.at, "case")
  ELSE {0, 1}

(* What a machine that runs the printed code evaluates from instruction    *)
(* index i on, the value v having been left in rax.                        *)
Runs(index, v) ==
  LET at(l) == {i \in DOMAIN code : code[i] = Label(l)}
      to(l) == IF at(l) = {} THEN 0 ELSE CHOOSE i \in at(l) : TRUE
      Taken(c) == \/ c.do = "jmp"
                  \/ c.do = "je" /\ v = 0
                  \/ c.do = "jne" /\ v # 0
                  \/ c.do = "jcase" /\ v = c.at
      Stop(i)  == i \notin DOMAIN code \/ code[i].do = "eval"
      Walk[k \in 0 .. Len(code) + 1] ==
        IF k = 0 THEN index
        ELSE LET i == Walk[k - 1]
             IN  IF Stop(i) THEN i ELSE IF Taken(code[i]) THEN to(code[i].label) ELSE i + 1
      last == Walk[Len(code) + 1]
  IN  IF last \in DOMAIN code /\ Stop(last) THEN code[last] ELSE Lost

Encloses(n, kinds) == \E m \in Around(n) : tree[m].kind \in kinds

(* A constraint of C that sema.c checks, broken at the statement n.        *)
Ill(n) ==
  \/ tree[n].kind = "break" /\ ~Encloses(n, Loops \cup {"switch"})
  \/ tree[n].kind = "continue" /\ ~Encloses(n, Loops)
  \/ tree[n].kind \in {"case", "default"} /\ ~Encloses(n, {"switch"})
  \/ tree[n].kind = "goto" /\ LabelsNamed(tree[n].ident) = {}
  \/ tree[n].kind = "label" /\ LabelsNamed(tree[n].ident) # {n}

-----------------------------------------------------------------------------
(* Properties. *)

(* What gen.c prints evaluates the expressions of the function in the      *)
(* order C does, whichever way each condition comes out, from the start of *)
(* the function to its end.                                                *)
FlowAgrees ==
  phase = "done" =>
    /\ Runs(1, 0) = Arrive(Place("before", 1))
    /\ \A i \in DOMAIN code :
         code[i].do = "eval" /\ code[i] # EndOfFunction =>
           \A v \in Values(code[i]) : Runs(i + 1, v) = Follows(code[i], v)

(* Each expression of the function is printed once, each label is printed  *)
(* once, and no jump is to a label that is not printed: the numbers        *)
(* gen_func, gen_switch and the loops hand out never meet.                 *)
PrintedOnce ==
  phase = "done" =>
    /\ \A i, j \in DOMAIN code : code[i].do \in {"label", "eval"} /\ code[i] = code[j] => i = j
    /\ \A i \in DOMAIN code :
         code[i].do \notin {"label", "eval"} => \E j \in DOMAIN code : code[j] = Label(code[i].label)

(* sema.c stops at exactly the functions with a break, continue, case or   *)
(* default outside the statements it is for, a goto without its label or   *)
(* two labels of the same name.                                            *)
RejectsIll ==
  /\ phase = "error" => \E n \in DOMAIN tree : Ill(n)
  /\ phase \in {"gen", "done"} => \A n \in DOMAIN tree : ~Ill(n)
=============================================================================
