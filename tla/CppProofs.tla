------------------------------- MODULE CppProofs ------------------------------
(***************************************************************************)
(* Whatever macros a program defines and however they name each other: the *)
(* macros marked are those whose replacement is being scanned, the nesting *)
(* is bounded by the number of macros, every reader goes on where it was,  *)
(* and nothing is left marked or stashed at the end.                       *)
(***************************************************************************)
EXTENDS Cpp, FiniteSetTheorems, WellFoundedInduction, TLAPS

(* A sequence, whatever it is of. *)
IsSeq(s) == Len(s) \in Nat /\ s = [k \in 1 .. Len(s) |-> s[k]]

IsActivation(f) ==
  /\ f.fn \in {"group", "replace", "gather"}
  /\ f = [fn |-> f.fn, macro |-> f.macro, result |-> f.result, args |-> f.args]

(* The stack of activations: the files first, the text of a line above     *)
(* one, macros above that, and at the top perhaps arguments being read of  *)
(* a macro that is not marked yet.                                         *)
Nesting ==
  /\ IsSeq(frames) /\ Len(frames) > 0
  /\ frames[1].fn = "group"
  /\ \A k \in 1 .. Len(frames) :
       /\ IsActivation(frames[k])
       /\ frames[k].fn = "group" => k <= 2
       /\ frames[k].fn = "replace" =>
            IF frames[k].macro = "none" THEN frames[k - 1].fn = "group" ELSE frames[k].macro \in Idents
       /\ frames[k].fn = "gather" =>
            k = Len(frames) /\ frames[k].macro \in Idents /\ frames[k].macro \notin expanded

Marked ==
  /\ expanded = {frames[k].macro : k \in Scanning}
  /\ \A j, k \in Scanning : frames[j].macro = frames[k].macro => j = k

Gathers == IF frames[Len(frames)].fn = "gather" THEN 1 ELSE 0

Stashes ==
  /\ IsSeq(stashed)
  /\ Len(stashed) = Len(frames) - 1 - Gathers
  /\ \A k \in 1 .. Len(stashed) : stashed[k].pos \in Nat \ {0}
  /\ pos \in Nat \ {0}
  /\ \A k \in 1 .. Len(frames) :
       frames[k].fn = "group" => ReadBy(k) = IF k = 1 THEN files.main ELSE files.header

Macros ==
  /\ files \in Programs
  /\ DOMAIN macros \subseteq Idents

Finished == phase = "done" => Len(frames) = 1

IInv == Nesting /\ Marked /\ Stashes /\ Macros /\ Finished

-----------------------------------------------------------------------------
LEMMA SeqIsSeq ==
  ASSUME NEW S, NEW s \in Seq(S)
  PROVE  IsSeq(s)
BY DEF IsSeq

LEMMA AppendSeq ==
  ASSUME NEW s, IsSeq(s), NEW e
  PROVE  /\ IsSeq(Append(s, e))
         /\ Len(Append(s, e)) = Len(s) + 1
         /\ \A k \in 1 .. Len(s) : Append(s, e)[k] = s[k]
         /\ Append(s, e)[Len(s) + 1] = e
<1> DEFINE S == {s[k] : k \in 1 .. Len(s)} \cup {e}
<1>1. s \in Seq(S) /\ e \in S
  BY DEF IsSeq
<1> HIDE DEF S
<1>2. IsSeq(Append(s, e))
  <2>1. Append(s, e) \in Seq(S)
    BY <1>1
  <2> QED
    BY <2>1, SeqIsSeq, Zenon
<1> QED
  BY <1>1, <1>2

LEMMA FrontSeq ==
  ASSUME NEW s, IsSeq(s), Len(s) > 0
  PROVE  /\ IsSeq(Front(s))
         /\ Len(Front(s)) = Len(s) - 1
         /\ \A k \in 1 .. Len(s) - 1 : Front(s)[k] = s[k]
<1> DEFINE S == {s[k] : k \in 1 .. Len(s)}
<1>1. s \in Seq(S) /\ Len(s) \in Nat
  BY DEF IsSeq
<1>2. SubSeq(s, 1, Len(s) - 1) \in Seq(S)
  BY <1>1
<1> QED
  BY <1>1, <1>2 DEF IsSeq, Front

(* An assignment to one element. *)
LEMMA AssignSeq ==
  ASSUME NEW s, IsSeq(s), NEW i \in 1 .. Len(s), NEW e, NEW t, t = [s EXCEPT ![i] = e]
  PROVE  /\ IsSeq(t)
         /\ Len(t) = Len(s)
         /\ \A k \in 1 .. Len(s) : t[k] = (IF k = i THEN e ELSE s[k])
<1>1. Len(s) \in Nat /\ DOMAIN s = 1 .. Len(s) /\ s = [k \in 1 .. Len(s) |-> s[k]]
  BY DEF IsSeq
<1>2. t = [k \in 1 .. Len(s) |-> IF k = i THEN e ELSE s[k]]
  BY <1>1
<1>3. Len(t) = Len(s)
  BY <1>1, <1>2
<1>4. \A k \in 1 .. Len(s) : t[k] = (IF k = i THEN e ELSE s[k])
  BY <1>2
<1>5. IsSeq(t)
  BY <1>1, <1>2, <1>3 DEF IsSeq
<1> QED
  BY <1>3, <1>4, <1>5

(* The least of a set of numbers. *)
LEMMA Least ==
  ASSUME NEW T \in SUBSET Nat, T # {}
  PROVE  \E m \in T : \A k \in T : m <= k
<1> DEFINE Less == {p \in Nat \X Nat : p[1] < p[2]}
<1>1. IsWellFoundedOn(Less, Nat)
  <2>1. OpToRel(<, Nat) = Less
    BY DEF OpToRel
  <2> QED
    BY <2>1, NatLessThanWellFounded
<1>2. PICK m \in T : \A k \in T : ~ (<<k, m>> \in Less)
  BY <1>1, WFMin
<1>3. ASSUME NEW k \in T
      PROVE  m <= k
  <2>1. ~ (<<k, m>> \in Less) /\ <<k, m>> \in Nat \X Nat
    BY <1>2
  <2>2. ~ (k < m)
    BY <2>1
  <2> QED
    BY <2>2
<1> QED
  BY <1>3

-----------------------------------------------------------------------------
(* The activations as a sequence. *)
LEMMA Frames ==
  ASSUME Nesting
  PROVE  /\ Len(frames) \in Nat \ {0}
         /\ DOMAIN frames = 1 .. Len(frames)
         /\ Top = frames[Len(frames)]
         /\ Scanning = {k \in 1 .. Len(frames) : frames[k].fn = "replace" /\ frames[k].macro # "none"}
BY DEF Nesting, IsSeq, Top, Last, Scanning

(* The first n activations are still those of the same functions and       *)
(* macros.                                                                 *)
Keeps(n) ==
  /\ IsSeq(frames')
  /\ Len(frames') >= n
  /\ \A k \in 1 .. n :
       /\ IsActivation(frames'[k])
       /\ frames'[k].fn = frames[k].fn
       /\ frames'[k].macro = frames[k].macro

(* One of the activations s gathers something in a field of its own.       *)
LEMMA SetField ==
  ASSUME Nesting, NEW s, IsSeq(s), Len(s) <= Len(frames),
         \A k \in 1 .. Len(s) : s[k] = frames[k],
         NEW i \in 1 .. Len(s), NEW e,
         \/ frames' = [s EXCEPT ![i].result = e]
         \/ frames' = [s EXCEPT ![i].args = e]
  PROVE  Keeps(Len(s)) /\ Len(frames') = Len(s)
<1>0. Len(frames) \in Nat \ {0} /\ Len(s) \in Nat
  BY Frames DEF IsSeq
<1>1. /\ s = [k \in 1 .. Len(s) |-> s[k]]
      /\ \A k \in 1 .. Len(s) : IsActivation(s[k])
  <2>1. \A k \in 1 .. Len(s) : k \in 1 .. Len(frames)
    BY <1>0
  <2> QED
    BY <2>1 DEF Nesting, IsSeq
<1>2. PICK f, g : /\ f = s[i]
                  /\ g = [f EXCEPT !.result = e] \/ g = [f EXCEPT !.args = e]
                  /\ frames' = [s EXCEPT ![i] = g]
  OBVIOUS
<1>3. IsActivation(g) /\ g.fn = f.fn /\ g.macro = f.macro
  <2>1. f.fn \in {"group", "replace", "gather"}
    BY <1>1, <1>2 DEF IsActivation
  <2>2. f = [fn |-> f.fn, macro |-> f.macro, result |-> f.result, args |-> f.args]
    BY <1>1, <1>2 DEF IsActivation
  <2>3. CASE g = [f EXCEPT !.result = e]
    <3>1. g = [fn |-> f.fn, macro |-> f.macro, result |-> e, args |-> f.args]
      BY <2>2, <2>3
    <3> QED
      BY <2>1, <3>1 DEF IsActivation
  <2>4. CASE g = [f EXCEPT !.args = e]
    <3>1. g = [fn |-> f.fn, macro |-> f.macro, result |-> f.result, args |-> e]
      BY <2>2, <2>4
    <3> QED
      BY <2>1, <3>1 DEF IsActivation
  <2> QED
    BY <1>2, <2>3, <2>4
<1>4. frames' = [k \in 1 .. Len(s) |-> IF k = i THEN g ELSE s[k]]
  BY <1>1, <1>2
<1>5. Len(frames') = Len(s) /\ IsSeq(frames')
  BY <1>0, <1>4 DEF IsSeq
<1>6. ASSUME NEW k \in 1 .. Len(s)
      PROVE  IsActivation(frames'[k]) /\ frames'[k].fn = frames[k].fn /\ frames'[k].macro = frames[k].macro
  <2>1. frames'[k] = (IF k = i THEN g ELSE s[k]) /\ s[k] = frames[k]
    BY <1>4
  <2> QED
    BY <1>1, <1>2, <1>3, <2>1
<1> QED
  BY <1>0, <1>5, <1>6 DEF Keeps

LEMMA SetTop ==
  ASSUME Nesting, NEW e,
         \/ frames' = [frames EXCEPT ![Len(frames)].result = e]
         \/ frames' = [frames EXCEPT ![Len(frames)].args = e]
  PROVE  Keeps(Len(frames)) /\ Len(frames') = Len(frames)
<1>1. Len(frames) \in 1 .. Len(frames) /\ Len(frames) <= Len(frames) /\ IsSeq(frames)
  BY Frames DEF Nesting
<1> QED
  BY <1>1, SetField, Zenon

LEMMA Returned ==
  ASSUME Nesting, Len(frames) > 1, Return
  PROVE  Keeps(Len(frames) - 1) /\ Len(frames') = Len(frames) - 1
<1>1. Len(frames) \in Nat /\ IsSeq(frames) /\ Len(frames) > 0
  BY Frames DEF Nesting
<1>2. PICK s, i, e : /\ s = Front(frames) /\ i = Len(frames) - 1
                     /\ frames' = [s EXCEPT ![i].result = e]
  BY DEF Return
<1>3. IsSeq(s) /\ Len(s) = Len(frames) - 1 /\ \A k \in 1 .. Len(frames) - 1 : s[k] = frames[k]
  BY <1>1, <1>2, FrontSeq
<1>4. i \in 1 .. Len(s) /\ Len(s) <= Len(frames)
  BY <1>1, <1>2, <1>3
<1>5. \A k \in 1 .. Len(s) : s[k] = frames[k]
  BY <1>3
<1>6. Keeps(Len(s)) /\ Len(frames') = Len(s)
  BY <1>2, <1>3, <1>4, <1>5, SetField, Zenon
<1> QED
  BY <1>3, <1>6

(* A step that keeps the first n activations and adds at most one more.    *)
LEMMA KeepNesting ==
  ASSUME Nesting, NEW n \in 1 .. Len(frames), Keeps(n), Len(frames') \in {n, n + 1},
         \A k \in 1 .. n : frames[k].fn = "gather" =>
           n = Len(frames') /\ frames[k].macro \notin expanded',
         Len(frames') = n + 1 =>
           /\ IsActivation(frames'[n + 1])
           /\ frames'[n + 1].fn = "group" => n = 1
           /\ frames'[n + 1].fn = "replace" =>
                IF frames'[n + 1].macro = "none" THEN frames[n].fn = "group"
                ELSE frames'[n + 1].macro \in Idents
           /\ frames'[n + 1].fn = "gather" =>
                frames'[n + 1].macro \in Idents /\ frames'[n + 1].macro \notin expanded'
  PROVE  Nesting'
<1>1. /\ Len(frames) \in Nat \ {0} /\ IsSeq(frames') /\ Len(frames') \in Nat /\ Len(frames') > 0
      /\ \A k \in 1 .. n : k \in 1 .. Len(frames)
  BY Frames DEF Keeps, IsSeq
<1>2. frames'[1].fn = "group"
  <2>1. 1 \in 1 .. n /\ frames[1].fn = "group"
    BY <1>1 DEF Nesting
  <2> QED
    BY <2>1 DEF Keeps
<1>3. ASSUME NEW k \in 1 .. n
      PROVE  /\ IsActivation(frames'[k])
             /\ frames'[k].fn = "group" => k <= 2
             /\ frames'[k].fn = "replace" =>
                  IF frames'[k].macro = "none" THEN frames'[k - 1].fn = "group" ELSE frames'[k].macro \in Idents
             /\ frames'[k].fn = "gather" =>
                  k = Len(frames') /\ frames'[k].macro \in Idents /\ frames'[k].macro \notin expanded'
  <2>1. k \in 1 .. Len(frames) /\ (k = 1 => frames[k].fn = "group") /\ (k # 1 => k - 1 \in 1 .. n)
    BY <1>1 DEF Nesting
  <2>2. IsActivation(frames'[k]) /\ frames'[k].fn = frames[k].fn /\ frames'[k].macro = frames[k].macro
    BY DEF Keeps
  <2>3. k # 1 => frames'[k - 1].fn = frames[k - 1].fn
    BY <2>1 DEF Keeps
  <2>4. /\ frames[k].fn = "group" => k <= 2
        /\ frames[k].fn = "replace" =>
             IF frames[k].macro = "none" THEN frames[k - 1].fn = "group" ELSE frames[k].macro \in Idents
        /\ frames[k].fn = "gather" => k = Len(frames) /\ frames[k].macro \in Idents
    BY <2>1 DEF Nesting
  <2>5. frames[k].fn = "gather" => k = Len(frames')
    BY <1>1, <2>4
  <2> QED
    BY <2>1, <2>2, <2>3, <2>4, <2>5
<1>4. ASSUME Len(frames') = n + 1
      PROVE  frames'[n].fn = frames[n].fn /\ (n = 1 => n + 1 <= 2) /\ (n + 1) - 1 = n
  BY <1>1 DEF Keeps
<1>5. ASSUME NEW k \in 1 .. Len(frames')
      PROVE  /\ IsActivation(frames'[k])
             /\ frames'[k].fn = "group" => k <= 2
             /\ frames'[k].fn = "replace" =>
                  IF frames'[k].macro = "none" THEN frames'[k - 1].fn = "group" ELSE frames'[k].macro \in Idents
             /\ frames'[k].fn = "gather" =>
                  k = Len(frames') /\ frames'[k].macro \in Idents /\ frames'[k].macro \notin expanded'
  <2>1. CASE k \in 1 .. n
    BY <1>3, <2>1
  <2>2. CASE k \notin 1 .. n
    <3>1. k = n + 1 /\ Len(frames') = n + 1
      BY <1>1, <2>2
    <3> QED
      BY <1>4, <3>1
  <2> QED
    BY <2>1, <2>2
<1> QED
  BY <1>1, <1>2, <1>5 DEF Nesting

(* Where a replacement is scanned, before and after such a step.           *)
LEMMA Scanned ==
  ASSUME Nesting, NEW n \in 1 .. Len(frames), Keeps(n), Len(frames') = n \/ Len(frames') = n + 1,
         \A k \in n + 1 .. Len(frames) : frames[k].fn # "replace" \/ frames[k].macro = "none"
  PROVE  /\ Scanning \subseteq 1 .. n
         /\ Scanning' = Scanning \cup
              {k \in {n + 1} : /\ Len(frames') = n + 1
                              /\ frames'[k].fn = "replace" /\ frames'[k].macro # "none"}
         /\ \A k \in Scanning : frames'[k].macro = frames[k].macro
<1>1. /\ Len(frames) \in Nat \ {0} /\ DOMAIN frames = 1 .. Len(frames)
      /\ Len(frames') \in Nat /\ DOMAIN frames' = 1 .. Len(frames')
  BY Frames DEF Keeps, IsSeq
<1>2. n \in Nat /\ Len(frames) \in Nat /\ Len(frames') \in Nat
  <2>1. Len(frames) \in Nat /\ Len(frames') \in Nat
    BY <1>1, Zenon
  <2> QED
    BY <2>1
<1>3. Scanning = {k \in 1 .. n : frames[k].fn = "replace" /\ frames[k].macro # "none"}
  <2>1. \A k \in 1 .. Len(frames) : k \in 1 .. n \/ k \in n + 1 .. Len(frames)
    BY <1>2
  <2>2. \A k \in 1 .. n : k \in 1 .. Len(frames)
    BY <1>2
  <2> QED
    BY <1>1, <2>1, <2>2, Zenon DEF Scanning
<1>4. \A k \in 1 .. n : frames'[k].fn = frames[k].fn /\ frames'[k].macro = frames[k].macro
  BY Zenon DEF Keeps
<1>5. /\ \A k \in 1 .. Len(frames') : k \in 1 .. n \/ (Len(frames') = n + 1 /\ k = n + 1)
      /\ \A k \in 1 .. n : k \in 1 .. Len(frames')
      /\ Len(frames') = n + 1 => n + 1 \in 1 .. Len(frames')
  BY <1>2
<1>6. ASSUME NEW k
      PROVE  k \in Scanning' <=> \/ k \in Scanning
                                \/ /\ k = n + 1 /\ Len(frames') = n + 1
                                   /\ frames'[k].fn = "replace" /\ frames'[k].macro # "none"
  <2>1. k \in Scanning' <=> k \in 1 .. Len(frames') /\ frames'[k].fn = "replace" /\ frames'[k].macro # "none"
    BY <1>1, Zenon DEF Scanning
  <2> QED
    BY <1>3, <1>4, <1>5, <2>1, Zenon
<1>7. Scanning' = Scanning \cup
        {k \in {n + 1} : /\ Len(frames') = n + 1
                        /\ frames'[k].fn = "replace" /\ frames'[k].macro # "none"}
  BY <1>6, Zenon
<1> QED
  BY <1>3, <1>4, <1>7

(* Nothing else is marked and no replacement is begun or left. *)
LEMMA KeepMarked ==
  ASSUME Nesting, Marked, NEW n \in 1 .. Len(frames), Keeps(n), Len(frames') = n \/ Len(frames') = n + 1,
         UNCHANGED expanded,
         \A k \in n + 1 .. Len(frames) : frames[k].fn # "replace" \/ frames[k].macro = "none",
         Len(frames') = n + 1 => frames'[n + 1].fn # "replace" \/ frames'[n + 1].macro = "none"
  PROVE  Marked'
<1>1. Scanning' = Scanning /\ \A k \in Scanning : frames'[k].macro = frames[k].macro
  BY Scanned, Zenon
<1> QED
  BY <1>1 DEF Marked

(* A macro is marked and its replacement begun.                            *)
LEMMA PushMarked ==
  ASSUME Nesting, Marked, NEW n \in 1 .. Len(frames), Keeps(n), Len(frames') = n + 1,
         NEW m, m # "none", m \notin expanded, expanded' = expanded \cup {m},
         \A k \in n + 1 .. Len(frames) : frames[k].fn # "replace" \/ frames[k].macro = "none",
         frames'[n + 1].fn = "replace", frames'[n + 1].macro = m
  PROVE  Marked'
<1>1. /\ Scanning \subseteq 1 .. n
      /\ Scanning' = Scanning \cup {n + 1}
      /\ \A k \in Scanning : frames'[k].macro = frames[k].macro
  BY Scanned, Zenon
<1>2. \A k \in Scanning : frames[k].macro # m
  BY DEF Marked
<1>3. ASSUME NEW j \in Scanning', NEW k \in Scanning', frames'[j].macro = frames'[k].macro
      PROVE  j = k
  <2>1. (j \in Scanning \/ j = n + 1) /\ (k \in Scanning \/ k = n + 1)
    BY <1>1, Zenon
  <2>2. \A i \in Scanning : frames'[i].macro = frames[i].macro /\ frames[i].macro # m
    BY <1>1, <1>2, Zenon
  <2>3. CASE j \in Scanning /\ k \in Scanning
    BY <1>3, <2>2, <2>3, Zenon DEF Marked
  <2> QED
    BY <1>3, <2>1, <2>2, <2>3, Zenon
<1>4. expanded' = {frames'[k].macro : k \in Scanning'}
  <2>1. ASSUME NEW x \in expanded'
        PROVE  \E k \in Scanning' : x = frames'[k].macro
    <3>1. CASE x = m
      BY <1>1, <3>1, Zenon
    <3>2. CASE x \in expanded
      <4>1. PICK k \in Scanning : x = frames[k].macro
        BY <3>2, Zenon DEF Marked
      <4> QED
        BY <1>1, <4>1, Zenon
    <3> QED
      BY <3>1, <3>2
  <2>2. \A k \in Scanning' : frames'[k].macro \in expanded'
    BY <1>1, Zenon DEF Marked
  <2> QED
    BY <2>1, <2>2, ZenonT(60)
<1> QED
  BY <1>3, <1>4, Zenon DEF Marked

(* The innermost replacement ends and its mark is taken away.              *)
LEMMA PopMarked ==
  ASSUME Nesting, Marked, Len(frames) > 1, Keeps(Len(frames) - 1), Len(frames') = Len(frames) - 1,
         frames[Len(frames)].fn = "replace", expanded' = expanded \ {frames[Len(frames)].macro}
  PROVE  Marked'
<1>1. /\ Len(frames) \in Nat \ {0} /\ DOMAIN frames = 1 .. Len(frames)
      /\ DOMAIN frames' = 1 .. Len(frames) - 1
  BY Frames DEF Keeps, IsSeq
<1>2. \A k : k \in 1 .. Len(frames) - 1 <=> k \in 1 .. Len(frames) /\ k # Len(frames)
  BY <1>1
<1>3. \A k \in 1 .. Len(frames) - 1 : frames'[k].fn = frames[k].fn /\ frames'[k].macro = frames[k].macro
  BY DEF Keeps
<1>4. Scanning' = Scanning \ {Len(frames)} /\ \A k \in Scanning' : frames'[k].macro = frames[k].macro
  BY <1>1, <1>2, <1>3 DEF Scanning
<1>5. Len(frames) \in Scanning \/ frames[Len(frames)].macro = "none"
  BY <1>1 DEF Scanning
<1>6. \A k \in Scanning : frames[k].macro # "none"
  BY DEF Scanning
<1>7. \A k \in Scanning \ {Len(frames)} : frames[k].macro # frames[Len(frames)].macro
  BY <1>5, <1>6, Zenon DEF Marked
<1>8. expanded' = {frames[k].macro : k \in Scanning \ {Len(frames)}}
  <2>1. expanded = {frames[k].macro : k \in Scanning}
    BY DEF Marked
  <2> QED
    BY <1>7, <2>1
<1>9. \A j, k \in Scanning' : frames'[j].macro = frames'[k].macro => j = k
  BY <1>4 DEF Marked
<1>10. expanded' = {frames'[k].macro : k \in Scanning'}
  BY <1>4, <1>8
<1> QED
  BY <1>9, <1>10 DEF Marked

-----------------------------------------------------------------------------
(* What a reader reads is there when it goes on. *)
LEMMA StashReads ==
  ASSUME Stashes, NEW ts, NEW from \in Nat \ {0}, stash(ts, from)
  PROVE  /\ IsSeq(stashed') /\ Len(stashed') = Len(stashed) + 1
         /\ \A k \in 1 .. Len(stashed') : stashed'[k].pos \in Nat \ {0}
         /\ pos' \in Nat \ {0}
         /\ \A k \in 1 .. Len(stashed) + 1 : ReadBy(k)' = ReadBy(k)
         /\ \A k : k = Len(stashed) + 2 => ReadBy(k)' = ts
<1> DEFINE e == [tokens |-> tokens, pos |-> from]
<1>1. IsSeq(stashed) /\ Len(stashed) \in Nat /\ DOMAIN stashed = 1 .. Len(stashed)
  BY DEF Stashes, IsSeq
<1>2. stashed' = Append(stashed, e) /\ tokens' = ts /\ pos' = 1
  BY DEF stash
<1>3. e.tokens = tokens /\ e.pos = from
  OBVIOUS
<1> HIDE DEF e
<1>4. /\ IsSeq(stashed') /\ Len(stashed') = Len(stashed) + 1
      /\ \A k \in 1 .. Len(stashed) : stashed'[k] = stashed[k]
      /\ stashed'[Len(stashed) + 1] = e
  BY <1>1, <1>2, AppendSeq, ZenonT(60)
<1>5. DOMAIN stashed' = 1 .. Len(stashed) + 1
  BY <1>4 DEF IsSeq
<1>6. ASSUME NEW k \in 1 .. Len(stashed) + 1
      PROVE  ReadBy(k)' = ReadBy(k) /\ stashed'[k].pos \in Nat \ {0}
  <2>1. CASE k \in 1 .. Len(stashed)
    BY <1>1, <1>4, <1>5, <2>1 DEF ReadBy, Stashes
  <2>2. CASE k \notin 1 .. Len(stashed)
    <3>1. k = Len(stashed) + 1
      BY <1>1, <2>2
    <3> QED
      BY <1>1, <1>3, <1>4, <1>5, <2>2, <3>1 DEF ReadBy
  <2> QED
    BY <2>1, <2>2
<1>7. Len(stashed) + 2 \notin 1 .. Len(stashed) + 1
  BY <1>1
<1>8. \A k : k = Len(stashed) + 2 => ReadBy(k)' = ts
  BY <1>2, <1>5, <1>7 DEF ReadBy
<1> QED
  BY <1>2, <1>4, <1>6, <1>8

LEMMA RestoreReads ==
  ASSUME Stashes, Len(stashed) > 0, restore
  PROVE  /\ IsSeq(stashed') /\ Len(stashed') = Len(stashed) - 1
         /\ \A k \in 1 .. Len(stashed') : stashed'[k].pos \in Nat \ {0}
         /\ pos' \in Nat \ {0}
         /\ \A k \in 1 .. Len(stashed) : ReadBy(k)' = ReadBy(k)
<1>1. IsSeq(stashed) /\ Len(stashed) \in Nat \ {0} /\ DOMAIN stashed = 1 .. Len(stashed)
  BY DEF Stashes, IsSeq
<1>2. stashed' = Front(stashed) /\ tokens' = stashed[Len(stashed)].tokens /\ pos' = stashed[Len(stashed)].pos
  BY DEF restore, Last
<1>3. /\ IsSeq(stashed') /\ Len(stashed') = Len(stashed) - 1
      /\ \A k \in 1 .. Len(stashed) - 1 : stashed'[k] = stashed[k]
  BY <1>1, <1>2, FrontSeq
<1>4. DOMAIN stashed' = 1 .. Len(stashed) - 1
  BY <1>3 DEF IsSeq
<1>5. \A k \in 1 .. Len(stashed) : stashed[k].pos \in Nat \ {0}
  BY DEF Stashes
<1>6. ASSUME NEW k \in 1 .. Len(stashed)
      PROVE  ReadBy(k)' = ReadBy(k) /\ (k \in 1 .. Len(stashed') => stashed'[k].pos \in Nat \ {0})
  <2>1. CASE k \in 1 .. Len(stashed) - 1
    BY <1>1, <1>3, <1>4, <1>5, <2>1 DEF ReadBy
  <2>2. CASE k \notin 1 .. Len(stashed) - 1
    <3>0. Len(stashed) \in Nat
      BY <1>1, Zenon
    <3>1. k = Len(stashed)
      BY <2>2, <3>0
    <3> QED
      BY <1>1, <1>2, <1>3, <1>4, <2>2, <3>1 DEF ReadBy
  <2> QED
    BY <2>1, <2>2
<1>7. \A k \in 1 .. Len(stashed') : k \in 1 .. Len(stashed)
  BY <1>1, <1>3
<1>8. pos' \in Nat \ {0}
  BY <1>1, <1>2, <1>5
<1> QED
  BY <1>3, <1>6, <1>7, <1>8

(* What the files' readers read does not change. *)
LEMMA KeepReads ==
  ASSUME Nesting, Stashes, NEW n \in 1 .. Len(frames), Keeps(n), Len(frames') = n \/ Len(frames') = n + 1,
         UNCHANGED files,
         \A k \in 1 .. n : frames[k].fn = "group" => ReadBy(k)' = ReadBy(k),
         Len(frames') = n + 1 /\ frames'[n + 1].fn = "group" => ReadBy(n + 1)' = files.header,
         IsSeq(stashed'), pos' \in Nat \ {0},
         \A k \in 1 .. Len(stashed') : stashed'[k].pos \in Nat \ {0},
         Len(stashed') = Len(frames') - 1 - Gathers'
  PROVE  Stashes'
<1>1. n \in Nat \ {0} /\ Len(frames) \in Nat
  <2>1. Len(frames) \in Nat
    BY Frames, Zenon
  <2> QED
    BY <2>1
<1>2. ASSUME NEW k \in 1 .. Len(frames'), frames'[k].fn = "group"
      PROVE  ReadBy(k)' = (IF k = 1 THEN files.main ELSE files.header)'
  <2>1. CASE k \in 1 .. n
    <3>1. frames[k].fn = "group" /\ k \in 1 .. Len(frames)
      BY <1>1, <1>2, <2>1 DEF Keeps
    <3>2. ReadBy(k) = IF k = 1 THEN files.main ELSE files.header
      BY <3>1, Zenon DEF Stashes
    <3> QED
      BY <2>1, <3>1, <3>2, Zenon
  <2>2. CASE k \notin 1 .. n
    <3>1. Len(frames') = n + 1 /\ k = n + 1 /\ k # 1
      BY <1>1, <2>2
    <3> QED
      BY <1>2, <3>1, Zenon
  <2> QED
    BY <2>1, <2>2
<1> QED
  BY <1>2, Zenon DEF Stashes

-----------------------------------------------------------------------------
(* The step of each action keeps the invariant. *)
LEMMA Pushed ==
  ASSUME Nesting, NEW b, IsSeq(b), Len(b) <= Len(frames),
         \A k \in 1 .. Len(b) : b[k] = frames[k],
         NEW f, frames' = Append(b, f)
  PROVE  Keeps(Len(b)) /\ Len(frames') = Len(b) + 1 /\ frames'[Len(b) + 1] = f
<1>1. /\ IsSeq(frames') /\ Len(frames') = Len(b) + 1
      /\ \A k \in 1 .. Len(b) : frames'[k] = b[k]
      /\ frames'[Len(b) + 1] = f
  BY AppendSeq, ZenonT(60)
<1>2. Len(frames) \in Nat /\ Len(b) \in Nat
  BY Frames DEF IsSeq
<1>3. \A k \in 1 .. Len(b) : k \in 1 .. Len(frames)
  BY <1>2
<1>4. \A k \in 1 .. Len(b) : IsActivation(frames'[k])
  BY <1>1, <1>3 DEF Nesting
<1> QED
  BY <1>1, <1>2, <1>4 DEF Keeps

(* Nothing but the position and what is gathered changes.                  *)
LEMMA KeepInv ==
  ASSUME IInv, Keeps(Len(frames)), Len(frames') = Len(frames), phase' # "done",
         UNCHANGED <<files, expanded, tokens, stashed>>, pos' \in Nat \ {0},
         DOMAIN macros' \subseteq Idents
  PROVE  IInv'
<1>1. /\ Nesting /\ Marked /\ Stashes /\ Macros
      /\ Len(frames) \in Nat \ {0} /\ Len(frames) \in 1 .. Len(frames)
  BY Frames DEF IInv
<1>2. \A k \in Len(frames) + 1 .. Len(frames) : FALSE
  BY <1>1
<1>3. \A k \in 1 .. Len(frames) : frames[k].fn = "gather" =>
        Len(frames) = Len(frames') /\ frames[k].macro \notin expanded'
  BY <1>1, Zenon DEF Nesting
<1>4. Len(frames') # Len(frames) + 1 /\ Len(frames') \in {Len(frames), Len(frames) + 1}
  BY <1>1
<1>5. Nesting'
  BY <1>1, <1>3, <1>4, KeepNesting, Zenon
<1>6. Marked'
  BY <1>1, <1>2, <1>4, KeepMarked, Zenon
<1>7. Gathers' = Gathers
  BY <1>1, Zenon DEF Gathers, Keeps
<1>8. \A k \in 1 .. Len(frames) : ReadBy(k)' = ReadBy(k)
  BY DEF ReadBy
<1>9. /\ IsSeq(stashed') /\ Len(stashed') = Len(frames') - 1 - Gathers'
      /\ \A k \in 1 .. Len(stashed') : stashed'[k].pos \in Nat \ {0}
  BY <1>1, <1>7, Zenon DEF Stashes
<1>10. Stashes'
  BY <1>1, <1>4, <1>8, <1>9, KeepReads, Zenon
<1> QED
  BY <1>1, <1>5, <1>6, <1>10, Zenon DEF IInv, Macros, Finished

LEMMA StopInv ==
  ASSUME IInv, NEW how, Stop(how), how # "done" \/ Len(frames) = 1
  PROVE  IInv'
BY DEF IInv, Stop, Nesting, Marked, Stashes, Macros, Finished, Scanning, Gathers, ReadBy

(* A group reads the lines of a file.                                      *)
LEMMA InGroup ==
  ASSUME IInv, In("group")
  PROVE  /\ phase = "run" /\ frames[Len(frames)].fn = "group"
         /\ Len(frames) \in {1, 2} /\ Gathers = 0
         /\ tokens = IF Len(frames) = 1 THEN files.main ELSE files.header
         /\ files \in Programs /\ IsFile(tokens)
         /\ Len(tokens) \in Nat /\ DOMAIN tokens = 1 .. Len(tokens)
         /\ has_next => pos \in DOMAIN tokens
<1>1. /\ Len(frames) \in Nat \ {0} /\ Top = frames[Len(frames)]
      /\ Len(frames) \in 1 .. Len(frames) /\ DOMAIN frames = 1 .. Len(frames)
  BY Frames DEF IInv
<1>2. frames[Len(frames)].fn = "group" /\ phase = "run"
  BY <1>1 DEF In
<1>3. Len(frames) \in {1, 2}
  <2>1. Len(frames) <= 2
    BY <1>1, <1>2, Zenon DEF IInv, Nesting
  <2> QED
    BY <1>1, <2>1
<1>4. Gathers = 0
  BY <1>2 DEF Gathers
<1>5. Len(stashed) = Len(frames) - 1 /\ DOMAIN stashed = 1 .. Len(stashed)
  <2>1. Len(stashed) = Len(frames) - 1 - Gathers /\ IsSeq(stashed)
    BY DEF IInv, Stashes
  <2> QED
    BY <1>1, <1>4, <2>1 DEF IsSeq
<1>6. Len(frames) \notin DOMAIN stashed
  BY <1>1, <1>5
<1>7. tokens = IF Len(frames) = 1 THEN files.main ELSE files.header
  <2>1. ReadBy(Len(frames)) = tokens
    BY <1>6 DEF ReadBy
  <2> QED
    BY <1>1, <1>2, <2>1, Zenon DEF IInv, Stashes
<1>8. files \in Programs /\ IsFile(tokens)
  BY <1>7, CppAssumption DEF IInv, Macros
<1>9. Len(tokens) \in Nat /\ DOMAIN tokens = 1 .. Len(tokens)
  BY <1>8 DEF IsFile
<1>10. pos \in Nat \ {0}
  BY DEF IInv, Stashes
<1>11. has_next => pos \in DOMAIN tokens
  BY <1>9, <1>10 DEF has_next
<1> QED
  BY <1>2, <1>3, <1>4, <1>7, <1>8, <1>9, <1>11

LEMMA DefineInv ==
  ASSUME IInv, define_directive
  PROVE  IInv'
<1>1. In("group") /\ has_next /\ tokens[pos].kind = "define"
  BY DEF define_directive, Line
<1>2. phase = "run" /\ pos \in DOMAIN tokens /\ IsFile(tokens)
  BY <1>1, InGroup
<1>3. tokens[pos].def.name \in Idents
  BY <1>1, <1>2 DEF IsFile
<1>4. pos \in Nat \ {0} /\ DOMAIN macros \subseteq Idents /\ Len(frames) \in Nat /\ Nesting
  BY Frames DEF IInv, Stashes, Macros
<1>5. /\ DOMAIN macros' = DOMAIN macros \cup {tokens[pos].def.name}
      /\ pos' = pos + 1
      /\ UNCHANGED <<phase, files, expanded, tokens, stashed, frames>>
  BY DEF define_directive
<1>6. Keeps(Len(frames)) /\ Len(frames') = Len(frames)
  BY <1>4, <1>5 DEF Keeps, Nesting
<1>7. pos' \in Nat \ {0} /\ phase' # "done" /\ DOMAIN macros' \subseteq Idents
  BY <1>2, <1>3, <1>4, <1>5
<1> QED
  BY <1>5, <1>6, <1>7, KeepInv, Zenon

(* What is read is stashed and an activation f reads something else.       *)
LEMMA StashInv ==
  ASSUME IInv, phase = "run", NEW n \in 1 .. Len(frames), Keeps(n), Len(frames') = n + 1,
         n = Len(frames) - Gathers,
         NEW f, IsActivation(f), frames'[n + 1] = f, f.fn # "gather",
         f.fn = "group" => n = 1,
         f.fn = "replace" => IF f.macro = "none" THEN frames[n].fn = "group" ELSE f.macro \in Idents,
         NEW ts, NEW from \in Nat \ {0}, stash(ts, from), f.fn = "group" => ts = files.header,
         UNCHANGED <<phase, files, macros>>,
         Marked'
  PROVE  IInv'
<1>0. Nesting /\ Stashes /\ Macros /\ Len(frames) \in Nat \ {0}
  BY Frames, Zenon DEF IInv
<1>1. /\ Nesting /\ Stashes /\ Macros
      /\ Len(frames) \in Nat \ {0} /\ Gathers \in {0, 1}
      /\ Len(frames') # n /\ Len(frames') \in {n, n + 1}
  <2>1. n \in Nat
    BY <1>0
  <2>2. Gathers \in {0, 1}
    BY Zenon DEF Gathers
  <2>3. Len(frames') # n /\ Len(frames') \in {n, n + 1}
    BY <2>1
  <2> QED
    BY <1>0, <2>2, <2>3, Zenon
<1>2. n \in Nat /\ Len(stashed) = n - 1
  BY <1>1 DEF Stashes
<1>3. \A k \in 1 .. n : frames[k].fn # "gather"
  <2>1. SUFFICES ASSUME NEW k \in 1 .. n, frames[k].fn = "gather"
                 PROVE  FALSE
    OBVIOUS
  <2>2. k \in 1 .. Len(frames)
    BY <1>1, <1>2
  <2>3. k = Len(frames)
    BY <1>1, <2>1, <2>2, Zenon DEF Nesting
  <2>4. Gathers = 1
    BY <2>1, <2>3 DEF Gathers
  <2> QED
    BY <1>1, <1>2, <2>3, <2>4
<1>4. Nesting'
  BY <1>1, <1>3, KeepNesting, Zenon
<1>5. Gathers' = 0
  BY DEF Gathers
<1>6. /\ IsSeq(stashed') /\ Len(stashed') = Len(stashed) + 1
      /\ \A k \in 1 .. Len(stashed') : stashed'[k].pos \in Nat \ {0}
      /\ pos' \in Nat \ {0}
      /\ \A k \in 1 .. Len(stashed) + 1 : ReadBy(k)' = ReadBy(k)
      /\ \A k : k = Len(stashed) + 2 => ReadBy(k)' = ts
  BY <1>1, StashReads, Zenon
<1>7. /\ \A k \in 1 .. n : k \in 1 .. Len(stashed) + 1
      /\ Len(stashed) + 2 = n + 1
      /\ Len(stashed') = Len(frames') - 1 - Gathers'
  BY <1>2, <1>5, <1>6
<1>8. Stashes'
  <2>1. \A k \in 1 .. n : ReadBy(k)' = ReadBy(k)
    BY <1>6, <1>7, Zenon
  <2>2. frames'[n + 1].fn = "group" => ReadBy(n + 1)' = files.header
    BY <1>6, <1>7, Zenon
  <2> QED
    BY <1>1, <1>6, <1>7, <2>1, <2>2, KeepReads, Zenon
<1>9. phase' # "done"
  OBVIOUS
<1> QED
  BY <1>1, <1>4, <1>8, <1>9, Zenon DEF IInv, Macros, Finished

(* The innermost activation, which reads, returns.                         *)
LEMMA RestoreInv ==
  ASSUME IInv, phase = "run", Len(frames) > 1, frames[Len(frames)].fn # "gather", restore, Return,
         UNCHANGED <<phase, files, macros>>,
         Marked'
  PROVE  IInv'
<1> DEFINE n == Len(frames) - 1
<1>1. /\ Nesting /\ Stashes /\ Macros /\ Len(frames) \in Nat \ {0} /\ Gathers = 0
      /\ n \in 1 .. Len(frames) /\ n \in Nat
  BY Frames DEF IInv, Gathers
<1>2. Keeps(n) /\ Len(frames') = n
  BY <1>1, Returned
<1>3. \A k \in 1 .. n : k \in 1 .. Len(frames) /\ k # Len(frames)
  BY <1>1
<1>4. \A k \in 1 .. n : frames[k].fn # "gather"
  BY <1>1, <1>3, Zenon DEF Nesting
<1>5. Len(frames') # n + 1 /\ Len(frames') \in {n, n + 1} /\ Len(stashed) = n /\ Len(stashed) > 0
  BY <1>1, <1>2 DEF Stashes
<1>6. Gathers' = 0
  <2>1. n \in 1 .. n
    BY <1>1
  <2> QED
    BY <1>2, <1>4, <2>1, Zenon DEF Gathers, Keeps
<1> HIDE DEF n
<1>7. Nesting'
  BY <1>1, <1>2, <1>4, <1>5, KeepNesting, Zenon
<1>8. /\ IsSeq(stashed') /\ Len(stashed') = Len(stashed) - 1
      /\ \A k \in 1 .. Len(stashed') : stashed'[k].pos \in Nat \ {0}
      /\ pos' \in Nat \ {0}
      /\ \A k \in 1 .. Len(stashed) : ReadBy(k)' = ReadBy(k)
  BY <1>1, <1>5, RestoreReads, Zenon
<1>9. Len(stashed') = Len(frames') - 1 - Gathers' /\ \A k \in 1 .. n : ReadBy(k)' = ReadBy(k)
  BY <1>1, <1>2, <1>5, <1>6, <1>8
<1>10. Stashes'
  BY <1>1, <1>2, <1>5, <1>8, <1>9, KeepReads, Zenon
<1>11. phase' # "done"
  OBVIOUS
<1> QED
  BY <1>1, <1>7, <1>10, <1>11, Zenon DEF IInv, Macros, Finished

LEMMA IncludeInv ==
  ASSUME IInv, include_directive
  PROVE  IInv'
<1>1. In("group") /\ has_next /\ tokens[pos].kind = "include"
  BY DEF include_directive, Line
<1>2. /\ phase = "run" /\ pos \in DOMAIN tokens /\ files \in Programs
      /\ Len(frames) \in {1, 2} /\ Gathers = 0
      /\ tokens = IF Len(frames) = 1 THEN files.main ELSE files.header
  BY <1>1, InGroup
<1>3. Len(frames) = 1
  BY <1>1, <1>2, CppAssumption
<1>4. Nesting /\ Marked /\ IsSeq(frames) /\ pos \in Nat \ {0}
  BY DEF IInv, Nesting, Stashes
<1>5. /\ stash(files.header, pos + 1)
      /\ frames' = Append(frames, Group)
      /\ UNCHANGED <<phase, files, macros, expanded>>
  BY DEF include_directive
<1>6. IsActivation(Group) /\ Group.fn = "group"
  BY DEF Group, IsActivation
<1>7. Keeps(1) /\ Len(frames') = 1 + 1 /\ frames'[1 + 1] = Group
  <2>1. Len(frames) <= Len(frames)
    BY <1>3
  <2> QED
    BY <1>3, <1>4, <1>5, <2>1, Pushed
<1>8. 1 \in 1 .. Len(frames) /\ 1 = Len(frames) - Gathers /\ \A k \in 1 + 1 .. Len(frames) : FALSE
  BY <1>2, <1>3
<1>9. Marked'
  BY <1>4, <1>5, <1>6, <1>7, <1>8, KeepMarked
<1>10. pos + 1 \in Nat \ {0}
  BY <1>4
<1> QED
  BY <1>2, <1>5, <1>6, <1>7, <1>8, <1>9, <1>10, StashInv

(* The text of a group ends: at the next directive or at the end.          *)
LEMMA TextEnds ==
  ASSUME Len(tokens) \in Nat, pos \in Nat \ {0}, pos <= Len(tokens), tokens[pos].kind = "text"
  PROVE  TextEnd \in pos .. Len(tokens)
<1> DEFINE T == {k \in pos .. Len(tokens) : k = Len(tokens) \/ tokens[k + 1].kind # "text"}
<1>1. T \in SUBSET Nat /\ Len(tokens) \in T
  OBVIOUS
<1>2. PICK m \in T : \A k \in T : m <= k
  BY <1>1, Least
<1>3. ASSUME NEW j \in pos .. m
      PROVE  tokens[j].kind = "text"
  <2>1. CASE j = pos
    BY <2>1
  <2>2. CASE j # pos
    <3>1. j - 1 \in pos .. Len(tokens) /\ j - 1 < m /\ (j - 1) + 1 = j
      BY <1>1, <2>2
    <3>2. j - 1 \in T => m <= j - 1
      BY <1>2, Zenon
    <3>3. m \in Int /\ j - 1 \in Int
      OBVIOUS
    <3>4. j - 1 \notin T
      BY <3>1, <3>2, <3>3
    <3> QED
      BY <3>1, <3>4
  <2> QED
    BY <2>1, <2>2
<1> QED
  BY <1>2, <1>3 DEF TextEnd

LEMMA TextInv ==
  ASSUME IInv, text_line
  PROVE  IInv'
<1>1. In("group") /\ has_next /\ tokens[pos].kind = "text"
  BY DEF text_line, Line
<1>2. /\ phase = "run" /\ pos \in DOMAIN tokens /\ Len(tokens) \in Nat /\ Gathers = 0
      /\ frames[Len(frames)].fn = "group"
  BY <1>1, InGroup
<1>3. /\ Nesting /\ Marked /\ IsSeq(frames) /\ pos \in Nat \ {0}
      /\ Len(frames) \in Nat \ {0} /\ Len(frames) <= Len(frames)
  BY Frames DEF IInv, Nesting, Stashes
<1>4. TextEnd + 1 \in Nat \ {0}
  <2>1. TextEnd \in pos .. Len(tokens)
    BY <1>1, <1>2, <1>3, TextEnds DEF has_next
  <2> QED
    BY <1>3, <2>1
<1>5. PICK ts, from : /\ from = TextEnd + 1 /\ stash(ts, from)
                      /\ frames' = Append(frames, Replace("none"))
                      /\ UNCHANGED <<phase, files, macros, expanded>>
  BY DEF text_line
<1>6. IsActivation(Replace("none")) /\ Replace("none").fn = "replace" /\ Replace("none").macro = "none"
  BY DEF Replace, IsActivation
<1>7. Keeps(Len(frames)) /\ Len(frames') = Len(frames) + 1 /\ frames'[Len(frames) + 1] = Replace("none")
  BY <1>3, <1>5, Pushed, Zenon
<1>8. /\ Len(frames) \in 1 .. Len(frames) /\ Len(frames) = Len(frames) - Gathers
      /\ \A k \in Len(frames) + 1 .. Len(frames) : FALSE
  BY <1>2, <1>3
<1>9. Marked'
  BY <1>3, <1>5, <1>6, <1>7, <1>8, KeepMarked
<1> QED
  BY <1>2, <1>4, <1>5, <1>6, <1>7, <1>8, <1>9, StashInv

LEMMA GroupEndInv ==
  ASSUME IInv, group_end
  PROVE  IInv'
<1>1. In("group")
  BY DEF group_end
<1>2. phase = "run" /\ frames[Len(frames)].fn = "group"
  BY <1>1, InGroup
<1>3. CASE Len(frames) = 1 /\ Stop("done")
  BY <1>3, StopInv
<1>4. CASE Len(frames) > 1 /\ restore /\ Return /\ UNCHANGED <<phase, files, macros, expanded>>
  <2> DEFINE n == Len(frames) - 1
  <2>1. Nesting /\ Marked /\ Len(frames) \in Nat \ {0} /\ n \in 1 .. Len(frames)
    BY <1>4, Frames DEF IInv
  <2>2. Keeps(n) /\ Len(frames') = n
    BY <1>4, <2>1, Returned
  <2>3. \A k \in n + 1 .. Len(frames) : k = Len(frames)
    BY <2>1
  <2>4. Len(frames') # n + 1
    BY <2>1, <2>2
  <2> HIDE DEF n
  <2>5. Marked'
    BY <1>2, <1>4, <2>1, <2>2, <2>3, <2>4, KeepMarked
  <2> QED
    BY <1>2, <1>4, <2>5, RestoreInv
<1> QED
  BY <1>3, <1>4 DEF group_end

-----------------------------------------------------------------------------
LEMMA InReplace ==
  ASSUME IInv, In("replace")
  PROVE  /\ phase = "run" /\ frames[Len(frames)].fn = "replace" /\ Gathers = 0
         /\ Len(frames) \in Nat /\ Len(frames) > 1 /\ Len(frames) \in 1 .. Len(frames)
         /\ Top = frames[Len(frames)]
         /\ Nesting /\ Marked /\ IsSeq(frames) /\ pos \in Nat \ {0}
<1>1. Nesting /\ Marked /\ IsSeq(frames) /\ pos \in Nat \ {0} /\ frames[1].fn = "group"
  BY DEF IInv, Nesting, Stashes
<1>2. Len(frames) \in Nat \ {0} /\ Top = frames[Len(frames)] /\ Len(frames) \in 1 .. Len(frames)
  BY <1>1, Frames
<1>3. phase = "run" /\ frames[Len(frames)].fn = "replace"
  BY <1>2 DEF In
<1>4. Len(frames) # 1
  BY <1>1, <1>3
<1> QED
  BY <1>1, <1>2, <1>3, <1>4 DEF Gathers

LEMMA CopyInv ==
  ASSUME IInv, replace_copy
  PROVE  IInv'
<1>1. /\ phase = "run" /\ Nesting /\ pos \in Nat \ {0}
  BY InReplace DEF replace_copy
<1>2. PICK e : frames' = [frames EXCEPT ![Len(frames)].result = e]
  BY DEF replace_copy
<1>3. Keeps(Len(frames)) /\ Len(frames') = Len(frames)
  BY <1>1, <1>2, SetTop, Zenon
<1>4. pos' = pos + 1 /\ UNCHANGED <<phase, files, macros, expanded, tokens, stashed>>
  BY DEF replace_copy
<1>5. pos' \in Nat \ {0} /\ phase' # "done" /\ DOMAIN macros' \subseteq Idents
  BY <1>1, <1>4 DEF IInv, Macros
<1> QED
  BY <1>3, <1>4, <1>5, KeepInv, Zenon

(* A macro that is not marked may be marked and replaced.                  *)
LEMMA ReplaceWithInv ==
  ASSUME IInv, phase = "run", NEW n \in 1 .. Len(frames), n = Len(frames) - Gathers,
         NEW b, IsSeq(b), Len(b) = n, \A k \in 1 .. n : b[k] = frames[k],
         NEW m \in Idents, m \notin expanded, NEW ts, NEW from \in Nat \ {0},
         ReplaceWith(m, ts, from, b)
  PROVE  IInv'
<1>1. Nesting /\ Marked /\ Len(frames) \in Nat \ {0}
  BY Frames DEF IInv
<1>2. n \in Nat /\ Len(b) <= Len(frames) /\ \A k \in n + 1 .. Len(frames) : k = Len(frames) /\ Gathers = 1
  BY <1>1 DEF Gathers
<1>3. m # "none"
  BY CppAssumption
<1>4. /\ expanded' = expanded \cup {m} /\ stash(ts, from) /\ frames' = Append(b, Replace(m))
      /\ UNCHANGED <<phase, files, macros>>
  BY DEF ReplaceWith
<1>5. IsActivation(Replace(m)) /\ Replace(m).fn = "replace" /\ Replace(m).macro = m
  BY DEF Replace, IsActivation
<1>6. Keeps(n) /\ Len(frames') = n + 1 /\ frames'[n + 1] = Replace(m)
  BY <1>1, <1>2, <1>4, Pushed
<1>7. \A k \in n + 1 .. Len(frames) : frames[k].fn # "replace"
  BY <1>2 DEF Gathers
<1>8. Marked'
  BY <1>1, <1>3, <1>4, <1>5, <1>6, <1>7, PushMarked
<1> QED
  BY <1>3, <1>4, <1>5, <1>6, <1>8, StashInv

LEMMA ExpandObjectInv ==
  ASSUME IInv, expand_object_macro
  PROVE  IInv'
<1>1. /\ phase = "run" /\ Gathers = 0 /\ Len(frames) \in Nat /\ Len(frames) \in 1 .. Len(frames)
      /\ IsSeq(frames) /\ pos \in Nat \ {0}
  BY InReplace DEF expand_object_macro
<1>2. PICK m, ts, from : m = tokens[pos] /\ from = pos + 1 /\ ReplaceWith(m, ts, from, frames)
  BY DEF expand_object_macro
<1>3. m \in Idents /\ m \notin expanded
  BY <1>2 DEF expand_object_macro, check_object_macro, IsMacro, IInv, Macros
<1>4. from \in Nat \ {0} /\ Len(frames) = Len(frames) - Gathers
  BY <1>1, <1>2
<1> QED
  BY <1>1, <1>2, <1>3, <1>4, ReplaceWithInv, Zenon

LEMMA ReplaceEndInv ==
  ASSUME IInv, replace_end
  PROVE  IInv'
<1>1. /\ phase = "run" /\ frames[Len(frames)].fn = "replace" /\ Len(frames) > 1
      /\ Top = frames[Len(frames)] /\ Nesting /\ Marked
  BY InReplace DEF replace_end
<1>2. /\ expanded' = expanded \ {frames[Len(frames)].macro} /\ restore /\ Return
      /\ UNCHANGED <<phase, files, macros>>
  BY <1>1, Zenon DEF replace_end
<1>3. Keeps(Len(frames) - 1) /\ Len(frames') = Len(frames) - 1
  BY <1>1, <1>2, Returned
<1>4. Marked'
  BY <1>1, <1>2, <1>3, PopMarked
<1> QED
  BY <1>1, <1>2, <1>4, RestoreInv, Zenon

LEMMA ExpandFunctionInv ==
  ASSUME IInv, expand_function_macro
  PROVE  IInv'
<1>1. /\ phase = "run" /\ frames[Len(frames)].fn = "replace" /\ Gathers = 0
      /\ Len(frames) \in Nat /\ Len(frames) \in 1 .. Len(frames)
      /\ Nesting /\ Marked /\ IsSeq(frames) /\ pos \in Nat \ {0}
      /\ Stashes /\ Macros
  BY InReplace DEF expand_function_macro, IInv
<1>2. PICK m : m = tokens[pos] /\ frames' = Append(frames, Gather(m))
  BY DEF expand_function_macro
<1>3. pos' = pos + 2 /\ UNCHANGED <<phase, files, macros, expanded, tokens, stashed>>
  BY DEF expand_function_macro
<1>4. m \in Idents /\ m \notin expanded
  BY <1>2 DEF expand_function_macro, check_function_macro, IsMacro, IInv, Macros
<1>5. IsActivation(Gather(m)) /\ Gather(m).fn = "gather" /\ Gather(m).macro = m
  BY DEF Gather, IsActivation
<1>6. Keeps(Len(frames)) /\ Len(frames') = Len(frames) + 1 /\ frames'[Len(frames) + 1] = Gather(m)
  <2>1. Len(frames) <= Len(frames)
    BY <1>1
  <2> QED
    BY <1>1, <1>2, <2>1, Pushed, Zenon
<1>7. Marked'
  <2>1. \A k \in Len(frames) + 1 .. Len(frames) : FALSE
    BY <1>1
  <2> QED
    BY <1>1, <1>3, <1>5, <1>6, <2>1, KeepMarked
<1>8. \A k \in 1 .. Len(frames) : frames[k].fn # "gather"
  BY <1>1 DEF Nesting
<1>9. Nesting'
  <2>1. Len(frames') \in {Len(frames), Len(frames) + 1}
    BY <1>6
  <2> QED
    BY <1>1, <1>3, <1>4, <1>5, <1>6, <1>8, <2>1, KeepNesting
<1>10. Gathers' = 1
  BY <1>5, <1>6 DEF Gathers
<1>11. /\ IsSeq(stashed') /\ Len(stashed') = Len(frames') - 1 - Gathers' /\ pos' \in Nat \ {0}
       /\ \A k \in 1 .. Len(stashed') : stashed'[k].pos \in Nat \ {0}
  BY <1>1, <1>3, <1>6, <1>10 DEF Stashes
<1>12. Stashes'
  <2>1. \A k \in 1 .. Len(frames) : ReadBy(k)' = ReadBy(k)
    BY <1>3 DEF ReadBy
  <2>2. frames'[Len(frames) + 1].fn # "group"
    BY <1>5, <1>6
  <2> QED
    BY <1>1, <1>3, <1>6, <1>11, <2>1, <2>2, KeepReads, Zenon
<1> QED
  BY <1>1, <1>3, <1>7, <1>9, <1>12, Zenon DEF IInv, Macros, Finished

-----------------------------------------------------------------------------
LEMMA InGather ==
  ASSUME IInv, In("gather")
  PROVE  /\ phase = "run" /\ frames[Len(frames)].fn = "gather" /\ Gathers = 1
         /\ Len(frames) \in Nat /\ Len(frames) > 1 /\ Len(frames) \in 1 .. Len(frames)
         /\ Top = frames[Len(frames)] /\ Top.macro \in Idents /\ Top.macro \notin expanded
         /\ Nesting /\ IsSeq(frames) /\ pos \in Nat \ {0}
<1>1. Nesting /\ IsSeq(frames) /\ pos \in Nat \ {0} /\ frames[1].fn = "group"
  BY DEF IInv, Nesting, Stashes
<1>2. Len(frames) \in Nat \ {0} /\ Top = frames[Len(frames)] /\ Len(frames) \in 1 .. Len(frames)
  BY <1>1, Frames
<1>3. phase = "run" /\ frames[Len(frames)].fn = "gather"
  BY <1>2 DEF In
<1>4. Len(frames) # 1
  BY <1>1, <1>3
<1>5. frames[Len(frames)].macro \in Idents /\ frames[Len(frames)].macro \notin expanded
  BY <1>1, <1>2, <1>3, Zenon DEF Nesting
<1> QED
  BY <1>1, <1>2, <1>3, <1>4, <1>5 DEF Gathers

(* An argument that ends has a first end. *)
LEMMA ArgumentEndIsEnd ==
  ASSUME NEW from \in Nat \ {0}, NEW stops, ArgumentEnds(from, stops) # {}
  PROVE  ArgumentEnd(from, stops) \in Nat \ {0}
<1>1. \A k \in ArgumentEnds(from, stops) : k \in Nat \ {0}
  BY DEF ArgumentEnds
<1>2. ArgumentEnds(from, stops) \in SUBSET Nat
  BY <1>1
<1>3. \E k \in ArgumentEnds(from, stops) : \A j \in ArgumentEnds(from, stops) : k <= j
  BY <1>2, Least
<1>4. ArgumentEnd(from, stops) \in ArgumentEnds(from, stops)
  BY <1>3, Zenon DEF ArgumentEnd
<1> QED
  BY <1>1, <1>4

LEMMA GatherInv ==
  ASSUME IInv, In("gather"), NEW name, NEW stops, NEW must \in BOOLEAN, NEW may \in BOOLEAN,
         gather_arg(name, stops, must, may)
  PROVE  IInv'
<1> DEFINE from == Skipped(pos)
           end == ArgumentEnd(from, stops)
<1>1. phase = "run" /\ Nesting /\ pos \in Nat \ {0}
  BY InGather
<1>2. CASE Stop("crash") \/ Stop("error")
  BY <1>2, StopInv
<1>3. CASE /\ ArgumentEnds(from, stops) # {}
           /\ frames' = [frames EXCEPT ![Len(frames)].args =
                            Append(@, [param |-> name, tokens |-> Argument(from, end)])]
           /\ pos' = IF may /\ tokens[end + 1] = "," THEN end + 2 ELSE end + 1
           /\ UNCHANGED <<phase, files, macros, expanded, tokens, stashed>>
  <2>1. from \in Nat \ {0}
    BY <1>1 DEF Skipped
  <2>2. end \in Nat \ {0}
    BY <1>3, <2>1, ArgumentEndIsEnd, Zenon
  <2> HIDE DEF end, from
  <2>3. Keeps(Len(frames)) /\ Len(frames') = Len(frames)
    <3>1. PICK e : frames' = [frames EXCEPT ![Len(frames)].args = e]
      BY <1>3
    <3> QED
      BY <1>1, <3>1, SetTop, Zenon
  <2>4. pos' \in Nat \ {0}
    <3>1. pos' = end + 2 \/ pos' = end + 1
      BY <1>3, Zenon
    <3> QED
      BY <2>2, <3>1
  <2>5. phase' # "done" /\ DOMAIN macros' \subseteq Idents
    BY <1>1, <1>3 DEF IInv, Macros
  <2> QED
    BY <1>3, <2>3, <2>4, <2>5, KeepInv, Zenon
<1> QED
  BY <1>2, <1>3, Zenon DEF gather_arg

LEMMA GatherParamInv ==
  ASSUME IInv, gather_param
  PROVE  IInv'
<1>1. PICK last \in BOOLEAN :
        gather_arg(Gathering.params[Gathered + 1], {",", ")"}, ~last, ~last \/ Gathering.ellipsis)
  BY DEF gather_param
<1> QED
  BY <1>1, GatherInv DEF gather_param

LEMMA GatherVaArgsInv ==
  ASSUME IInv, gather_va_args
  PROVE  IInv'
BY GatherInv DEF gather_va_args

LEMMA SubstituteInv ==
  ASSUME IInv, substitute
  PROVE  IInv'
<1>1. /\ phase = "run" /\ Gathers = 1 /\ Top.macro \in Idents /\ Top.macro \notin expanded
      /\ Len(frames) \in Nat /\ Len(frames) > 1 /\ IsSeq(frames) /\ pos \in Nat \ {0}
  BY InGather DEF substitute
<1>2. CASE Stop("crash") \/ Stop("error")
  BY <1>2, StopInv
<1>3. CASE \E ts : ReplaceWith(Top.macro, ts, pos + 1, Front(frames))
  <2>1. PICK m, ts, from, n, b :
          /\ m = Top.macro /\ from = pos + 1 /\ n = Len(frames) - 1 /\ b = Front(frames)
          /\ ReplaceWith(m, ts, from, b)
    BY <1>3
  <2>2. IsSeq(b) /\ Len(b) = n /\ \A k \in 1 .. n : b[k] = frames[k]
    BY <1>1, <2>1, FrontSeq
  <2>3. m \in Idents /\ m \notin expanded
    BY <1>1, <2>1, Zenon
  <2>4. from \in Nat \ {0} /\ n \in 1 .. Len(frames) /\ n = Len(frames) - Gathers
    BY <1>1, <2>1
  <2> QED
    BY <1>1, <2>1, <2>2, <2>3, <2>4, ReplaceWithInv, Zenon
<1> QED
  BY <1>2, <1>3, Zenon DEF substitute

-----------------------------------------------------------------------------
LEMMA InitInv ==
  ASSUME Init
  PROVE  IInv
<1>1. /\ frames = <<Group>> /\ IsSeq(frames) /\ Len(frames) = 1 /\ DOMAIN frames = {1}
      /\ frames[1] = Group /\ Group.fn = "group" /\ IsActivation(Group)
  BY DEF Init, IsSeq, Group, IsActivation
<1>2. stashed = << >> /\ IsSeq(stashed) /\ Len(stashed) = 0 /\ DOMAIN stashed = {}
  BY DEF Init, IsSeq
<1>3. Nesting
  BY <1>1 DEF Nesting
<1>4. Scanning = {} /\ expanded = {}
  BY <1>1 DEF Scanning, Init
<1>5. Marked
  BY <1>4 DEF Marked
<1>6. Stashes
  <2>1. Gathers = 0 /\ ReadBy(1) = files.main /\ pos = 1
    BY <1>1, <1>2 DEF Gathers, ReadBy, Init
  <2> QED
    BY <1>1, <1>2, <2>1 DEF Stashes
<1>7. Macros /\ Finished
  BY DEF Macros, Finished, Init
<1> QED
  BY <1>3, <1>5, <1>6, <1>7 DEF IInv

LEMMA NextInv ==
  ASSUME IInv, [Next]_vars
  PROVE  IInv'
<1>1. CASE UNCHANGED vars
  BY <1>1 DEF vars, IInv, Nesting, Marked, Stashes, Macros, Finished, Scanning, Gathers, ReadBy
<1> QED
  BY <1>1, DefineInv, IncludeInv, TextInv, GroupEndInv, CopyInv, ExpandObjectInv, ReplaceEndInv,
     ExpandFunctionInv, GatherParamInv, GatherVaArgsInv, SubstituteInv, Zenon DEF Next

LEMMA Invariant == Spec => []IInv
BY InitInv, NextInv, PTL DEF Spec

-----------------------------------------------------------------------------
(* A macro is scanned or gathered at most once: counting them bounds the   *)
(* activations.                                                            *)
LEMMA CountMarked ==
  ASSUME IInv
  PROVE  Cardinality(expanded) = Cardinality(Scanning)
<1> DEFINE f == [k \in Scanning |-> frames[k].macro]
<1>1. /\ expanded = {frames[k].macro : k \in Scanning}
      /\ \A j, k \in Scanning : frames[j].macro = frames[k].macro => j = k
  BY DEF IInv, Marked
<1>2. f \in Injection(Scanning, expanded) /\ f \in Surjection(Scanning, expanded)
  BY <1>1 DEF Injection, IsInjective, Surjection
<1>3. IsFiniteSet(Scanning)
  <2>1. Scanning \in SUBSET (1 .. Len(frames)) /\ 1 \in Int /\ Len(frames) \in Int
    BY Frames DEF IInv
  <2>2. IsFiniteSet(1 .. Len(frames))
    BY <2>1, FS_Interval, Zenon
  <2> QED
    BY <2>1, <2>2, FS_Subset, Zenon
<1>4. ExistsBijection(Scanning, expanded)
  BY <1>2 DEF ExistsBijection, Bijection
<1> QED
  BY <1>3, <1>4, FS_Bijection

LEMMA Bounded ==
  ASSUME IInv
  PROVE  Len(frames) <= Cardinality(Idents) + 3
<1> DEFINE S == {k \in 1 .. Len(frames) : frames[k].fn # "group" /\ frames[k].macro # "none"}
           f == [k \in S |-> frames[k].macro]
<1>1. /\ Nesting /\ Marked /\ Len(frames) \in Nat
      /\ Scanning = {k \in 1 .. Len(frames) : frames[k].fn = "replace" /\ frames[k].macro # "none"}
  BY Frames DEF IInv
<1>2. ASSUME NEW k \in S
      PROVE  /\ frames[k].macro \in Idents
             /\ \/ k \in Scanning /\ frames[k].macro \in expanded
                \/ k = Len(frames) /\ frames[k].macro \notin expanded
  <2>1. frames[k].fn = "replace" \/ frames[k].fn = "gather"
    BY <1>1 DEF Nesting, IsActivation
  <2>2. CASE frames[k].fn = "replace"
    <3>1. frames[k].macro \in Idents
      BY <1>1, <2>2, Zenon DEF Nesting
    <3>2. k \in Scanning /\ frames[k].macro \in expanded
      BY <1>1, <2>2, Zenon DEF Marked
    <3> QED
      BY <3>1, <3>2
  <2>3. CASE frames[k].fn = "gather"
    BY <1>1, <2>3, Zenon DEF Nesting
  <2> QED
    BY <2>1, <2>2, <2>3
<1>3. ASSUME NEW j \in S, NEW k \in S, frames[j].macro = frames[k].macro
      PROVE  j = k
  <2>1. j \in Scanning /\ k \in Scanning => j = k
    BY <1>1, <1>3, Zenon DEF Marked
  <2> QED
    BY <1>2, <1>3, <2>1, Zenon
<1>4. f \in Injection(S, Idents)
  BY <1>2, <1>3 DEF Injection, IsInjective
<1>5. IsFiniteSet(S) /\ Cardinality(S) <= Cardinality(Idents) /\ Cardinality(Idents) \in Nat
  <2> HIDE DEF f, S
  <2> QED
    BY <1>4, FS_Injection, FS_CardinalityType, CppAssumption
<1>6. 4 .. Len(frames) \subseteq S
  <2>1. SUFFICES ASSUME NEW k \in 4 .. Len(frames)
                 PROVE  frames[k].fn # "group" /\ frames[k].macro # "none"
    OBVIOUS
  <2>2. /\ k \in 1 .. Len(frames) /\ k - 1 \in 1 .. Len(frames)
        /\ ~ (k <= 2) /\ ~ (k - 1 <= 2)
    OBVIOUS
  <2>3. frames[k].fn # "group" /\ frames[k - 1].fn # "group"
    BY <1>1, <2>2, Zenon DEF Nesting
  <2>4. frames[k].fn = "replace" \/ frames[k].fn = "gather"
    BY <1>1, <2>2, <2>3 DEF Nesting, IsActivation
  <2>5. frames[k].fn = "replace" => frames[k].macro # "none"
    BY <1>1, <2>2, <2>3, Zenon DEF Nesting
  <2>6. frames[k].fn = "gather" => frames[k].macro # "none"
    <3>1. frames[k].fn = "gather" => frames[k].macro \in Idents
      BY <1>1, <2>2, Zenon DEF Nesting
    <3> QED
      BY <3>1, CppAssumption
  <2> QED
    BY <2>3, <2>4, <2>5, <2>6
<1> HIDE DEF S, f
<1>7. Cardinality(4 .. Len(frames)) <= Cardinality(S)
  BY <1>5, <1>6, FS_Subset
<1>8. Cardinality(4 .. Len(frames)) = IF 4 > Len(frames) THEN 0 ELSE Len(frames) - 4 + 1
  <2>1. 4 \in Int /\ Len(frames) \in Int
    BY <1>1
  <2> QED
    BY <2>1, FS_Interval, Zenon
<1>9. Cardinality(S) \in Nat
  BY <1>5, FS_CardinalityType
<1> QED
  BY <1>1, <1>5, <1>7, <1>8, <1>9

(* However macros name each other, in their replacements or arguments: the *)
(* macros marked are those whose replacement is being scanned, each once,  *)
(* and the recursion of replace_macro is bounded (cpp.c:153-168, 242-248). *)
THEOREM Nested == Spec => []NestedOnce
<1>1. IInv => NestedOnce
  <2> SUFFICES ASSUME IInv
               PROVE  NestedOnce
    OBVIOUS
  <2>1. expanded = {frames[k].macro : k \in Scanning}
    BY DEF IInv, Marked
  <2>2. Len(frames) < MaxFrames
    <3>1. Len(frames) \in Nat /\ Cardinality(Idents) \in Nat
      BY Frames, FS_CardinalityType, CppAssumption DEF IInv
    <3>2. MaxFrames \in Nat /\ MaxFrames > Cardinality(Idents) + 3
      BY CppAssumption, Zenon
    <3>3. Len(frames) <= Cardinality(Idents) + 3
      BY Bounded, Zenon
    <3> QED
      BY <3>1, <3>2, <3>3
  <2> QED
    BY <2>1, <2>2, CountMarked, Zenon DEF NestedOnce
<1> QED
  BY <1>1, Invariant, PTL

(* Whatever is included, replaced or gathered in between, every reader of  *)
(* tokens goes on in the tokens it was in, and when the file has been read *)
(* nothing is stashed or marked (cpp.c:57-67, 253-275, 325-340).           *)
THEOREM ReadsRestored == Spec => []Restored
<1>1. IInv => Restored
  <2> SUFFICES ASSUME IInv
               PROVE  Restored
    OBVIOUS
  <2>1. Nesting /\ Marked /\ Stashes /\ Finished /\ Len(frames) \in Nat \ {0} /\ DOMAIN frames = 1 .. Len(frames)
    BY Frames DEF IInv
  <2>2. Readers = 1 .. (Len(frames) - Gathers)
    <3>1. \A k \in 1 .. Len(frames) : frames[k].fn = "gather" => k = Len(frames)
      BY <2>1, Zenon DEF Nesting
    <3>2. CASE frames[Len(frames)].fn = "gather"
      <4>1. Gathers = 1
        BY <3>2 DEF Gathers
      <4>2. \A k : k \in 1 .. Len(frames) - 1 <=> k \in 1 .. Len(frames) /\ k # Len(frames)
        BY <2>1
      <4>3. Readers = 1 .. Len(frames) - 1
        BY <2>1, <3>1, <3>2, <4>2 DEF Readers
      <4> QED
        BY <4>1, <4>3
    <3>3. CASE frames[Len(frames)].fn # "gather"
      <4>1. Gathers = 0 /\ Len(frames) - 0 = Len(frames)
        BY <2>1, <3>3 DEF Gathers
      <4>2. Readers = 1 .. Len(frames)
        BY <2>1, <3>1, <3>3 DEF Readers
      <4> QED
        BY <4>1, <4>2
    <3> QED
      BY <3>2, <3>3
  <2>3. Cardinality(Readers) = Len(frames) - Gathers
    <3>1. PICK n \in Nat : n = Len(frames) - Gathers
      BY <2>1 DEF Gathers
    <3>2. Cardinality(1 .. n) = IF 1 > n THEN 0 ELSE n - 1 + 1
      BY FS_Interval
    <3>3. Readers = 1 .. n
      BY <2>2, <3>1
    <3> QED
      BY <3>1, <3>2, <3>3
  <2>4. Len(stashed) = Cardinality(Readers) - 1
    <3>1. Len(frames) - 1 - Gathers = (Len(frames) - Gathers) - 1
      BY <2>1 DEF Gathers
    <3> QED
      BY <2>1, <2>3, <3>1, Zenon DEF Stashes
  <2>5. \A k \in Readers :
          frames[k].fn = "group" => ReadBy(k) = IF k = 1 THEN files.main ELSE files.header
    BY <2>1, Zenon DEF Stashes, Readers
  <2>6. ASSUME phase = "done"
        PROVE  stashed = << >> /\ expanded = {}
    <3>1. Len(frames) = 1 /\ frames[1].fn = "group"
      BY <2>1, <2>6 DEF Finished, Nesting
    <3>2. Scanning = {}
      BY <2>1, <3>1 DEF Scanning
    <3>3. Len(stashed) = 0 /\ IsSeq(stashed)
      BY <2>1, <3>1 DEF Stashes, Gathers
    <3>4. stashed = << >>
      BY <3>3 DEF IsSeq
    <3> QED
      BY <2>1, <3>2, <3>4 DEF Marked
  <2> QED
    BY <2>4, <2>5, <2>6, Zenon DEF Restored
<1> QED
  BY <1>1, Invariant, PTL
=============================================================================
