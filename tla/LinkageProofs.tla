---------------------------- MODULE LinkageProofs -----------------------------
(***************************************************************************)
(* Whatever a translation unit declares, defines and uses: what gen.c      *)
(* prints for its names has the scopes and linkages of C.                  *)
(***************************************************************************)
EXTENDS LinkageC, FiniteSetTheorems, WellFoundedInduction, TLAPS

(* A sequence, whatever it is of. *)
IsSeq(s) == Len(s) \in Nat /\ s = [k \in 1 .. Len(s) |-> s[k]]

IsSymbol(s) ==
  s = [identifier |-> s.identifier, kind |-> s.kind, storage |-> s.storage, init |-> s.init,
       prev |-> s.prev, global |-> s.global, link |-> s.link, definition |-> s.definition,
       offset |-> s.offset]

Declaring == {"declare", "define", "param"}

(* How an item changes the number of open scopes. *)
Opens(do) == IF do \in {"define", "begin"} THEN 1 ELSE IF do = "end" THEN -1 ELSE 0

(* The scope of declaration d is open before item i. *)
Open(d, i) == d < i /\ \A k \in d + 1 .. i : Level[k] >= Level[d]

(* Of the declarations that are open before i, d is the one in sight. *)
InSight(d, i) ==
  /\ d \in Declarations /\ Open(d, i)
  /\ \A e \in Declarations :
       text[e].identifier = text[d].identifier /\ Open(e, i) =>
         Level[e] <= Level[d] /\ (Level[e] = Level[d] => e <= d)

(* d and e declare one name in one scope. *)
Again(d, e) == text[d].identifier = text[e].identifier /\ SameScope(Level, d, e)

(* A declaration that is a definition for sema.c. *)
Defining(d) == text[d].do = "define" \/ (Of(d).kind = "object" /\ Of(d).storage # "extern")

-----------------------------------------------------------------------------
(* The invariant. *)
Typed ==
  /\ IsSeq(text) /\ IsSeq(symbols) /\ IsSeq(out)
  /\ at \in 1 .. Len(text) + 1 /\ stack_size \in Nat
  /\ phase \in {"parse", "sema", "gen", "done", "error", "crash", "assertion"}
  /\ \A id \in DOMAIN symbols : IsSymbol(symbols[id])
  /\ \A i \in 1 .. Len(text) + 1 : Level[i] \in Nat \ {0}

(* A declaration and its symbol. *)
Declares(d) ==
  /\ text[d].symbol \in DOMAIN symbols
  /\ text[d].identifier # ""
  /\ Of(d).identifier = text[d].identifier
  /\ Of(d).kind \in {"object", "function"} /\ Of(d).storage \in {"", "extern", "static"} /\ Of(d).init \in BOOLEAN
  /\ Of(d).global = (Level[d] = 1)
  /\ Of(d).kind = "function" => ~Of(d).init
  /\ text[d].do = "define" => Of(d).kind = "function" /\ Level[d] = 1
  /\ text[d].do = "param" => Of(d).kind = "object" /\ Of(d).storage = "" /\ Level[d] > 1

(* prev is the declaration before it in its scope. *)
Follows(d) ==
  IF Of(d).prev = 0 THEN \A e \in Declarations : ~Again(e, d)
  ELSE \E e \in Declarations : /\ Again(e, d) /\ Of(d).prev = text[e].symbol
                               /\ \A o \in Declarations : Again(o, d) => o <= e

(* A use and what it found. *)
Finds(i) ==
  IF text[i].symbol = 0 THEN \A d \in Declarations : text[d].identifier = text[i].identifier => ~Open(d, i)
  ELSE \E d \in Declarations : /\ text[d].identifier = text[i].identifier /\ InSight(d, i)
                               /\ text[i].symbol = text[d].symbol

Items ==
  /\ \A i \in DOMAIN text : text[i].do \in Declaring \cup {"begin", "end", "use", "call"}
  /\ \A d \in Declarations : Declares(d) /\ Follows(d)
  /\ \A d, e \in Declarations : text[d].symbol = text[e].symbol => d = e
  /\ \A i \in Uses : Finds(i) /\ text[i].identifier # ""

(* The scopes while parse.c reads: of each name what was declared last. *)
Scopes ==
  /\ IsSeq(symbol_scopes) /\ Len(symbol_scopes) = Level[Len(text) + 1]
  /\ \A d \in Declarations : Open(d, Len(text) + 1) => text[d].identifier \in DOMAIN symbol_scopes[Level[d]]
  /\ \A k \in DOMAIN symbol_scopes : \A x \in DOMAIN symbol_scopes[k] :
       \E d \in Declarations :
         /\ Open(d, Len(text) + 1) /\ Level[d] = k /\ text[d].identifier = x
         /\ symbol_scopes[k][x] = text[d].symbol
         /\ \A e \in Declarations :
              Open(e, Len(text) + 1) /\ Level[e] = k /\ text[e].identifier = x => e <= d

(* What sema.c has made of the items before n. *)
Checked(n) ==
  /\ \A d \in Declarations :
       d < n => /\ Of(d).link = Link(Of(d)) /\ Of(d).definition = Defining(d)
                /\ Level[d] > 1 => Of(d).storage = ""
                /\ \A e \in Declarations : Again(e, d) => ~Defining(e)
  /\ \A i \in Uses :
       i < n => /\ text[i].do = "use" => text[i].symbol # 0
                /\ text[i].do = "call" /\ text[i].symbol # 0 => symbols[text[i].symbol].kind = "function"

(* Local objects d and e of one function. *)
Local(d) == d \in Declarations /\ Level[d] > 1 /\ Of(d).kind = "object"
NoFunction(d, n) == \A f \in d + 1 .. n - 1 : text[f].do # "define"

Placed(n) ==
  /\ \A d \in Declarations : d < n /\ Local(d) => Of(d).offset \in Nat
  /\ \A d, e \in Declarations : d < e /\ e < n /\ Local(d) /\ Local(e) /\ NoFunction(d, e) => Of(d).offset < Of(e).offset

Highest(n) == \A d \in Declarations : d < n /\ Local(d) /\ NoFunction(d, n) => Of(d).offset <= stack_size

(* Why sema.c stops. *)
Stopped ==
  \/ \E d, e \in Declarations : Again(d, e) /\ Defining(d) /\ (Level[d] > 1 => Of(d).storage = "")
  \/ \E d \in Declarations : Level[d] > 1 /\ Of(d).storage # ""
  \/ \E i \in Uses : text[i].symbol = 0

CallsObject == \E i \in Uses : text[i].do = "call" /\ text[i].symbol # 0 /\ symbols[text[i].symbol].kind # "function"

(* Why gen.c stops. *)
Loads == \E i \in Uses : text[i].do = "use" /\ text[i].symbol # 0 /\ symbols[text[i].symbol].kind = "function"

-----------------------------------------------------------------------------
(* What is printed. *)
What(d) == IF text[d].do = "define" THEN "code" ELSE IF Of(d).init THEN "value" ELSE "zero"

Emits(d) == d \in Declarations /\ Level[d] = 1 /\ Defining(d)

LabelsPrinted(n) ==
  /\ \A k \in DOMAIN out : out[k].do = "label" =>
       \E d \in 1 .. n - 1 : Emits(d) /\ out[k].identifier = text[d].identifier /\ out[k].what = What(d)
  /\ \A d \in 1 .. n - 1 : Emits(d) =>
       \E k \in DOMAIN out : out[k].do = "label" /\ out[k].identifier = text[d].identifier
  /\ \A j, k \in DOMAIN out :
       out[j].do = "label" /\ out[k].do = "label" /\ out[j].identifier = out[k].identifier => j = k

GlobalsPrinted(n) ==
  /\ \A k \in DOMAIN out : out[k].do = "global" =>
       \E d \in 1 .. n - 1 : Emits(d) /\ Of(d).link = "external" /\ out[k].identifier = text[d].identifier
  /\ \A d \in 1 .. n - 1 : Emits(d) /\ Of(d).link = "external" =>
       \E k \in DOMAIN out : out[k].do = "global" /\ out[k].identifier = text[d].identifier

Operand(p) ==
  LET i == p.what.item
      s == symbols[text[i].symbol]
  IN  /\ i \in Uses
      /\ text[i].do = "use" => p.identifier = (IF s.link = "none" THEN "" ELSE s.identifier) /\ p.what.offset = s.offset
      /\ text[i].do = "call" => p.identifier = text[i].identifier

UsesPrinted == \A k \in DOMAIN out : out[k].do = "use" => Operand(out[k])

PrintedUpTo(n) == LabelsPrinted(n) /\ GlobalsPrinted(n) /\ UsesPrinted

-----------------------------------------------------------------------------
IInv ==
  /\ Typed /\ Items
  /\ phase = "parse" => Scopes /\ at = 1 /\ out = << >>
  /\ phase = "sema" => Checked(at) /\ Placed(at) /\ Highest(at) /\ out = << >>
  /\ phase = "gen" => Checked(Len(text) + 1) /\ Placed(Len(text) + 1) /\ PrintedUpTo(at)
  /\ phase = "done" => Checked(Len(text) + 1) /\ Placed(Len(text) + 1) /\ PrintedUpTo(Len(text) + 1)
  /\ phase = "error" => Stopped
  /\ phase = "crash" => CallsObject
  /\ phase = "assertion" => Loads

-----------------------------------------------------------------------------
(* Sequences. *)
LEMMA SeqIsSeq ==
  ASSUME NEW S, NEW s \in Seq(S)
  PROVE  IsSeq(s)
BY DEF IsSeq

LEMMA AppendSeq ==
  ASSUME NEW s, IsSeq(s), NEW e
  PROVE  /\ IsSeq(Append(s, e))
         /\ Len(Append(s, e)) = Len(s) + 1
         /\ \A k \in 1 .. Len(s) : Append(s, e)[k] = s[k]
         /\ Append(s, e)[Len(s) + 1] = e
<1> DEFINE S == {s[k] : k \in 1 .. Len(s)} \cup {e}
<1>1. s \in Seq(S) /\ e \in S
  BY DEF IsSeq
<1> HIDE DEF S
<1>2. IsSeq(Append(s, e))
  <2>1. Append(s, e) \in Seq(S)
    BY <1>1
  <2> QED
    BY <2>1, SeqIsSeq, Zenon
<1> QED
  BY <1>1, <1>2

LEMMA FrontSeq ==
  ASSUME NEW s, IsSeq(s), Len(s) > 0
  PROVE  /\ IsSeq(Front(s))
         /\ Len(Front(s)) = Len(s) - 1
         /\ \A k \in 1 .. Len(s) - 1 : Front(s)[k] = s[k]
<1> DEFINE S == {s[k] : k \in 1 .. Len(s)}
<1>1. s \in Seq(S) /\ Len(s) \in Nat
  BY DEF IsSeq
<1>2. SubSeq(s, 1, Len(s) - 1) \in Seq(S)
  BY <1>1
<1> QED
  BY <1>1, <1>2 DEF IsSeq, Front

LEMMA ConcatSeq ==
  ASSUME NEW a, IsSeq(a), NEW b, IsSeq(b)
  PROVE  /\ IsSeq(a \o b)
         /\ Len(a \o b) = Len(a) + Len(b)
         /\ \A k \in 1 .. Len(a) : (a \o b)[k] = a[k]
         /\ \A k \in Len(a) + 1 .. Len(a) + Len(b) : (a \o b)[k] = b[k - Len(a)]
<1> DEFINE S == {a[k] : k \in 1 .. Len(a)} \cup {b[k] : k \in 1 .. Len(b)}
<1>1. a \in Seq(S) /\ b \in Seq(S)
  BY DEF IsSeq
<1> HIDE DEF S
<1>2. IsSeq(a \o b)
  <2>1. a \o b \in Seq(S)
    BY <1>1
  <2> QED
    BY <2>1, SeqIsSeq, Zenon
<1> QED
  BY <1>1, <1>2

(* The least of a set of numbers, and the greatest. *)
LEMMA Least ==
  ASSUME NEW T \in SUBSET Nat, T # {}
  PROVE  \E m \in T : \A k \in T : m <= k
<1> DEFINE Less == {p \in Nat \X Nat : p[1] < p[2]}
<1>1. IsWellFoundedOn(Less, Nat)
  <2>1. OpToRel(<, Nat) = Less
    BY DEF OpToRel
  <2> QED
    BY <2>1, NatLessThanWellFounded
<1>2. PICK m \in T : \A k \in T : ~ (<<k, m>> \in Less)
  BY <1>1, WFMin
<1>3. ASSUME NEW k \in T
      PROVE  m <= k
  <2>1. ~ (<<k, m>> \in Less) /\ <<k, m>> \in Nat \X Nat
    BY <1>2
  <2>2. ~ (k < m)
    BY <2>1
  <2> QED
    BY <2>2
<1> QED
  BY <1>3

LEMMA Greatest ==
  ASSUME NEW N \in Nat, NEW T \in SUBSET (0 .. N), T # {}
  PROVE  \E m \in T : \A k \in T : k <= m
<1> DEFINE D == {N - k : k \in T}
<1>1. D \in SUBSET Nat /\ D # {}
  <2>1. \A k \in T : N - k \in Nat
    OBVIOUS
  <2>2. PICK k \in T : TRUE
    OBVIOUS
  <2>3. N - k \in D
    OBVIOUS
  <2> QED
    BY <2>1, <2>3
<1>2. PICK d \in D : \A e \in D : d <= e
  <2> HIDE DEF D
  <2> QED
    BY <1>1, Least
<1>3. PICK m \in T : d = N - m
  BY <1>2
<1>4. ASSUME NEW k \in T
      PROVE  k <= m
  <2>1. N - k \in D
    OBVIOUS
  <2> QED
    BY <1>2, <1>3, <2>1
<1> QED
  BY <1>4

-----------------------------------------------------------------------------
(* How many scopes are open. *)
Levels ==
  /\ DOMAIN Level = 1 .. Len(text) + 1 /\ Level[1] = 1
  /\ \A i \in 1 .. Len(text) + 1 : Level[i] \in Int
  /\ \A i \in 1 .. Len(text) : Level[i + 1] = Level[i] + Opens(text[i].do)

LEMMA LevelIs == IsSeq(text) => Levels
<1> SUFFICES ASSUME IsSeq(text)
             PROVE  Levels
  OBVIOUS
<1> DEFINE E(L, i) ==
             IF i = 1 THEN 1
             ELSE CASE text[i - 1].do \in {"define", "begin"} -> L[i - 1] + 1
                    [] text[i - 1].do = "end"                 -> L[i - 1] - 1
                    [] OTHER                                  -> L[i - 1]
           Upto(n) == \E g : g = [i \in 1 .. n |-> E(g, i)]
           T == {n \in Nat : ~Upto(n)}
<1>1. ASSUME T # {}
      PROVE  FALSE
  <2>1. PICK m \in T : \A k \in T : m <= k
    <3> HIDE DEF T
    <3>1. T \in SUBSET Nat
      BY DEF T
    <3> QED
      BY <1>1, <3>1, Least
  <2>2. m # 0
    <3>1. PICK g : g = [i \in 1 .. 0 |-> 1]
      OBVIOUS
    <3>2. g = [i \in 1 .. 0 |-> E(g, i)]
      BY <3>1
    <3>3. Upto(0)
      BY <3>2
    <3>4. m \in T /\ 0 \notin T
      BY <2>1, <3>3
    <3> QED
      BY ONLY <3>4
  <2>3. Upto(m - 1)
    <3>1. m - 1 \in Nat /\ ~(m <= m - 1)
      BY <2>1, <2>2
    <3> HIDE DEF Upto
    <3> QED
      BY <2>1, <3>1
  <2>4. PICK g : g = [i \in 1 .. m - 1 |-> E(g, i)]
    BY <2>3
  <2>5. PICK h : h = [i \in 1 .. m |-> IF i < m THEN g[i] ELSE E(g, m)]
    OBVIOUS
  <2>6. ASSUME NEW i \in 1 .. m
        PROVE  h[i] = E(h, i)
    <3>1. h[i] = E(g, i)
      <4>1. m \in Nat /\ (i = m \/ i \in 1 .. m - 1)
        BY <2>1, <2>6
      <4>2. CASE i = m
        BY ONLY <2>5, <2>6, <4>1, <4>2
      <4>3. CASE i \in 1 .. m - 1
        <5>1. i < m
          BY ONLY <4>1, <4>3
        <5>2. h[i] = g[i]
          BY ONLY <2>5, <2>6, <5>1
        <5>3. g[i] = E(g, i)
          BY ONLY <2>4, <4>3
        <5> QED
          BY ONLY <5>2, <5>3
      <4> QED
        BY ONLY <4>1, <4>2, <4>3
    <3>2. i # 1 => h[i - 1] = g[i - 1]
      <4>1. m \in Nat
        BY <2>1
      <4>2. i # 1 => i - 1 \in 1 .. m /\ i - 1 < m
        BY ONLY <2>6, <4>1
      <4> QED
        BY ONLY <2>5, <4>2
    <3> QED
      BY <3>1, <3>2
  <2>7. h = [i \in 1 .. m |-> E(h, i)]
    BY <2>5, <2>6
  <2> QED
    BY <2>1, <2>7
<1>2. Upto(Len(text) + 1)
  BY <1>1 DEF IsSeq
<1>3. Level = [i \in 1 .. Len(text) + 1 |-> E(Level, i)]
  BY <1>2 DEF Level
<1> PICK L, n : L = Level /\ n = Len(text)
  OBVIOUS
<1>4. L = [i \in 1 .. n + 1 |-> E(L, i)] /\ n \in Nat
  BY <1>3 DEF IsSeq
<1>5. \A i \in 1 .. n + 1 : L[i] = E(L, i)
  <2> HIDE DEF E
  <2> QED
    BY ONLY <1>4
<1> DEFINE B == {i \in 1 .. n + 1 : L[i] \notin Int}
<1>6. ASSUME B # {}
      PROVE  FALSE
  <2>1. PICK m \in B : \A k \in B : m <= k
    <3>1. B \in SUBSET Nat
      BY <1>4
    <3> HIDE DEF B
    <3> QED
      BY <1>6, <3>1, Least
  <2>2. m # 1
    BY <1>4, <2>1
  <2>3. m - 1 \in 1 .. n + 1 /\ L[m - 1] \in Int
    BY <1>4, <2>1, <2>2
  <2> QED
    BY <1>5, <2>1, <2>2, <2>3
<1>7. ASSUME NEW i \in 1 .. n
      PROVE  L[i + 1] = L[i] + Opens(text[i].do)
  <2>1. i + 1 \in 1 .. n + 1 /\ i + 1 # 1 /\ (i + 1) - 1 = i
    BY <1>4
  <2>2. L[i + 1] = E(L, i + 1)
    BY ONLY <1>5, <2>1
  <2>3. L[i] \in Int
    BY <1>4, <1>6
  <2> QED
    BY <2>1, <2>2, <2>3 DEF Opens
<1>8. L[1] = 1 /\ DOMAIN L = 1 .. n + 1
  BY <1>4
<1> QED
  BY <1>6, <1>7, <1>8 DEF Levels

LEMMA LevelKept == text' = text => Level' = Level
BY DEF Level

(* One more item. *)
LEMMA LevelNext ==
  ASSUME IsSeq(text), NEW item, text' = Append(text, item)
  PROVE  /\ IsSeq(text') /\ Len(text') = Len(text) + 1 /\ text'[Len(text) + 1] = item
         /\ \A i \in 1 .. Len(text) : text'[i] = text[i]
         /\ \A i \in 1 .. Len(text) + 1 : Level'[i] = Level[i]
         /\ Level'[Len(text) + 2] = Level[Len(text) + 1] + Opens(item.do)
<1> PICK L, M, n, t, u : L = Level /\ M = Level' /\ n = Len(text) /\ t = text /\ u = text'
  OBVIOUS
<1>1. /\ IsSeq(u) /\ n \in Nat /\ Len(u) = n + 1 /\ u[n + 1] = item
      /\ \A i \in 1 .. n : u[i] = t[i]
  BY AppendSeq DEF IsSeq
<1>2. Levels
  BY LevelIs
<1>3. IsSeq(text)' => Levels'
  BY LevelIs, PTL
<1>4. Levels'
  BY <1>1, <1>3
<1>5. L[1] = 1 /\ \A i \in 1 .. n : L[i + 1] = L[i] + Opens(t[i].do)
  BY <1>2 DEF Levels
<1>6. M[1] = 1 /\ \A i \in 1 .. n + 1 : M[i + 1] = M[i] + Opens(u[i].do)
  BY <1>1, <1>4 DEF Levels
<1> DEFINE T == {i \in 1 .. n + 1 : M[i] # L[i]}
<1>7. ASSUME T # {}
      PROVE  FALSE
  <2>1. PICK m \in T : \A k \in T : m <= k
    <3>1. T \in SUBSET Nat
      BY <1>1
    <3> HIDE DEF T
    <3> QED
      BY <1>7, <3>1, Least
  <2>2. m # 1 /\ m \in 1 .. n + 1 /\ M[m] # L[m]
    BY <1>5, <1>6, <2>1
  <2>3. m - 1 \in 1 .. n /\ m - 1 \in 1 .. n + 1 /\ (m - 1) + 1 = m
    BY <1>1, <2>2
  <2>4. M[m - 1] = L[m - 1]
    BY <1>1, <2>1, <2>2, <2>3
  <2>5. M[m] = M[m - 1] + Opens(u[m - 1].do) /\ L[m] = L[m - 1] + Opens(t[m - 1].do)
    BY <1>5, <1>6, <2>3
  <2> QED
    BY <1>1, <2>2, <2>3, <2>4, <2>5
<1>8. M[n + 2] = L[n + 1] + Opens(item.do)
  <2>1. n + 1 \in 1 .. n + 1 /\ (n + 1) + 1 = n + 2
    BY <1>1
  <2>2. M[n + 1] = L[n + 1]
    BY <1>7, <2>1
  <2> QED
    BY <1>1, <1>6, <2>1, <2>2
<1> QED
  BY <1>1, <1>7, <1>8

-----------------------------------------------------------------------------
(* parse.c reads one more item: what is known of those before it stays. *)
LEMMA DeclarationsAre ==
  ASSUME Typed
  PROVE  /\ DOMAIN text = 1 .. Len(text) /\ Len(text) \in Nat
         /\ \A d : d \in Declarations <=> d \in 1 .. Len(text) /\ text[d].do \in Declaring
         /\ \A i : i \in Uses <=> i \in 1 .. Len(text) /\ text[i].do \in {"use", "call"}
BY DEF Typed, IsSeq, Declarations, Uses, Declaring

LEMMA GrowDeclarations ==
  ASSUME Typed, NEW item, text' = Append(text, item)
  PROVE  /\ \A d : d \in Declarations' <=> d \in Declarations \/ (d = Len(text) + 1 /\ item.do \in Declaring)
         /\ \A i : i \in Uses' <=> i \in Uses \/ (i = Len(text) + 1 /\ item.do \in {"use", "call"})
         /\ \A d \in Declarations \cup Uses : d \in 1 .. Len(text) /\ text'[d] = text[d]
<1> PICK n, u, t : n = Len(text) /\ u = text' /\ t = text
  OBVIOUS
<1>1. /\ IsSeq(u) /\ Len(u) = n + 1 /\ u[n + 1] = item /\ n \in Nat
      /\ \A i \in 1 .. n : u[i] = t[i]
  BY LevelNext DEF Typed, IsSeq
<1>2. DOMAIN u = 1 .. n + 1 /\ DOMAIN t = 1 .. n
  BY <1>1 DEF Typed, IsSeq
<1>3. \A d : d \in Declarations' <=> d \in 1 .. n + 1 /\ u[d].do \in Declaring
  BY <1>2 DEF Declarations, Declaring
<1>4. \A d : d \in Declarations <=> d \in 1 .. n /\ t[d].do \in Declaring
  BY <1>2 DEF Declarations, Declaring
<1>5. \A d : d \in Uses' <=> d \in 1 .. n + 1 /\ u[d].do \in {"use", "call"}
  BY <1>2 DEF Uses
<1>6. \A d : d \in Uses <=> d \in 1 .. n /\ t[d].do \in {"use", "call"}
  BY <1>2 DEF Uses
<1>7. \A d : d \in 1 .. n + 1 <=> d \in 1 .. n \/ d = n + 1
  BY <1>1
<1>8. \A d : d \in Declarations' <=> d \in Declarations \/ (d = n + 1 /\ item.do \in Declaring)
  BY <1>1, <1>3, <1>4, <1>7
<1>9. \A d : d \in Uses' <=> d \in Uses \/ (d = n + 1 /\ item.do \in {"use", "call"})
  BY <1>1, <1>5, <1>6, <1>7
<1> QED
  BY <1>1, <1>4, <1>6, <1>8, <1>9

LEMMA GrowOpen ==
  ASSUME Typed, NEW item, text' = Append(text, item), NEW n, n = Len(text)
  PROVE  /\ \A d, i \in 1 .. n + 1 : Open(d, i)' <=> Open(d, i)
         /\ \A d \in 1 .. n : Open(d, n + 2)' <=> Open(d, n + 1) /\ Level'[n + 2] >= Level[d]
         /\ Open(n + 1, n + 2)' <=> Level'[n + 2] >= Level[n + 1]
         /\ \A d, e \in 1 .. n : SameScope(Level, d, e)' <=> SameScope(Level, d, e)
         /\ \A d \in 1 .. n : SameScope(Level, d, n + 1)' <=> Level[d] = Level[n + 1] /\ Open(d, n + 1)
         /\ \A d \in 1 .. n + 1 : ~SameScope(Level, n + 1, d)'
<1> PICK L, M : L = Level /\ M = Level'
  OBVIOUS
<1>1. /\ n \in Nat /\ \A i \in 1 .. n + 1 : M[i] = L[i]
      /\ \A i \in 1 .. n + 1 : L[i] \in Nat
  BY LevelNext DEF Typed, IsSeq
<1>2. ASSUME NEW d \in 1 .. n + 1, NEW i \in 1 .. n + 1
      PROVE  Open(d, i)' <=> Open(d, i)
  <2>1. \A k \in d + 1 .. i : M[k] = L[k] /\ M[d] = L[d]
    BY <1>1
  <2> QED
    BY <2>1 DEF Open
<1>3. ASSUME NEW d \in 1 .. n
      PROVE  Open(d, n + 2)' <=> Open(d, n + 1) /\ M[n + 2] >= L[d]
  <2>1. \A k : k \in d + 1 .. n + 2 <=> k \in d + 1 .. n + 1 \/ k = n + 2
    BY <1>1
  <2>2. \A k \in d + 1 .. n + 1 : M[k] = L[k] /\ M[d] = L[d]
    BY <1>1
  <2>3. M[d] = L[d] /\ d < n + 2 /\ d < n + 1
    BY <1>1
  <2> QED
    BY <2>1, <2>2, <2>3 DEF Open
<1>4. Open(n + 1, n + 2)' <=> M[n + 2] >= L[n + 1]
  <2>1. (n + 1) + 1 .. n + 2 = {n + 2} /\ n + 1 < n + 2 /\ M[n + 1] = L[n + 1]
    BY <1>1
  <2> QED
    BY <2>1 DEF Open
<1>5. ASSUME NEW d \in 1 .. n, NEW e \in 1 .. n
      PROVE  SameScope(Level, d, e)' <=> SameScope(Level, d, e)
  <2>1. \A k \in d + 1 .. e : M[k] = L[k]
    BY <1>1
  <2>2. M[d] = L[d] /\ M[e] = L[e]
    BY <1>1
  <2> QED
    BY <2>1, <2>2 DEF SameScope
<1>6. ASSUME NEW d \in 1 .. n
      PROVE  SameScope(Level, d, n + 1)' <=> L[d] = L[n + 1] /\ Open(d, n + 1)
  <2>1. \A k \in d + 1 .. n + 1 : M[k] = L[k]
    BY <1>1
  <2>2. M[d] = L[d] /\ M[n + 1] = L[n + 1] /\ d < n + 1
    BY <1>1
  <2> QED
    BY <2>1, <2>2 DEF SameScope, Open
<1>7. \A d \in 1 .. n + 1 : ~(n + 1 < d)
  BY <1>1
<1>8. \A d \in 1 .. n + 1 : ~SameScope(Level, n + 1, d)'
  BY <1>7 DEF SameScope
<1> QED
  BY <1>2, <1>3, <1>4, <1>5, <1>6, <1>8

(* What is known of an item, when there is one more. *)
LEMMA GrowKnown ==
  ASSUME Typed, Items, NEW item, text' = Append(text, item),
         \A id \in DOMAIN symbols : id \in DOMAIN symbols' /\ symbols'[id] = symbols[id]
  PROVE  /\ \A d \in Declarations : Of(d)' = Of(d) /\ Declares(d)' /\ Follows(d)'
         /\ \A d \in Declarations, i \in 1 .. Len(text) + 1 : InSight(d, i) => InSight(d, i)'
         /\ \A i \in Uses : Finds(i)'
<1> PICK n : n = Len(text)
  OBVIOUS
<1>1. /\ \A d : d \in Declarations' <=> d \in Declarations \/ (d = n + 1 /\ item.do \in Declaring)
      /\ \A d \in Declarations \cup Uses : d \in 1 .. n /\ text'[d] = text[d]
  BY GrowDeclarations
<1>2. /\ \A d, i \in 1 .. n + 1 : Open(d, i)' <=> Open(d, i)
      /\ \A d, e \in 1 .. n : SameScope(Level, d, e)' <=> SameScope(Level, d, e)
      /\ \A d \in 1 .. n + 1 : ~SameScope(Level, n + 1, d)'
  BY GrowOpen
<1>3. n \in Nat /\ \A i \in 1 .. n + 1 : Level'[i] = Level[i]
  BY LevelNext DEF Typed, IsSeq
<1>4. \A d \in Declarations : d \in 1 .. n + 1 /\ d \in Declarations' /\ Level'[d] = Level[d]
  BY <1>1, <1>3
<1>5. ASSUME NEW d \in Declarations
      PROVE  Of(d)' = Of(d) /\ Declares(d)'
  <2>1. Declares(d)
    BY DEF Items
  <2>2. Of(d)' = Of(d) /\ text'[d] = text[d] /\ Level'[d] = Level[d] /\ text[d].symbol \in DOMAIN symbols'
    BY <1>1, <1>4, <2>1 DEF Of, Declares
  <2> QED
    BY <2>1, <2>2 DEF Declares
<1>6. \A d, e \in Declarations : Again(d, e)' <=> Again(d, e)
  <2> SUFFICES ASSUME NEW d \in Declarations, NEW e \in Declarations
               PROVE  Again(d, e)' <=> Again(d, e)
    OBVIOUS
  <2>1. SameScope(Level, d, e)' <=> SameScope(Level, d, e)
    BY <1>1, <1>2
  <2> QED
    BY <1>1, <2>1 DEF Again
<1>7. \A d \in Declarations : ~Again(n + 1, d)'
  BY <1>2, <1>4 DEF Again
<1>8. ASSUME NEW d \in Declarations
      PROVE  Follows(d)'
  <2>1. Follows(d) /\ Of(d)' = Of(d)
    BY <1>5 DEF Items
  <2>2. \A e \in Declarations' : Again(e, d)' => e \in Declarations /\ Again(e, d)
    BY <1>1, <1>6, <1>7
  <2>3. \A e \in Declarations : text'[e] = text[e] /\ e \in Declarations'
    BY <1>1
  <2>4. CASE Of(d).prev = 0
    BY <2>1, <2>2, <2>4 DEF Follows
  <2>5. CASE Of(d).prev # 0
    <3>1. PICK e \in Declarations : /\ Again(e, d) /\ Of(d).prev = text[e].symbol
                                    /\ \A o \in Declarations : Again(o, d) => o <= e
      BY <2>1, <2>5 DEF Follows
    <3>2. e \in Declarations' /\ Again(e, d)' /\ Of(d)'.prev = text'[e].symbol
      BY <1>6, <2>1, <2>3, <3>1
    <3>3. \A o \in Declarations' : Again(o, d)' => o <= e
      BY <2>2, <3>1
    <3> QED
      BY <2>1, <2>5, <3>2, <3>3 DEF Follows
  <2> QED
    BY <2>4, <2>5
<1>9. ASSUME NEW i \in 1 .. n + 1, NEW e \in Declarations', Open(e, i)'
      PROVE  e \in Declarations /\ Open(e, i) /\ text'[e] = text[e] /\ Level'[e] = Level[e]
  <2>1. e < i
    BY <1>9 DEF Open
  <2>2. e # n + 1
    BY <1>3, <2>1
  <2> QED
    BY <1>1, <1>2, <1>4, <1>9, <2>2
<1>10. ASSUME NEW d \in Declarations, NEW i \in 1 .. n + 1, InSight(d, i)
       PROVE  InSight(d, i)'
  <2>1. d \in Declarations' /\ Open(d, i)' /\ text'[d] = text[d] /\ Level'[d] = Level[d]
    BY <1>1, <1>2, <1>4, <1>10 DEF InSight
  <2>2. \A e \in Declarations :
          text[e].identifier = text[d].identifier /\ Open(e, i) =>
            Level[e] <= Level[d] /\ (Level[e] = Level[d] => e <= d)
    BY <1>10 DEF InSight
  <2> QED
    BY <1>9, <2>1, <2>2 DEF InSight
<1>11. ASSUME NEW i \in Uses
       PROVE  Finds(i)'
  <2>1. Finds(i) /\ i \in 1 .. n + 1 /\ text'[i] = text[i]
    <3>1. i \in 1 .. n /\ text'[i] = text[i]
      BY <1>1
    <3>2. i \in 1 .. n + 1
      BY <1>3, <3>1
    <3>3. Finds(i)
      BY DEF Items
    <3> QED
      BY <3>1, <3>2, <3>3
  <2>2. CASE text[i].symbol = 0
    <3>1. \A d \in Declarations' : Open(d, i)' => d \in Declarations /\ Open(d, i) /\ text'[d] = text[d]
      BY <1>9, <2>1
    <3> QED
      BY <2>1, <2>2, <3>1 DEF Finds
  <2>3. CASE text[i].symbol # 0
    <3>1. PICK d \in Declarations : /\ text[d].identifier = text[i].identifier /\ InSight(d, i)
                                    /\ text[i].symbol = text[d].symbol
      BY <2>1, <2>3 DEF Finds
    <3>2. d \in Declarations' /\ InSight(d, i)' /\ text'[d] = text[d]
      BY <1>1, <1>10, <2>1, <3>1
    <3> QED
      BY <2>1, <2>3, <3>1, <3>2 DEF Finds
  <2> QED
    BY <2>2, <2>3
<1> QED
  BY <1>5, <1>8, <1>10, <1>11

(* It is enough to look at the new item. *)
LEMMA GrowItems ==
  ASSUME Typed, Items, NEW item, text' = Append(text, item), NEW n, n = Len(text),
         \A id \in DOMAIN symbols : id \in DOMAIN symbols' /\ symbols'[id] = symbols[id],
         item.do \in Declaring \cup {"begin", "end", "use", "call"},
         item.do \in Declaring =>
           Declares(n + 1)' /\ Follows(n + 1)' /\ item.symbol \notin DOMAIN symbols,
         item.do \in {"use", "call"} => Finds(n + 1)' /\ item.identifier # ""
  PROVE  Items'
<1>1. /\ \A d : d \in Declarations' <=> d \in Declarations \/ (d = n + 1 /\ item.do \in Declaring)
      /\ \A i : i \in Uses' <=> i \in Uses \/ (i = n + 1 /\ item.do \in {"use", "call"})
      /\ \A d \in Declarations \cup Uses : d \in 1 .. n /\ text'[d] = text[d]
  BY GrowDeclarations
<1>2. /\ \A d \in Declarations : Declares(d)' /\ Follows(d)'
      /\ \A i \in Uses : Finds(i)'
  BY GrowKnown
<1>0. n \in Nat
  BY DEF Typed, IsSeq
<1>3. DOMAIN text' = 1 .. n + 1 /\ DOMAIN text = 1 .. n /\ text'[n + 1] = item /\ \A i \in 1 .. n : text'[i] = text[i]
  BY LevelNext DEF Typed, IsSeq
<1>4. \A i \in DOMAIN text' : text'[i].do \in Declaring \cup {"begin", "end", "use", "call"}
  <2>1. \A i \in 1 .. n : text[i].do \in Declaring \cup {"begin", "end", "use", "call"}
    BY <1>3 DEF Items
  <2>2. \A i \in 1 .. n + 1 : i \in 1 .. n \/ i = n + 1
    BY ONLY <1>0
  <2> QED
    BY <1>3, <2>1, <2>2
<1>5. \A d \in Declarations' : Declares(d)' /\ Follows(d)'
  <2>1. item.do \in Declaring => Declares(n + 1)' /\ Follows(n + 1)'
    OBVIOUS
  <2> SUFFICES ASSUME NEW d \in Declarations'
               PROVE  Declares(d)' /\ Follows(d)'
    OBVIOUS
  <2>2. d \in Declarations \/ (d = n + 1 /\ item.do \in Declaring)
    BY <1>1
  <2>3. CASE d \in Declarations
    BY <1>2, <2>3
  <2>4. CASE d = n + 1 /\ item.do \in Declaring
    BY <2>1, <2>4
  <2> QED
    BY <2>2, <2>3, <2>4
<1>6. ASSUME NEW d \in Declarations', NEW e \in Declarations', text'[d].symbol = text'[e].symbol
      PROVE  d = e
  <2>1. \A o \in Declarations : text[o].symbol \in DOMAIN symbols
    BY DEF Items, Declares
  <2>2. item.do \in Declaring => item.symbol \notin DOMAIN symbols
    OBVIOUS
  <2>3. \A o \in Declarations' :
          \/ o \in Declarations /\ text'[o] = text[o]
          \/ o = n + 1 /\ text'[o] = item /\ item.do \in Declaring
    BY <1>1, <1>3
  <2>4. \A o, p \in Declarations : text[o].symbol = text[p].symbol => o = p
    BY DEF Items
  <2> QED
    BY <1>6, <2>1, <2>2, <2>3, <2>4
<1>7. \A i \in Uses' : Finds(i)' /\ text'[i].identifier # ""
  <2>1. item.do \in {"use", "call"} => Finds(n + 1)' /\ text'[n + 1].identifier # ""
    BY <1>3
  <2>2. \A i \in Uses : Finds(i)' /\ text'[i].identifier # ""
    BY <1>1, <1>2 DEF Items
  <2> SUFFICES ASSUME NEW d \in Uses'
               PROVE  Finds(d)' /\ text'[d].identifier # ""
    OBVIOUS
  <2>3. d \in Uses \/ (d = n + 1 /\ item.do \in {"use", "call"})
    BY <1>1
  <2>4. CASE d \in Uses
    BY <2>2, <2>4
  <2>5. CASE d = n + 1 /\ item.do \in {"use", "call"}
    BY <2>1, <2>5
  <2> QED
    BY <2>3, <2>4, <2>5
<1> QED
  BY <1>4, <1>5, <1>6, <1>7 DEF Items

-----------------------------------------------------------------------------
(* What the innermost scope has, and what a use finds. *)
LEMMA OpenLevel ==
  ASSUME Typed, NEW d \in Declarations, NEW i \in 1 .. Len(text) + 1, Open(d, i)
  PROVE  Level[d] \in 1 .. Level[i] /\ d \in 1 .. Len(text)
<1> PICK n, L : n = Len(text) /\ L = Level
  OBVIOUS
<1>1. n \in Nat /\ d \in 1 .. n /\ \A k \in 1 .. n + 1 : L[k] \in Nat \ {0}
  BY DeclarationsAre DEF Typed
<1>2. d < i /\ \A k \in d + 1 .. i : L[k] >= L[d]
  BY DEF Open
<1>3. i \in 1 .. n + 1 /\ d \in 1 .. n + 1
  BY <1>1
<1>4. i \in d + 1 .. i
  BY <1>1, <1>2, <1>3
<1>5. L[d] \in Nat \ {0} /\ L[i] \in Nat \ {0} /\ L[i] >= L[d]
  BY <1>1, <1>2, <1>3, <1>4
<1> QED
  BY <1>1, <1>5

(* put_symbol: the symbol knows the one it replaces. *)
LEMMA PrevIs ==
  ASSUME Typed, Items, Scopes, NEW item, text' = Append(text, item), NEW n, n = Len(text),
         item.do \in Declaring, NEW s, symbols' = Append(symbols, s), item.symbol = Len(symbols) + 1,
         s.prev = Declared(symbol_scopes, item.identifier)
  PROVE  Follows(n + 1)'
<1> PICK x, K : x = item.identifier /\ K = Level[n + 1]
  OBVIOUS
<1>1. /\ \A d : d \in Declarations' <=> d \in Declarations \/ (d = n + 1 /\ item.do \in Declaring)
      /\ \A d \in Declarations \cup Uses : d \in 1 .. n /\ text'[d] = text[d]
  BY GrowDeclarations
<1>2. /\ \A d \in 1 .. n : SameScope(Level, d, n + 1)' <=> Level[d] = K /\ Open(d, n + 1)
      /\ \A d \in 1 .. n + 1 : ~SameScope(Level, n + 1, d)'
  BY GrowOpen
<1>3. n \in Nat /\ text'[n + 1] = item
  BY LevelNext DEF Typed, IsSeq
<1>4. K \in Nat \ {0} /\ n + 1 \in 1 .. n + 1
  BY <1>3 DEF Typed
<1>5. Len(symbol_scopes) = K /\ DOMAIN symbol_scopes = 1 .. K /\ Last(symbol_scopes) = symbol_scopes[K] /\ K \in DOMAIN symbol_scopes
  BY <1>4 DEF Scopes, IsSeq, Last
<1>6. Of(n + 1)' = s
  BY <1>3, AppendSeq DEF Of, Typed
<1>7. \A e \in Declarations' : Again(e, n + 1)' <=> e \in Declarations /\ text[e].identifier = x /\ Level[e] = K /\ Open(e, n + 1)
  <2> SUFFICES ASSUME NEW e \in Declarations'
               PROVE  Again(e, n + 1)' <=> e \in Declarations /\ text[e].identifier = x /\ Level[e] = K /\ Open(e, n + 1)
    OBVIOUS
  <2>1. CASE e \in Declarations
    BY <1>1, <1>2, <1>3, <2>1 DEF Again
  <2>2. CASE e = n + 1 /\ e \notin Declarations
    BY <1>2, <1>4, <2>2 DEF Again
  <2> QED
    BY <1>1, <2>1, <2>2
<1>8. CASE x \notin DOMAIN symbol_scopes[K]
  <2>1. s.prev = 0
    BY <1>5, <1>8 DEF Declared, map_lookup
  <2>2. \A e \in Declarations : Open(e, n + 1) => text[e].identifier \in DOMAIN symbol_scopes[Level[e]]
    BY DEF Scopes
  <2>3. \A e \in Declarations' : ~Again(e, n + 1)'
    BY <1>7, <1>8, <2>2
  <2> QED
    BY <1>6, <2>1, <2>3 DEF Follows
<1>9. CASE x \in DOMAIN symbol_scopes[K]
  <2>1. s.prev = symbol_scopes[K][x]
    BY <1>5, <1>9 DEF Declared, map_lookup
  <2>2. PICK d \in Declarations :
          /\ Open(d, n + 1) /\ Level[d] = K /\ text[d].identifier = x
          /\ symbol_scopes[K][x] = text[d].symbol
          /\ \A e \in Declarations : Open(e, n + 1) /\ Level[e] = K /\ text[e].identifier = x => e <= d
    BY <1>5, <1>9 DEF Scopes
  <2>3. d \in Declarations' /\ text'[d] = text[d] /\ s.prev = text'[d].symbol /\ Again(d, n + 1)'
    BY <1>1, <1>7, <2>1, <2>2
  <2>4. s.prev # 0
    <3>1. text[d].symbol \in DOMAIN symbols
      BY DEF Items, Declares
    <3>2. \A id \in DOMAIN symbols : id # 0
      BY DEF Typed, IsSeq
    <3> QED
      BY <2>1, <2>2, <3>1, <3>2
  <2>5. \A o \in Declarations' : Again(o, n + 1)' => o <= d
    BY <1>7, <2>2
  <2> QED
    BY <1>6, <2>3, <2>4, <2>5 DEF Follows
<1> QED
  BY <1>8, <1>9

(* lookup_symbol: what is found is in sight. *)
LEMMA LookupIs ==
  ASSUME Typed, Items, Scopes, NEW item, text' = Append(text, item), NEW n, n = Len(text),
         item.symbol = lookup_symbol(symbol_scopes, item.identifier)
  PROVE  Finds(n + 1)'
<1> PICK x, K : x = item.identifier /\ K = Level[n + 1]
  OBVIOUS
<1> DEFINE in == {k \in DOMAIN symbol_scopes : x \in DOMAIN symbol_scopes[k]}
<1>1. /\ \A d : d \in Declarations' <=> d \in Declarations \/ (d = n + 1 /\ item.do \in Declaring)
      /\ \A d \in Declarations \cup Uses : d \in 1 .. n /\ text'[d] = text[d]
  BY GrowDeclarations
<1>2. \A d, i \in 1 .. n + 1 : Open(d, i)' <=> Open(d, i)
  BY GrowOpen
<1>3. n \in Nat /\ text'[n + 1] = item /\ \A i \in 1 .. n + 1 : Level'[i] = Level[i]
  BY LevelNext DEF Typed, IsSeq
<1>4. K \in Nat \ {0} /\ n + 1 \in 1 .. n + 1
  BY <1>3 DEF Typed
<1>5. DOMAIN symbol_scopes = 1 .. K
  BY <1>4 DEF Scopes, IsSeq
<1>6. ASSUME NEW e \in Declarations', Open(e, n + 1)'
      PROVE  e \in Declarations /\ Open(e, n + 1) /\ text'[e] = text[e] /\ Level'[e] = Level[e] /\ Level[e] \in 1 .. K
  <2>1. e < n + 1
    BY <1>6 DEF Open
  <2>2. e \in Declarations /\ e \in 1 .. n
    BY <1>1, <1>3, <2>1
  <2>3. e \in 1 .. n + 1
    BY <1>3, <2>2
  <2>4. Open(e, n + 1)
    BY <1>2, <1>4, <1>6, <2>3
  <2> QED
    BY <1>1, <1>3, <1>4, <2>2, <2>3, <2>4, OpenLevel
<1>7. \A e \in Declarations : Open(e, n + 1) /\ text[e].identifier = x /\ Level[e] \in 1 .. K => Level[e] \in in
  BY <1>5 DEF Scopes
<1>8. \A e \in Declarations' : Open(e, n + 1)' /\ text'[e].identifier = x => Level[e] \in in
  BY <1>6, <1>7
<1>9. CASE in = {}
  <2>1. item.symbol = 0
    BY <1>9 DEF lookup_symbol
  <2>2. \A d \in Declarations' : text'[d].identifier = x => ~Open(d, n + 1)'
    <3> HIDE DEF in
    <3> QED
      BY <1>8, <1>9
  <2> QED
    BY <1>3, <2>1, <2>2 DEF Finds
<1>10. CASE in # {}
  <2>1. PICK k \in in : \A j \in in : j <= k
    <3>1. in \in SUBSET (0 .. K)
      BY <1>4, <1>5
    <3> HIDE DEF in
    <3> QED
      BY <1>4, <1>10, <3>1, Greatest
  <2>2. in \in SUBSET Nat
    BY <1>4, <1>5
  <2>3. ASSUME NEW j \in in, \A i \in in : i <= j
        PROVE  j = k
    <3> HIDE DEF in
    <3> QED
      BY <2>1, <2>2, <2>3
  <2>4. k = CHOOSE j \in in : \A i \in in : i <= j
    <3> HIDE DEF in
    <3> QED
      BY <2>1, <2>3
  <2>5. item.symbol = symbol_scopes[k][x]
    BY <1>10, <2>4 DEF lookup_symbol
  <2>6. PICK d \in Declarations :
          /\ Open(d, n + 1) /\ Level[d] = k /\ text[d].identifier = x
          /\ symbol_scopes[k][x] = text[d].symbol
          /\ \A e \in Declarations : Open(e, n + 1) /\ Level[e] = k /\ text[e].identifier = x => e <= d
    BY <2>1 DEF Scopes
  <2>7. d \in Declarations' /\ d \in 1 .. n + 1 /\ text'[d] = text[d]
    BY <1>1, <1>3
  <2>8. Open(d, n + 1)' /\ Level'[d] = Level[d]
    BY <1>2, <1>3, <1>4, <2>6, <2>7
  <2>9. ASSUME NEW e \in Declarations', text'[e].identifier = text'[d].identifier, Open(e, n + 1)'
        PROVE  Level'[e] <= Level'[d] /\ (Level'[e] = Level'[d] => e <= d)
    <3>1. e \in Declarations /\ Open(e, n + 1) /\ text'[e] = text[e] /\ Level'[e] = Level[e]
      BY <1>6, <2>9
    <3>2. text[e].identifier = x
      BY <2>6, <2>7, <2>9, <3>1
    <3>3. Level[e] \in in
      BY <1>8, <2>9, <3>1, <3>2
    <3> HIDE DEF in
    <3> QED
      BY <2>1, <2>6, <2>8, <3>1, <3>2, <3>3
  <2>10. InSight(d, n + 1)'
    BY <2>7, <2>8, <2>9 DEF InSight
  <2>11. item.symbol # 0
    <3>1. text[d].symbol \in DOMAIN symbols
      BY DEF Items, Declares
    <3>2. \A id \in DOMAIN symbols : id # 0
      BY DEF Typed, IsSeq
    <3> QED
      BY <2>5, <2>6, <3>1, <3>2
  <2> HIDE DEF in
  <2> QED
    BY <1>3, <2>5, <2>6, <2>7, <2>10, <2>11 DEF Finds
<1> QED
  BY <1>9, <1>10

(* put_symbol keeps the scopes what they are; a function opens one more. *)
LEMMA PutScopes ==
  ASSUME Typed, Scopes, NEW item, text' = Append(text, item), NEW n, n = Len(text), NEW K, K = Len(symbol_scopes),
         item.do \in Declaring, item.symbol = Len(symbols) + 1,
         IsSeq(symbol_scopes'), Len(symbol_scopes') = Level'[n + 2], Level'[n + 2] >= K,
         \A k \in 1 .. K : symbol_scopes'[k] = put_symbol(symbol_scopes, item.identifier, item.symbol)[k],
         \A k \in DOMAIN symbol_scopes' : k > K => symbol_scopes'[k] = << >>
  PROVE  Scopes'
<1> PICK x, L, M : x = item.identifier /\ L = Level /\ M = Level'
  OBVIOUS
<1>1. /\ \A d : d \in Declarations' <=> d \in Declarations \/ (d = n + 1 /\ item.do \in Declaring)
      /\ \A d \in Declarations \cup Uses : d \in 1 .. n /\ text'[d] = text[d]
  BY GrowDeclarations
<1>2. /\ \A d \in 1 .. n : Open(d, n + 2)' <=> Open(d, n + 1) /\ M[n + 2] >= L[d]
      /\ Open(n + 1, n + 2)' <=> M[n + 2] >= L[n + 1]
  BY GrowOpen
<1>3. /\ n \in Nat /\ text'[n + 1] = item /\ Len(text') = n + 1
      /\ \A i \in 1 .. n + 1 : M[i] = L[i]
  BY LevelNext DEF Typed, IsSeq
<1>4. n + 1 \in 1 .. n + 1
  BY <1>3
<1>5. K = L[n + 1] /\ K \in Nat \ {0}
  BY <1>4 DEF Scopes, Typed
<1>6. DOMAIN symbol_scopes = 1 .. K /\ K \in 1 .. K
  BY <1>5 DEF Scopes, IsSeq
<1>7. /\ \A k \in 1 .. K : k # K => symbol_scopes'[k] = symbol_scopes[k]
      /\ symbol_scopes'[K] = map_put(symbol_scopes[K], x, item.symbol)
  BY <1>6 DEF put_symbol
<1>8. /\ DOMAIN symbol_scopes'[K] = DOMAIN symbol_scopes[K] \cup {x}
      /\ symbol_scopes'[K][x] = item.symbol
      /\ \A y \in DOMAIN symbol_scopes[K] : y # x => symbol_scopes'[K][y] = symbol_scopes[K][y]
  BY <1>7 DEF map_put
<1>9. ASSUME NEW d \in Declarations
      PROVE  /\ d \in 1 .. n /\ d \in Declarations' /\ text'[d] = text[d] /\ M[d] = L[d]
             /\ Open(d, n + 2)' <=> Open(d, n + 1)
             /\ Open(d, n + 1) => L[d] \in 1 .. K
  <2>1. d \in 1 .. n /\ d \in Declarations' /\ text'[d] = text[d]
    BY <1>1
  <2>2. M[d] = L[d]
    BY <1>3, <2>1
  <2>3. Open(d, n + 1) => L[d] \in 1 .. K
    BY <1>4, <1>5, OpenLevel
  <2>4. Open(d, n + 1) => M[n + 2] >= L[d]
    <3>1. M[n + 2] \in Nat
      BY DEF IsSeq
    <3> QED
      BY <1>5, <2>3, <3>1
  <2> QED
    BY <1>2, <2>1, <2>2, <2>3, <2>4
<1>10. Open(n + 1, n + 2)' /\ M[n + 1] = K /\ n + 1 \in Declarations' /\ text'[n + 1].identifier = x
  BY <1>1, <1>2, <1>3, <1>4, <1>5
<1>11. ASSUME NEW d \in Declarations', Open(d, n + 2)'
       PROVE  text'[d].identifier \in DOMAIN symbol_scopes'[M[d]]
  <2>1. CASE d \in Declarations
    <3>1. text[d].identifier \in DOMAIN symbol_scopes[L[d]] /\ L[d] \in 1 .. K
      BY <1>9, <1>11, <2>1 DEF Scopes
    <3> QED
      BY <1>7, <1>8, <1>9, <2>1, <3>1
  <2>2. CASE d = n + 1
    BY <1>8, <1>10, <2>2
  <2> QED
    BY <1>1, <2>1, <2>2
<1>12. ASSUME NEW k \in DOMAIN symbol_scopes', NEW y \in DOMAIN symbol_scopes'[k]
       PROVE  \E d \in Declarations' :
                /\ Open(d, n + 2)' /\ M[d] = k /\ text'[d].identifier = y
                /\ symbol_scopes'[k][y] = text'[d].symbol
                /\ \A e \in Declarations' : Open(e, n + 2)' /\ M[e] = k /\ text'[e].identifier = y => e <= d
  <2>1. k \in 1 .. K
    <3>1. k \in Nat \ {0}
      BY DEF IsSeq
    <3>2. k > K => DOMAIN symbol_scopes'[k] = {}
      OBVIOUS
    <3> QED
      BY <1>5, <3>1, <3>2
  <2>2. CASE k = K /\ y = x
    <3>1. \A e \in Declarations' : e <= n + 1
      BY <1>1, <1>3
    <3> QED
      BY <1>3, <1>8, <1>10, <2>2, <3>1
  <2>3. CASE ~(k = K /\ y = x)
    <3>1. k \in DOMAIN symbol_scopes /\ y \in DOMAIN symbol_scopes[k] /\ symbol_scopes'[k][y] = symbol_scopes[k][y]
      BY <1>6, <1>7, <1>8, <2>1, <2>3
    <3>2. PICK d \in Declarations :
            /\ Open(d, n + 1) /\ L[d] = k /\ text[d].identifier = y
            /\ symbol_scopes[k][y] = text[d].symbol
            /\ \A e \in Declarations : Open(e, n + 1) /\ L[e] = k /\ text[e].identifier = y => e <= d
      BY <3>1 DEF Scopes
    <3>3. \A e \in Declarations' : M[e] = k /\ text'[e].identifier = y => e \in Declarations
      BY <1>1, <1>10, <2>3
    <3>4. \A e \in Declarations' : Open(e, n + 2)' /\ M[e] = k /\ text'[e].identifier = y => e <= d
      BY <1>9, <3>2, <3>3
    <3> QED
      BY <1>9, <3>1, <3>2, <3>4
  <2> QED
    BY <2>2, <2>3
<1>13. Len(text') + 1 = n + 2
  BY <1>3
<1>14. \A d \in Declarations' : Open(d, Len(text) + 1)' => text'[d].identifier \in DOMAIN symbol_scopes'[M[d]]
  BY ONLY <1>11, <1>13
<1>15. \A k \in DOMAIN symbol_scopes' : \A y \in DOMAIN symbol_scopes'[k] :
         \E d \in Declarations' :
           /\ Open(d, Len(text) + 1)' /\ M[d] = k /\ text'[d].identifier = y
           /\ symbol_scopes'[k][y] = text'[d].symbol
           /\ \A e \in Declarations' : Open(e, Len(text) + 1)' /\ M[e] = k /\ text'[e].identifier = y => e <= d
  BY ONLY <1>12, <1>13
<1>16. IsSeq(symbol_scopes') /\ Len(symbol_scopes') = M[Len(text') + 1] /\ M = Level'
  BY <1>13
<1> QED
  BY ONLY <1>14, <1>15, <1>16 DEF Scopes

(* A block adds a scope or takes it away. *)
LEMMA KeepScopes ==
  ASSUME Typed, Scopes, NEW item, text' = Append(text, item), NEW n, n = Len(text), NEW K, K = Len(symbol_scopes),
         item.do \notin Declaring,
         IsSeq(symbol_scopes'), Len(symbol_scopes') = Level'[n + 2],
         \A k \in DOMAIN symbol_scopes' : symbol_scopes'[k] = IF k \in 1 .. K THEN symbol_scopes[k] ELSE << >>
  PROVE  Scopes'
<1> PICK L, M : L = Level /\ M = Level'
  OBVIOUS
<1>1. /\ \A d : d \in Declarations' <=> d \in Declarations
      /\ \A d \in Declarations : d \in 1 .. n /\ text'[d] = text[d]
  BY GrowDeclarations
<1>2. \A d \in 1 .. n : Open(d, n + 2)' <=> Open(d, n + 1) /\ M[n + 2] >= L[d]
  BY GrowOpen
<1>3. /\ n \in Nat /\ Len(text') = n + 1
      /\ \A i \in 1 .. n + 1 : M[i] = L[i]
  BY LevelNext DEF Typed, IsSeq
<1>4. n + 1 \in 1 .. n + 1
  BY <1>3
<1>5. K = L[n + 1] /\ K \in Nat \ {0}
  BY <1>4 DEF Scopes, Typed
<1>6. DOMAIN symbol_scopes = 1 .. K /\ DOMAIN symbol_scopes' = 1 .. M[n + 2] /\ M[n + 2] \in Nat
  BY DEF Scopes, IsSeq
<1>7. ASSUME NEW d \in Declarations
      PROVE  /\ M[d] = L[d]
             /\ Open(d, n + 1) => L[d] \in 1 .. K
  <2>1. d \in 1 .. n
    BY <1>1
  <2> QED
    BY <1>3, <1>4, <1>5, <2>1, OpenLevel
<1>8. ASSUME NEW d \in Declarations, Open(d, n + 2)'
      PROVE  text'[d].identifier \in DOMAIN symbol_scopes'[M[d]]
  <2>1. Open(d, n + 1) /\ M[n + 2] >= L[d] /\ text'[d] = text[d]
    BY <1>1, <1>2, <1>8
  <2>2. L[d] \in 1 .. K /\ M[d] = L[d]
    BY <1>7, <2>1
  <2>3. L[d] \in DOMAIN symbol_scopes'
    BY <1>6, <2>1, <2>2
  <2>4. text[d].identifier \in DOMAIN symbol_scopes[L[d]]
    BY <2>1 DEF Scopes
  <2> QED
    BY <2>1, <2>2, <2>3, <2>4
<1>9. ASSUME NEW k \in DOMAIN symbol_scopes', NEW y \in DOMAIN symbol_scopes'[k]
      PROVE  \E d \in Declarations :
               /\ Open(d, n + 2)' /\ M[d] = k /\ text'[d].identifier = y
               /\ symbol_scopes'[k][y] = text'[d].symbol
               /\ \A e \in Declarations : Open(e, n + 2)' /\ M[e] = k /\ text'[e].identifier = y => e <= d
  <2>1. k \in 1 .. K /\ symbol_scopes'[k] = symbol_scopes[k]
    <3>1. k \notin 1 .. K => DOMAIN symbol_scopes'[k] = {}
      OBVIOUS
    <3> QED
      BY <3>1
  <2>2. PICK d \in Declarations :
          /\ Open(d, n + 1) /\ L[d] = k /\ text[d].identifier = y
          /\ symbol_scopes[k][y] = text[d].symbol
          /\ \A e \in Declarations : Open(e, n + 1) /\ L[e] = k /\ text[e].identifier = y => e <= d
    BY <1>6, <2>1 DEF Scopes
  <2>3. M[n + 2] >= L[d]
    BY <1>6, <2>2
  <2>4. Open(d, n + 2)' /\ M[d] = k /\ text'[d] = text[d]
    BY <1>1, <1>2, <1>7, <2>2, <2>3
  <2>5. \A e \in Declarations : Open(e, n + 2)' /\ M[e] = k /\ text'[e].identifier = y => e <= d
    BY <1>1, <1>2, <1>7, <2>2
  <2> QED
    BY <2>1, <2>2, <2>4, <2>5
<1>10. Len(text') + 1 = n + 2
  BY <1>3
<1>11. Declarations' = Declarations
  BY <1>1
<1>12. \A d \in Declarations' : Open(d, Len(text) + 1)' => text'[d].identifier \in DOMAIN symbol_scopes'[M[d]]
  BY ONLY <1>8, <1>10, <1>11
<1>13. \A k \in DOMAIN symbol_scopes' : \A y \in DOMAIN symbol_scopes'[k] :
         \E d \in Declarations' :
           /\ Open(d, Len(text) + 1)' /\ M[d] = k /\ text'[d].identifier = y
           /\ symbol_scopes'[k][y] = text'[d].symbol
           /\ \A e \in Declarations' : Open(e, Len(text) + 1)' /\ M[e] = k /\ text'[e].identifier = y => e <= d
  BY ONLY <1>9, <1>10, <1>11
<1>14. IsSeq(symbol_scopes') /\ Len(symbol_scopes') = M[Len(text') + 1] /\ M = Level'
  BY <1>10
<1> QED
  BY ONLY <1>12, <1>13, <1>14 DEF Scopes

-----------------------------------------------------------------------------
(* What parse.c does keeps the invariant. *)
LEMMA GrowTyped ==
  ASSUME Typed, NEW item, Parsed(item), Level[Len(text) + 1] + Opens(item.do) \in Nat \ {0},
         IsSeq(symbols'), \A id \in DOMAIN symbols' : IsSymbol(symbols'[id])
  PROVE  Typed'
<1> PICK n, M : n = Len(text) /\ M = Level'
  OBVIOUS
<1>1. text' = Append(text, item) /\ at' = at /\ phase' = phase /\ stack_size' = stack_size /\ out' = out
  BY DEF Parsed
<1>2. /\ IsSeq(text') /\ n \in Nat /\ Len(text') = n + 1
      /\ \A i \in 1 .. n + 1 : M[i] = Level[i]
      /\ M[n + 2] = Level[n + 1] + Opens(item.do)
  BY <1>1, LevelNext DEF Typed, IsSeq
<1>3. \A i \in 1 .. n + 1 : M[i] \in Nat \ {0}
  BY <1>2 DEF Typed
<1>4. \A i \in 1 .. n + 2 : M[i] \in Nat \ {0}
  <2>1. \A i \in 1 .. n + 2 : i \in 1 .. n + 1 \/ i = n + 2
    BY <1>2
  <2> QED
    BY <1>2, <1>3, <2>1
<1>5. Len(text') + 1 = n + 2
  BY <1>2
<1>6. \A i \in 1 .. Len(text') + 1 : (Level')[i] \in Nat \ {0}
  BY <1>4, <1>5
<1>7. at' \in 1 .. Len(text') + 1
  <2>1. at \in 1 .. n + 1
    BY DEF Typed
  <2> QED
    BY <1>1, <1>2, <2>1
<1>8. IsSeq(out') /\ stack_size' \in Nat /\ phase' \in {"parse", "sema", "gen", "done", "error", "crash", "assertion"}
  BY <1>1 DEF Typed
<1>9. IsSeq(symbols') /\ \A id \in DOMAIN symbols' : IsSymbol(symbols'[id])
  OBVIOUS
<1> QED
  BY ONLY <1>2, <1>6, <1>7, <1>8, <1>9 DEF Typed

LEMMA PutSeq ==
  ASSUME NEW scopes, IsSeq(scopes), NEW x, NEW id
  PROVE  IsSeq(put_symbol(scopes, x, id)) /\ Len(put_symbol(scopes, x, id)) = Len(scopes)
<1> PICK P, K : P = put_symbol(scopes, x, id) /\ K = Len(scopes)
  OBVIOUS
<1>1. P = [k \in 1 .. K |-> P[k]] /\ K \in Nat
  BY DEF put_symbol, IsSeq
<1>2. Len(P) = K
  BY ONLY <1>1
<1> QED
  BY <1>1, <1>2 DEF IsSeq

LEMMA Declare ==
  ASSUME IInv, phase = "parse", NEW item, NEW s, IsSymbol(s),
         item.do \in Declaring, item.identifier # "", item.symbol = Len(symbols) + 1,
         s.identifier = item.identifier, s.kind \in {"object", "function"}, s.storage \in {"", "extern", "static"},
         s.init \in BOOLEAN, s.kind = "function" => ~s.init,
         s.prev = Declared(symbol_scopes, item.identifier), s.global = (Len(symbol_scopes) = 1),
         item.do = "define" => s.kind = "function" /\ Level[Len(text) + 1] = 1,
         item.do = "param" => s.kind = "object" /\ s.storage = "" /\ Level[Len(text) + 1] > 1,
         symbols' = Append(symbols, s), Parsed(item),
         NEW P, P = put_symbol(symbol_scopes, item.identifier, item.symbol),
         symbol_scopes' = IF item.do = "define" THEN Append(P, << >>) ELSE P
  PROVE  IInv'
<1> PICK n, K, id : n = Len(text) /\ K = Len(symbol_scopes) /\ id = Len(symbols) + 1
  OBVIOUS
<1>1. Typed /\ Items /\ Scopes /\ at = 1 /\ out = << >> /\ text' = Append(text, item)
  BY DEF IInv, Parsed
<1>2. n \in Nat /\ IsSeq(text) /\ IsSeq(symbols) /\ n = Len(text)
  BY <1>1 DEF Typed, IsSeq
<1>3. K = Level[n + 1] /\ K \in Nat \ {0} /\ IsSeq(symbol_scopes)
  <2>1. n + 1 \in 1 .. Len(text) + 1
    BY ONLY <1>2
  <2>2. Level[n + 1] \in Nat \ {0}
    BY ONLY <1>1, <2>1 DEF Typed
  <2> QED
    BY <1>1, <2>2 DEF Scopes
<1>4. /\ IsSeq(symbols') /\ Len(symbols') = id /\ id \in Nat \ {0} /\ id = Len(symbols) + 1
      /\ symbols'[id] = s /\ \A i \in 1 .. Len(symbols) : symbols'[i] = symbols[i]
  <2>1. symbols' = Append(symbols, s) /\ id = Len(symbols) + 1 /\ Len(symbols) \in Nat
    BY <1>2 DEF IsSeq
  <2>2. /\ IsSeq(Append(symbols, s)) /\ Len(Append(symbols, s)) = Len(symbols) + 1
        /\ \A k \in 1 .. Len(symbols) : Append(symbols, s)[k] = symbols[k]
        /\ Append(symbols, s)[Len(symbols) + 1] = s
    BY ONLY <1>2, AppendSeq
  <2> QED
    BY ONLY <2>1, <2>2
<1>5. DOMAIN symbols = 1 .. Len(symbols) /\ DOMAIN symbols' = 1 .. id /\ Len(symbols) \in Nat
  BY ONLY <1>2, <1>4 DEF IsSeq
<1>6. /\ \A i \in DOMAIN symbols : i \in DOMAIN symbols' /\ symbols'[i] = symbols[i]
      /\ id \in DOMAIN symbols' /\ id \notin DOMAIN symbols
      /\ \A i \in DOMAIN symbols' : i \in DOMAIN symbols \/ i = id
  BY ONLY <1>4, <1>5
<1>7. \A i \in DOMAIN symbols' : IsSymbol(symbols'[i])
  <2>1. \A i \in DOMAIN symbols : IsSymbol(symbols[i])
    BY ONLY <1>1 DEF Typed
  <2>2. IsSymbol(s)
    OBVIOUS
  <2> QED
    BY ONLY <1>4, <1>6, <2>1, <2>2
<1>8. Opens(item.do) = IF item.do = "define" THEN 1 ELSE 0
  BY DEF Opens, Declaring
<1>9. Typed'
  <2>1. Level[Len(text) + 1] + Opens(item.do) \in Nat \ {0}
    BY ONLY <1>2, <1>3, <1>8
  <2> QED
    BY <1>1, <1>4, <1>7, <2>1, GrowTyped
<1>10. /\ IsSeq(text') /\ Len(text') = n + 1 /\ text'[n + 1] = item
       /\ Level'[n + 1] = Level[n + 1] /\ Level'[n + 2] = Level[n + 1] + Opens(item.do)
  <2>1. n + 1 \in 1 .. n + 1
    BY ONLY <1>2
  <2>2. /\ IsSeq(text') /\ Len(text') = Len(text) + 1 /\ text'[Len(text) + 1] = item
        /\ \A i \in 1 .. Len(text) + 1 : Level'[i] = Level[i]
        /\ Level'[Len(text) + 2] = Level[Len(text) + 1] + Opens(item.do)
    BY <1>1, <1>2, LevelNext
  <2> QED
    BY ONLY <1>2, <2>1, <2>2
<1>11. Declares(n + 1)'
  <2>1. Of(n + 1)' = s /\ text'[n + 1].symbol = id
    BY <1>4, <1>10 DEF Of
  <2>2. s.global = (Level'[n + 1] = 1)
    BY <1>3, <1>10
  <2>3. /\ s.kind \in {"object", "function"} /\ s.storage \in {"", "extern", "static"} /\ s.init \in BOOLEAN
        /\ s.identifier = item.identifier /\ item.identifier # ""
        /\ s.kind = "function" => ~s.init
        /\ item.do = "define" => s.kind = "function" /\ Level'[n + 1] = 1
        /\ item.do = "param" => s.kind = "object" /\ s.storage = "" /\ Level'[n + 1] > 1
    BY <1>10
  <2> QED
    BY ONLY <1>6, <1>10, <2>1, <2>2, <2>3 DEF Declares
<1>12. Follows(n + 1)'
  BY <1>1, PrevIs
<1>13. Items'
  <2>1. item.do \in Declaring \cup {"begin", "end", "use", "call"} /\ item.do \notin {"use", "call"}
    BY DEF Declaring
  <2>2. item.symbol \notin DOMAIN symbols
    BY <1>6
  <2> QED
    BY <1>1, <1>6, <1>11, <1>12, <2>1, <2>2, GrowItems
<1>14. IsSeq(P) /\ Len(P) = K
  <2>1. P = put_symbol(symbol_scopes, item.identifier, item.symbol) /\ K = Len(symbol_scopes)
    OBVIOUS
  <2> QED
    BY ONLY <1>3, <2>1, PutSeq
<1>15. /\ IsSeq(symbol_scopes') /\ Len(symbol_scopes') = Level'[n + 2] /\ Level'[n + 2] >= K
       /\ \A k \in 1 .. K : symbol_scopes'[k] = P[k]
       /\ \A k \in DOMAIN symbol_scopes' : k > K => symbol_scopes'[k] = << >>
  <2>1. CASE item.do = "define"
    <3>1. symbol_scopes' = Append(P, << >>)
      BY <2>1
    <3>2. /\ IsSeq(Append(P, << >>)) /\ Len(Append(P, << >>)) = Len(P) + 1
          /\ \A k \in 1 .. Len(P) : Append(P, << >>)[k] = P[k]
          /\ Append(P, << >>)[Len(P) + 1] = << >>
      BY ONLY <1>14, AppendSeq
    <3>3. /\ IsSeq(symbol_scopes') /\ Len(symbol_scopes') = K + 1
          /\ \A k \in 1 .. K : symbol_scopes'[k] = P[k]
          /\ symbol_scopes'[K + 1] = << >>
      BY ONLY <1>14, <3>1, <3>2
    <3>4. Level'[n + 2] = K + 1
      BY ONLY <1>3, <1>8, <1>10, <2>1
    <3>5. \A k \in DOMAIN symbol_scopes' : k > K => k = K + 1
      BY ONLY <1>3, <3>3 DEF IsSeq
    <3> QED
      BY ONLY <1>3, <3>3, <3>4, <3>5
  <2>2. CASE item.do # "define"
    <3>1. symbol_scopes' = P
      BY <2>2
    <3>2. Level'[n + 2] = K
      BY ONLY <1>3, <1>8, <1>10, <2>2
    <3>3. DOMAIN symbol_scopes' = 1 .. K
      BY ONLY <1>14, <3>1 DEF IsSeq
    <3>4. \A k \in DOMAIN symbol_scopes' : ~(k > K)
      BY ONLY <1>3, <3>3
    <3> QED
      BY ONLY <1>3, <1>14, <3>1, <3>2, <3>4
  <2> QED
    BY <2>1, <2>2
<1>16. Scopes'
  <2>1. \A k \in 1 .. K : symbol_scopes'[k] = put_symbol(symbol_scopes, item.identifier, item.symbol)[k]
    BY <1>15
  <2> QED
    BY <1>1, <1>15, <2>1, PutScopes
<1>17. phase' = "parse" /\ at' = 1 /\ out' = << >>
  BY <1>1 DEF Parsed
<1> QED
  BY ONLY <1>9, <1>13, <1>16, <1>17 DEF IInv

LEMMA SymbolIs ==
  ASSUME NEW x, NEW kind, NEW storage, NEW init, NEW scopes, NEW s, s = Symbol(x, kind, storage, init, scopes)
  PROVE  /\ IsSymbol(s)
         /\ s.identifier = x /\ s.kind = kind /\ s.storage = storage /\ s.init = init
         /\ s.prev = Declared(scopes, x) /\ s.global = (Len(scopes) = 1)
BY DEF IsSymbol, Symbol

LEMMA ItemIs ==
  ASSUME NEW do, NEW x, NEW id, NEW item, item = Item(do, x, id)
  PROVE  item.do = do /\ item.identifier = x /\ item.symbol = id
BY DEF Item

LEMMA HaveNames ==
  ASSUME input \in Inputs
  PROVE  /\ \A x \in input.identifiers \cup input.functions \cup input.params : x # ""
         /\ input.kinds \subseteq {"object", "function"} /\ input.storages \subseteq {"", "extern", "static"}
BY LinkageAssumption DEF LinkageAssumption

LEMMA DeclarationStep ==
  ASSUME IInv, input \in Inputs, declaration
  PROVE  IInv'
<1>1. PICK x \in input.identifiers, kind \in input.kinds, storage \in input.storages, init \in BOOLEAN :
        /\ kind = "function" => ~init
        /\ symbols' = Append(symbols, Symbol(x, kind, storage, init, symbol_scopes))
        /\ symbol_scopes' = put_symbol(symbol_scopes, x, Len(symbols) + 1)
        /\ Parsed(Item("declare", x, Len(symbols) + 1))
  BY DEF declaration
<1>2. phase = "parse"
  BY DEF declaration, Parsing
<1>3. x # "" /\ kind \in {"object", "function"} /\ storage \in {"", "extern", "static"}
  BY HaveNames
<1>4. PICK s : s = Symbol(x, kind, storage, init, symbol_scopes)
  OBVIOUS
<1>5. PICK item : item = Item("declare", x, Len(symbols) + 1)
  OBVIOUS
<1>6. /\ IsSymbol(s)
      /\ s.identifier = x /\ s.kind = kind /\ s.storage = storage /\ s.init = init
      /\ s.prev = Declared(symbol_scopes, x) /\ s.global = (Len(symbol_scopes) = 1)
  BY ONLY <1>4, SymbolIs
<1>7. item.do = "declare" /\ item.identifier = x /\ item.symbol = Len(symbols) + 1
  BY ONLY <1>5, ItemIs
<1>8. item.do \in Declaring
  BY <1>7 DEF Declaring
<1> QED
  BY <1>1, <1>2, <1>3, <1>4, <1>5, <1>6, <1>7, <1>8, Declare

LEMMA FunctionStep ==
  ASSUME IInv, input \in Inputs, function_definition
  PROVE  IInv'
<1>1. PICK x \in input.functions, storage \in input.storages :
        /\ symbols' = Append(symbols, Symbol(x, "function", storage, FALSE, symbol_scopes))
        /\ symbol_scopes' = Append(put_symbol(symbol_scopes, x, Len(symbols) + 1), << >>)
        /\ Parsed(Item("define", x, Len(symbols) + 1))
  BY DEF function_definition
<1>2. phase = "parse" /\ Level[Len(text) + 1] = 1
  BY DEF function_definition, Parsing, IInv, Scopes
<1>3. x # "" /\ storage \in {"", "extern", "static"}
  BY HaveNames
<1>4. PICK s : s = Symbol(x, "function", storage, FALSE, symbol_scopes)
  OBVIOUS
<1>5. PICK item : item = Item("define", x, Len(symbols) + 1)
  OBVIOUS
<1>6. /\ IsSymbol(s)
      /\ s.identifier = x /\ s.kind = "function" /\ s.storage = storage /\ s.init = FALSE
      /\ s.prev = Declared(symbol_scopes, x) /\ s.global = (Len(symbol_scopes) = 1)
  BY ONLY <1>4 DEF Symbol, IsSymbol
<1>7. item.do = "define" /\ item.identifier = x /\ item.symbol = Len(symbols) + 1
  BY ONLY <1>5, ItemIs
<1>8. item.do \in Declaring
  BY <1>7 DEF Declaring
<1> QED
  BY <1>1, <1>2, <1>3, <1>4, <1>5, <1>6, <1>7, <1>8, Declare

LEMMA ParameterStep ==
  ASSUME IInv, input \in Inputs, parameter_declaration
  PROVE  IInv'
<1>1. PICK x \in input.params :
        /\ symbols' = Append(symbols, Symbol(x, "object", "", FALSE, symbol_scopes))
        /\ symbol_scopes' = put_symbol(symbol_scopes, x, Len(symbols) + 1)
        /\ Parsed(Item("param", x, Len(symbols) + 1))
  BY DEF parameter_declaration
<1>2. phase = "parse" /\ text # << >> /\ Last(text).do \in {"define", "param"}
  BY DEF parameter_declaration, Parsing
<1>3. x # ""
  BY HaveNames
<1>4. PICK s : s = Symbol(x, "object", "", FALSE, symbol_scopes)
  OBVIOUS
<1>5. PICK item : item = Item("param", x, Len(symbols) + 1)
  OBVIOUS
<1>6. /\ IsSymbol(s)
      /\ s.identifier = x /\ s.kind = "object" /\ s.storage = "" /\ s.init = FALSE
      /\ s.prev = Declared(symbol_scopes, x) /\ s.global = (Len(symbol_scopes) = 1)
  BY ONLY <1>4 DEF Symbol, IsSymbol
<1>7. item.do = "param" /\ item.identifier = x /\ item.symbol = Len(symbols) + 1
  BY ONLY <1>5, ItemIs
<1>8. item.do \in Declaring
  BY <1>7 DEF Declaring
<1>9. Level[Len(text) + 1] > 1
  <2> PICK n : n = Len(text)
    OBVIOUS
  <2>1. Typed /\ Items
    BY DEF IInv
  <2>2. n \in Nat /\ n # 0 /\ DOMAIN text = 1 .. n /\ text[n].do \in {"define", "param"}
    <3>1. IsSeq(text)
      BY <2>1 DEF Typed
    <3>2. Len(text) \in Nat /\ DOMAIN text = 1 .. Len(text)
      BY ONLY <3>1 DEF IsSeq
    <3>3. Len(text) # 0
      BY ONLY <1>2, <3>1 DEF IsSeq
    <3> QED
      BY <1>2, <3>2, <3>3 DEF Last
  <2>3. n \in Declarations
    BY ONLY <2>2 DEF Declarations
  <2>4. Declares(n)
    BY <2>1, <2>3 DEF Items
  <2>5. Level[n + 1] = Level[n] + Opens(text[n].do) /\ Level[n] \in Int
    <3>1. Levels
      BY <2>1, LevelIs DEF Typed
    <3>2. n \in 1 .. n /\ n \in 1 .. n + 1 /\ n = Len(text)
      BY <2>2
    <3> QED
      BY ONLY <3>1, <3>2 DEF Levels
  <2>6. /\ text[n].do = "define" => Level[n] = 1 /\ Opens(text[n].do) = 1
        /\ text[n].do = "param" => Level[n] > 1 /\ Opens(text[n].do) = 0
    BY ONLY <2>4 DEF Opens, Declares
  <2>7. Level[n + 1] > 1
    BY ONLY <2>2, <2>5, <2>6
  <2> QED
    BY <2>7
<1> QED
  BY <1>1, <1>2, <1>3, <1>4, <1>5, <1>6, <1>7, <1>8, <1>9, Declare

(* An item that declares nothing. *)
LEMMA OpensInt == \A do : Opens(do) \in Int
BY DEF Opens

LEMMA ReadOther ==
  ASSUME IInv, phase = "parse", NEW item, Parsed(item), symbols' = symbols, NEW K, K = Len(symbol_scopes),
         item.do \in {"begin", "end", "use", "call"}, K + Opens(item.do) > 0,
         item.do \in {"use", "call"} =>
           item.symbol = lookup_symbol(symbol_scopes, item.identifier) /\ item.identifier # "",
         IsSeq(symbol_scopes'), Len(symbol_scopes') = K + Opens(item.do),
         \A k \in DOMAIN symbol_scopes' : symbol_scopes'[k] = IF k \in 1 .. K THEN symbol_scopes[k] ELSE << >>
  PROVE  IInv'
<1> PICK n : n = Len(text)
  OBVIOUS
<1>1. Typed /\ Items /\ Scopes /\ at = 1 /\ out = << >> /\ text' = Append(text, item)
  BY DEF IInv, Parsed
<1>2. n \in Nat /\ IsSeq(text) /\ IsSeq(symbols) /\ n = Len(text)
  BY <1>1 DEF Typed, IsSeq
<1>3. K = Level[n + 1] /\ K \in Nat \ {0}
  <2>1. n + 1 \in 1 .. Len(text) + 1
    BY ONLY <1>2
  <2>2. Level[n + 1] \in Nat \ {0}
    BY ONLY <1>1, <2>1 DEF Typed
  <2> QED
    BY <1>1, <2>2 DEF Scopes
<1>4. item.do \notin Declaring
  BY DEF Declaring
<1>5. Typed'
  <2>1. Level[Len(text) + 1] + Opens(item.do) \in Nat \ {0}
    <3>1. Opens(item.do) \in Int /\ K + Opens(item.do) > 0
      BY OpensInt
    <3> QED
      BY ONLY <1>2, <1>3, <3>1
  <2>2. IsSeq(symbols') /\ \A id \in DOMAIN symbols' : IsSymbol(symbols'[id])
    BY <1>1 DEF Typed
  <2> QED
    BY <1>1, <2>1, <2>2, GrowTyped
<1>6. Items'
  <2>1. item.do \in {"use", "call"} => Finds(n + 1)' /\ item.identifier # ""
    BY <1>1, LookupIs
  <2> QED
    BY <1>1, <1>4, <2>1, GrowItems
<1>7. Scopes'
  <2>1. Level'[n + 2] = K + Opens(item.do)
    BY <1>1, <1>2, <1>3, LevelNext
  <2> QED
    BY <1>1, <1>4, <2>1, KeepScopes
<1>8. phase' = "parse" /\ at' = 1 /\ out' = << >>
  BY <1>1 DEF Parsed
<1> QED
  BY ONLY <1>5, <1>6, <1>7, <1>8 DEF IInv

LEMMA BlockStep ==
  ASSUME IInv, block_begin \/ block_end
  PROVE  IInv'
<1> PICK K : K = Len(symbol_scopes)
  OBVIOUS
<1>1. phase = "parse"
  BY DEF block_begin, block_end, Parsing
<1>2. IsSeq(symbol_scopes) /\ K \in Nat /\ K > 0 /\ DOMAIN symbol_scopes = 1 .. K
  <2>1. Typed /\ Scopes
    BY <1>1 DEF IInv
  <2>2. Len(text) + 1 \in 1 .. Len(text) + 1
    BY <2>1 DEF Typed, IsSeq
  <2>3. IsSeq(symbol_scopes) /\ Len(symbol_scopes) = Level[Len(text) + 1] /\ Level[Len(text) + 1] \in Nat \ {0}
    BY <2>1, <2>2 DEF Scopes, Typed
  <2> QED
    BY <2>3 DEF IsSeq
<1>3. CASE block_begin
  <2>1. PICK item : item = Item("begin", "", 0)
    OBVIOUS
  <2>2. item.do = "begin"
    BY ONLY <2>1 DEF Item
  <2>3. Parsed(item) /\ symbols' = symbols /\ symbol_scopes' = Append(symbol_scopes, << >>)
    BY <1>3, <2>1 DEF block_begin
  <2>4. Opens(item.do) = 1
    BY <2>2 DEF Opens
  <2>5. /\ IsSeq(Append(symbol_scopes, << >>)) /\ Len(Append(symbol_scopes, << >>)) = K + 1
        /\ \A k \in 1 .. K : Append(symbol_scopes, << >>)[k] = symbol_scopes[k]
        /\ Append(symbol_scopes, << >>)[K + 1] = << >>
    BY <1>2, AppendSeq
  <2>6. \A k \in DOMAIN symbol_scopes' : symbol_scopes'[k] = IF k \in 1 .. K THEN symbol_scopes[k] ELSE << >>
    BY ONLY <1>2, <2>3, <2>5 DEF IsSeq
  <2>7. K + Opens(item.do) > 0 /\ Len(symbol_scopes') = K + Opens(item.do) /\ IsSeq(symbol_scopes')
    BY ONLY <1>2, <2>3, <2>4, <2>5
  <2> QED
    BY <1>1, <2>2, <2>3, <2>6, <2>7, ReadOther
<1>4. CASE block_end
  <2>1. PICK item : item = Item("end", "", 0)
    OBVIOUS
  <2>2. item.do = "end"
    BY ONLY <2>1 DEF Item
  <2>3. Parsed(item) /\ symbols' = symbols /\ symbol_scopes' = Front(symbol_scopes) /\ K > 1
    BY <1>4, <2>1 DEF block_end
  <2>4. Opens(item.do) = -1
    BY <2>2 DEF Opens
  <2>5. /\ IsSeq(Front(symbol_scopes)) /\ Len(Front(symbol_scopes)) = K - 1
        /\ \A k \in 1 .. K - 1 : Front(symbol_scopes)[k] = symbol_scopes[k]
    BY <1>2, FrontSeq
  <2>6. \A k \in DOMAIN symbol_scopes' : symbol_scopes'[k] = IF k \in 1 .. K THEN symbol_scopes[k] ELSE << >>
    BY ONLY <1>2, <2>3, <2>5 DEF IsSeq
  <2>7. K + Opens(item.do) > 0 /\ Len(symbol_scopes') = K + Opens(item.do) /\ IsSeq(symbol_scopes')
    BY ONLY <1>2, <2>3, <2>4, <2>5
  <2> QED
    BY <1>1, <2>2, <2>3, <2>6, <2>7, ReadOther
<1> QED
  BY <1>3, <1>4

LEMMA PrimaryStep ==
  ASSUME IInv, input \in Inputs, primary_expression
  PROVE  IInv'
<1>1. PICK x \in input.identifiers \cup input.functions, do \in {"use", "call"} :
        Parsed(Item(do, x, lookup_symbol(symbol_scopes, x)))
  BY DEF primary_expression
<1>2. phase = "parse" /\ symbols' = symbols /\ symbol_scopes' = symbol_scopes
  BY DEF primary_expression, Parsing
<1>3. x # ""
  BY HaveNames
<1>4. PICK item : item = Item(do, x, lookup_symbol(symbol_scopes, x))
  OBVIOUS
<1>5. item.do = do /\ item.identifier = x /\ item.symbol = lookup_symbol(symbol_scopes, x)
  BY ONLY <1>4, ItemIs
<1>6. PICK K : K = Len(symbol_scopes)
  OBVIOUS
<1>7. IsSeq(symbol_scopes) /\ K \in Nat /\ K > 0 /\ DOMAIN symbol_scopes = 1 .. K
  <2>1. Typed /\ Scopes
    BY <1>2 DEF IInv
  <2>2. Len(text) + 1 \in 1 .. Len(text) + 1
    BY <2>1 DEF Typed, IsSeq
  <2>3. IsSeq(symbol_scopes) /\ Len(symbol_scopes) = Level[Len(text) + 1] /\ Level[Len(text) + 1] \in Nat \ {0}
    BY <2>1, <2>2 DEF Scopes, Typed
  <2> QED
    BY <1>6, <2>3 DEF IsSeq
<1>8. Opens(item.do) = 0
  BY <1>5 DEF Opens
<1>9. \A k \in DOMAIN symbol_scopes' : symbol_scopes'[k] = IF k \in 1 .. K THEN symbol_scopes[k] ELSE << >>
  BY ONLY <1>2, <1>7
<1>10. IsSeq(symbol_scopes') /\ Len(symbol_scopes') = K + Opens(item.do) /\ K + Opens(item.do) > 0
  BY ONLY <1>2, <1>6, <1>7, <1>8
<1> QED
  BY <1>1, <1>2, <1>3, <1>4, <1>5, <1>6, <1>9, <1>10, ReadOther

-----------------------------------------------------------------------------
(* sema.c: the text stays, and of a symbol what was written. *)
Written(s) == <<s.identifier, s.kind, s.storage, s.init, s.prev, s.global>>

Keeps ==
  /\ text' = text /\ IsSeq(symbols') /\ Len(symbols') = Len(symbols)
  /\ \A id \in DOMAIN symbols : IsSymbol(symbols'[id]) /\ Written(symbols'[id]) = Written(symbols[id])

LEMMA KeepText ==
  ASSUME text' = text
  PROVE  /\ Declarations' = Declarations /\ Uses' = Uses /\ Level' = Level
         /\ \A d, i : Open(d, i)' <=> Open(d, i)
         /\ \A d, e : Again(d, e)' <=> Again(d, e)
         /\ \A d, i : InSight(d, i)' <=> InSight(d, i)
<1>1. Declarations' = Declarations /\ Uses' = Uses /\ Level' = Level
  BY LevelKept DEF Declarations, Uses
<1>2. \A d, i : Open(d, i)' <=> Open(d, i)
  BY <1>1 DEF Open
<1>3. \A d, e : Again(d, e)' <=> Again(d, e)
  BY <1>1 DEF Again, SameScope
<1>4. \A d, i : InSight(d, i)' <=> InSight(d, i)
  BY <1>1, <1>2 DEF InSight
<1> QED
  BY <1>1, <1>2, <1>3, <1>4

LEMMA WrittenIs ==
  ASSUME NEW s, NEW t, Written(s) = Written(t)
  PROVE  /\ s.identifier = t.identifier /\ s.kind = t.kind /\ s.storage = t.storage
         /\ s.init = t.init /\ s.prev = t.prev /\ s.global = t.global
BY DEF Written

LEMMA KeepItems ==
  ASSUME Typed, Items, Keeps
  PROVE  /\ Items'
         /\ \A d \in Declarations : Written(Of(d)') = Written(Of(d)) /\ (Defining(d)' <=> Defining(d)) /\ (Local(d)' <=> Local(d))
         /\ DOMAIN symbols' = DOMAIN symbols
         /\ \A id \in DOMAIN symbols : symbols'[id].kind = symbols[id].kind
<1>1. /\ Declarations' = Declarations /\ Uses' = Uses /\ Level' = Level /\ text' = text
      /\ \A d, i : Open(d, i)' <=> Open(d, i)
      /\ \A d, e : Again(d, e)' <=> Again(d, e)
      /\ \A d, i : InSight(d, i)' <=> InSight(d, i)
  BY KeepText DEF Keeps
<1>2. DOMAIN symbols' = DOMAIN symbols
  BY DEF Keeps, Typed, IsSeq
<1>3. ASSUME NEW d \in Declarations
      PROVE  /\ Written(Of(d)') = Written(Of(d)) /\ Of(d)'.identifier = Of(d).identifier /\ Of(d)'.kind = Of(d).kind
             /\ Of(d)'.storage = Of(d).storage /\ Of(d)'.init = Of(d).init /\ Of(d)'.prev = Of(d).prev /\ Of(d)'.global = Of(d).global
  <2>1. text[d].symbol \in DOMAIN symbols
    BY DEF Items, Declares
  <2>2. Of(d)' = symbols'[text[d].symbol] /\ Of(d) = symbols[text[d].symbol]
    BY <1>1 DEF Of
  <2>3. Written(Of(d)') = Written(Of(d))
    BY <2>1, <2>2 DEF Keeps
  <2> QED
    BY <2>3, WrittenIs
<1>4. ASSUME NEW d \in Declarations
      PROVE  Declares(d)' /\ Follows(d)'
  <2>1. Declares(d) /\ Follows(d)
    BY DEF Items
  <2>2. Declares(d)'
    BY ONLY <1>1, <1>2, <1>3, <2>1 DEF Declares
  <2>3. Follows(d)'
    BY ONLY <1>1, <1>3, <2>1 DEF Follows
  <2> QED
    BY <2>2, <2>3
<1>5. ASSUME NEW i \in Uses
      PROVE  Finds(i)'
  <2>1. Finds(i)
    BY DEF Items
  <2> QED
    BY ONLY <1>1, <2>1 DEF Finds
<1>6. Items'
  <2>1. /\ \A i \in DOMAIN text : text[i].do \in Declaring \cup {"begin", "end", "use", "call"}
        /\ \A d, e \in Declarations : text[d].symbol = text[e].symbol => d = e
        /\ \A i \in Uses : text[i].identifier # ""
    BY DEF Items
  <2> QED
    BY ONLY <1>1, <1>4, <1>5, <2>1 DEF Items
<1>7. \A d \in Declarations : (Defining(d)' <=> Defining(d)) /\ (Local(d)' <=> Local(d))
  BY ONLY <1>1, <1>3 DEF Defining, Local
<1>8. \A id \in DOMAIN symbols : symbols'[id].kind = symbols[id].kind
  BY WrittenIs DEF Keeps
<1> QED
  BY <1>2, <1>3, <1>6, <1>7, <1>8

LEMMA LinkOf ==
  ASSUME NEW s, NEW t, Written(s) = Written(t)
  PROVE  Link(s) = Link(t)
BY WrittenIs DEF Link

(* One declaration after another in one scope. *)
LEMMA AgainTransitive ==
  ASSUME Typed, NEW o \in Declarations, NEW e \in Declarations, NEW d \in Declarations,
         Again(o, d), Again(e, d), o <= e
  PROVE  o = e \/ Again(o, e)
<1> PICK L, n : L = Level /\ n = Len(text)
  OBVIOUS
<1>1. n \in Nat /\ o \in 1 .. n /\ e \in 1 .. n /\ d \in 1 .. n
  BY DeclarationsAre
<1>2. /\ text[o].identifier = text[d].identifier /\ text[e].identifier = text[d].identifier
      /\ e < d /\ L[o] = L[d] /\ L[e] = L[d] /\ \A k \in o + 1 .. d : L[k] >= L[o]
  BY DEF Again, SameScope
<1>3. \A k \in o + 1 .. e : k \in o + 1 .. d
  BY ONLY <1>1, <1>2
<1>4. o # e => SameScope(Level, o, e)
  <2>1. o <= e /\ L = Level
    OBVIOUS
  <2> QED
    BY ONLY <1>1, <1>2, <1>3, <2>1 DEF SameScope
<1> QED
  BY <1>2, <1>4 DEF Again

(* prev tells whether the name is defined. *)
LEMMA RedefinedIs ==
  ASSUME Typed, Items, NEW d \in Declarations, Checked(d)
  PROVE  Redefined(Of(d)) <=> \E e \in Declarations : Again(e, d) /\ Defining(e)
<1>1. Follows(d)
  BY DEF Items
<1>2. CASE Of(d).prev = 0
  BY <1>1, <1>2 DEF Follows, Redefined
<1>3. CASE Of(d).prev # 0
  <2>1. PICK e \in Declarations : /\ Again(e, d) /\ Of(d).prev = text[e].symbol
                                  /\ \A o \in Declarations : Again(o, d) => o <= e
    BY <1>1, <1>3 DEF Follows
  <2>2. e < d
    BY <2>1 DEF Again, SameScope
  <2>3. Of(e).definition = Defining(e) /\ \A o \in Declarations : Again(o, e) => ~Defining(o)
    BY <2>2 DEF Checked
  <2>4. Redefined(Of(d)) <=> Defining(e)
    BY <1>3, <2>1, <2>3 DEF Redefined, Of
  <2>5. \A o \in Declarations : Again(o, d) => o = e \/ ~Defining(o)
    <3> SUFFICES ASSUME NEW o \in Declarations, Again(o, d)
                 PROVE  o = e \/ ~Defining(o)
      OBVIOUS
    <3>1. o <= e
      BY <2>1
    <3>2. o = e \/ Again(o, e)
      BY <2>1, <3>1, AgainTransitive
    <3> QED
      BY <2>3, <3>2
  <2> QED
    BY <2>1, <2>4, <2>5
<1> QED
  BY <1>2, <1>3

LEMMA CheckedNext ==
  ASSUME Typed, Items, Keeps, NEW n \in 1 .. Len(text), Checked(n),
         \A d \in Declarations : d # n => Of(d)' = Of(d),
         n \in Declarations =>
           /\ Of(n)'.link = Link(Of(n)) /\ Of(n)'.definition = Defining(n)
           /\ Level[n] > 1 => Of(n).storage = ""
           /\ \A e \in Declarations : Again(e, n) => ~Defining(e),
         n \in Uses => /\ text[n].do = "use" => text[n].symbol # 0
                       /\ text[n].do = "call" /\ text[n].symbol # 0 => symbols[text[n].symbol].kind = "function"
  PROVE  Checked(n + 1)'
<1>1. /\ Declarations' = Declarations /\ Uses' = Uses /\ Level' = Level /\ text' = text
      /\ \A d, e : Again(d, e)' <=> Again(d, e)
  BY KeepText DEF Keeps
<1>2. /\ \A d \in Declarations : Written(Of(d)') = Written(Of(d)) /\ (Defining(d)' <=> Defining(d))
      /\ \A id \in DOMAIN symbols : symbols'[id].kind = symbols[id].kind
  BY KeepItems
<1>3. n \in Nat /\ \A d \in Declarations \cup Uses : d < n + 1 => d < n \/ d = n
  <2>1. /\ \A d : d \in Declarations <=> d \in 1 .. Len(text) /\ text[d].do \in Declaring
        /\ \A i : i \in Uses <=> i \in 1 .. Len(text) /\ text[i].do \in {"use", "call"}
        /\ Len(text) \in Nat /\ n \in 1 .. Len(text)
    BY DeclarationsAre
  <2> QED
    BY ONLY <2>1
<1>4. ASSUME NEW d \in Declarations, d < n + 1
      PROVE  /\ Of(d)'.link = Link(Of(d)') /\ Of(d)'.definition = Defining(d)'
             /\ Level'[d] > 1 => Of(d)'.storage = ""
             /\ \A e \in Declarations' : Again(e, d)' => ~Defining(e)'
  <2>1. /\ Of(d)'.link = Link(Of(d)) /\ Of(d)'.definition = Defining(d)
        /\ Level[d] > 1 => Of(d).storage = ""
        /\ \A e \in Declarations : Again(e, d) => ~Defining(e)
    <3>1. CASE d < n
      <4>1. d # n
        BY ONLY <1>3, <3>1
      <4>2. Of(d)' = Of(d)
        BY <4>1
      <4> QED
        BY <3>1, <4>2 DEF Checked
    <3>2. CASE d = n
      BY <3>2
    <3> QED
      BY <1>3, <1>4, <3>1, <3>2
  <2>2. Written(Of(d)') = Written(Of(d))
    BY <1>2
  <2>3. Of(d)'.storage = Of(d).storage /\ Link(Of(d)') = Link(Of(d))
    BY <2>2, WrittenIs, LinkOf
  <2>4. Defining(d) \in BOOLEAN /\ Defining(d)' \in BOOLEAN
    BY DEF Defining
  <2> QED
    BY ONLY <1>1, <1>2, <2>1, <2>3, <2>4, d \in Declarations
<1>5. ASSUME NEW i \in Uses, i < n + 1
      PROVE  /\ text[i].do = "use" => text[i].symbol # 0
             /\ text[i].do = "call" /\ text[i].symbol # 0 => symbols'[text[i].symbol].kind = "function"
  <2>1. /\ text[i].do = "use" => text[i].symbol # 0
        /\ text[i].do = "call" /\ text[i].symbol # 0 => symbols[text[i].symbol].kind = "function"
    <3>1. CASE i < n
      BY <3>1 DEF Checked
    <3>2. CASE i = n
      BY <3>2
    <3> QED
      BY <1>3, <1>5, <3>1, <3>2
  <2>2. text[i].symbol # 0 => text[i].symbol \in DOMAIN symbols
    BY DEF Items, Finds, Declares
  <2> QED
    BY <1>2, <2>1, <2>2
<1> QED
  BY ONLY <1>1, <1>4, <1>5 DEF Checked

LEMMA PlacedNext ==
  ASSUME Typed, Items, Keeps, NEW n \in 1 .. Len(text), Placed(n), Highest(n), stack_size' \in Nat,
         \A d \in Declarations : d # n => Of(d)' = Of(d),
         Local(n) => Of(n)'.offset = stack_size' /\ stack_size' > stack_size,
         text[n].do # "define" => stack_size' >= stack_size
  PROVE  Placed(n + 1)' /\ Highest(n + 1)'
<1>1. /\ Declarations' = Declarations /\ Level' = Level /\ text' = text
      /\ \A d \in Declarations : Local(d)' <=> Local(d)
  BY KeepText, KeepItems DEF Keeps
<1>2. n \in Nat /\ stack_size \in Nat /\ stack_size' \in Nat /\ \A d \in Declarations : d \in Nat
  BY DeclarationsAre DEF Typed
<1>3. \A d \in Declarations : d < n + 1 => d < n \/ d = n
  BY ONLY <1>2
<1>4. \A d, i : NoFunction(d, i)' <=> NoFunction(d, i)
  BY <1>1 DEF NoFunction
<1>5. \A d \in Declarations : d < n => Of(d)' = Of(d)
  BY <1>2
<1>6. ASSUME NEW d \in Declarations, d < n, NoFunction(d, n + 1)
      PROVE  NoFunction(d, n) /\ text[n].do # "define"
  <2>1. n \in d + 1 .. (n + 1) - 1 /\ \A f \in d + 1 .. n - 1 : f \in d + 1 .. (n + 1) - 1
    BY ONLY <1>2, <1>6
  <2> QED
    BY <1>6, <2>1 DEF NoFunction
<1>7. ASSUME NEW d \in Declarations, d < n, Local(d)
      PROVE  Of(d)'.offset \in Nat /\ Of(d)'.offset = Of(d).offset
  BY <1>5, <1>7 DEF Placed
<1>8. Local(n) => n \in Declarations /\ Of(n)'.offset \in Nat
  BY DEF Local
<1>9. \A d \in Declarations : d < n + 1 /\ Local(d) => Of(d)'.offset \in Nat
  BY <1>3, <1>7, <1>8
<1>10. ASSUME NEW d \in Declarations, NEW e \in Declarations, d < e, e < n + 1, Local(d), Local(e), NoFunction(d, e)
       PROVE  Of(d)'.offset < Of(e)'.offset
  <2>1. CASE e < n
    <3>1. Of(d).offset < Of(e).offset
      BY <1>10, <2>1 DEF Placed
    <3>2. d < n
      BY ONLY <1>2, <1>10, <2>1
    <3> QED
      BY <1>7, <1>10, <2>1, <3>1, <3>2
  <2>2. CASE e = n
    <3>1. Of(d).offset <= stack_size /\ Of(d).offset = Of(d)'.offset /\ Of(d)'.offset \in Nat
      BY <1>7, <1>10, <2>2 DEF Highest
    <3>2. Of(e)'.offset = stack_size' /\ stack_size' > stack_size
      BY <1>10, <2>2
    <3> QED
      BY ONLY <1>2, <3>1, <3>2
  <2> QED
    BY <1>3, <1>10, <2>1, <2>2
<1>11. ASSUME NEW d \in Declarations, d < n + 1, Local(d), NoFunction(d, n + 1)
       PROVE  Of(d)'.offset <= stack_size'
  <2>1. CASE d < n
    <3>1. Of(d).offset <= stack_size /\ stack_size' >= stack_size
      BY <1>6, <1>11, <2>1 DEF Highest
    <3>2. Of(d).offset = Of(d)'.offset /\ Of(d)'.offset \in Nat
      BY <1>7, <1>11, <2>1
    <3> QED
      BY ONLY <1>2, <3>1, <3>2
  <2>2. CASE d = n
    <3>1. Of(d)'.offset = stack_size'
      BY <1>11, <2>2
    <3> QED
      BY ONLY <1>2, <3>1
  <2> QED
    BY <1>3, <1>11, <2>1, <2>2
<1>12. Placed(n + 1)'
  BY ONLY <1>1, <1>4, <1>9, <1>10 DEF Placed
<1>13. Highest(n + 1)'
  BY ONLY <1>1, <1>4, <1>11 DEF Highest
<1> QED
  BY <1>12, <1>13

LEMMA TypedKeeps ==
  ASSUME Typed, Keeps, at' \in 1 .. Len(text) + 1, stack_size' \in Nat, IsSeq(out'),
         phase' \in {"parse", "sema", "gen", "done", "error", "crash", "assertion"}
  PROVE  Typed'
<1>1. text' = text /\ Level' = Level
  BY KeepText DEF Keeps
<1>2. IsSeq(text) /\ \A i \in 1 .. Len(text) + 1 : Level[i] \in Nat \ {0}
  BY DEF Typed
<1>3. IsSeq(symbols') /\ \A id \in DOMAIN symbols' : IsSymbol(symbols'[id])
  BY DEF Keeps, Typed, IsSeq
<1>4. at' \in 1 .. Len(text) + 1 /\ stack_size' \in Nat /\ IsSeq(out') /\ phase' \in {"parse", "sema", "gen", "done", "error", "crash", "assertion"}
  OBVIOUS
<1> QED
  BY ONLY <1>1, <1>2, <1>3, <1>4 DEF Typed

LEMMA SameKeeps ==
  ASSUME Typed, text' = text, symbols' = symbols
  PROVE  Keeps /\ \A d : Of(d)' = Of(d)
BY DEF Keeps, Typed, Of

LEMMA SymbolChange ==
  ASSUME Typed, Items, NEW d \in Declarations, text' = text, NEW t, IsSymbol(t), Written(t) = Written(Of(d)),
         symbols' = [symbols EXCEPT ![text[d].symbol] = t]
  PROVE  Keeps /\ Of(d)' = t /\ \A e \in Declarations : e # d => Of(e)' = Of(e)
<1> PICK id : id = text[d].symbol
  OBVIOUS
<1>1. /\ id \in DOMAIN symbols /\ Of(d) = symbols[id]
      /\ \A e \in Declarations : e # d => text[e].symbol # id
  BY DEF Items, Declares, Of
<1>2. DOMAIN symbols' = DOMAIN symbols /\ symbols'[id] = t /\ \A i \in DOMAIN symbols : i # id => symbols'[i] = symbols[i]
  BY <1>1
<1>3. \A e \in Declarations : text[e].symbol \in DOMAIN symbols
  BY DEF Items, Declares
<1>4. \A i \in DOMAIN symbols : IsSymbol(symbols'[i]) /\ Written(symbols'[i]) = Written(symbols[i])
  BY <1>1, <1>2 DEF Typed
<1>5. IsSeq(symbols') /\ Len(symbols') = Len(symbols)
  <2>1. Len(symbols) \in Nat /\ DOMAIN symbols = 1 .. Len(symbols)
    BY DEF Typed, IsSeq
  <2>2. symbols' = [i \in 1 .. Len(symbols) |-> symbols'[i]]
    BY <2>1
  <2>3. Len(symbols') = Len(symbols)
    BY ONLY <2>1, <2>2
  <2> QED
    BY ONLY <2>1, <2>2, <2>3 DEF IsSeq
<1> QED
  BY <1>1, <1>2, <1>3, <1>4, <1>5 DEF Keeps, Of

LEMMA SemaAdvance ==
  ASSUME IInv, phase = "sema", phase' = "sema", at <= Len(text), Advance, out' = out, Keeps,
         NEW n, n = at, stack_size' \in Nat,
         \A d \in Declarations : d # n => Of(d)' = Of(d),
         n \in Declarations =>
           /\ Of(n)'.link = Link(Of(n)) /\ Of(n)'.definition = Defining(n)
           /\ Level[n] > 1 => Of(n).storage = ""
           /\ \A e \in Declarations : Again(e, n) => ~Defining(e),
         n \in Uses => /\ text[n].do = "use" => text[n].symbol # 0
                       /\ text[n].do = "call" /\ text[n].symbol # 0 => symbols[text[n].symbol].kind = "function",
         Local(n) => Of(n)'.offset = stack_size' /\ stack_size' > stack_size,
         text[n].do # "define" => stack_size' >= stack_size
  PROVE  IInv'
<1>1. Typed /\ Items /\ Checked(n) /\ Placed(n) /\ Highest(n) /\ out = << >>
  BY DEF IInv
<1>2. n \in 1 .. Len(text) /\ Len(text) \in Nat
  <2>1. n \in 1 .. Len(text) + 1 /\ Len(text) \in Nat /\ n <= Len(text)
    BY <1>1 DEF Typed, IsSeq
  <2> QED
    BY ONLY <2>1
<1>3. at' = n + 1
  BY DEF Advance
<1>4. n + 1 \in 1 .. Len(text) + 1
  BY ONLY <1>2
<1>5. Typed'
  BY <1>1, <1>3, <1>4, TypedKeeps DEF Typed
<1>6. Items'
  BY <1>1, KeepItems
<1>7. Checked(n + 1)'
  BY <1>1, <1>2, CheckedNext
<1>8. Placed(n + 1)' /\ Highest(n + 1)'
  BY <1>1, <1>2, PlacedNext
<1>9. phase' = "sema" /\ out' = << >>
  BY <1>1
<1> QED
  BY ONLY <1>3, <1>5, <1>6, <1>7, <1>8, <1>9 DEF IInv

(* When nothing is declared there, and nothing changes. *)
LEMMA SemaPasses ==
  ASSUME IInv, phase = "sema", phase' = "sema", at <= Len(text), Advance, UNCHANGED <<symbols, stack_size, out>>,
         NEW n, n = at, n \notin Declarations,
         n \in Uses => /\ text[n].do = "use" => text[n].symbol # 0
                       /\ text[n].do = "call" /\ text[n].symbol # 0 => symbols[text[n].symbol].kind = "function"
  PROVE  IInv'
<1>1. Typed
  BY DEF IInv
<1>2. Keeps /\ \A d : Of(d)' = Of(d)
  BY <1>1, SameKeeps DEF Advance
<1>3. ~Local(n)
  BY DEF Local
<1>4. stack_size' \in Nat /\ stack_size' >= stack_size
  BY <1>1 DEF Typed
<1> QED
  BY <1>2, <1>3, <1>4, SemaAdvance

LEMMA Stops ==
  ASSUME IInv, at <= Len(text), Advance, UNCHANGED symbols, IsSeq(out'), stack_size' \in Nat,
         \/ phase' = "error" /\ Stopped
         \/ phase' = "crash" /\ CallsObject
         \/ phase' = "assertion" /\ Loads
  PROVE  IInv'
<1>1. Typed /\ Items
  BY DEF IInv
<1>2. Keeps /\ \A d : Of(d)' = Of(d)
  BY <1>1, SameKeeps DEF Advance
<1>3. at' \in 1 .. Len(text) + 1
  <2>1. at \in 1 .. Len(text) + 1 /\ Len(text) \in Nat /\ at <= Len(text) /\ at' = at + 1
    BY <1>1 DEF Typed, IsSeq, Advance
  <2> QED
    BY ONLY <2>1
<1>4. IsSeq(out')
  OBVIOUS
<1>5. phase' \in {"parse", "sema", "gen", "done", "error", "crash", "assertion"}
  OBVIOUS
<1>6. Typed'
  BY <1>1, <1>2, <1>3, <1>4, <1>5, TypedKeeps
<1>7. Items'
  BY <1>1, <1>2, KeepItems
<1>8. text' = text /\ symbols' = symbols
  BY DEF Advance
<1>9. /\ Declarations' = Declarations /\ Uses' = Uses /\ Level' = Level
      /\ \A d, e : Again(d, e)' <=> Again(d, e)
  BY <1>8, KeepText
<1>10. Stopped' <=> Stopped
  BY ONLY <1>2, <1>8, <1>9 DEF Stopped, Defining
<1>11. CallsObject' <=> CallsObject
  BY ONLY <1>8, <1>9 DEF CallsObject
<1>12. Loads' <=> Loads
  BY ONLY <1>8, <1>9 DEF Loads
<1> QED
  BY <1>6, <1>7, <1>10, <1>11, <1>12 DEF IInv

LEMMA SemaStops ==
  ASSUME IInv, at <= Len(text), Advance, UNCHANGED <<symbols, out>>, stack_size' \in Nat,
         \/ phase' = "error" /\ Stopped
         \/ phase' = "crash" /\ CallsObject
  PROVE  IInv'
<1>1. IsSeq(out')
  BY DEF IInv, Typed
<1> QED
  BY <1>1, Stops

LEMMA LinkedIs ==
  ASSUME NEW s, IsSymbol(s), NEW o
  PROVE  /\ IsSymbol(Linked(s)) /\ Written(Linked(s)) = Written(s)
         /\ Linked(s).link = Link(s) /\ Linked(s).definition = Defines(s)
         /\ IsSymbol([Linked(s) EXCEPT !.offset = o]) /\ Written([Linked(s) EXCEPT !.offset = o]) = Written(s)
         /\ [Linked(s) EXCEPT !.offset = o].link = Link(s) /\ [Linked(s) EXCEPT !.offset = o].definition = Defines(s)
         /\ [Linked(s) EXCEPT !.offset = o].offset = o
         /\ IsSymbol([Linked(s) EXCEPT !.definition = TRUE]) /\ Written([Linked(s) EXCEPT !.definition = TRUE]) = Written(s)
         /\ [Linked(s) EXCEPT !.definition = TRUE].link = Link(s) /\ [Linked(s) EXCEPT !.definition = TRUE].definition = TRUE
<1> PICK l, d, v : l = Link(s) /\ d = Defines(s) /\ v = TRUE
  OBVIOUS
<1>1. PICK t : t = [s EXCEPT !.link = l, !.definition = d]
  OBVIOUS
<1>2. IsSymbol(t) /\ Written(t) = Written(s) /\ t.link = l /\ t.definition = d
  BY ONLY <1>1, IsSymbol(s) DEF IsSymbol, Written
<1>3. /\ IsSymbol([t EXCEPT !.offset = o]) /\ Written([t EXCEPT !.offset = o]) = Written(t)
      /\ [t EXCEPT !.offset = o].link = t.link /\ [t EXCEPT !.offset = o].definition = t.definition
      /\ [t EXCEPT !.offset = o].offset = o
  BY ONLY <1>2 DEF IsSymbol, Written
<1>4. /\ IsSymbol([t EXCEPT !.definition = v]) /\ Written([t EXCEPT !.definition = v]) = Written(t)
      /\ [t EXCEPT !.definition = v].link = t.link /\ [t EXCEPT !.definition = v].definition = v
  BY ONLY <1>2 DEF IsSymbol, Written
<1>5. t = Linked(s)
  BY <1>1 DEF Linked
<1> QED
  BY <1>2, <1>3, <1>4, <1>5

(* A definition comes before. *)
LEMMA RedefinedStops ==
  ASSUME Typed, Items, NEW d \in Declarations, Checked(d), Redefined(Of(d))
  PROVE  Stopped
<1>1. PICK e \in Declarations : Again(e, d) /\ Defining(e)
  BY RedefinedIs
<1>2. e < d
  BY <1>1 DEF Again, SameScope
<1>3. Level[e] > 1 => Of(e).storage = ""
  BY <1>2 DEF Checked
<1> QED
  BY <1>1, <1>3 DEF Stopped

LEMMA AtIs ==
  ASSUME IInv, NEW do, At(do, "sema"), NEW n, n = at
  PROVE  /\ Typed /\ Items /\ n \in 1 .. Len(text) /\ at <= Len(text) /\ phase = "sema" /\ Checked(n) /\ text[n].do \in do
         /\ n \in Declarations <=> text[n].do \in Declaring
         /\ n \in Uses <=> text[n].do \in {"use", "call"}
         /\ stack_size \in Nat
<1>1. Typed /\ Items /\ Checked(n) /\ phase = "sema" /\ at <= Len(text) /\ text[n].do \in do
  BY DEF IInv, At
<1>2. n \in 1 .. Len(text)
  BY <1>1 DEF Typed, IsSeq
<1>3. n \in Declarations <=> text[n].do \in Declaring
  BY <1>1, <1>2, DeclarationsAre
<1>4. n \in Uses <=> text[n].do \in {"use", "call"}
  BY <1>1, <1>2, DeclarationsAre
<1> QED
  BY <1>1, <1>2, <1>3, <1>4 DEF Typed

LEMMA DeclStep ==
  ASSUME IInv, sema_decl
  PROVE  IInv'
<1> PICK n, id, s : n = at /\ id = text[n].symbol /\ s = symbols[id]
  OBVIOUS
<1>1. At({"declare", "param"}, "sema") /\ put_variable(id) /\ Advance /\ out' = out
  BY DEF sema_decl
<1>2. /\ Typed /\ Items /\ n \in 1 .. Len(text) /\ at <= Len(text) /\ phase = "sema" /\ Checked(n)
      /\ text[n].do \in {"declare", "param"}
      /\ n \in Declarations <=> text[n].do \in Declaring
      /\ n \in Uses <=> text[n].do \in {"use", "call"}
      /\ stack_size \in Nat
  BY <1>1, AtIs
<1>3. n \in Declarations /\ n \notin Uses /\ text[n].do # "define"
  BY ONLY <1>2 DEF Declaring
<1>4. Of(n) = s /\ text' = text
  BY <1>1 DEF Of, Advance
<1>5. Declares(n) /\ id \in DOMAIN symbols /\ IsSymbol(s)
  BY <1>2, <1>3 DEF Items, Declares, Typed
<1> PICK size : size = stack_size + (IF s.kind = "object" THEN 8 ELSE 0)
  OBVIOUS
<1>6. CASE Redefined(s) \/ (~s.global /\ s.storage # "")
  <2>1. phase' = "error" /\ UNCHANGED <<symbols, stack_size>>
    BY <1>1, <1>6 DEF put_variable
  <2>2. Stopped
    <3>1. CASE Redefined(s)
      BY <1>2, <1>3, <1>4, <3>1, RedefinedStops
    <3>2. CASE ~s.global /\ s.storage # ""
      <4>1. Level[n] # 1 /\ Level[n] \in Nat \ {0}
        <5>1. n \in 1 .. Len(text) + 1
          BY ONLY <1>2
        <5> QED
          BY <1>2, <1>4, <1>5, <3>2, <5>1 DEF Declares, Typed
      <4>2. Level[n] > 1
        BY ONLY <4>1
      <4> QED
        BY <1>3, <1>4, <3>2, <4>2 DEF Stopped
    <3> QED
      BY <1>6, <3>1, <3>2
  <2>3. stack_size' \in Nat
    BY <1>2, <2>1
  <2> QED
    BY <1>1, <1>2, <2>1, <2>2, <2>3, SemaStops
<1>7. CASE ~(Redefined(s) \/ (~s.global /\ s.storage # ""))
  <2>1. /\ phase' = phase
        /\ IF s.global THEN symbols' = [symbols EXCEPT ![id] = Linked(s)] /\ stack_size' = stack_size
           ELSE symbols' = [symbols EXCEPT ![id] = [Linked(s) EXCEPT !.offset = size]] /\ stack_size' = size
    BY <1>1, <1>7 DEF put_variable
  <2>2. PICK t : t = IF s.global THEN Linked(s) ELSE [Linked(s) EXCEPT !.offset = size]
    OBVIOUS
  <2>3. symbols' = [symbols EXCEPT ![text[n].symbol] = t]
    BY <2>1, <2>2
  <2>4. IsSymbol(t) /\ Written(t) = Written(s) /\ t.link = Link(s) /\ t.definition = Defines(s) /\ (~s.global => t.offset = size)
    <3>1. CASE s.global
      <4>1. t = Linked(s)
        BY <2>2, <3>1
      <4> QED
        BY ONLY <1>5, <3>1, <4>1, LinkedIs
    <3>2. CASE ~s.global
      <4>1. t = [Linked(s) EXCEPT !.offset = size]
        BY <2>2, <3>2
      <4> QED
        BY ONLY <1>5, <4>1, LinkedIs
    <3> QED
      BY <3>1, <3>2
  <2>5. Keeps /\ Of(n)' = t /\ \A e \in Declarations : e # n => Of(e)' = Of(e)
    BY <1>2, <1>3, <1>4, <2>3, <2>4, SymbolChange
  <2>6. Defining(n) = Defines(s)
    BY <1>3, <1>4 DEF Defining, Defines
  <2>7. \A e \in Declarations : Again(e, n) => ~Defining(e)
    BY <1>2, <1>3, <1>4, <1>7, RedefinedIs
  <2>8. s.global = (Level[n] = 1) /\ Level[n] \in Nat \ {0}
    <3>1. n \in 1 .. Len(text) + 1
      BY ONLY <1>2
    <3> QED
      BY <1>2, <1>4, <1>5, <3>1 DEF Declares, Typed
  <2>9. Level[n] > 1 => ~s.global
    <3>1. Level[n] > 1 => Level[n] # 1
      BY ONLY <2>8
    <3> QED
      BY ONLY <2>8, <3>1
  <2>10. Level[n] > 1 => Of(n).storage = ""
    BY <1>4, <1>7, <2>9
  <2>11. size \in Nat /\ size >= stack_size /\ (s.kind = "object" => size > stack_size)
    BY <1>2
  <2>12. stack_size' \in Nat /\ stack_size' >= stack_size
    BY <1>2, <2>1, <2>11
  <2>13. Local(n) => Of(n)'.offset = stack_size' /\ stack_size' > stack_size
    BY <1>4, <2>1, <2>4, <2>5, <2>9, <2>11 DEF Local
  <2>14. IInv /\ phase = "sema" /\ phase' = "sema" /\ at <= Len(text) /\ Advance /\ out' = out /\ n = at
    BY <1>1, <1>2, <2>1
  <2>15. Of(n)'.link = Link(Of(n)) /\ Of(n)'.definition = Defining(n)
    BY <1>4, <2>4, <2>5, <2>6
  <2>16. n \notin Uses
    BY ONLY <1>3
  <2> QED
    BY ONLY <2>5, <2>7, <2>10, <2>12, <2>13, <2>14, <2>15, <2>16, SemaAdvance
<1> QED
  BY <1>6, <1>7

LEMMA FuncStep ==
  ASSUME IInv, sema_func
  PROVE  IInv'
<1> PICK n, id, s : n = at /\ id = text[n].symbol /\ s = symbols[id]
  OBVIOUS
<1>1. /\ At({"define"}, "sema") /\ Advance /\ out' = out /\ stack_size' = 0
      /\ IF Redefined(s) THEN phase' = "error" /\ symbols' = symbols
         ELSE symbols' = [symbols EXCEPT ![id] = [Linked(@) EXCEPT !.definition = TRUE]] /\ phase' = phase
  BY DEF sema_func
<1>2. /\ Typed /\ Items /\ n \in 1 .. Len(text) /\ at <= Len(text) /\ phase = "sema" /\ Checked(n)
      /\ text[n].do \in {"define"}
      /\ n \in Declarations <=> text[n].do \in Declaring
      /\ n \in Uses <=> text[n].do \in {"use", "call"}
      /\ stack_size \in Nat
  BY <1>1, AtIs
<1>3. n \in Declarations /\ n \notin Uses /\ text[n].do = "define"
  BY ONLY <1>2 DEF Declaring
<1>4. Of(n) = s /\ text' = text
  BY <1>1 DEF Of, Advance
<1>5. Declares(n) /\ id \in DOMAIN symbols /\ IsSymbol(s)
  BY <1>2, <1>3 DEF Items, Declares, Typed
<1>6. CASE Redefined(s)
  <2>1. phase' = "error" /\ symbols' = symbols
    BY <1>1, <1>6
  <2>2. Stopped
    BY <1>2, <1>3, <1>4, <1>6, RedefinedStops
  <2>3. stack_size' \in Nat
    BY <1>1
  <2> QED
    BY <1>1, <1>2, <2>1, <2>2, <2>3, SemaStops
<1>7. CASE ~Redefined(s)
  <2>1. phase' = phase /\ symbols' = [symbols EXCEPT ![id] = [Linked(s) EXCEPT !.definition = TRUE]]
    BY <1>1, <1>7
  <2>2. PICK t : t = [Linked(s) EXCEPT !.definition = TRUE]
    OBVIOUS
  <2>3. symbols' = [symbols EXCEPT ![text[n].symbol] = t]
    BY <2>1, <2>2
  <2>4. IsSymbol(t) /\ Written(t) = Written(s) /\ t.link = Link(s) /\ t.definition = TRUE
    BY <1>5, <2>2, LinkedIs
  <2>5. Keeps /\ Of(n)' = t /\ \A e \in Declarations : e # n => Of(e)' = Of(e)
    BY <1>2, <1>3, <1>4, <2>3, <2>4, SymbolChange
  <2>6. Defining(n) = TRUE
    BY <1>3 DEF Defining
  <2>7. \A e \in Declarations : Again(e, n) => ~Defining(e)
    BY <1>2, <1>3, <1>4, <1>7, RedefinedIs
  <2>8. Level[n] = 1 /\ ~(Level[n] > 1)
    <3>1. Level[n] = 1
      BY <1>3, <1>5 DEF Declares
    <3> QED
      BY ONLY <3>1
  <2>9. ~Local(n) /\ stack_size' \in Nat
    BY <1>1, <2>8 DEF Local
  <2>10. IInv /\ phase = "sema" /\ phase' = "sema" /\ at <= Len(text) /\ Advance /\ out' = out /\ n = at
    BY <1>1, <1>2, <2>1
  <2>11. Of(n)'.link = Link(Of(n)) /\ Of(n)'.definition = Defining(n)
    BY <1>4, <2>4, <2>5, <2>6
  <2> QED
    BY ONLY <1>3, <2>5, <2>7, <2>8, <2>9, <2>10, <2>11, SemaAdvance
<1> QED
  BY <1>6, <1>7

LEMMA UseStep ==
  ASSUME IInv, sema_identifier \/ sema_call \/ sema_block
  PROVE  IInv'
<1> PICK n : n = at
  OBVIOUS
<1>1. CASE sema_identifier
  <2>1. /\ Typed /\ n \in 1 .. Len(text) /\ at <= Len(text) /\ phase = "sema"
        /\ text[n].do \in {"use"}
        /\ n \in Declarations <=> text[n].do \in Declaring
        /\ n \in Uses <=> text[n].do \in {"use", "call"}
        /\ stack_size \in Nat
    BY <1>1, AtIs DEF sema_identifier
  <2>2. /\ phase' = IF text[n].symbol = 0 THEN "error" ELSE phase
        /\ Advance /\ UNCHANGED <<symbols, stack_size, out>>
    BY <1>1 DEF sema_identifier
  <2>3. n \notin Declarations /\ n \in Uses /\ text[n].do = "use"
    BY ONLY <2>1 DEF Declaring
  <2>4. CASE text[n].symbol = 0
    <3>1. Stopped
      BY <2>3, <2>4 DEF Stopped
    <3>2. phase' = "error" /\ stack_size' \in Nat
      BY <2>1, <2>2, <2>4
    <3> QED
      BY <2>1, <2>2, <3>1, <3>2, SemaStops
  <2>5. CASE text[n].symbol # 0
    BY <2>1, <2>2, <2>3, <2>5, SemaPasses
  <2> QED
    BY <2>4, <2>5
<1>2. CASE sema_call
  <2>1. /\ Typed /\ n \in 1 .. Len(text) /\ at <= Len(text) /\ phase = "sema"
        /\ text[n].do \in {"call"}
        /\ n \in Declarations <=> text[n].do \in Declaring
        /\ n \in Uses <=> text[n].do \in {"use", "call"}
        /\ stack_size \in Nat
    BY <1>2, AtIs DEF sema_call
  <2>2. /\ phase' = IF text[n].symbol # 0 /\ symbols[text[n].symbol].kind # "function" THEN "crash" ELSE phase
        /\ Advance /\ UNCHANGED <<symbols, stack_size, out>>
    BY <1>2 DEF sema_call
  <2>3. n \notin Declarations /\ n \in Uses /\ text[n].do = "call"
    BY ONLY <2>1 DEF Declaring
  <2>4. CASE text[n].symbol # 0 /\ symbols[text[n].symbol].kind # "function"
    <3>1. CallsObject
      BY <2>3, <2>4 DEF CallsObject
    <3>2. phase' = "crash" /\ stack_size' \in Nat
      BY <2>1, <2>2, <2>4
    <3> QED
      BY <2>1, <2>2, <3>1, <3>2, SemaStops
  <2>5. CASE ~(text[n].symbol # 0 /\ symbols[text[n].symbol].kind # "function")
    BY <2>1, <2>2, <2>3, <2>5, SemaPasses
  <2> QED
    BY <2>4, <2>5
<1>3. CASE sema_block
  <2>1. /\ Typed /\ n \in 1 .. Len(text) /\ at <= Len(text) /\ phase = "sema"
        /\ text[n].do \in {"begin", "end"}
        /\ n \in Declarations <=> text[n].do \in Declaring
        /\ n \in Uses <=> text[n].do \in {"use", "call"}
    BY <1>3, AtIs DEF sema_block
  <2>2. phase' = phase /\ Advance /\ UNCHANGED <<symbols, stack_size, out>>
    BY <1>3 DEF sema_block
  <2>3. n \notin Declarations /\ n \notin Uses
    BY ONLY <2>1 DEF Declaring
  <2> QED
    BY <2>1, <2>2, <2>3, SemaPasses
<1> QED
  BY <1>1, <1>2, <1>3

-----------------------------------------------------------------------------
(* gen.c: nothing is declared or linked any more. *)
LEMMA Stays ==
  ASSUME text' = text, symbols' = symbols
  PROVE  /\ \A n : (Checked(n)' <=> Checked(n)) /\ (Placed(n)' <=> Placed(n))
         /\ \A d : (Emits(d)' <=> Emits(d)) /\ What(d)' = What(d) /\ Of(d)' = Of(d)
         /\ \A p : Operand(p)' <=> Operand(p)
<1>1. /\ Declarations' = Declarations /\ Uses' = Uses /\ Level' = Level
      /\ \A d, e : Again(d, e)' <=> Again(d, e)
  BY KeepText
<1>2. \A d : Of(d)' = Of(d)
  BY DEF Of
<1>3. \A d : (Defining(d)' <=> Defining(d)) /\ (Local(d)' <=> Local(d)) /\ What(d)' = What(d)
  BY <1>1, <1>2 DEF Defining, Local, What
<1>4. \A d, n : NoFunction(d, n)' <=> NoFunction(d, n)
  BY DEF NoFunction
<1>5. \A d : Emits(d)' <=> Emits(d)
  BY <1>1, <1>3 DEF Emits
<1>6. \A p : Operand(p)' <=> Operand(p)
  BY <1>1 DEF Operand
<1>7. ASSUME NEW n
      PROVE  Checked(n)' <=> Checked(n)
  <2>1. \A d : Defining(d)' = Defining(d)
    BY <1>1, <1>2 DEF Defining
  <2> QED
    BY <1>1, <1>2, <2>1 DEF Checked
<1>8. ASSUME NEW n
      PROVE  Placed(n)' <=> Placed(n)
  BY <1>1, <1>2, <1>3, <1>4 DEF Placed
<1> QED
  BY <1>2, <1>3, <1>5, <1>6, <1>7, <1>8

LEMMA OneEmits ==
  ASSUME Typed, Checked(Len(text) + 1), NEW d, NEW n, Emits(d), Emits(n), text[d].identifier = text[n].identifier, d < n
  PROVE  FALSE
<1> PICK L, N : L = Level /\ N = Len(text)
  OBVIOUS
<1>1. N \in Nat /\ d \in Declarations /\ n \in Declarations /\ d \in 1 .. N /\ n \in 1 .. N
  BY DeclarationsAre DEF Emits
<1>2. \A k \in 1 .. N + 1 : L[k] \in Nat \ {0}
  BY DEF Typed
<1>3. L[d] = 1 /\ L[n] = 1 /\ Defining(d) /\ d < n
  BY DEF Emits
<1>4. \A k \in d + 1 .. n : L[k] >= L[d]
  BY ONLY <1>1, <1>2, <1>3
<1>5. SameScope(Level, d, n)
  BY <1>3, <1>4 DEF SameScope
<1>6. Again(d, n) /\ n < N + 1
  BY <1>1, <1>5 DEF Again
<1> QED
  BY <1>1, <1>3, <1>6 DEF Checked

LEMMA PrintedNext ==
  ASSUME Typed, Checked(Len(text) + 1), NEW n \in 1 .. Len(text), PrintedUpTo(n), text' = text, symbols' = symbols,
         NEW lines, IsSeq(lines), out' = out \o lines,
         \A k \in 1 .. Len(lines) :
           /\ lines[k].do = "label" => Emits(n) /\ lines[k].identifier = text[n].identifier /\ lines[k].what = What(n)
           /\ lines[k].do = "global" => Emits(n) /\ Of(n).link = "external" /\ lines[k].identifier = text[n].identifier
           /\ lines[k].do = "use" => Operand(lines[k]),
         Emits(n) => \E k \in 1 .. Len(lines) : lines[k].do = "label",
         Emits(n) /\ Of(n).link = "external" => \E k \in 1 .. Len(lines) : lines[k].do = "global",
         \A j, k \in 1 .. Len(lines) : lines[j].do = "label" /\ lines[k].do = "label" => j = k
  PROVE  PrintedUpTo(n + 1)'
<1> PICK N, m, q : N = Len(text) /\ m = Len(out) /\ q = Len(lines)
  OBVIOUS
<1>1. n \in Nat \ {0} /\ N \in Nat /\ m \in Nat /\ q \in Nat /\ DOMAIN out = 1 .. m
  BY DEF Typed, IsSeq
<1>2. /\ IsSeq(out') /\ Len(out') = m + q
      /\ \A k \in 1 .. m : out'[k] = out[k]
      /\ \A k \in m + 1 .. m + q : out'[k] = lines[k - m]
  BY ConcatSeq DEF Typed
<1>3. DOMAIN out' = 1 .. m + q
  BY <1>1, <1>2 DEF IsSeq
<1>4. \A k \in DOMAIN out' : k \in 1 .. m \/ (k \in m + 1 .. m + q /\ k - m \in 1 .. q)
  BY ONLY <1>1, <1>3
<1>5. \A k \in 1 .. q : k + m \in DOMAIN out' /\ k + m \in m + 1 .. m + q /\ (k + m) - m = k
  BY ONLY <1>1, <1>3
<1>6. \A k \in 1 .. q : k + m \in DOMAIN out' /\ out'[k + m] = lines[k]
  BY ONLY <1>2, <1>5
<1>7. \A k \in DOMAIN out : k \in DOMAIN out' /\ out'[k] = out[k]
  BY ONLY <1>1, <1>2, <1>3
<1>8. /\ \A d : (Emits(d)' <=> Emits(d)) /\ What(d)' = What(d) /\ Of(d)' = Of(d)
      /\ \A p : Operand(p)' <=> Operand(p)
  BY Stays
<1>9. \A k \in DOMAIN out' : \/ k \in DOMAIN out /\ out'[k] = out[k]
                             \/ k - m \in 1 .. q /\ out'[k] = lines[k - m]
  BY ONLY <1>1, <1>2, <1>4
<1>10. /\ n \in 1 .. (n + 1) - 1
       /\ \A d \in 1 .. n - 1 : d \in 1 .. (n + 1) - 1
       /\ \A d \in 1 .. (n + 1) - 1 : d \in 1 .. n - 1 \/ d = n
       /\ \A d \in 1 .. n - 1 : d < n
  BY ONLY <1>1
<1>11. LabelsPrinted(n) /\ GlobalsPrinted(n) /\ UsesPrinted
  BY DEF PrintedUpTo
<1>12. /\ \A k \in DOMAIN out : out[k].do = "label" =>
            \E d \in 1 .. n - 1 : Emits(d) /\ out[k].identifier = text[d].identifier /\ out[k].what = What(d)
       /\ \A d \in 1 .. n - 1 : Emits(d) =>
            \E k \in DOMAIN out : out[k].do = "label" /\ out[k].identifier = text[d].identifier
       /\ \A j, k \in DOMAIN out :
            out[j].do = "label" /\ out[k].do = "label" /\ out[j].identifier = out[k].identifier => j = k
  BY <1>11 DEF LabelsPrinted
<1>13. /\ \A k \in 1 .. q :
            /\ lines[k].do = "label" => Emits(n) /\ lines[k].identifier = text[n].identifier /\ lines[k].what = What(n)
            /\ lines[k].do = "global" => Emits(n) /\ Of(n).link = "external" /\ lines[k].identifier = text[n].identifier
            /\ lines[k].do = "use" => Operand(lines[k])
       /\ Emits(n) => \E k \in 1 .. q : lines[k].do = "label"
       /\ Emits(n) /\ Of(n).link = "external" => \E k \in 1 .. q : lines[k].do = "global"
       /\ \A j, k \in 1 .. q : lines[j].do = "label" /\ lines[k].do = "label" => j = k
  OBVIOUS
<1>14. text' = text
  OBVIOUS
<1>15. ASSUME NEW k \in DOMAIN out', out'[k].do = "label"
       PROVE  \E d \in 1 .. (n + 1) - 1 : Emits(d) /\ out'[k].identifier = text[d].identifier /\ out'[k].what = What(d)
  <2>1. CASE k \in DOMAIN out /\ out'[k] = out[k]
    <3>1. PICK d \in 1 .. n - 1 : Emits(d) /\ out[k].identifier = text[d].identifier /\ out[k].what = What(d)
      BY ONLY <1>12, <1>15, <2>1
    <3>2. d \in 1 .. (n + 1) - 1
      BY ONLY <1>10, <3>1
    <3> QED
      BY ONLY <2>1, <3>1, <3>2
  <2>2. CASE k - m \in 1 .. q /\ out'[k] = lines[k - m]
    BY ONLY <1>10, <1>13, <1>15, <2>2
  <2> QED
    BY <1>9, <2>1, <2>2
<1>16. ASSUME NEW d \in 1 .. (n + 1) - 1, Emits(d)
       PROVE  \E k \in DOMAIN out' : out'[k].do = "label" /\ out'[k].identifier = text[d].identifier
  <2>1. CASE d \in 1 .. n - 1
    BY ONLY <1>7, <1>12, <1>16, <2>1
  <2>2. CASE d = n
    BY ONLY <1>6, <1>13, <1>16, <2>2
  <2> QED
    BY <1>10, <2>1, <2>2
<1>17. ASSUME NEW j \in DOMAIN out, NEW k \in 1 .. q,
              out[j].do = "label", lines[k].do = "label", out[j].identifier = lines[k].identifier
       PROVE  FALSE
  <2>1. PICK d \in 1 .. n - 1 : Emits(d) /\ out[j].identifier = text[d].identifier
    BY ONLY <1>12, <1>17
  <2>2. Emits(n) /\ lines[k].identifier = text[n].identifier
    BY ONLY <1>13, <1>17
  <2>3. text[d].identifier = text[n].identifier /\ d < n
    BY ONLY <1>10, <1>17, <2>1, <2>2
  <2> QED
    BY <2>1, <2>2, <2>3, OneEmits
<1>18. ASSUME NEW j \in DOMAIN out', NEW k \in DOMAIN out',
              out'[j].do = "label", out'[k].do = "label", out'[j].identifier = out'[k].identifier
       PROVE  j = k
  <2>1. CASE j \in DOMAIN out /\ out'[j] = out[j]
    <3>1. CASE k \in DOMAIN out /\ out'[k] = out[k]
      BY ONLY <1>12, <1>18, <2>1, <3>1
    <3>2. CASE k - m \in 1 .. q /\ out'[k] = lines[k - m]
      BY ONLY <1>17, <1>18, <2>1, <3>2
    <3> QED
      BY <1>9, <3>1, <3>2
  <2>2. CASE j - m \in 1 .. q /\ out'[j] = lines[j - m]
    <3>1. CASE k \in DOMAIN out /\ out'[k] = out[k]
      BY ONLY <1>17, <1>18, <2>2, <3>1
    <3>2. CASE k - m \in 1 .. q /\ out'[k] = lines[k - m]
      <4>1. j - m = k - m
        BY ONLY <1>13, <1>18, <2>2, <3>2
      <4>2. j \in Nat /\ k \in Nat
        BY ONLY <1>1, <1>3, <1>18
      <4> QED
        BY ONLY <1>1, <4>1, <4>2
    <3> QED
      BY <1>9, <3>1, <3>2
  <2> QED
    BY <1>9, <2>1, <2>2
<1>19. LabelsPrinted(n + 1)'
  BY ONLY <1>8, <1>14, <1>15, <1>16, <1>18 DEF LabelsPrinted
<1>20. /\ \A k \in DOMAIN out : out[k].do = "global" =>
            \E d \in 1 .. n - 1 : Emits(d) /\ Of(d).link = "external" /\ out[k].identifier = text[d].identifier
       /\ \A d \in 1 .. n - 1 : Emits(d) /\ Of(d).link = "external" =>
            \E k \in DOMAIN out : out[k].do = "global" /\ out[k].identifier = text[d].identifier
  BY <1>11 DEF GlobalsPrinted
<1>21. ASSUME NEW k \in DOMAIN out', out'[k].do = "global"
       PROVE  \E d \in 1 .. (n + 1) - 1 : Emits(d) /\ Of(d).link = "external" /\ out'[k].identifier = text[d].identifier
  <2>1. CASE k \in DOMAIN out /\ out'[k] = out[k]
    BY ONLY <1>10, <1>20, <1>21, <2>1
  <2>2. CASE k - m \in 1 .. q /\ out'[k] = lines[k - m]
    BY ONLY <1>10, <1>13, <1>21, <2>2
  <2> QED
    BY <1>9, <2>1, <2>2
<1>22. ASSUME NEW d \in 1 .. (n + 1) - 1, Emits(d), Of(d).link = "external"
       PROVE  \E k \in DOMAIN out' : out'[k].do = "global" /\ out'[k].identifier = text[d].identifier
  <2>1. CASE d \in 1 .. n - 1
    BY ONLY <1>7, <1>20, <1>22, <2>1
  <2>2. CASE d = n
    BY ONLY <1>6, <1>13, <1>22, <2>2
  <2> QED
    BY <1>10, <2>1, <2>2
<1>23. GlobalsPrinted(n + 1)'
  BY ONLY <1>8, <1>14, <1>21, <1>22 DEF GlobalsPrinted
<1>24. ASSUME NEW k \in DOMAIN out', out'[k].do = "use"
       PROVE  Operand(out'[k])
  <2>1. \A i \in DOMAIN out : out[i].do = "use" => Operand(out[i])
    BY <1>11 DEF UsesPrinted
  <2> QED
    BY ONLY <1>9, <1>13, <1>24, <2>1
<1>25. UsesPrinted'
  <2>1. Uses' = Uses
    BY KeepText
  <2>2. symbols' = symbols
    OBVIOUS
  <2> QED
    BY ONLY <1>14, <1>24, <2>1, <2>2 DEF UsesPrinted, Operand
<1> QED
  BY <1>19, <1>23, <1>25 DEF PrintedUpTo

LEMMA GenAdvance ==
  ASSUME IInv, phase = "gen", at <= Len(text), NEW n, n = at, NEW lines, IsSeq(lines), Emit(lines),
         \A k \in 1 .. Len(lines) :
           /\ lines[k].do = "label" => Emits(n) /\ lines[k].identifier = text[n].identifier /\ lines[k].what = What(n)
           /\ lines[k].do = "global" => Emits(n) /\ Of(n).link = "external" /\ lines[k].identifier = text[n].identifier
           /\ lines[k].do = "use" => Operand(lines[k]),
         Emits(n) => \E k \in 1 .. Len(lines) : lines[k].do = "label",
         Emits(n) /\ Of(n).link = "external" => \E k \in 1 .. Len(lines) : lines[k].do = "global",
         \A j, k \in 1 .. Len(lines) : lines[j].do = "label" /\ lines[k].do = "label" => j = k
  PROVE  IInv'
<1>1. /\ out' = out \o lines /\ at' = n + 1 /\ text' = text /\ symbols' = symbols
      /\ phase' = "gen" /\ stack_size' = stack_size
  BY DEF Emit, Advance
<1>2. Typed /\ Items /\ Checked(Len(text) + 1) /\ Placed(Len(text) + 1) /\ PrintedUpTo(n)
  BY DEF IInv
<1>3. n \in 1 .. Len(text) /\ n + 1 \in 1 .. Len(text) + 1
  <2>1. n \in 1 .. Len(text) + 1 /\ Len(text) \in Nat /\ n <= Len(text)
    BY <1>2 DEF Typed, IsSeq
  <2> QED
    BY ONLY <2>1
<1>4. Keeps
  BY <1>1, <1>2, SameKeeps
<1>5. IsSeq(out')
  BY <1>1, <1>2, ConcatSeq DEF Typed
<1>6. Typed'
  <2>1. at' \in 1 .. Len(text) + 1 /\ stack_size' \in Nat
    BY <1>1, <1>2, <1>3 DEF Typed
  <2> QED
    BY <1>1, <1>2, <1>4, <1>5, <2>1, TypedKeeps
<1>7. Items'
  BY <1>2, <1>4, KeepItems
<1>8. \A i : (Checked(i)' <=> Checked(i)) /\ (Placed(i)' <=> Placed(i))
  BY <1>1, Stays
<1>9. PICK N : N = Len(text) + 1
  OBVIOUS
<1>10. Checked(N)' /\ Placed(N)' /\ N = Len(text') + 1
  BY <1>1, <1>2, <1>8, <1>9
<1>11. PrintedUpTo(n + 1)'
  BY <1>1, <1>2, <1>3, PrintedNext
<1> QED
  BY ONLY <1>1, <1>6, <1>7, <1>10, <1>11 DEF IInv

LEMMA PrintedIs ==
  ASSUME NEW do, NEW x, NEW what, NEW p, p = Printed(do, x, what)
  PROVE  p.do = do /\ p.identifier = x /\ p.what = what
BY DEF Printed

LEMMA OneLine ==
  ASSUME NEW p
  PROVE  IsSeq(<<p>>) /\ Len(<<p>>) = 1 /\ <<p>>[1] = p
BY DEF IsSeq

(* What declares or defines is printed with its label. *)
LEMMA GenLabel ==
  ASSUME IInv, phase = "gen", at <= Len(text), NEW n, n = at, Emits(n), Emit(Named(Of(n), What(n)))
  PROVE  IInv'
<1> PICK lines, g, l : /\ lines = Named(Of(n), What(n)) /\ g = Printed("global", Of(n).identifier, "")
                       /\ l = Printed("label", Of(n).identifier, What(n))
  OBVIOUS
<1>0. IInv /\ phase = "gen" /\ at <= Len(text) /\ n = at /\ Emit(lines)
  OBVIOUS
<1>1. /\ g.do = "global" /\ g.identifier = Of(n).identifier
      /\ l.do = "label" /\ l.identifier = Of(n).identifier /\ l.what = What(n)
  BY DEF Printed
<1>2. Of(n).identifier = text[n].identifier
  <2>1. Items /\ n \in Declarations
    BY DEF IInv, Emits
  <2> QED
    BY <2>1 DEF Items, Declares
<1>3. lines = (IF Of(n).link = "external" THEN <<g>> ELSE << >>) \o <<l>>
  BY DEF Named
<1>4. CASE Of(n).link = "external"
  <2>1. lines = <<g>> \o <<l>>
    BY <1>3, <1>4
  <2>2. IsSeq(<<g>>) /\ Len(<<g>>) = 1 /\ <<g>>[1] = g /\ IsSeq(<<l>>) /\ Len(<<l>>) = 1 /\ <<l>>[1] = l
    BY OneLine
  <2>3. IsSeq(lines) /\ Len(lines) = 2 /\ lines[1] = g /\ lines[2] = l
    <3>1. PICK a, b : a = <<g>> /\ b = <<l>>
      OBVIOUS
    <3>2. IsSeq(a) /\ Len(a) = 1 /\ a[1] = g /\ IsSeq(b) /\ Len(b) = 1 /\ b[1] = l /\ lines = a \o b
      BY ONLY <2>1, <2>2, <3>1
    <3>3. /\ IsSeq(lines) /\ Len(lines) = Len(a) + Len(b)
          /\ \A k \in 1 .. Len(a) : lines[k] = a[k]
          /\ \A k \in Len(a) + 1 .. Len(a) + Len(b) : lines[k] = b[k - Len(a)]
      BY ONLY <3>2, ConcatSeq
    <3> QED
      BY ONLY <3>2, <3>3
  <2>4. \A k \in 1 .. Len(lines) : (k = 1 /\ lines[k] = g) \/ (k = 2 /\ lines[k] = l)
    BY ONLY <2>3
  <2>5. \A k \in 1 .. Len(lines) :
          /\ lines[k].do = "label" => Emits(n) /\ lines[k].identifier = text[n].identifier /\ lines[k].what = What(n)
          /\ lines[k].do = "global" => Emits(n) /\ Of(n).link = "external" /\ lines[k].identifier = text[n].identifier
          /\ lines[k].do = "use" => Operand(lines[k])
    <3>1. Emits(n)
      OBVIOUS
    <3> QED
      BY ONLY <1>1, <1>2, <1>4, <2>4, <3>1
  <2>6. (\E k \in 1 .. Len(lines) : lines[k].do = "label") /\ \E k \in 1 .. Len(lines) : lines[k].do = "global"
    BY ONLY <1>1, <2>3
  <2>7. \A j, k \in 1 .. Len(lines) : lines[j].do = "label" /\ lines[k].do = "label" => j = k
    BY ONLY <1>1, <2>4
  <2> QED
    <3>1. IsSeq(lines)
      BY ONLY <2>3
    <3>2. Emits(n) => \E k \in 1 .. Len(lines) : lines[k].do = "label"
      BY ONLY <2>6
    <3>3. Emits(n) /\ Of(n).link = "external" => \E k \in 1 .. Len(lines) : lines[k].do = "global"
      BY ONLY <2>6
    <3> QED
      BY ONLY <1>0, <2>5, <2>7, <3>1, <3>2, <3>3, GenAdvance
<1>5. CASE Of(n).link # "external"
  <2>1. lines = << >> \o <<l>>
    BY <1>3, <1>5
  <2>2. IsSeq(<<l>>) /\ Len(<<l>>) = 1 /\ <<l>>[1] = l
    BY OneLine
  <2>3. IsSeq(lines) /\ Len(lines) = 1 /\ lines[1] = l
    <3>1. PICK a, b : a = << >> /\ b = <<l>>
      OBVIOUS
    <3>2. IsSeq(a) /\ Len(a) = 0
      BY ONLY <3>1 DEF IsSeq
    <3>3. IsSeq(b) /\ Len(b) = 1 /\ b[1] = l /\ lines = a \o b
      BY ONLY <2>1, <2>2, <3>1
    <3>4. /\ IsSeq(lines) /\ Len(lines) = Len(a) + Len(b)
          /\ \A k \in Len(a) + 1 .. Len(a) + Len(b) : lines[k] = b[k - Len(a)]
      BY ONLY <3>2, <3>3, ConcatSeq
    <3> QED
      BY ONLY <3>2, <3>3, <3>4
  <2>5. \A k \in 1 .. Len(lines) : k = 1 /\ lines[k] = l
    BY ONLY <2>3
  <2>6. \A k \in 1 .. Len(lines) :
          /\ lines[k].do = "label" => Emits(n) /\ lines[k].identifier = text[n].identifier /\ lines[k].what = What(n)
          /\ lines[k].do = "global" => Emits(n) /\ Of(n).link = "external" /\ lines[k].identifier = text[n].identifier
          /\ lines[k].do = "use" => Operand(lines[k])
    <3>1. Emits(n)
      OBVIOUS
    <3> QED
      BY ONLY <1>1, <1>2, <2>5, <3>1
  <2>7. (\E k \in 1 .. Len(lines) : lines[k].do = "label")
    BY ONLY <1>1, <2>3
  <2>8. \A j, k \in 1 .. Len(lines) : lines[j].do = "label" /\ lines[k].do = "label" => j = k
    BY ONLY <2>5
  <2> QED
    BY ONLY <1>0, <1>5, <2>3, <2>6, <2>7, <2>8, GenAdvance
<1> QED
  BY <1>4, <1>5

LEMMA GenNothing ==
  ASSUME IInv, phase = "gen", at <= Len(text), NEW n, n = at, ~Emits(n), Emit(<< >>)
  PROVE  IInv'
<1>1. PICK lines : lines = << >>
  OBVIOUS
<1>2. IsSeq(lines) /\ Len(lines) = 0
  BY ONLY <1>1 DEF IsSeq
<1>3. \A k \in 1 .. Len(lines) : FALSE
  BY ONLY <1>2
<1> QED
  BY <1>1, <1>2, <1>3, GenAdvance

LEMMA GenOperand ==
  ASSUME IInv, phase = "gen", at <= Len(text), NEW n, n = at, n \notin Declarations,
         NEW p, p.do = "use", Operand(p), Emit(<<p>>)
  PROVE  IInv'
<1>1. PICK lines : lines = <<p>>
  OBVIOUS
<1>2. IsSeq(lines) /\ Len(lines) = 1 /\ lines[1] = p
  BY ONLY <1>1, OneLine
<1>3. \A k \in 1 .. Len(lines) : k = 1 /\ lines[k] = p
  BY ONLY <1>2
<1>4. ~Emits(n) /\ p.do = "use" /\ Operand(p)
  BY DEF Emits
<1>5. \A k \in 1 .. Len(lines) :
        /\ lines[k].do = "label" => Emits(n) /\ lines[k].identifier = text[n].identifier /\ lines[k].what = What(n)
        /\ lines[k].do = "global" => Emits(n) /\ Of(n).link = "external" /\ lines[k].identifier = text[n].identifier
        /\ lines[k].do = "use" => Operand(lines[k])
  BY ONLY <1>3, <1>4
<1>6. \A j, k \in 1 .. Len(lines) : lines[j].do = "label" /\ lines[k].do = "label" => j = k
  BY ONLY <1>3
<1> QED
  BY <1>1, <1>2, <1>4, <1>5, <1>6, GenAdvance

LEMMA GenAt ==
  ASSUME IInv, NEW do, At(do, "gen"), NEW n, n = at
  PROVE  /\ Typed /\ Items /\ n \in 1 .. Len(text) /\ at <= Len(text) /\ phase = "gen" /\ Checked(Len(text) + 1) /\ text[n].do \in do
         /\ n \in Declarations <=> text[n].do \in Declaring
         /\ n \in Uses <=> text[n].do \in {"use", "call"}
<1>1. Typed /\ Items /\ Checked(Len(text) + 1) /\ phase = "gen" /\ at <= Len(text) /\ text[n].do \in do
  BY DEF IInv, At
<1>2. n \in 1 .. Len(text)
  <2>1. n \in 1 .. Len(text) + 1 /\ Len(text) \in Nat /\ n <= Len(text)
    BY <1>1 DEF Typed, IsSeq
  <2> QED
    BY ONLY <2>1
<1>3. n \in Declarations <=> text[n].do \in Declaring
  BY <1>1, <1>2, DeclarationsAre
<1>4. n \in Uses <=> text[n].do \in {"use", "call"}
  BY <1>1, <1>2, DeclarationsAre
<1> QED
  BY <1>1, <1>2, <1>3, <1>4

LEMMA GenDeclStep ==
  ASSUME IInv, gen_decl
  PROVE  IInv'
<1> PICK n, s : n = at /\ s = Of(n)
  OBVIOUS
<1>1. /\ At({"declare", "param"}, "gen")
      /\ Emit(IF s.global /\ s.definition THEN Named(s, IF s.init THEN "value" ELSE "zero") ELSE << >>)
  BY DEF gen_decl, Of
<1>2. /\ Typed /\ Items /\ n \in 1 .. Len(text) /\ at <= Len(text) /\ phase = "gen" /\ Checked(Len(text) + 1)
      /\ text[n].do \in {"declare", "param"}
      /\ n \in Declarations <=> text[n].do \in Declaring
  BY <1>1, GenAt
<1>3. n \in Declarations /\ text[n].do # "define"
  BY ONLY <1>2 DEF Declaring
<1>4. s.global = (Level[n] = 1) /\ s.definition = Defining(n)
  <2>1. n < Len(text) + 1
    BY <1>2 DEF Typed, IsSeq
  <2> QED
    BY <1>2, <1>3, <2>1 DEF Items, Declares, Checked
<1>5. s.global /\ s.definition <=> Emits(n)
  BY <1>3, <1>4 DEF Emits
<1>6. CASE s.global /\ s.definition
  <2>1. Emit(Named(Of(n), What(n)))
    BY <1>1, <1>3, <1>6 DEF What
  <2> QED
    BY <1>2, <1>5, <1>6, <2>1, GenLabel
<1>7. CASE ~(s.global /\ s.definition)
  <2>1. Emit(<< >>)
    BY <1>1, <1>7
  <2> QED
    BY <1>2, <1>5, <1>7, <2>1, GenNothing
<1> QED
  BY <1>6, <1>7

LEMMA GenFuncStep ==
  ASSUME IInv, gen_func
  PROVE  IInv'
<1> PICK n : n = at
  OBVIOUS
<1>1. At({"define"}, "gen") /\ Emit(Named(Of(n), "code"))
  BY DEF gen_func, Of
<1>2. /\ Typed /\ Items /\ n \in 1 .. Len(text) /\ at <= Len(text) /\ phase = "gen"
      /\ text[n].do \in {"define"}
      /\ n \in Declarations <=> text[n].do \in Declaring
  BY <1>1, GenAt
<1>3. n \in Declarations /\ text[n].do = "define"
  BY ONLY <1>2 DEF Declaring
<1>4. Level[n] = 1
  BY <1>2, <1>3 DEF Items, Declares
<1>5. Emits(n) /\ What(n) = "code"
  BY <1>3, <1>4 DEF Emits, Defining, What
<1> QED
  BY <1>1, <1>2, <1>5, GenLabel

LEMMA GenUseStep ==
  ASSUME IInv, gen_address \/ gen_identifier \/ gen_call \/ gen_block
  PROVE  IInv'
<1> PICK n, s : n = at /\ s = symbols[text[n].symbol]
  OBVIOUS
<1>1. CASE gen_address \/ (gen_identifier /\ s.kind # "function")
  <2>0. At({"use"}, "gen") /\ Emit(gen_lvalue(s))
    <3>1. CASE gen_address
      BY <3>1 DEF gen_address
    <3>2. CASE gen_identifier /\ s.kind # "function"
      BY <3>2 DEF gen_identifier, gen_load, Emit
    <3> QED
      BY <1>1, <3>1, <3>2
  <2>1. /\ At({"use"}, "gen")
        /\ Emit(<<Printed("use", IF s.link = "none" THEN "" ELSE s.identifier, [item |-> n, offset |-> s.offset])>>)
    BY <2>0 DEF gen_lvalue
  <2>2. /\ n \in 1 .. Len(text) /\ at <= Len(text) /\ phase = "gen"
        /\ text[n].do \in {"use"}
        /\ n \in Declarations <=> text[n].do \in Declaring
        /\ n \in Uses <=> text[n].do \in {"use", "call"}
    BY <2>1, GenAt
  <2>3. n \notin Declarations /\ n \in Uses /\ text[n].do = "use"
    BY ONLY <2>2 DEF Declaring
  <2>4. PICK what, x, p : /\ what = [item |-> n, offset |-> s.offset] /\ x = (IF s.link = "none" THEN "" ELSE s.identifier)
                          /\ p = Printed("use", x, what)
    OBVIOUS
  <2>5. p.do = "use" /\ p.identifier = x /\ p.what = what /\ what.item = n /\ what.offset = s.offset
    <3>1. what.item = n /\ what.offset = s.offset
      BY ONLY <2>4
    <3>2. p = Printed("use", x, what)
      BY ONLY <2>4
    <3>3. p.do = "use" /\ p.identifier = x /\ p.what = what
      BY ONLY <3>2 DEF Printed
    <3> QED
      BY ONLY <3>1, <3>3
  <2>6. Operand(p)
    <3>1. p.what.item = n /\ p.what.offset = s.offset /\ s = symbols[text[n].symbol]
      BY ONLY <2>5, s = symbols[text[n].symbol]
    <3>2. p.identifier = IF s.link = "none" THEN "" ELSE s.identifier
      BY ONLY <2>4, <2>5
    <3>3. text[n].do # "call"
      BY ONLY <2>3
    <3> QED
      BY ONLY <2>3, <3>1, <3>2, <3>3 DEF Operand
  <2>7. Emit(<<p>>)
    BY <2>1, <2>4
  <2> QED
    BY <2>2, <2>3, <2>5, <2>6, <2>7, GenOperand
<1>2. CASE gen_call
  <2>1. /\ At({"call"}, "gen")
        /\ Emit(<<Printed("use", text[n].identifier, [item |-> n, offset |-> 0])>>)
    BY <1>2 DEF gen_call
  <2>2. /\ n \in 1 .. Len(text) /\ at <= Len(text) /\ phase = "gen"
        /\ text[n].do \in {"call"}
        /\ n \in Declarations <=> text[n].do \in Declaring
        /\ n \in Uses <=> text[n].do \in {"use", "call"}
    BY <2>1, GenAt
  <2>3. n \notin Declarations /\ n \in Uses /\ text[n].do = "call"
    BY ONLY <2>2 DEF Declaring
  <2>4. PICK what, x, p : what = [item |-> n, offset |-> 0] /\ x = text[n].identifier /\ p = Printed("use", x, what)
    OBVIOUS
  <2>5. p.do = "use" /\ p.identifier = x /\ p.what = what /\ what.item = n
    BY ONLY <2>4, PrintedIs
  <2>6. Operand(p)
    <3>1. p.what.item = n /\ p.identifier = text[n].identifier
      BY ONLY <2>4, <2>5
    <3>2. text[n].do # "use"
      BY ONLY <2>3
    <3> QED
      BY ONLY <2>3, <3>1, <3>2 DEF Operand
  <2>7. Emit(<<p>>)
    BY <2>1, <2>4
  <2> QED
    BY <2>2, <2>3, <2>5, <2>6, <2>7, GenOperand
<1>3. CASE gen_block
  <2>1. At({"begin", "end"}, "gen") /\ Emit(<< >>)
    BY <1>3 DEF gen_block
  <2>2. /\ at <= Len(text) /\ phase = "gen" /\ text[n].do \in {"begin", "end"}
        /\ n \in Declarations <=> text[n].do \in Declaring
    BY <2>1, GenAt
  <2>3. n \notin Declarations
    BY ONLY <2>2 DEF Declaring
  <2>4. ~Emits(n)
    BY <2>3 DEF Emits
  <2> QED
    BY <2>1, <2>2, <2>4, GenNothing
<1>4. CASE gen_identifier /\ s.kind = "function"
  <2>1. /\ At({"use"}, "gen") /\ out' = out \o gen_lvalue(s)
        /\ phase' = "assertion" /\ Advance /\ symbols' = symbols /\ stack_size' = stack_size
    BY <1>4 DEF gen_identifier, gen_load
  <2>2. /\ Typed /\ n \in 1 .. Len(text) /\ at <= Len(text) /\ Checked(Len(text) + 1) /\ text[n].do \in {"use"}
        /\ n \in Uses <=> text[n].do \in {"use", "call"}
    BY <2>1, GenAt
  <2>3. n \in Uses /\ text[n].do = "use"
    BY ONLY <2>2
  <2>4. text[n].symbol # 0
    <3>1. n < Len(text) + 1
      BY ONLY <2>2 DEF Typed, IsSeq
    <3> QED
      BY ONLY <2>2, <2>3, <3>1 DEF Checked
  <2>5. Loads
    BY <1>4, <2>3, <2>4 DEF Loads
  <2>6. IsSeq(out')
    <3>1. IsSeq(gen_lvalue(s))
      BY OneLine DEF gen_lvalue
    <3>2. IsSeq(out)
      BY <2>2 DEF Typed
    <3> QED
      BY ONLY <2>1, <3>1, <3>2, ConcatSeq
  <2>7. stack_size' \in Nat
    BY <2>1, <2>2 DEF Typed
  <2> QED
    BY <2>1, <2>2, <2>5, <2>6, <2>7, Stops
<1> QED
  BY <1>1, <1>2, <1>3, <1>4

(* From one phase to the next. *)
LEMMA PhaseStep ==
  ASSUME IInv, translation_unit \/ sema \/ gen
  PROVE  IInv'
<1> PICK N : N = Len(text) + 1
  OBVIOUS
<1>1. /\ text' = text /\ symbols' = symbols /\ out' = out /\ stack_size' = stack_size
      /\ Typed /\ Items
  BY DEF translation_unit, sema, gen, IInv
<1>2. Keeps
  BY <1>1, SameKeeps
<1>3. N \in 1 .. N /\ 1 \in 1 .. N /\ N \in Nat /\ at \in 1 .. N
  BY <1>1 DEF Typed, IsSeq
<1>4. at' \in 1 .. N /\ phase' \in {"sema", "gen", "done"}
  BY <1>3 DEF translation_unit, sema, gen
<1>5. Typed'
  <2>1. stack_size' \in Nat /\ IsSeq(out')
    BY <1>1 DEF Typed
  <2> QED
    BY <1>1, <1>2, <1>4, <2>1, TypedKeeps
<1>6. Items'
  BY <1>1, <1>2, KeepItems
<1>7. \A i : (Checked(i)' <=> Checked(i)) /\ (Placed(i)' <=> Placed(i))
  BY <1>1, Stays
<1>8. N = Len(text') + 1
  BY <1>1
<1>9. \A d \in Declarations \cup Uses : d \in Nat \ {0}
  BY <1>1, DeclarationsAre
<1>10. CASE translation_unit
  <2>1. phase' = "sema" /\ at' = 1 /\ out' = << >>
    BY <1>1, <1>10 DEF translation_unit, IInv
  <2>2. \A d \in Declarations \cup Uses : ~(d < 1)
    BY ONLY <1>9
  <2>3. \A d, e \in Declarations : ~(d < e /\ e < 1)
    BY ONLY <1>9
  <2>4. Checked(1)
    BY ONLY <2>2 DEF Checked
  <2>5. Placed(1)
    BY ONLY <2>2, <2>3 DEF Placed
  <2>6. Declarations' = Declarations
    BY <1>1, KeepText
  <2>7. Highest(1)'
    BY ONLY <2>2, <2>6 DEF Highest
  <2>8. Checked(1)' /\ Placed(1)'
    BY <1>7, <2>4, <2>5
  <2> QED
    BY ONLY <1>5, <1>6, <2>1, <2>7, <2>8 DEF IInv
<1>11. CASE sema
  <2>1. /\ phase' = "gen" /\ at' = 1 /\ at > Len(text) /\ out' = << >>
        /\ Checked(at) /\ Placed(at)
    BY <1>11 DEF sema, IInv
  <2>2. at = N
    <3>1. at > Len(text) /\ N = Len(text) + 1 /\ Len(text) \in Nat /\ at \in 1 .. N
      BY <1>1, <1>3, <2>1 DEF Typed, IsSeq
    <3> QED
      BY ONLY <3>1
  <2>3. Checked(N)' /\ Placed(N)'
    BY <1>7, <2>1, <2>2
  <2>4. \A d : ~(d \in 1 .. 1 - 1)
    OBVIOUS
  <2>5. out' = << >> /\ DOMAIN out' = {}
    BY <2>1
  <2>6. PrintedUpTo(1)'
    BY ONLY <2>4, <2>5 DEF PrintedUpTo, LabelsPrinted, GlobalsPrinted, UsesPrinted
  <2> QED
    BY ONLY <1>5, <1>6, <1>8, <2>1, <2>3, <2>6 DEF IInv
<1>12. CASE gen
  <2>1. /\ phase' = "done" /\ at > Len(text) /\ UNCHANGED <<text, symbols, out>>
        /\ Checked(N) /\ Placed(N) /\ PrintedUpTo(at)
    BY <1>12 DEF gen, IInv
  <2>2. at = N
    <3>1. at > Len(text) /\ N = Len(text) + 1 /\ Len(text) \in Nat /\ at \in 1 .. N
      BY <1>1, <1>3, <2>1 DEF Typed, IsSeq
    <3> QED
      BY ONLY <3>1
  <2>3. Checked(N)' /\ Placed(N)'
    BY <1>7, <2>1
  <2>4. PrintedUpTo(N)
    BY <2>1, <2>2
  <2>5. /\ \A d : (Emits(d)' <=> Emits(d)) /\ What(d)' = What(d) /\ Of(d)' = Of(d)
        /\ Uses' = Uses
    BY <1>1, Stays, KeepText
  <2>6. PrintedUpTo(N)'
    <3>1. text' = text /\ symbols' = symbols /\ out' = out
      BY ONLY <1>1
    <3>2. LabelsPrinted(N) /\ GlobalsPrinted(N) /\ UsesPrinted
      BY ONLY <2>4 DEF PrintedUpTo
    <3>3. LabelsPrinted(N)'
      BY ONLY <2>5, <3>1, <3>2 DEF LabelsPrinted
    <3>4. GlobalsPrinted(N)'
      BY ONLY <2>5, <3>1, <3>2 DEF GlobalsPrinted
    <3>5. UsesPrinted'
      BY ONLY <2>5, <3>1, <3>2 DEF UsesPrinted, Operand
    <3> QED
      BY ONLY <3>3, <3>4, <3>5 DEF PrintedUpTo
  <2> QED
    BY ONLY <1>5, <1>6, <1>8, <2>1, <2>3, <2>6 DEF IInv
<1> QED
  BY <1>10, <1>11, <1>12

LEMMA InitHolds == Init => IInv
<1> SUFFICES ASSUME Init
             PROVE  IInv
  OBVIOUS
<1>1. /\ phase = "parse" /\ text = << >> /\ at = 1 /\ symbols = << >> /\ symbol_scopes = << << >> >>
      /\ stack_size = 0 /\ out = << >>
  BY DEF Init
<1>2. Len(text) = 0 /\ IsSeq(text) /\ DOMAIN text = {}
  BY ONLY <1>1 DEF IsSeq
<1>3. Level[1] = 1
  BY <1>2, LevelIs DEF Levels
<1>4. \A i \in 1 .. Len(text) + 1 : i = 1
  BY ONLY <1>2
<1>5. IsSeq(symbols) /\ IsSeq(out) /\ DOMAIN symbols = {} /\ 1 \in 1 .. Len(text) + 1
  BY ONLY <1>1, <1>2 DEF IsSeq
<1>6. Typed
  BY ONLY <1>1, <1>2, <1>3, <1>4, <1>5 DEF Typed
<1>7. Declarations = {} /\ Uses = {}
  BY ONLY <1>2 DEF Declarations, Uses
<1>8. Items
  BY ONLY <1>2, <1>7 DEF Items
<1>9. Scopes
  <2>1. PICK e : e = << >>
    OBVIOUS
  <2>2. IsSeq(symbol_scopes) /\ Len(symbol_scopes) = 1 /\ symbol_scopes[1] = << >>
    BY ONLY <1>1, <2>1, OneLine
  <2>3. \A k \in DOMAIN symbol_scopes : DOMAIN symbol_scopes[k] = {}
    BY ONLY <1>1
  <2>4. Len(text) + 1 = 1
    BY <1>2
  <2> QED
    BY ONLY <1>3, <1>7, <2>2, <2>3, <2>4 DEF Scopes
<1> QED
  BY ONLY <1>1, <1>6, <1>8, <1>9 DEF IInv

LEMMA NextHolds ==
  ASSUME IInv, input \in Inputs, [Next]_vars
  PROVE  IInv' /\ input' \in Inputs
<1>0. SUFFICES IInv' /\ input' = input
  OBVIOUS
<1>1. input' = input
  BY DEF Next, vars, declaration, function_definition, parameter_declaration, block_begin, block_end, primary_expression,
         translation_unit, sema_decl, sema_func, sema_identifier, sema_call, sema_block, sema, gen_decl, gen_func, gen_address,
         gen_identifier, gen_call, gen_block, gen, Parsed, Advance, Emit
<1> SUFFICES IInv'
  BY <1>1
<1>2. CASE declaration
  BY <1>2, DeclarationStep
<1>3. CASE function_definition
  BY <1>3, FunctionStep
<1>4. CASE parameter_declaration
  BY <1>4, ParameterStep
<1>5. CASE block_begin \/ block_end
  BY <1>5, BlockStep
<1>6. CASE primary_expression
  BY <1>6, PrimaryStep
<1>7. CASE sema_decl
  BY <1>7, DeclStep
<1>8. CASE sema_func
  BY <1>8, FuncStep
<1>9. CASE sema_identifier \/ sema_call \/ sema_block
  BY <1>9, UseStep
<1>10. CASE gen_decl
  BY <1>10, GenDeclStep
<1>11. CASE gen_func
  BY <1>11, GenFuncStep
<1>12. CASE gen_address \/ gen_identifier \/ gen_call \/ gen_block
  BY <1>12, GenUseStep
<1>13. CASE translation_unit \/ sema \/ gen
  BY <1>13, PhaseStep
<1>14. CASE UNCHANGED vars
  <2>1. UNCHANGED <<phase, text, at, symbols, symbol_scopes, stack_size, out>>
    BY <1>14 DEF vars
  <2> PICK N, n : N = Len(text) + 1 /\ n = at
    OBVIOUS
  <2>2. Typed /\ Items
    BY DEF IInv
  <2>3. Keeps /\ \A d : Of(d)' = Of(d)
    BY <2>1, <2>2, SameKeeps
  <2>4. Typed'
    BY <2>1, <2>2, <2>3, TypedKeeps DEF Typed
  <2>5. Items'
    BY <2>2, <2>3, KeepItems
  <2>6. /\ \A i : (Checked(i)' <=> Checked(i)) /\ (Placed(i)' <=> Placed(i))
        /\ \A d : (Emits(d)' <=> Emits(d)) /\ What(d)' = What(d)
    BY <2>1, Stays
  <2>7. /\ Declarations' = Declarations /\ Uses' = Uses /\ Level' = Level
        /\ \A d, i : Open(d, i)' <=> Open(d, i)
        /\ \A d, e : Again(d, e)' <=> Again(d, e)
    BY <2>1, KeepText
  <2>8. Scopes' <=> Scopes
    BY ONLY <2>1, <2>7 DEF Scopes
  <2>9. Highest(n)' <=> Highest(n)
    BY ONLY <2>1, <2>3, <2>7 DEF Highest, Local, NoFunction
  <2>10. \A i : PrintedUpTo(i)' <=> PrintedUpTo(i)
    <3>1. \A i : LabelsPrinted(i)' <=> LabelsPrinted(i)
      BY ONLY <2>1, <2>6 DEF LabelsPrinted
    <3>2. \A i : GlobalsPrinted(i)' <=> GlobalsPrinted(i)
      BY ONLY <2>1, <2>3, <2>6 DEF GlobalsPrinted
    <3>3. UsesPrinted' <=> UsesPrinted
      BY ONLY <2>1, <2>7 DEF UsesPrinted, Operand
    <3> QED
      BY ONLY <3>1, <3>2, <3>3 DEF PrintedUpTo
  <2>11. Stopped' <=> Stopped
    BY ONLY <2>1, <2>3, <2>7 DEF Stopped, Defining
  <2>12. (CallsObject' <=> CallsObject) /\ (Loads' <=> Loads)
    BY ONLY <2>1, <2>7 DEF CallsObject, Loads
  <2>13. /\ phase = "parse" => Scopes /\ at = 1 /\ out = << >>
         /\ phase = "sema" => Checked(n) /\ Placed(n) /\ Highest(n) /\ out = << >>
         /\ phase = "gen" => Checked(N) /\ Placed(N) /\ PrintedUpTo(n)
         /\ phase = "done" => Checked(N) /\ Placed(N) /\ PrintedUpTo(N)
         /\ phase = "error" => Stopped
         /\ phase = "crash" => CallsObject
         /\ phase = "assertion" => Loads
    BY DEF IInv
  <2>14. /\ phase' = "parse" => Scopes' /\ at' = 1 /\ out' = << >>
         /\ phase' = "sema" => Checked(n)' /\ Placed(n)' /\ Highest(n)' /\ out' = << >>
         /\ phase' = "gen" => Checked(N)' /\ Placed(N)' /\ PrintedUpTo(n)'
         /\ phase' = "done" => Checked(N)' /\ Placed(N)' /\ PrintedUpTo(N)'
         /\ phase' = "error" => Stopped'
         /\ phase' = "crash" => CallsObject'
         /\ phase' = "assertion" => Loads'
    BY ONLY <2>1, <2>6, <2>8, <2>9, <2>10, <2>11, <2>12, <2>13
  <2>15. n = at' /\ N = Len(text') + 1
    BY <2>1
  <2> QED
    BY ONLY <2>4, <2>5, <2>14, <2>15 DEF IInv
<1> QED
  BY <1>2, <1>3, <1>4, <1>5, <1>6, <1>7, <1>8, <1>9, <1>10, <1>11, <1>12, <1>13, <1>14 DEF Next

LEMMA Invariant == Spec => []IInv
<1>1. Init => IInv /\ input \in Inputs
  BY InitHolds DEF Init
<1>2. IInv /\ input \in Inputs /\ [Next]_vars => (IInv /\ input \in Inputs)'
  BY NextHolds
<1> QED
  BY <1>1, <1>2, PTL DEF Spec

-----------------------------------------------------------------------------
(* What LinkageC makes of the text. *)
LEMMA SeenIs ==
  ASSUME Typed, NEW x, NEW i \in 1 .. Len(text), NEW d, d = Seen(Level, x, i)
  PROVE  \/ d = 0 /\ \A e \in Declarations : text[e].identifier = x => ~Open(e, i)
         \/ InSight(d, i) /\ text[d].identifier = x /\ d \in 1 .. i - 1
<1> PICK L, n : L = Level /\ n = Len(text)
  OBVIOUS
<1> DEFINE open == {e \in Declarations : text[e].identifier = x /\ Open(e, i)}
           innermost == {e \in open : \A o \in open : L[o] <= L[e]}
<1>1. n \in Nat /\ i \in 1 .. n /\ i \in 1 .. n + 1
  BY DeclarationsAre
<1>2. L[i] \in Nat
  BY <1>1 DEF Typed
<1>3. ASSUME NEW e \in open
      PROVE  L[e] \in 1 .. L[i] /\ e \in 1 .. n /\ e < i
  <2>1. e \in Declarations /\ Open(e, i)
    OBVIOUS
  <2>2. L[e] \in 1 .. L[i] /\ e \in 1 .. n
    BY <1>1, <2>1, OpenLevel
  <2> QED
    BY <2>1, <2>2 DEF Open
<1>4. {e \in Declarations : /\ e < i /\ text[e].identifier = x
                            /\ \A k \in e + 1 .. i : Level[k] >= Level[e]} = open
  BY DEF Open
<1>5. d = IF open = {} THEN 0 ELSE Later(innermost)
  BY <1>4 DEF Seen
<1>6. CASE open = {}
  BY <1>5, <1>6
<1>7. CASE open # {}
  <2>1. PICK h \in {L[e] : e \in open} : \A k \in {L[e] : e \in open} : k <= h
    <3>1. {L[e] : e \in open} \in SUBSET (0 .. L[i])
      <4> HIDE DEF open
      <4> QED
        BY <1>2, <1>3
    <3>2. {L[e] : e \in open} # {}
      BY <1>7
    <3> HIDE DEF open
    <3> QED
      BY <1>2, <3>1, <3>2, Greatest
  <2>2. innermost # {} /\ innermost \in SUBSET (0 .. n)
    <3>1. PICK e \in open : L[e] = h
      BY <2>1
    <3>2. \A o \in open : L[o] <= L[e]
      BY <2>1, <3>1
    <3>3. innermost \in SUBSET (0 .. n)
      <4>1. \A o \in open : o \in 0 .. n
        <5> HIDE DEF open
        <5> QED
          BY <1>1, <1>3
      <4> QED
        BY <4>1
    <3> QED
      BY <3>1, <3>2, <3>3
  <2>3. PICK l \in innermost : \A k \in innermost : k <= l
    <3> HIDE DEF innermost
    <3> QED
      BY <1>1, <2>2, Greatest
  <2>4. ASSUME NEW k \in innermost, \A o \in innermost : o <= k
        PROVE  k = l
    <3> HIDE DEF innermost
    <3>1. k <= l /\ l <= k /\ k \in Nat /\ l \in Nat
      BY <1>1, <2>2, <2>3, <2>4
    <3> QED
      BY ONLY <3>1
  <2>5. d = l
    <3>1. d = Later(innermost)
      BY <1>5, <1>7
    <3>2. l = CHOOSE k \in innermost : \A o \in innermost : o <= k
      <4> HIDE DEF innermost
      <4> QED
        BY <2>3, <2>4
    <3> HIDE DEF innermost
    <3> QED
      BY <3>1, <3>2 DEF Later
  <2>6. d \in Declarations /\ Open(d, i) /\ text[d].identifier = x /\ d \in open
    BY <2>3, <2>5
  <2>7. ASSUME NEW e \in Declarations, text[e].identifier = text[d].identifier, Open(e, i)
        PROVE  L[e] <= L[d] /\ (L[e] = L[d] => e <= d)
    <3>1. e \in open
      BY <2>6, <2>7
    <3>2. \A o \in open : L[o] <= L[d]
      BY <2>3, <2>5
    <3>3. L[e] = L[d] => e \in innermost
      BY <3>1, <3>2
    <3> HIDE DEF open, innermost
    <3> QED
      BY <2>3, <2>5, <3>1, <3>2, <3>3
  <2>8. InSight(d, i)
    BY <2>6, <2>7 DEF InSight
  <2>9. d \in 1 .. i - 1
    <3>1. d \in 1 .. n /\ d < i
      <4> HIDE DEF open
      <4> QED
        BY <1>3, <2>6
    <3> QED
      BY ONLY <1>1, <3>1
  <2> QED
    BY <2>6, <2>8, <2>9
<1> QED
  BY <1>6, <1>7

LEMMA OneInSight ==
  ASSUME Typed, NEW i, NEW d, NEW e, InSight(d, i), InSight(e, i), text[d].identifier = text[e].identifier
  PROVE  d = e
<1>1. d \in Declarations /\ e \in Declarations /\ Open(d, i) /\ Open(e, i)
  BY DEF InSight
<1>2. d \in 1 .. Len(text) /\ e \in 1 .. Len(text) /\ Len(text) \in Nat
  BY <1>1, DeclarationsAre
<1>3. d \in 1 .. Len(text) + 1 /\ e \in 1 .. Len(text) + 1
  BY ONLY <1>2
<1>4. Level[d] \in Nat /\ Level[e] \in Nat
  BY <1>3 DEF Typed
<1>5. /\ Level[e] <= Level[d] /\ (Level[e] = Level[d] => e <= d)
      /\ Level[d] <= Level[e] /\ (Level[d] = Level[e] => d <= e)
  BY <1>1 DEF InSight
<1> QED
  BY ONLY <1>2, <1>4, <1>5

(* A use has the symbol of the declaration C sees there. *)
LEMMA UseIs ==
  ASSUME Typed, Items, NEW i \in Uses, NEW d, d = Seen(Level, text[i].identifier, i)
  PROVE  /\ text[i].symbol = 0 <=> d = 0
         /\ d # 0 => /\ InSight(d, i) /\ d \in Declarations /\ text[d].identifier = text[i].identifier
                     /\ symbols[text[i].symbol] = Of(d)
<1>1. i \in 1 .. Len(text) /\ \A e \in Declarations : e # 0
  BY DeclarationsAre
<1>2. \/ d = 0 /\ \A e \in Declarations : text[e].identifier = text[i].identifier => ~Open(e, i)
      \/ InSight(d, i) /\ text[d].identifier = text[i].identifier /\ d \in 1 .. i - 1
  BY <1>1, SeenIs
<1>3. Finds(i)
  BY DEF Items
<1>4. CASE text[i].symbol = 0
  <2>1. \A e \in Declarations : text[e].identifier = text[i].identifier => ~Open(e, i)
    BY <1>3, <1>4 DEF Finds
  <2>2. ~(InSight(d, i) /\ text[d].identifier = text[i].identifier)
    BY <2>1 DEF InSight
  <2> QED
    BY <1>2, <1>4, <2>2
<1>5. CASE text[i].symbol # 0
  <2>1. PICK e \in Declarations : text[e].identifier = text[i].identifier /\ InSight(e, i) /\ text[i].symbol = text[e].symbol
    BY <1>3, <1>5 DEF Finds
  <2>2. InSight(d, i) /\ text[d].identifier = text[i].identifier
    BY <1>2, <2>1 DEF InSight
  <2>3. d = e
    BY <2>1, <2>2, OneInSight
  <2> QED
    BY <1>1, <1>5, <2>1, <2>3 DEF Of
<1> QED
  BY <1>4, <1>5

(* Linkages, unfolded. *)
Prior(d) == Seen(Level, Of(d).identifier, d)

AsPrior(L, d) == IF Prior(d) = 0 \/ L[Prior(d)] = "none" THEN "external" ELSE L[Prior(d)]

LinkageOf(L, d) ==
  IF d \notin Declarations THEN "none"
  ELSE CASE Of(d).storage = "static"                           -> IF Level[d] = 1 THEN "internal" ELSE "none"
         [] Of(d).storage = "extern"                           -> AsPrior(L, d)
         [] Of(d).storage = "" /\ Of(d).kind = "function"      -> AsPrior(L, d)
         [] Of(d).storage = "" /\ Of(d).kind = "object"        -> IF Level[d] = 1 THEN "external" ELSE "none"

LEMMA LinkagesAre ==
  ASSUME Typed, NEW K, K = Linkages(Level)
  PROVE  K = [d \in 1 .. Len(text) |-> LinkageOf(K, d)]
<1> PICK N : N = Len(text)
  OBVIOUS
<1>1. N \in Nat /\ DOMAIN text = 1 .. N
  BY DeclarationsAre
<1> DEFINE Upto(n) == \E g : g = [d \in 1 .. n |-> LinkageOf(g, d)]
           T == {n \in 0 .. N : ~Upto(n)}
<1>2. ASSUME NEW d \in 1 .. N
      PROVE  Prior(d) = 0 \/ Prior(d) \in 1 .. d - 1
  BY <1>2, SeenIs DEF Prior
<1>3. ASSUME NEW d \in 1 .. N, NEW g, NEW h, \A k \in 1 .. d - 1 : g[k] = h[k]
      PROVE  LinkageOf(g, d) = LinkageOf(h, d)
  <2>1. AsPrior(g, d) = AsPrior(h, d)
    BY <1>2, <1>3 DEF AsPrior
  <2> QED
    BY ONLY <2>1 DEF LinkageOf
<1>4. ASSUME T # {}
      PROVE  FALSE
  <2>1. PICK m \in T : \A k \in T : m <= k
    <3>1. T \in SUBSET Nat
      BY <1>1
    <3> HIDE DEF T
    <3> QED
      BY <1>4, <3>1, Least
  <2>2. m # 0
    <3>1. PICK g : g = [d \in 1 .. 0 |-> 1]
      OBVIOUS
    <3>2. g = [d \in 1 .. 0 |-> LinkageOf(g, d)]
      BY <3>1
    <3>3. Upto(0)
      BY <3>2
    <3> QED
      BY <2>1, <3>3
  <2>3. m \in 1 .. N /\ m - 1 \in 0 .. N /\ ~(m <= m - 1)
    BY <1>1, <2>1, <2>2
  <2>4. Upto(m - 1)
    <3> HIDE DEF Upto
    <3> QED
      BY <2>1, <2>3
  <2>5. PICK g : g = [d \in 1 .. m - 1 |-> LinkageOf(g, d)]
    BY <2>4
  <2>6. PICK h : h = [d \in 1 .. m |-> IF d < m THEN g[d] ELSE LinkageOf(g, m)]
    OBVIOUS
  <2>7. ASSUME NEW d \in 1 .. m
        PROVE  h[d] = LinkageOf(h, d)
    <3>1. h[d] = LinkageOf(g, d)
      BY <2>3, <2>5, <2>6
    <3>2. \A k \in 1 .. d - 1 : g[k] = h[k]
      BY <2>3, <2>6
    <3>3. d \in 1 .. N
      BY <1>1, <2>3
    <3> QED
      BY <1>3, <3>1, <3>2, <3>3
  <2>8. h = [d \in 1 .. m |-> LinkageOf(h, d)]
    BY <2>6, <2>7
  <2> QED
    BY <2>1, <2>8
<1>5. Upto(N)
  BY <1>1, <1>4
<1>6. \A g : [d \in DOMAIN text |-> LinkageOf(g, d)] =
             [d \in DOMAIN text |->
                LET s       == Of(d)
                    prior   == Seen(Level, s.identifier, d)
                    Earlier == IF prior = 0 \/ g[prior] = "none" THEN "external" ELSE g[prior]
                IN  IF d \notin Declarations THEN "none"
                    ELSE CASE s.storage = "static"                        -> IF Level[d] = 1 THEN "internal" ELSE "none"
                           [] s.storage = "extern"                        -> Earlier
                           [] s.storage = "" /\ s.kind = "function"       -> Earlier
                           [] s.storage = "" /\ s.kind = "object"         -> IF Level[d] = 1 THEN "external" ELSE "none"]
  BY DEF LinkageOf, AsPrior, Prior
<1>7. K = CHOOSE g : g = [d \in DOMAIN text |-> LinkageOf(g, d)]
  BY <1>6 DEF Linkages
<1> QED
  BY <1>1, <1>5, <1>7

LEMMA LinkageIs ==
  ASSUME Typed, Items, NEW K, K = Linkages(Level), NEW d \in Declarations
  PROVE  /\ K[d] \in {"none", "internal", "external"}
         /\ Level[d] = 1 => K[d] # "none"
         /\ Of(d).storage = "static" => K[d] = IF Level[d] = 1 THEN "internal" ELSE "none"
         /\ Of(d).storage = "" /\ Of(d).kind = "object" => K[d] = IF Level[d] = 1 THEN "external" ELSE "none"
         /\ Of(d).storage = "" /\ Of(d).kind = "function" => K[d] # "none"
<1> PICK N : N = Len(text)
  OBVIOUS
<1>1. N \in Nat /\ \A e \in Declarations : e \in 1 .. N
  BY DeclarationsAre
<1>2. K = [e \in 1 .. N |-> LinkageOf(K, e)]
  BY LinkagesAre
<1>3. \A e \in 1 .. N : K[e] = LinkageOf(K, e)
  BY ONLY <1>2
<1> DEFINE B == {e \in 1 .. N : K[e] \notin {"none", "internal", "external"}}
<1>4. ASSUME NEW e \in Declarations
      PROVE  /\ Of(e).storage \in {"", "extern", "static"} /\ Of(e).kind \in {"object", "function"}
             /\ LinkageOf(K, e) = CASE Of(e).storage = "static"                           -> IF Level[e] = 1 THEN "internal" ELSE "none"
                                    [] Of(e).storage = "extern"                           -> AsPrior(K, e)
                                    [] Of(e).storage = "" /\ Of(e).kind = "function"      -> AsPrior(K, e)
                                    [] Of(e).storage = "" /\ Of(e).kind = "object"        -> IF Level[e] = 1 THEN "external" ELSE "none"
  <2>1. Of(e).storage \in {"", "extern", "static"} /\ Of(e).kind \in {"object", "function"}
    BY DEF Items, Declares
  <2> QED
    BY ONLY <1>4, <2>1 DEF LinkageOf
<1>5. ASSUME NEW e \in Declarations
      PROVE  /\ Of(e).storage = "static" => K[e] = IF Level[e] = 1 THEN "internal" ELSE "none"
             /\ Of(e).storage = "" /\ Of(e).kind = "object" => K[e] = IF Level[e] = 1 THEN "external" ELSE "none"
             /\ Of(e).storage = "extern" \/ (Of(e).storage = "" /\ Of(e).kind = "function") => K[e] = AsPrior(K, e)
             /\ Of(e).storage \in {"", "extern", "static"} /\ Of(e).kind \in {"object", "function"}
  <2>1. K[e] = LinkageOf(K, e)
    BY <1>1, <1>3
  <2> QED
    BY ONLY <1>4, <2>1, <1>5
<1>6. ASSUME B # {}
      PROVE  FALSE
  <2>1. PICK e \in B : \A k \in B : e <= k
    <3>1. B \in SUBSET Nat
      BY <1>1
    <3> HIDE DEF B
    <3> QED
      BY <1>6, <3>1, Least
  <2>2. e \in 1 .. N /\ K[e] \notin {"none", "internal", "external"}
    BY <2>1
  <2>3. e \in Declarations
    BY <1>3, <2>2 DEF LinkageOf
  <2>4. K[e] = AsPrior(K, e)
    BY ONLY <1>5, <2>2, <2>3
  <2>5. Prior(e) # 0 /\ K[e] = K[Prior(e)]
    BY ONLY <2>2, <2>4 DEF AsPrior
  <2>6. Prior(e) \in 1 .. e - 1
    BY <2>2, <2>5, SeenIs DEF Prior
  <2>7. Prior(e) \in B /\ ~(e <= Prior(e))
    BY <1>1, <2>2, <2>5, <2>6
  <2> HIDE DEF B
  <2> QED
    BY <2>1, <2>7
<1>7. K[d] \in {"none", "internal", "external"}
  BY <1>1, <1>6
<1>8. AsPrior(K, d) # "none"
  BY DEF AsPrior
<1>9. Level[d] = 1 => K[d] # "none"
  BY ONLY <1>5, <1>8, d \in Declarations
<1> QED
  BY <1>5, <1>7, <1>8, <1>9

LEMMA MeaningIs ==
  ASSUME NEW m \in Meanings
  PROVE  /\ m.level = Level /\ m.linkage = Linkages(Level)
         /\ \A i \in DOMAIN text : m.seen[i] = Seen(Level, text[i].identifier, i)
<1>1. m = [level |-> Level, linkage |-> Linkages(Level), seen |-> [i \in DOMAIN text |-> Seen(Level, text[i].identifier, i)]]
  BY DEF Meanings
<1> QED
  BY <1>1

(* What is declared and becomes a definition is what gen.c prints. *)
LEMMA EmitsIs ==
  ASSUME Typed, Items, NEW m \in Meanings, NEW x, NEW d
  PROVE  /\ Emits(d) /\ text[d].identifier = x => d \in Definitions(m, x) \cup Tentative(m, x)
         /\ d \in Definitions(m, x) \cup Tentative(m, x) /\ ~(Of(d).storage = "extern" /\ Of(d).init) =>
              Emits(d) /\ text[d].identifier = x
         /\ d \in Declarations /\ Defining(d) /\ (Level[d] > 1 => Of(d).storage = "") /\ m.linkage[d] # "none" =>
              d \in Definitions(m, text[d].identifier) \cup Tentative(m, text[d].identifier)
<1> PICK K : K = Linkages(Level)
  OBVIOUS
<1>1. m.level = Level /\ m.linkage = K
  BY MeaningIs
<1>2. ASSUME d \in Declarations
      PROVE  /\ Declares(d) /\ Level[d] \in Nat \ {0}
             /\ Level[d] = 1 => K[d] # "none"
             /\ Of(d).storage = "" /\ Of(d).kind = "object" /\ K[d] # "none" => Level[d] = 1
  <2>1. d \in 1 .. Len(text) + 1
    <3>1. d \in 1 .. Len(text) /\ Len(text) \in Nat
      BY <1>2, DeclarationsAre
    <3> QED
      BY ONLY <3>1
  <2> QED
    BY <1>2, <2>1, LinkageIs DEF Items, Typed
<1>3. ASSUME Emits(d), text[d].identifier = x
      PROVE  d \in Definitions(m, x) \cup Tentative(m, x)
  BY ONLY <1>1, <1>2, <1>3 DEF Emits, Defining, Definitions, Tentative, WithLinkage
<1>4. ASSUME d \in Definitions(m, x) \cup Tentative(m, x), ~(Of(d).storage = "extern" /\ Of(d).init)
      PROVE  Emits(d) /\ text[d].identifier = x
  <2>1. /\ d \in Declarations /\ text[d].identifier = x
        /\ \/ text[d].do = "define"
           \/ Level[d] = 1 /\ Of(d).init
           \/ Level[d] = 1 /\ Of(d).kind = "object" /\ Of(d).storage # "extern"
    BY ONLY <1>1, <1>4 DEF Definitions, Tentative, WithLinkage
  <2>2. Declares(d)
    BY <1>2, <2>1
  <2> QED
    BY ONLY <1>4, <2>1, <2>2 DEF Emits, Defining, Declares
<1>5. ASSUME d \in Declarations, Defining(d), Level[d] > 1 => Of(d).storage = "", K[d] # "none"
      PROVE  d \in Definitions(m, text[d].identifier) \cup Tentative(m, text[d].identifier)
  <2>1. text[d].do = "define" \/ (Level[d] = 1 /\ Of(d).kind = "object" /\ Of(d).storage # "extern")
    <3>1. CASE text[d].do = "define"
      BY <3>1
    <3>2. CASE Of(d).kind = "object" /\ Of(d).storage # "extern"
      <4>1. Level[d] \in Nat \ {0}
        BY <1>2, <1>5
      <4>2. Level[d] = 1 \/ Level[d] > 1
        BY ONLY <4>1
      <4> QED
        BY <1>2, <1>5, <3>2, <4>2
    <3> QED
      BY <1>5, <3>1, <3>2 DEF Defining
  <2>2. Of(d).init \in BOOLEAN
    BY <1>2, <1>5 DEF Declares
  <2> QED
    BY ONLY <1>1, <1>5, <2>1, <2>2 DEF Definitions, Tentative, WithLinkage
<1> QED
  BY <1>1, <1>3, <1>4, <1>5

(* What a text that C accepts, and the compiler does not treat differently, *)
(* is free of.                                                              *)
LEMMA AcceptedIs ==
  ASSUME Typed, Items, NEW m \in Meanings, ~Ill(m), ~Known(m), NEW K, K = Linkages(Level)
  PROVE  /\ \A d, e \in Declarations : Again(d, e) =>
              K[d] # "none" /\ K[e] # "none"
              /\ d \notin Definitions(m, text[d].identifier) \cup Tentative(m, text[d].identifier)
         /\ \A d \in Declarations :
              /\ Level[d] > 1 => Of(d).storage = ""
              /\ ~(Of(d).storage = "extern" /\ Of(d).init)
              /\ ~(text[d].do = "define" /\ K[d] = "internal" /\ Of(d).storage # "static")
         /\ \A i \in Uses :
              /\ m.seen[i] # 0 /\ m.seen[i] = Seen(Level, text[i].identifier, i)
              /\ text[i].do = "call" => Of(m.seen[i]).kind # "object"
              /\ text[i].do = "use" => ~(Level[m.seen[i]] > 1 /\ Of(m.seen[i]).kind = "function")
<1>1. /\ m.level = Level /\ m.linkage = K
      /\ \A i \in DOMAIN text : m.seen[i] = Seen(Level, text[i].identifier, i)
  BY MeaningIs
<1>2. \A d, e \in Declarations : Again(d, e) =>
        /\ K[d] # "none" /\ K[e] # "none"
        /\ d \notin Definitions(m, text[d].identifier) \cup Tentative(m, text[d].identifier)
  <2> SUFFICES ASSUME NEW d \in Declarations, NEW e \in Declarations, Again(d, e)
               PROVE  /\ K[d] # "none" /\ K[e] # "none"
                      /\ d \notin Definitions(m, text[d].identifier) \cup Tentative(m, text[d].identifier)
    OBVIOUS
  <2>1. text[d].identifier = text[e].identifier /\ SameScope(m.level, d, e)
    BY <1>1 DEF Again
  <2>2. ~(m.linkage[d] = "none" \/ m.linkage[e] = "none")
    BY <2>1 DEF Ill
  <2>3. d \notin Definitions(m, text[d].identifier) \cup Tentative(m, text[d].identifier)
    BY <2>1 DEF Known
  <2> QED
    BY <1>1, <2>2, <2>3
<1>3. ASSUME NEW d \in Declarations
      PROVE  /\ Level[d] > 1 => Of(d).storage = ""
             /\ ~(Of(d).storage = "extern" /\ Of(d).init)
             /\ ~(text[d].do = "define" /\ K[d] = "internal" /\ Of(d).storage # "static")
  BY <1>1 DEF Known
<1>4. ASSUME NEW i \in Uses
      PROVE  /\ m.seen[i] # 0 /\ m.seen[i] = Seen(Level, text[i].identifier, i)
             /\ text[i].do = "call" => Of(m.seen[i]).kind # "object"
             /\ text[i].do = "use" => ~(Level[m.seen[i]] > 1 /\ Of(m.seen[i]).kind = "function")
  <2>1. m.seen[i] # 0 /\ (text[i].do = "call" => Of(m.seen[i]).kind # "object")
    BY DEF Ill
  <2>2. text[i].do = "use" => ~(Level[m.seen[i]] > 1 /\ Of(m.seen[i]).kind = "function")
    BY <1>1, <2>1 DEF Known
  <2>3. m.seen[i] = Seen(Level, text[i].identifier, i)
    BY <1>1 DEF Uses
  <2> QED
    BY <2>1, <2>2, <2>3
<1> QED
  BY <1>2, <1>3, <1>4

(* Nothing that C accepts is stopped, but for the value of a function. *)
LEMMA NotStopped ==
  ASSUME IInv, NEW m \in Meanings, ~Ill(m), ~Known(m), phase \in {"done", "error", "crash", "assertion"}
  PROVE  phase = "done" \/ (phase = "assertion" /\ LoadsFunction(m))
<1> PICK K : K = Linkages(Level)
  OBVIOUS
<1>1. Typed /\ Items /\ m.linkage = K
  BY MeaningIs DEF IInv
<1>2. /\ \A d, e \in Declarations : Again(d, e) =>
           K[d] # "none" /\ K[e] # "none"
           /\ d \notin Definitions(m, text[d].identifier) \cup Tentative(m, text[d].identifier)
      /\ \A d \in Declarations : Level[d] > 1 => Of(d).storage = ""
      /\ \A i \in Uses :
           /\ m.seen[i] # 0 /\ m.seen[i] = Seen(Level, text[i].identifier, i)
           /\ text[i].do = "call" => Of(m.seen[i]).kind # "object"
  BY <1>1, AcceptedIs
<1>3. ASSUME NEW i \in Uses
      PROVE  text[i].symbol # 0 /\ symbols[text[i].symbol] = Of(m.seen[i]) /\ m.seen[i] \in Declarations
  BY <1>1, <1>2, UseIs
<1>4. CASE phase = "error"
  <2>1. CASE \E d, e \in Declarations : Again(d, e) /\ Defining(d) /\ (Level[d] > 1 => Of(d).storage = "")
    <3>1. PICK d \in Declarations, e \in Declarations : Again(d, e) /\ Defining(d) /\ (Level[d] > 1 => Of(d).storage = "")
      BY <2>1
    <3>2. K[d] # "none" /\ d \notin Definitions(m, text[d].identifier) \cup Tentative(m, text[d].identifier)
      BY <1>2, <3>1
    <3> QED
      BY <1>1, <3>1, <3>2, EmitsIs
  <2>2. CASE \E d \in Declarations : Level[d] > 1 /\ Of(d).storage # ""
    BY <1>2, <2>2
  <2>3. CASE \E i \in Uses : text[i].symbol = 0
    BY <1>3, <2>3
  <2>4. Stopped
    BY <1>4 DEF IInv
  <2> QED
    BY <2>1, <2>2, <2>3, <2>4 DEF Stopped
<1>5. CASE phase = "crash"
  <2>1. PICK i \in Uses : text[i].do = "call" /\ text[i].symbol # 0 /\ symbols[text[i].symbol].kind # "function"
    BY <1>5 DEF IInv, CallsObject
  <2>2. Of(m.seen[i]).kind \in {"object", "function"}
    BY <1>1, <1>3 DEF Items, Declares
  <2> QED
    BY <1>2, <1>3, <2>1, <2>2
<1>6. CASE phase = "assertion"
  <2>1. PICK i \in Uses : text[i].do = "use" /\ text[i].symbol # 0 /\ symbols[text[i].symbol].kind = "function"
    BY <1>6 DEF IInv, Loads
  <2>2. m.seen[i] # 0 /\ Of(m.seen[i]).kind = "function"
    BY <1>2, <1>3, <2>1
  <2> QED
    BY <1>6, <2>1, <2>2 DEF LoadsFunction
<1> QED
  BY <1>4, <1>5, <1>6

LEMMA EmitsOnce ==
  ASSUME Typed, Checked(Len(text) + 1), NEW d, NEW e, Emits(d), Emits(e), text[d].identifier = text[e].identifier
  PROVE  d = e
<1>1. d \in Nat /\ e \in Nat
  BY DeclarationsAre DEF Emits
<1>2. ~(d < e)
  BY OneEmits
<1>3. ~(e < d)
  BY OneEmits
<1> QED
  BY ONLY <1>1, <1>2, <1>3

(* The labels and the .global directives. *)
LEMMA DefinedIs ==
  ASSUME IInv, phase = "done", NEW m \in Meanings, ~Ill(m), ~Known(m), NEW x
  PROVE  DefinedAs(m, x)
<1> PICK K, N, defined : K = Linkages(Level) /\ N = Len(text) /\ defined = Definitions(m, x) \cup Tentative(m, x)
  OBVIOUS
<1>1. Typed /\ Items /\ Checked(N + 1) /\ LabelsPrinted(N + 1) /\ GlobalsPrinted(N + 1) /\ m.linkage = K /\ m.level = Level
  BY MeaningIs DEF IInv, PrintedUpTo
<1>2. \A d \in Declarations :
        /\ ~(Of(d).storage = "extern" /\ Of(d).init)
        /\ ~(text[d].do = "define" /\ K[d] = "internal" /\ Of(d).storage # "static")
  BY <1>1, AcceptedIs
<1>3. \A d : d \in defined <=> Emits(d) /\ text[d].identifier = x
  <2> SUFFICES ASSUME NEW d
               PROVE  d \in defined <=> Emits(d) /\ text[d].identifier = x
    OBVIOUS
  <2>1. d \in defined => d \in Declarations
    BY DEF Definitions, Tentative, WithLinkage
  <2>2. d \in defined => ~(Of(d).storage = "extern" /\ Of(d).init)
    BY <1>2, <2>1
  <2> QED
    BY <1>1, <2>2, EmitsIs
<1>4. \A d, e \in defined : d = e
  BY <1>1, <1>3, EmitsOnce
<1>5. \A d : d \in 1 .. (N + 1) - 1 <=> d \in 1 .. N
  BY <1>1, DeclarationsAre
<1>6. \A d : Emits(d) => d \in 1 .. (N + 1) - 1 /\ d \in Declarations /\ d < N + 1
  <2> SUFFICES ASSUME NEW d, Emits(d)
               PROVE  d \in 1 .. (N + 1) - 1 /\ d \in Declarations /\ d < N + 1
    OBVIOUS
  <2>1. d \in Declarations /\ d \in 1 .. N /\ N \in Nat
    BY <1>1, DeclarationsAre DEF Emits
  <2> QED
    BY ONLY <1>5, <2>1
<1>7. /\ \A k \in DOMAIN out : out[k].do = "label" =>
           \E d \in 1 .. (N + 1) - 1 : Emits(d) /\ out[k].identifier = text[d].identifier /\ out[k].what = What(d)
      /\ \A d \in 1 .. (N + 1) - 1 : Emits(d) =>
           \E k \in DOMAIN out : out[k].do = "label" /\ out[k].identifier = text[d].identifier
      /\ \A j, k \in DOMAIN out :
           out[j].do = "label" /\ out[k].do = "label" /\ out[j].identifier = out[k].identifier => j = k
  BY <1>1 DEF LabelsPrinted
<1>8. /\ \A k \in DOMAIN out : out[k].do = "global" =>
           \E d \in 1 .. (N + 1) - 1 : Emits(d) /\ Of(d).link = "external" /\ out[k].identifier = text[d].identifier
      /\ \A d \in 1 .. (N + 1) - 1 : Emits(d) /\ Of(d).link = "external" =>
           \E k \in DOMAIN out : out[k].do = "global" /\ out[k].identifier = text[d].identifier
  BY <1>1 DEF GlobalsPrinted
<1> DEFINE what == IF Definitions(m, x) = {} THEN "zero"
                   ELSE IF \E d \in Definitions(m, x) : text[d].do = "define" THEN "code" ELSE "value"
<1>9. ASSUME NEW d \in defined
      PROVE  What(d) = what
  <2>1. Emits(d) /\ d \in Declarations /\ Level[d] = 1
    BY <1>3, <1>6 DEF Emits
  <2>2. d \in Definitions(m, x) <=> text[d].do = "define" \/ Of(d).init
    <3>1. d \in WithLinkage(m, x)
      BY DEF Definitions, Tentative
    <3> QED
      BY ONLY <1>1, <2>1, <3>1 DEF Definitions
  <2>3. \A e \in Definitions(m, x) : e = d
    BY <1>4
  <2>4. CASE d \in Definitions(m, x)
    <3>1. Definitions(m, x) # {} /\ ((\E e \in Definitions(m, x) : text[e].do = "define") <=> text[d].do = "define")
      BY ONLY <2>3, <2>4
    <3> QED
      BY ONLY <2>2, <2>4, <3>1 DEF What
  <2>5. CASE d \notin Definitions(m, x)
    <3>1. Definitions(m, x) = {}
      BY ONLY <2>3, <2>5
    <3> QED
      BY ONLY <2>2, <2>5, <3>1 DEF What
  <2> QED
    BY <2>4, <2>5
<1>10. ASSUME NEW d \in defined
       PROVE  Of(d).link = "external" <=> K[d] = "external"
  <2>1. Emits(d) /\ d \in Declarations /\ Level[d] = 1 /\ d < N + 1 /\ Defining(d)
    BY <1>3, <1>6 DEF Emits
  <2>2. Declares(d)
    BY <1>1, <2>1 DEF Items
  <2>3. Of(d).link = Link(Of(d)) /\ Of(d).global
    <3>1. Of(d).link = Link(Of(d))
      BY <1>1, <2>1 DEF Checked
    <3>2. Of(d).global = (Level[d] = 1)
      BY <2>2 DEF Declares
    <3> QED
      BY ONLY <2>1, <3>1, <3>2
  <2>4. Of(d).link = IF Of(d).storage = "static" THEN "internal" ELSE "external"
    BY ONLY <2>3 DEF Link
  <2>5. /\ K[d] \in {"none", "internal", "external"} /\ K[d] # "none"
        /\ Of(d).storage = "static" => K[d] = "internal"
        /\ Of(d).storage = "" /\ Of(d).kind = "object" => K[d] = "external"
    BY <1>1, <2>1, LinkageIs
  <2>6. Of(d).storage # "static" => K[d] # "internal"
    <3>1. CASE text[d].do = "define"
      BY <1>2, <2>1, <3>1
    <3>2. CASE Of(d).kind = "object" /\ Of(d).storage # "extern"
      <4>1. Of(d).storage \in {"", "extern", "static"}
        BY <2>2 DEF Declares
      <4> QED
        BY ONLY <2>5, <3>2, <4>1
    <3> QED
      BY <2>1, <3>1, <3>2 DEF Defining
  <2> QED
    BY ONLY <2>4, <2>5, <2>6
<1>11. IF defined = {} THEN Lines("label", x) = {}
       ELSE \E k \in DOMAIN out : Lines("label", x) = {k} /\ out[k].what = what
  <2> HIDE DEF what
  <2>1. \A k \in Lines("label", x) : \E d \in defined : out[k].what = What(d)
    BY ONLY <1>3, <1>7 DEF Lines
  <2>2. \A j, k \in Lines("label", x) : j = k
    BY ONLY <1>7 DEF Lines
  <2>3. CASE defined = {}
    BY ONLY <2>1, <2>3
  <2>4. CASE defined # {}
    <3>1. PICK d : d \in defined
      BY <2>4
    <3>2. PICK k \in DOMAIN out : out[k].do = "label" /\ out[k].identifier = x
      BY <1>3, <1>6, <1>7, <3>1
    <3>3. k \in Lines("label", x)
      BY ONLY <3>2 DEF Lines
    <3>4. Lines("label", x) = {k}
      BY ONLY <2>2, <3>3
    <3>5. out[k].what = what
      BY ONLY <1>9, <2>1, <3>3
    <3> QED
      BY <2>4, <3>2, <3>4, <3>5
  <2> QED
    BY <2>3, <2>4
<1>12. Lines("global", x) # {} <=> \E d \in defined : K[d] = "external"
  <2>1. ASSUME Lines("global", x) # {}
        PROVE  \E d \in defined : K[d] = "external"
    <3>1. PICK k \in DOMAIN out : out[k].do = "global" /\ out[k].identifier = x
      BY <2>1 DEF Lines
    <3>2. PICK d : Emits(d) /\ Of(d).link = "external" /\ out[k].identifier = text[d].identifier
      BY <1>8, <3>1
    <3>3. d \in defined
      BY <1>3, <3>1, <3>2
    <3> QED
      BY <1>10, <3>2, <3>3
  <2>2. ASSUME NEW d \in defined, K[d] = "external"
        PROVE  Lines("global", x) # {}
    <3>1. Emits(d) /\ text[d].identifier = x /\ Of(d).link = "external"
      BY <1>3, <1>10, <2>2
    <3>2. PICK k \in DOMAIN out : out[k].do = "global" /\ out[k].identifier = text[d].identifier
      BY <1>6, <1>8, <3>1
    <3> QED
      BY <3>1, <3>2 DEF Lines
  <2> QED
    BY <2>1, <2>2
<1>13. m.linkage = K /\ defined = Definitions(m, x) \cup Tentative(m, x)
  BY <1>1
<1> QED
  BY ONLY <1>11, <1>12, <1>13 DEF DefinedAs

(* What a line with an operand was printed for: item i, which is of d. *)
Means(m, k, i, d) ==
  /\ i \in Uses /\ d \in Declarations /\ InSight(d, i) /\ text[d].identifier # ""
  /\ Declares(d) /\ Level[d] \in Nat \ {0}
  /\ out[k].identifier = IF m.linkage[d] = "none" THEN "" ELSE text[d].identifier
  /\ out[k].identifier = "" => Level[d] > 1 /\ Local(d) /\ out[k].what.offset = Of(d).offset

LEMMA OperandIs ==
  ASSUME IInv, phase = "done", NEW m \in Meanings, ~Ill(m), ~Known(m), NEW k \in DOMAIN out, out[k].do = "use",
         NEW i, i = out[k].what.item, NEW d, d = m.seen[i]
  PROVE  Means(m, k, i, d)
<1> SUFFICES /\ i \in Uses /\ d \in Declarations /\ InSight(d, i) /\ text[d].identifier # ""
             /\ Declares(d) /\ Level[d] \in Nat \ {0}
             /\ out[k].identifier = IF m.linkage[d] = "none" THEN "" ELSE text[d].identifier
             /\ out[k].identifier = "" => Level[d] > 1 /\ Local(d) /\ out[k].what.offset = Of(d).offset
  BY Zenon DEF Means
<1> PICK K, N, p : K = Linkages(Level) /\ N = Len(text) /\ p = out[k]
  OBVIOUS
<1>1. Typed /\ Items /\ Checked(N + 1) /\ UsesPrinted /\ m.linkage = K
  BY MeaningIs DEF IInv, PrintedUpTo
<1>2. Operand(p)
  BY <1>1 DEF UsesPrinted
<1>3. /\ i \in Uses
      /\ text[i].do = "use" => /\ p.identifier = (IF symbols[text[i].symbol].link = "none" THEN "" ELSE symbols[text[i].symbol].identifier)
                               /\ p.what.offset = symbols[text[i].symbol].offset
      /\ text[i].do = "call" => p.identifier = text[i].identifier
  BY <1>2 DEF Operand
<1>4. /\ d # 0 /\ d = Seen(Level, text[i].identifier, i)
      /\ text[i].do = "call" => Of(d).kind # "object"
      /\ text[i].do = "use" => ~(Level[d] > 1 /\ Of(d).kind = "function")
  BY <1>1, <1>3, AcceptedIs
<1>5. InSight(d, i) /\ d \in Declarations /\ text[d].identifier = text[i].identifier /\ symbols[text[i].symbol] = Of(d)
  BY <1>1, <1>3, <1>4, UseIs
<1>6. Declares(d) /\ d < N + 1 /\ Level[d] \in Nat \ {0}
  <2>1. d \in 1 .. N /\ N \in Nat
    BY <1>1, <1>5, DeclarationsAre
  <2>2. d < N + 1 /\ d \in 1 .. N + 1
    BY ONLY <2>1
  <2> QED
    BY <1>1, <1>5, <2>2 DEF Items, Typed
<1>7. Level[d] = 1 \/ Level[d] > 1
  BY ONLY <1>6
<1>8. Of(d).link = Link(Of(d)) /\ (Level[d] > 1 => Of(d).storage = "")
  BY <1>1, <1>5, <1>6 DEF Checked
<1>9. /\ Level[d] = 1 => K[d] # "none"
      /\ Of(d).storage = "" /\ Of(d).kind = "object" => K[d] = IF Level[d] = 1 THEN "external" ELSE "none"
      /\ Of(d).storage = "" /\ Of(d).kind = "function" => K[d] # "none"
  <2>1. K = Linkages(Level)
    OBVIOUS
  <2> QED
    BY ONLY <1>1, <1>5, <2>1, LinkageIs
<1>10. Of(d).kind \in {"object", "function"} /\ Of(d).identifier = text[d].identifier /\ text[d].identifier # ""
  BY <1>6 DEF Declares
<1>11. Level[d] > 1 => Of(d).link = "none" /\ Level[d] # 1
  <2>1. Level[d] > 1 => Level[d] # 1
    BY ONLY <1>6
  <2>2. Of(d).global = (Level[d] = 1)
    BY <1>6 DEF Declares
  <2> QED
    BY ONLY <1>8, <2>1, <2>2 DEF Link
<1>12. Level[d] = 1 => Of(d).link # "none" /\ ~(Level[d] > 1)
  <2>1. Of(d).global = (Level[d] = 1)
    BY <1>6 DEF Declares
  <2>2. Level[d] = 1 => ~(Level[d] > 1)
    OBVIOUS
  <2> QED
    BY ONLY <1>8, <2>1, <2>2 DEF Link
<1>13. CASE text[i].do = "use"
  <2>1. Level[d] > 1 => Of(d).kind = "object"
    BY <1>4, <1>10, <1>13
  <2>2. p.identifier = (IF Of(d).link = "none" THEN "" ELSE Of(d).identifier) /\ p.what.offset = Of(d).offset
    BY <1>3, <1>5, <1>13
  <2>3. K[d] = "none" <=> Level[d] > 1
    BY ONLY <1>7, <1>8, <1>9, <1>11, <1>12, <2>1
  <2>4. p.identifier = IF K[d] = "none" THEN "" ELSE text[d].identifier
    BY ONLY <1>7, <1>10, <1>11, <1>12, <2>2, <2>3
  <2>5. p.identifier = "" => Level[d] > 1
    BY ONLY <1>7, <1>10, <1>12, <2>2
  <2>6. Level[d] > 1 => Local(d)
    BY <1>5, <2>1 DEF Local
  <2>7. p.identifier = "" => Level[d] > 1 /\ Local(d) /\ p.what.offset = Of(d).offset
    BY ONLY <2>2, <2>5, <2>6
  <2> QED
    BY <1>1, <1>3, <1>5, <1>6, <1>10, <2>4, <2>7
<1>14. CASE text[i].do = "call"
  <2>1. Of(d).kind = "function" /\ p.identifier = text[d].identifier
    BY <1>3, <1>4, <1>5, <1>10, <1>14
  <2>2. K[d] # "none"
    BY ONLY <1>7, <1>8, <1>9, <2>1
  <2> QED
    BY <1>1, <1>3, <1>5, <1>6, <1>10, <2>1, <2>2
<1>15. text[i].do \in {"use", "call"}
  BY <1>3 DEF Uses
<1> QED
  BY <1>13, <1>14, <1>15

(* Two locals of one function. *)
LEMMA LocalsAre ==
  ASSUME IInv, phase = "done", NEW m \in Meanings, ~Ill(m), ~Known(m)
  PROVE  LocalsApart(m)
<1>0. IInv /\ phase = "done" /\ m \in Meanings /\ ~Ill(m) /\ ~Known(m)
  OBVIOUS
<1>1. Typed /\ Placed(Len(text) + 1)
  BY DEF IInv
<1> SUFFICES ASSUME NEW j \in DOMAIN out, out[j].do = "use", out[j].identifier = "",
                    NEW k \in DOMAIN out, out[k].do = "use", out[k].identifier = "",
                    Functions(out[j].what.item) = Functions(out[k].what.item)
             PROVE  out[j].what.offset = out[k].what.offset <=> m.seen[out[j].what.item] = m.seen[out[k].what.item]
  BY DEF LocalsApart
<1> PICK a, b, d, e : a = out[j].what.item /\ b = out[k].what.item /\ d = m.seen[a] /\ e = m.seen[b]
  OBVIOUS
<1>2. /\ a \in Uses /\ d \in Declarations /\ InSight(d, a)
      /\ Level[d] > 1 /\ Level[d] \in Nat \ {0} /\ Local(d) /\ out[j].what.offset = Of(d).offset
  <2>1. j \in DOMAIN out /\ out[j].do = "use" /\ out[j].identifier = "" /\ a = out[j].what.item /\ d = m.seen[a]
    OBVIOUS
  <2>2. Means(m, j, a, d)
    BY ONLY <1>0, <2>1, OperandIs
  <2> QED
    BY ONLY <2>1, <2>2 DEF Means
<1>3. /\ b \in Uses /\ e \in Declarations /\ InSight(e, b)
      /\ Level[e] > 1 /\ Level[e] \in Nat \ {0} /\ Local(e) /\ out[k].what.offset = Of(e).offset
  <2>1. k \in DOMAIN out /\ out[k].do = "use" /\ out[k].identifier = "" /\ b = out[k].what.item /\ e = m.seen[b]
    OBVIOUS
  <2>2. Means(m, k, b, e)
    BY ONLY <1>0, <2>1, OperandIs
  <2> QED
    BY ONLY <2>1, <2>2 DEF Means
<1>4. Functions(a) = Functions(b)
  OBVIOUS
<1>5. ASSUME NEW p \in Declarations, NEW q \in Declarations, NEW f, NEW g, f \in Uses, g \in Uses,
             InSight(p, f), InSight(q, g), Functions(f) = Functions(g), Local(p), Local(q), Level[p] \in Nat, p < q
      PROVE  Of(p).offset < Of(q).offset
  <2> PICK N, L : N = Len(text) /\ L = Level
    OBVIOUS
  <2>1. /\ N \in Nat /\ p \in 1 .. N /\ q \in 1 .. N /\ f \in 1 .. N /\ g \in 1 .. N /\ DOMAIN text = 1 .. N
        /\ Len(text) = N
    BY <1>1, <1>5, DeclarationsAre
  <2>2. q < g /\ L[p] > 1 /\ \A h \in p + 1 .. f : L[h] >= L[p]
    BY <1>5 DEF InSight, Open, Local
  <2>0. L[p] \in Nat
    BY <1>5
  <2>3. ASSUME NEW h \in p + 1 .. q - 1, text[h].do = "define"
        PROVE  FALSE
    <3>1. h \in 1 .. N /\ h < g /\ p + 1 <= h /\ h \in Nat
      BY ONLY <2>1, <2>2, <2>3
    <3>2. h \in Functions(g)
      BY ONLY <2>1, <2>3, <3>1 DEF Functions
    <3>3. h < f
      BY ONLY <1>5, <3>2 DEF Functions
    <3>4. h \in p + 1 .. f
      BY ONLY <2>1, <3>1, <3>3
    <3>5. L[h] = 1
      <4>1. h \in Declarations /\ Items
        BY ONLY <2>1, <2>3, <3>1, IInv DEF Declarations, IInv
      <4> QED
        BY ONLY <2>3, <4>1, L = Level DEF Items, Declares
    <3> QED
      BY ONLY <2>0, <2>2, <3>4, <3>5
  <2>4. NoFunction(p, q)
    BY <2>3 DEF NoFunction
  <2>5. q < N + 1
    BY ONLY <2>1
  <2> QED
    BY <1>1, <1>5, <2>1, <2>4, <2>5 DEF Placed
<1>6. Of(d).offset \in Nat /\ Of(e).offset \in Nat /\ d \in Nat /\ e \in Nat
  <2>1. d \in 1 .. Len(text) /\ e \in 1 .. Len(text) /\ Len(text) \in Nat
    BY <1>1, <1>2, <1>3, DeclarationsAre
  <2>2. d < Len(text) + 1 /\ e < Len(text) + 1
    BY ONLY <2>1
  <2>3. \A o \in Declarations : o < Len(text) + 1 /\ Local(o) => Of(o).offset \in Nat
    BY <1>1 DEF Placed
  <2>4. Of(d).offset \in Nat /\ Of(e).offset \in Nat
    BY ONLY <1>2, <1>3, <2>2, <2>3
  <2> QED
    BY ONLY <2>1, <2>4
<1>7. d < e => Of(d).offset < Of(e).offset
  BY <1>2, <1>3, <1>4, <1>5
<1>8. e < d => Of(e).offset < Of(d).offset
  BY <1>2, <1>3, <1>4, <1>5
<1>9. Of(d).offset = Of(e).offset <=> d = e
  BY ONLY <1>6, <1>7, <1>8
<1> QED
  BY <1>2, <1>3, <1>9

(* A second definition is not let through. *)
LEMMA OneDefinition ==
  ASSUME IInv, phase = "done", NEW m \in Meanings, NEW x
  PROVE  Cardinality({d \in Definitions(m, x) : text[d].do = "define" \/ Of(d).storage # "extern"}) < 2
<1> PICK D : D = {d \in Definitions(m, x) : text[d].do = "define" \/ Of(d).storage # "extern"}
  OBVIOUS
<1>1. Typed /\ Items /\ Checked(Len(text) + 1) /\ m.level = Level
  BY MeaningIs DEF IInv
<1>2. ASSUME NEW d \in D
      PROVE  Emits(d) /\ text[d].identifier = x
  <2>1. /\ d \in Declarations /\ text[d].identifier = x
        /\ text[d].do = "define" \/ (Level[d] = 1 /\ Of(d).init)
        /\ text[d].do = "define" \/ Of(d).storage # "extern"
    BY <1>1 DEF Definitions, WithLinkage
  <2>2. Declares(d)
    BY <1>1, <2>1 DEF Items
  <2> QED
    BY ONLY <2>1, <2>2 DEF Emits, Defining, Declares
<1>3. \A d, e \in D : d = e
  BY <1>1, <1>2, EmitsOnce
<1>4. CASE D = {}
  BY <1>4, FS_EmptySet
<1>5. CASE D # {}
  <2>1. PICK d : D = {d}
    BY <1>3, <1>5
  <2>2. Cardinality(D) = 1
    BY <2>1, FS_Singleton
  <2> QED
    BY <2>2
<1> QED
  BY <1>4, <1>5

LEMMA IInvLinked == IInv => NamesLinked
<1> SUFFICES ASSUME IInv, phase \in {"done", "error", "crash", "assertion"}, NEW m \in Meanings
             PROVE  /\ ~Ill(m) /\ ~Known(m) =>
                         \/ phase = "done" /\ (\A x \in Names : DefinedAs(m, x)) /\ UsedAs(m) /\ LocalsApart(m)
                         \/ phase = "assertion" /\ LoadsFunction(m)
                    /\ phase = "done" =>
                         \A x \in Names : Cardinality({d \in Definitions(m, x) : text[d].do = "define" \/ Of(d).storage # "extern"}) < 2
  BY DEF NamesLinked
<1>1. ASSUME ~Ill(m), ~Known(m), phase = "done"
      PROVE  (\A x \in Names : DefinedAs(m, x)) /\ UsedAs(m) /\ LocalsApart(m)
  <2>1. phase = "done"
    BY <1>1
  <2>2. \A x \in Names : DefinedAs(m, x)
    BY <1>1, <2>1, DefinedIs
  <2>3. UsedAs(m)
    <3>1. IInv /\ m \in Meanings
      OBVIOUS
    <3> SUFFICES ASSUME NEW k \in {k \in DOMAIN out : out[k].do = "use"}
                 PROVE  LET i == out[k].what.item
                            d == m.seen[i]
                        IN  out[k].identifier = IF m.linkage[d] = "none" THEN "" ELSE text[d].identifier
      BY DEF UsedAs
    <3>3. k \in DOMAIN out /\ out[k].do = "use"
      OBVIOUS
    <3>4. PICK i, d : i = out[k].what.item /\ d = m.seen[i]
      OBVIOUS
    <3>2. Means(m, k, i, d)
      BY ONLY <1>1, <2>1, <3>1, <3>3, <3>4, OperandIs
    <3>5. out[k].identifier = IF m.linkage[d] = "none" THEN "" ELSE text[d].identifier
      BY ONLY <3>2 DEF Means
    <3> QED
      BY ONLY <3>4, <3>5
  <2>4. LocalsApart(m)
    BY <1>1, <2>1, LocalsAre
  <2> QED
    BY <2>2, <2>3, <2>4
<1>2. phase = "done" =>
        \A x \in Names : Cardinality({d \in Definitions(m, x) : text[d].do = "define" \/ Of(d).storage # "extern"}) < 2
  BY OneDefinition
<1>3. ~Ill(m) /\ ~Known(m) => phase = "done" \/ (phase = "assertion" /\ LoadsFunction(m))
  BY NotStopped
<1> QED
  BY <1>1, <1>2, <1>3

(* Whatever identifiers a translation unit declares, in whatever scopes and *)
(* with whatever storage classes, and however it uses them: unless it is    *)
(* one of the constructs LinkageC says the compiler treats differently,     *)
(* every function and object gets its label once and with its own value,    *)
(* .global goes with external linkage, each operand names or places what    *)
(* C's scopes make visible, and what C accepts is not stopped, unless the   *)
(* value of a function is asked for (parse.c put_symbol, lookup_symbol,     *)
(* sema.c put_variable, gen.c).                                             *)
THEOREM NamesAreLinked == Spec => []NamesLinked
<1>1. IInv => NamesLinked
  BY IInvLinked
<1> QED
  BY <1>1, Invariant, PTL
=============================================================================
