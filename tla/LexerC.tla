-------------------------------- MODULE LexerC --------------------------------
(***************************************************************************)
(* What C says of the same file (C11 5.1.1.2 and 6.4), without a reader    *)
(* that goes from one character to the next: which characters remain after *)
(* splicing, where each stands, which texts are tokens of which kind, and  *)
(* that the longest one is taken.                                          *)
(***************************************************************************)
EXTENDS Lexer, FiniteSetsExt

(* Phases 1 and 2. *)
Physical(f) == {i \in DOMAIN f : ~(f[i] = "CR" /\ i < Len(f) /\ f[i + 1] = NL)}

Sorted(set, s) ==
  LET Rest[i \in 0 .. Len(s)] ==
        IF i = 0 THEN << >> ELSE IF i \in set THEN Append(Rest[i - 1], i) ELSE Rest[i - 1]
  IN  Rest[Len(s)]

Place(p, i) ==
  [c      |-> IF i > Len(p) THEN NUL ELSE p[i],
   lineno |-> 1 + Cardinality({k \in 1 .. i - 1 : p[k] = NL}),
   column |-> i - Max({0} \cup {k \in 1 .. i - 1 : p[k] = NL})]

Splices(p) == {i \in 1 .. Len(p) - 1 : p[i] = "\\" /\ p[i + 1] = NL}

LogicalOf(p) ==
  LET kept == Sorted({i \in DOMAIN p : i \notin Splices(p) /\ i - 1 \notin Splices(p)}, p)
  IN  << >> \o [k \in 1 .. Len(kept) + 1 |-> Place(p, IF k > Len(kept) THEN Len(p) + 1 ELSE kept[k])]

PhysicalOf(f, at) == << >> \o [k \in 1 .. Len(at) |-> f[at[k]]]
Logical(f) == LogicalOf(PhysicalOf(f, Sorted(Physical(f), f)))

-----------------------------------------------------------------------------
(* Phase 3.  t is a text; the characters a backslash makes part of an      *)
(* escape sequence are those an odd number of them stands before.          *)
Escaped(t, k) ==
  LET run == CHOOSE n \in 0 .. k - 1 :
               /\ \A j \in k - n .. k - 1 : t[j] = "\\"
               /\ n < k - 1 => t[k - n - 1] # "\\"
  IN  run % 2 = 1

SimpleEscapes == DOMAIN Escapes \ {"0"}
Octal         == {"0", "1"}

Quoted(t, quote) ==
  /\ Len(t) > 1 /\ t[1] = quote
  /\ \A k \in 2 .. Len(t) : /\ t[k] # NL
                            /\ (t[k] = quote /\ ~Escaped(t, k)) <=> k = Len(t)
                            /\ Escaped(t, k) => t[k] \in SimpleEscapes \cup Octal \cup {"x"}

Begins(t, two) == Len(t) > 1 /\ t[1] = two[1] /\ t[2] = two[2]
Closes(t, k)   == k > 3 /\ t[k - 1] = "*" /\ t[k] = "/"

LineComment(t)  == Begins(t, <<"/", "/">>) /\ NL \notin ToSet(t)
BlockComment(t) == Begins(t, <<"/", "*">>) /\ \A k \in DOMAIN t : Closes(t, k) <=> k = Len(t)
OpenComment(t)  == Begins(t, <<"/", "*">>) /\ \A k \in DOMAIN t : ~Closes(t, k)

Punctuators ==
  TwoChars \cup {<<p>> : p \in OneChar}
  \cup { <<".", ".", ".">>, <<"<", "<", "=">>, <<">", ">", "=">>, <<"&", "=">>, <<"|", "=">>,
         <<"^", "=">>, <<"#", "#">>, <<"<", ":">>, <<":", ">">>, <<"<", "%">>, <<"%", ">">>,
         <<"%", ":">>, <<"%", ":", "%", ":">> }

Number(t) == /\ t[1] \in Digits \/ (Len(t) > 1 /\ t[1] = "." /\ t[2] \in Digits)
             /\ ToSet(t) \subseteq Word \cup {"."}

Kind(t) ==
  CASE t = <<NL>>                              -> "NEWLINE"
    [] t[1] \in WhiteSpace                     -> IF ToSet(t) \subseteq WhiteSpace THEN "SPACE" ELSE "none"
    [] t[1] \in Letters \cup {"_"}             ->
         IF ToSet(t) \subseteq Word THEN IF t \in Keywords THEN "KEYWORD" ELSE "IDENTIFIER" ELSE "none"
    [] Number(t)                               -> "PP_NUMBER"
    [] Quoted(t, "\"")                         -> "STRING"
    [] Quoted(t, "'") /\ Len(t) > 2            -> "CHAR_CONST"
    [] LineComment(t) \/ BlockComment(t)       -> "SPACE"
    [] t \in Punctuators                       -> "PUNCTUATOR"
    [] OTHER                                   -> "none"

(* The text from one place to another of what is left of the file. *)
Text(s, from, to) == << >> \o [k \in 1 .. to - from + 1 |-> s[from + k - 1].c]

(* The value of a literal whose only octal escape sequence is \0. *)
CValue(t) ==
  LET Value[k \in 1 .. Len(t) - 1] ==
        CASE k = 1            -> << >>
          [] Escaped(t, k)    -> Append(Value[k - 1], Escapes[t[k]])
          [] t[k] = "\\"      -> Value[k - 1]
          [] OTHER            -> Append(Value[k - 1], t[k])
  IN  Value[Len(t) - 1]

NotTakenEscape(t) ==
  \E k \in DOMAIN t : Escaped(t, k) /\ (t[k] \in {"1", "x"} \/ (t[k] = "0" /\ t[k + 1] \in Octal))

CTokenAt(kind, t, place) ==
  Token(kind, IF kind = "SPACE" THEN <<" ">> ELSE t,
        CASE kind = "PP_NUMBER"                                     -> t
          [] kind = "STRING" /\ ~NotTakenEscape(t)                  -> Append(CValue(t), NUL)
          [] kind = "CHAR_CONST" /\ ~NotTakenEscape(t)              -> CValue(t)
          [] OTHER                                                  -> << >>,
        place.lineno, place.column)

(* Longest match.  A character that begins no token is "other" by itself,  *)
(* as is a comment that nothing ends.                                      *)
EndsAt(s, p) == {e \in p .. Len(s) - 1 : Kind(Text(s, p, e)) # "none"}

CTokenFrom(s, p) ==
  IF OpenComment(Text(s, p, Len(s) - 1)) THEN [kind |-> "other", last |-> Len(s) - 1]
  ELSE LET ends == EndsAt(s, p)
       IN  IF ends = {} THEN [kind |-> "other", last |-> p]
           ELSE [kind |-> Kind(Text(s, p, Max(ends))), last |-> Max(ends)]

CTokensOf(s) ==
  LET From[p \in 1 .. Len(s)] ==
        IF p = Len(s) THEN <<Token("EOF", << >>, << >>, s[p].lineno, s[p].column)>>
        ELSE LET t    == CTokenFrom(s, p)
                 rest == From[t.last + 1]
             IN  <<CTokenAt(t.kind, Text(s, p, t.last), s[p])>>
                 \o IF t.kind = "SPACE" /\ Head(rest).type = "SPACE" THEN Tail(rest) ELSE rest
  IN  From[1]

CTokens(f) == CTokensOf(Logical(f))

-----------------------------------------------------------------------------
(* What of C the compiler does not take: operators and numbers it has no   *)
(* token for, other escape sequences, character constants of several       *)
(* characters.                                                             *)
NotTaken(t) ==
  CASE t.type = "PUNCTUATOR" -> t.text \notin {<<".", ".", ".">>} \cup TwoChars \cup {<<p>> : p \in OneChar}
    [] t.type = "PP_NUMBER"  -> "." \in ToSet(t.text)
    [] t.type = "CHAR_CONST" -> NotTakenEscape(t.text) \/ Len(t.value) > 1
    [] t.type = "STRING"     -> NotTakenEscape(t.text)
    [] OTHER                 -> FALSE

(* C leaves a lone quote, and a comment that does not end, undefined. *)
Undefined(t) == t.type = "other" /\ t.text[1] \in {"'", "\"", "/"}

SameUpTo(ct, k) == Len(pp_tokens) >= k /\ Len(ct) >= k /\ SubSeq(pp_tokens, 1, k) = SubSeq(ct, 1, k)

Agree(ct) ==
  \/ pp_tokens = ct
  \/ \E k \in DOMAIN ct : SameUpTo(ct, k - 1) /\ (NotTaken(ct[k]) \/ Undefined(ct[k]))

Rejects(ct) ==
  \E k \in DOMAIN ct :
    /\ SameUpTo(ct, k - 1)
    /\ \/ NotTaken(ct[k])
       \/ ct[k].type = "other"
       \/ ct[k].text = <<".">> /\ Head(ct[k + 1].text) = "."

(* The tokens of a file, their places and the values of its literals are   *)
(* those of C, up to the first one that is not in the language of the      *)
(* compiler or that C gives no meaning; and the compiler reports an error  *)
(* only where C's next token is one it does not take (lex.c).              *)
LexesC ==
  /\ phase = "lexed" => \A ct \in {CTokens(file)} : Agree(ct)
  /\ phase = "error" => \A ct \in {CTokens(file)} : Rejects(ct)

(* The lexer leaves the memory of the file only when it is not a text as C *)
(* wants it, a sequence of lines each ended by a new-line that no          *)
(* backslash splices away, or when it has a comment that does not end (the *)
(* loops of split_lines and of comments have no other end).                *)
InBounds ==
  phase = "crash" =>
    \A f \in {read_file(file)} :
      \/ Last(f) # NL
      \/ Len(f) > 1 /\ f[Len(f) - 1] = "\\"
      \/ \E ct \in {CTokens(file)} : \E k \in DOMAIN ct : ct[k].type = "other" /\ ct[k].text[1] = "/"

(* What the assembler reads of each string literal is its value with the   *)
(* NUL at its end, or an error for a character whose escape sequence only  *)
(* the compiler knows (gen.c gen_string_literal, as_lex.c escape_sequence).*)
Unreadable == {"BEL", "BS", "FF", "CR", "TAB", "VT", "BYTE"}

LiteralsSurvive ==
  phase \in {"done", "invalid escape"} =>
    \A literals \in {SelectSeq(pp_tokens, IsString)} :
      \A k \in DOMAIN literals :
        IF bytes[k].ok THEN bytes[k].value = literals[k].value /\ bytes[k].end = Len(asm[k])
        ELSE ToSet(literals[k].value) \cap Unreadable # {}

-----------------------------------------------------------------------------
(* C's integer constants (6.4.4.1). *)
CSuffixes ==
  LET l == {<<"l">>, <<"L">>, <<"l", "l">>, <<"L", "L">>}
      u == {<<"u">>, <<"U">>}
  IN  {<< >>} \cup l \cup u \cup {a \o b : a \in l, b \in u} \cup {a \o b : a \in u, b \in l}

Power(b, n) == LET P[k \in 0 .. n] == IF k = 0 THEN 1 ELSE b * P[k - 1] IN P[n]

CValueOf(digits, base) ==
  SumFunction([k \in DOMAIN digits |-> ValueOf[digits[k]] * Power(base, Len(digits) - k)])

(* The ways to divide a text into digits and suffix: none, or one. *)
CConstants(text) ==
  LET Read(base, digits, suffix) ==
        [value    |-> CValueOf(digits, base),
         decimal  |-> base = 10,
         unsigned |-> ToSet(suffix) \cap {"u", "U"} # {},
         long     |-> ToSet(suffix) \cap {"l", "L"} # {}]
      Taken(base, from, digits) ==
        {Read(base, SubSeq(text, from, n), SubSeq(text, n + 1, Len(text))) :
           n \in {n \in from .. Len(text) : /\ ToSet(SubSeq(text, from, n)) \subseteq digits
                                            /\ SubSeq(text, n + 1, Len(text)) \in CSuffixes}}
  IN  CASE text[1] # "0"                      -> Taken(10, 1, Digits)
        [] Len(text) > 1 /\ text[2] = "x"     -> Taken(16, 3, DOMAIN ValueOf)
        [] OTHER                              -> Taken(8, 1, Octal)

CapitalAfterU(text) == \E k \in 2 .. Len(text) : text[k] = "L" /\ text[k - 1] \in {"u", "U"}
MixedLL(text)       == \E k \in 2 .. Len(text) : {text[k], text[k - 1]} = {"l", "L"}
NoDigits(text)      == Len(text) > 1 /\ text[2] = "x" /\ (Len(text) > 2 => text[3] \notin DOMAIN ValueOf)

ReadAs(n, m) ==
  /\ m.value < Modulus => n.value = m.value
  /\ n.decimal = m.decimal /\ n.unsigned = m.unsigned /\ n.long = m.long

(* The value, base and suffixes of a pp-number are those of the integer    *)
(* constant C reads, and only those that C does not read are rejected; but *)
(* uL and UL are rejected (parse.c inspect_pp_number, where a parenthesis  *)
(* is misplaced), and lL and 0x without digits are taken.                  *)
NumbersRead ==
  phase \in {"parsed", "invalid number"} =>
    \A written \in {SelectSeq(pp_tokens, IsNumber)} :
      \A k \in DOMAIN written :
        \A n \in {numbers[k]}, text \in {written[k].text}, read \in {CConstants(written[k].text)} :
          IF n.ok THEN (\E m \in read : ReadAs(n, m)) \/ MixedLL(text) \/ NoDigits(text)
          ELSE read = {} \/ CapitalAfterU(text)
=============================================================================
