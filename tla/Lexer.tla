-------------------------------- MODULE Lexer ---------------------------------
(***************************************************************************)
(* lex.c: a source file becomes preprocessing tokens.  What string         *)
(* literals and numbers mean afterwards is followed to where it is used: a *)
(* literal is printed by gen.c and read again by the assembler, a number   *)
(* is given its value by parse.c.                                          *)
(*                                                                         *)
(* A file is a sequence of characters; those without a sign of their own   *)
(* have a name: NL, CR, TAB, and BYTE for one that is not printable.  NUL  *)
(* stands after the last one.                                              *)
(***************************************************************************)
EXTENDS Integers, Sequences, FiniteSets, SequencesExt, TLC

CONSTANTS Files,    \* the source files
          Modulus   \* of an unsigned long long

VARIABLES file,      \* the source file
          phase,     \* "split", "lex", "lexed", "parsed", "printed" and "done"; or it stopped:
                     \* "error", "crash", "invalid number", "invalid escape"
          chars,     \* what get_char returns, one after the other, and where it is
          pos,       \* the next of chars
          pp_tokens,
          asm,       \* the literals as they are printed
          bytes,     \* what the assembler reads of each of them
          numbers    \* what parse.c makes of each pp-number

vars == <<file, phase, chars, pos, pp_tokens, asm, bytes, numbers>>

-----------------------------------------------------------------------------
(* Characters *)
NL  == "NL"
NUL == "NUL"

Digits     == {"0", "1", "8"}
Letters    == {"a", "f", "i", "d", "o", "n", "t", "x", "u", "l", "L", "U"}
WhiteSpace == {" ", "TAB", "CR"}   \* isspace(), but for NL
Word       == Letters \cup Digits \cup {"_"}

(* read_file: "\r\n" becomes a new-line. *)
read_file(f) ==
  LET Read[i \in 0 .. Len(f)] ==
        IF i = 0 THEN << >>
        ELSE IF f[i] = "CR" /\ i < Len(f) /\ f[i + 1] = NL THEN Read[i - 1] ELSE Append(Read[i - 1], f[i])
  IN  Read[Len(f)]

Spliced(src, i) == i < Len(src) /\ src[i] = "\\" /\ src[i + 1] = NL

(* Variant: the line after a splice is counted as the one before it. *)
Stream_SameLine(src) ==
  LET After[i \in 0 .. Len(src)] ==
        IF i = 0 THEN [chars |-> << >>, lineno |-> 1, column |-> 1]
        ELSE LET before == After[i - 1]
             IN  CASE Spliced(src, i) -> before
                   [] i > 1 /\ Spliced(src, i - 1) -> [before EXCEPT !.column = 1]
                   [] OTHER -> [chars  |-> Append(before.chars, [c |-> src[i], lineno |-> before.lineno,
                                                                 column |-> before.column]),
                                lineno |-> IF src[i] = NL THEN before.lineno + 1 ELSE before.lineno,
                                column |-> IF src[i] = NL THEN 1 ELSE before.column + 1]
      end == After[Len(src)]
  IN  Append(end.chars, [c |-> NUL, lineno |-> end.lineno, column |-> end.column])

(* get_char, one time after the other: a backslash and a new-line are      *)
(* skipped, and lines and columns counted.                                 *)
Stream(src) ==
  LET After[i \in 0 .. Len(src)] ==
        IF i = 0 THEN [chars |-> << >>, lineno |-> 1, column |-> 1]
        ELSE LET before == After[i - 1]
             IN  CASE Spliced(src, i) -> before
                   [] i > 1 /\ Spliced(src, i - 1) ->
                        [before EXCEPT !.lineno = @ + 1, !.column = 1]
                   [] OTHER -> [chars  |-> Append(before.chars, [c |-> src[i], lineno |-> before.lineno,
                                                                 column |-> before.column]),
                                lineno |-> IF src[i] = NL THEN before.lineno + 1 ELSE before.lineno,
                                column |-> IF src[i] = NL THEN 1 ELSE before.column + 1]
      end == After[Len(src)]
  IN  Append(end.chars, [c |-> NUL, lineno |-> end.lineno, column |-> end.column])

(* peek_char when i - pos more characters have been taken. *)
At(i) == IF i <= Len(chars) THEN chars[i].c ELSE "beyond"

(* The characters from i on that are in a set end before this one. *)
EndOf(set, i) ==
  CHOOSE e \in i .. Len(chars) : At(e) \notin set /\ \A k \in i .. e - 1 : At(k) \in set

-----------------------------------------------------------------------------
(* Tokens *)
Keywords == {<<"i", "f">>, <<"d", "o">>}   \* those the characters can spell

TwoChars == { <<"-", ">">>, <<"+", "+">>, <<"-", "-">>, <<"<", "<">>, <<">", ">">>, <<"<", "=">>,
              <<">", "=">>, <<"=", "=">>, <<"!", "=">>, <<"&", "&">>, <<"|", "|">>, <<"*", "=">>,
              <<"/", "=">>, <<"%", "=">>, <<"+", "=">>, <<"-", "=">> }

OneChar == {"[", "]", "(", ")", "{", "}", ".", "&", "*", "+", "-", "~", "!", "/", "%", "<", ">", "^",
            "|", "?", ":", ";", "=", ",", "#"}

Token(type, text, value, lineno, column) ==
  [type |-> type, text |-> text, value |-> value, lineno |-> lineno, column |-> column]

TextOf(from, to) == [i \in 1 .. to - from + 1 |-> At(from + i - 1)]

(* get_escape_sequence: the characters that may follow a backslash. *)
Escapes == "'" :> "'" @@ "\"" :> "\"" @@ "?" :> "?" @@ "\\" :> "\\" @@ "a" :> "BEL" @@ "b" :> "BS"
           @@ "f" :> "FF" @@ "n" :> NL @@ "r" :> "CR" @@ "v" :> "VT" @@ "t" :> "TAB" @@ "0" :> NUL

(* The value of a string literal whose text begins at i, the character     *)
(* after it, and whether it is well formed.                                *)
StringFrom(i) ==
  LET Rest[k \in i .. Len(chars)] ==
        CASE At(k) = "\"" -> [value |-> << >>, end |-> k, ok |-> TRUE]
          [] At(k) = NUL  -> [value |-> << >>, end |-> k, ok |-> FALSE]
          [] At(k) = "\\" ->
               IF At(k + 1) \notin DOMAIN Escapes THEN [value |-> << >>, end |-> k, ok |-> FALSE]
               ELSE LET rest == Rest[k + 2]
                    IN  [rest EXCEPT !.value = <<Escapes[At(k + 1)]>> \o @]
          [] OTHER        -> LET rest == Rest[k + 1] IN [rest EXCEPT !.value = <<At(k)>> \o @]
  IN  Rest[i]

-----------------------------------------------------------------------------
Lexing == phase = "lex"

c    == At(pos)
next == At(pos + 1)

(* tokenize keeps one of consecutive spaces. *)
Push(type, last, value) ==
  LET t == Token(type, IF type = "SPACE" THEN <<" ">> ELSE TextOf(pos, last), value,
                 chars[pos].lineno, chars[pos].column)
  IN  /\ pp_tokens' = IF type = "SPACE" /\ pp_tokens # << >> /\ Last(pp_tokens).type = "SPACE"
                        THEN pp_tokens ELSE Append(pp_tokens, t)
      /\ pos' = last + 1
      /\ UNCHANGED <<file, phase, chars, asm, bytes, numbers>>

Stop(how) == phase' = how /\ UNCHANGED <<file, chars, pos, pp_tokens, asm, bytes, numbers>>

(* split_lines looks for the new-line of each line.  When the last line    *)
(* has none it reads, and writes, beyond the end of the file.              *)
split_lines ==
  /\ phase = "split"
  /\ \/ phase' = "lex"
     \/ file # << >> /\ Last(read_file(file)) # NL /\ phase' = "crash"
  /\ chars' = Stream(read_file(file))
  /\ UNCHANGED <<file, pos, pp_tokens, asm, bytes, numbers>>

end_of_file ==
  /\ Lexing /\ c = NUL
  /\ pp_tokens' = Append(pp_tokens, Token("EOF", << >>, << >>, chars[pos].lineno, chars[pos].column))
  /\ phase' = "lexed"
  /\ UNCHANGED <<file, chars, pos, asm, bytes, numbers>>

new_line    == Lexing /\ c = NL /\ Push("NEWLINE", pos, << >>)
white_space == Lexing /\ c \in WhiteSpace /\ Push("SPACE", EndOf(WhiteSpace, pos) - 1, << >>)

(* The loops of both comments know no end of the file. *)
line_comment ==
  /\ Lexing /\ c = "/" /\ next = "/"
  /\ LET ends == {e \in pos + 2 .. Len(chars) : At(e) = NL}
     IN  IF ends = {} THEN Stop("crash")
         ELSE Push("SPACE", (CHOOSE e \in ends : \A k \in ends : e <= k) - 1, << >>)

block_comment ==
  /\ Lexing /\ c = "/" /\ next = "*"
  /\ LET ends == {e \in pos + 3 .. Len(chars) : At(e - 1) = "*" /\ At(e) = "/"}
     IN  IF ends = {} THEN Stop("crash")
         ELSE Push("SPACE", CHOOSE e \in ends : \A k \in ends : e <= k, << >>)

identifier ==
  /\ Lexing /\ c \in Letters \cup {"_"}
  /\ LET last == EndOf(Word, pos) - 1
     IN  Push(IF TextOf(pos, last) \in Keywords THEN "KEYWORD" ELSE "IDENTIFIER", last, << >>)

pp_number ==
  /\ Lexing /\ c \in Digits
  /\ LET last == EndOf(Word, pos) - 1 IN Push("PP_NUMBER", last, TextOf(pos, last))

(* The character that follows is taken, whatever it is. *)
character_constant ==
  /\ Lexing /\ c = "'"
  /\ LET escaped == next = "\\"
         value   == IF escaped THEN At(pos + 2) ELSE next
         last    == IF escaped THEN pos + 3 ELSE pos + 2
     IN  CASE ~escaped /\ next = NUL                      -> Stop("crash")
           [] escaped /\ value \notin DOMAIN Escapes      -> Stop("error")
           [] (escaped => value \in DOMAIN Escapes) /\ next # NUL ->
                IF At(last) = "'" THEN Push("CHAR_CONST", last, <<IF escaped THEN Escapes[value] ELSE value>>)
                ELSE Stop("error")

(* Variant: the loop does not look for the end of the file. *)
string_literal_NoEnd ==
  /\ Lexing /\ c = "\""
  /\ LET s == StringFrom(pos + 1)
     IN  CASE s.ok                          -> Push("STRING", s.end, Append(s.value, NUL))
           [] ~s.ok /\ At(s.end) = NUL      -> Stop("crash")
           [] ~s.ok /\ At(s.end) # NUL      -> Stop("error")

string_literal ==
  /\ Lexing /\ c = "\""
  /\ LET s == StringFrom(pos + 1)
     IN  IF s.ok THEN Push("STRING", s.end, Append(s.value, NUL)) ELSE Stop("error")

punctuator ==
  /\ Lexing /\ c \in OneChar /\ <<c, next>> \notin {<<"/", "/">>, <<"/", "*">>}
  /\ CASE <<c, next>> \in TwoChars -> Push("PUNCTUATOR", pos + 1, << >>)
       [] <<c, next>> = <<".", ".">> -> IF At(pos + 2) = "." THEN Push("PUNCTUATOR", pos + 2, << >>)
                                        ELSE Stop("error")
       [] OTHER -> Push("PUNCTUATOR", pos, << >>)

Known == OneChar \cup WhiteSpace \cup Word \cup {NL, NUL, "'", "\""}

invalid_character == Lexing /\ c \notin Known /\ Stop("error")

-----------------------------------------------------------------------------
(* gen_string_literal: a character between the quotes of .ascii.  BYTE is  *)
(* printed by its value with the sign of an int, in octal; of the eleven   *)
(* digits the model keeps three, no digit but 0 being read back.           *)
Printed ==
  "\\" :> <<"\\", "\\">> @@ "\"" :> <<"\\", "\"">> @@ "BEL" :> <<"\\", "a">> @@ "BS" :> <<"\\", "b">>
  @@ "FF" :> <<"\\", "f">> @@ NL :> <<"\\", "n">> @@ "CR" :> <<"\\", "r">> @@ "TAB" :> <<"\\", "t">>
  @@ "VT" :> <<"\\", "v">> @@ NUL :> <<"\\", "0">> @@ "BYTE" :> <<"\\", "3", "7", "7">>

(* Variant: a quote is printed as it is. *)
gen_char_Quote(ch) == IF ch \in DOMAIN Printed \ {"\""} THEN Printed[ch] ELSE <<ch>>

gen_char(ch) == IF ch \in DOMAIN Printed THEN Printed[ch] ELSE <<ch>>

gen_string_literal(value) ==
  LET Text[k \in 0 .. Len(value)] == IF k = 0 THEN << >> ELSE Text[k - 1] \o gen_char(value[k])
  IN  <<"\"">> \o Text[Len(value)] \o <<"\"">>

(* as_lex.c: a string token, or an error. *)
AsEscapes == "\"" :> "\"" @@ "\\" :> "\\" @@ "n" :> NL @@ "0" :> NUL

as_string(text) ==
  LET Rest[k \in 2 .. Len(text) + 1] ==
        CASE k > Len(text)  -> [value |-> << >>, end |-> k, ok |-> FALSE]
          [] text[k] = "\"" -> [value |-> << >>, end |-> k, ok |-> TRUE]
          [] text[k] = "\\" ->
               IF text[k + 1] \notin DOMAIN AsEscapes THEN [value |-> << >>, end |-> k, ok |-> FALSE]
               ELSE LET rest == Rest[k + 2] IN [rest EXCEPT !.value = <<AsEscapes[text[k + 1]]>> \o @]
          [] OTHER          -> LET rest == Rest[k + 1] IN [rest EXCEPT !.value = <<text[k]>> \o @]
  IN  Rest[2]

IsString(t) == t.type = "STRING"
IsNumber(t) == t.type = "PP_NUMBER"

-----------------------------------------------------------------------------
(* inspect_pp_number: the base of a number, its digits and where they      *)
(* begin.                                                                  *)
ValueOf == "0" :> 0 @@ "1" :> 1 @@ "8" :> 8 @@ "a" :> 10 @@ "d" :> 13 @@ "f" :> 15

(* Variant: the loop for octal digits stops after '8'. *)
Radix_Eight(text) ==
  CASE text[1] # "0"                                  -> [base |-> 10, digits |-> Digits, from |-> 1]
    [] Len(text) > 1 /\ SubSeq(text, 1, 2) = <<"0", "x">> -> [base |-> 16, digits |-> DOMAIN ValueOf, from |-> 3]
    [] OTHER                                          -> [base |-> 8, digits |-> Digits, from |-> 2]

Radix(text) ==
  CASE text[1] # "0"                                  -> [base |-> 10, digits |-> Digits, from |-> 1]
    [] Len(text) > 1 /\ SubSeq(text, 1, 2) = <<"0", "x">> -> [base |-> 16, digits |-> DOMAIN ValueOf, from |-> 3]
    [] OTHER                                          -> [base |-> 8, digits |-> {"0", "1"}, from |-> 2]

(* What may follow them.  After a u, tolower() is applied to the result of *)
(* the comparison with 'l': a capital letter is not seen.                  *)
AnyU == {"u", "U"}
AnyL == {"l", "L"}

AfterU == {<< >>, <<"l">>, <<"l", "l">>}
LongU  == {<<l>> : l \in AnyL} \cup AnyL \X AnyL

IntegerSuffixes == {<< >>} \cup LongU
            \cup {<<u>> \o l : u \in AnyU, l \in AfterU} \cup {Append(l, u) : l \in LongU, u \in AnyU}

(* The value is an unsigned long long: Modulus stands for 2^64. *)
inspect_pp_number(text) ==
  LET radix == Radix(text)
      Value[k \in radix.from - 1 .. Len(text)] ==
        IF k < radix.from THEN 0 ELSE (Value[k - 1] * radix.base + ValueOf[text[k]]) % Modulus
      last   == CHOOSE k \in radix.from - 1 .. Len(text) :
                  /\ \A j \in radix.from .. k : text[j] \in radix.digits
                  /\ k < Len(text) => text[k + 1] \notin radix.digits
      suffix == SubSeq(text, last + 1, Len(text))
  IN  [ok       |-> suffix \in IntegerSuffixes,
       value    |-> Value[last],
       decimal  |-> radix.base = 10,
       unsigned |-> ToSet(suffix) \cap AnyU # {},
       long     |-> ToSet(suffix) \cap AnyL # {}]

Each(Op(_), tokens) == << >> \o [k \in 1 .. Len(tokens) |-> Op(tokens[k].value)]

(* parse: every pp-number is inspected before the first token is parsed. *)
parse ==
  /\ phase = "lexed"
  /\ numbers' = Each(inspect_pp_number, SelectSeq(pp_tokens, IsNumber))
  /\ phase' = IF \A k \in DOMAIN numbers' : numbers'[k].ok THEN "parsed" ELSE "invalid number"
  /\ UNCHANGED <<file, chars, pos, pp_tokens, asm, bytes>>

gen_literals ==
  /\ phase = "parsed"
  /\ asm' = Each(gen_string_literal, SelectSeq(pp_tokens, IsString))
  /\ phase' = "printed"
  /\ UNCHANGED <<file, chars, pos, pp_tokens, bytes, numbers>>

as_tokenize ==
  /\ phase = "printed"
  /\ bytes' = << >> \o [k \in DOMAIN asm |-> as_string(asm[k])]
  /\ phase' = IF \A k \in DOMAIN bytes' : bytes'[k].ok THEN "done" ELSE "invalid escape"
  /\ UNCHANGED <<file, chars, pos, pp_tokens, asm, numbers>>

-----------------------------------------------------------------------------
Init ==
  /\ file \in Files
  /\ phase = "split" /\ pos = 1
  /\ chars = << >> /\ pp_tokens = << >> /\ asm = << >> /\ bytes = << >> /\ numbers = << >>

Next ==
  \/ split_lines \/ end_of_file \/ new_line \/ white_space \/ line_comment \/ block_comment
  \/ identifier \/ pp_number \/ character_constant \/ string_literal \/ punctuator \/ invalid_character
  \/ parse \/ gen_literals \/ as_tokenize

Spec == Init /\ [][Next]_vars
=============================================================================
