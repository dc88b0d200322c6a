---------------------------------- MODULE CppC --------------------------------
(***************************************************************************)
(* The preprocessor beside C: what comes out of cpp.c is what C11 says the *)
(* program is replaced by.                                                 *)
(***************************************************************************)
EXTENDS Cpp

C == INSTANCE CMacros

(* C's reading of lines with the macros ms: the replaced text with its     *)
(* marks, and the macros at the end.                                       *)
RECURSIVE Reading(_, _)

(* The first part of the lines: a directive, or the text before the next.  *)
TextLines(lines) == Cardinality({k \in DOMAIN lines : \A j \in 1 .. k : lines[j].kind = "text"})

Joined(lines) == FlattenSeq([k \in DOMAIN lines |-> Append(lines[k].text, "nl")])

Part(lines, n, ms) ==
  CASE lines[1].kind = "define" ->
         [ms |-> [x \in DOMAIN ms \cup {lines[1].def.name} |->
                    IF x = lines[1].def.name THEN lines[1].def ELSE ms[x]],
          out |-> << >>, marks |-> {}]
    [] lines[1].kind = "include" -> Reading(files.header, ms)
    [] lines[1].kind = "text" ->
         [ms |-> ms] @@ C!Replaced(C!Plain(Joined(SubSeq(lines, 1, n))), ms)

Before(part, rest) ==
  [rest EXCEPT !.out = part.out \o @, !.marks = part.marks \cup @]

GoOn(part, lines) == Before(part, Reading(lines, part.ms))

Reading(lines, ms) ==
  IF lines = << >> THEN [ms |-> ms, out |-> << >>, marks |-> {}]
  ELSE GoOn(Part(lines, TextLines(lines), ms),
            SubSeq(lines, IF TextLines(lines) = 0 THEN 2 ELSE TextLines(lines) + 1, Len(lines)))

Meant == Reading(files.main, << >>)

AgreesWith(meant, marks) ==
  meant.marks \cap marks = {} =>
    phase = "done" /\ C!Solid(frames[1].result) = C!Solid(C!Bare(meant.out))

(* The tokens that come out are the ones C says, for every program that    *)
(* none of these marks apply to.                                           *)
Agrees(marks) ==
  phase # "run" => AgreesWith(Meant, marks)

(* cpp.c replaces the text of a program as C says, and accepts it, if no   *)
(* argument is empty or names the macro it is an argument of, and every    *)
(* invocation stands in one list of tokens with its parenthesis next to    *)
(* the name (cpp.c:97-106, 153-275).                                       *)
FollowsC == Agrees({"ill", "empty", "space", "nested", "rest"})
=============================================================================
