---------------------------------- MODULE Cpp ---------------------------------
(***************************************************************************)
(* The preprocessor.  cpp.c reads tokens through the globals tokens and    *)
(* pos; whoever wants to read something else (an included file, the text   *)
(* of a group of lines, a replacement list) stashes them, reads, and       *)
(* restores them.  A macro is marked as expanded while its replacement is  *)
(* scanned, which is all that keeps a recursive macro from expanding       *)
(* forever.                                                                *)
(*                                                                         *)
(* A file is a sequence of lines, #define, #include or text; what the text *)
(* and the replacement lists consist of is a sequence of tokens, of which   *)
(* "sp" is white space and "nl" the end of a line.                         *)
(***************************************************************************)
EXTENDS Integers, Sequences, FiniteSets, SequencesExt

CONSTANTS Idents,    \* the identifiers that may be names of macros
          Tokens,    \* the tokens
          Programs,  \* the programs: main and header, the files
          MaxFrames  \* bound on the recursion; NestedOnce shows it is not met

(* A file is a sequence of lines.  The header includes nothing: an         *)
(* #include of itself would be followed without end.  MaxFrames leaves     *)
(* room for both files, the text of a line and each macro once.            *)
IsFile(f) ==
  /\ f \in Seq({f[k] : k \in DOMAIN f})
  /\ \A k \in DOMAIN f : f[k].kind = "define" => f[k].def.name \in Idents

ASSUME CppAssumption ==
  /\ IsFiniteSet(Idents)
  /\ Idents \subseteq Tokens
  /\ Idents \cap {"(", ")", ",", "sp", "nl", "none"} = {}
  /\ MaxFrames \in Nat /\ MaxFrames > Cardinality(Idents) + 3
  /\ \A p \in Programs :
       /\ IsFile(p.main) /\ IsFile(p.header)
       /\ \A k \in DOMAIN p.header : p.header[k].kind # "include"

VARIABLES phase,     \* "run", "done", "error" or "crash"
          files,     \* the program
          macros,    \* the map from identifiers to macros
          expanded,  \* the macros whose `expanded' is set
          tokens, pos,
          stashed,   \* stash_tokens and stash_pos
          frames     \* the activations of group, replace_macro, expand_function_macro

vars == <<phase, frames, pos, files, macros, expanded, tokens, stashed>>

Group == [fn |-> "group", macro |-> "none", result |-> << >>, args |-> << >>]

Replace(name) == [fn |-> "replace", macro |-> name, result |-> << >>, args |-> << >>]

Gather(name) == [fn |-> "gather", macro |-> name, result |-> << >>, args |-> << >>]

Top == Last(frames)

In(fn) == phase = "run" /\ frames # << >> /\ Top.fn = fn

has_next == pos <= Len(tokens)

(* check: the next token, which must be there, is t. *)
Sees(k, t) == k <= Len(tokens) /\ tokens[k] = t

stash(ts, from) ==
  /\ stashed' = Append(stashed, [tokens |-> tokens, pos |-> from])
  /\ tokens' = ts
  /\ pos' = 1

(* Variant: what is restored stays stashed. *)
restore_Keep ==
  /\ tokens' = Last(stashed).tokens
  /\ pos' = Last(stashed).pos
  /\ stashed' = stashed

restore ==
  /\ tokens' = Last(stashed).tokens
  /\ pos' = Last(stashed).pos
  /\ stashed' = Front(stashed)

(* The innermost activation returns and its result is merged into the      *)
(* result of the one that called it.                                       *)
Return ==
  LET k == Len(frames) - 1
  IN  frames' = [Front(frames) EXCEPT ![k].result = @ \o Top.result]

Stop(how) ==
  /\ phase' = how
  /\ UNCHANGED <<files, macros, expanded, tokens, pos, stashed, frames>>

-----------------------------------------------------------------------------
(* group: the directives and the text between them. *)
Line(kind) == In("group") /\ has_next /\ tokens[pos].kind = kind

define_directive ==
  /\ Line("define")
  /\ LET def == tokens[pos].def
     IN  macros' = [x \in DOMAIN macros \cup {def.name} |->
                      IF x = def.name THEN def ELSE macros[x]]
  /\ pos' = pos + 1
  /\ UNCHANGED <<phase, files, expanded, tokens, stashed, frames>>

include_directive ==
  /\ Line("include")
  /\ Len(frames) < MaxFrames
  /\ stash(files.header, pos + 1)
  /\ frames' = Append(frames, Group)
  /\ UNCHANGED <<phase, files, macros, expanded>>

(* text_line takes the lines up to the next directive, and their           *)
(* replacement starts.                                                     *)
TextEnd ==
  CHOOSE k \in pos .. Len(tokens) :
    /\ \A j \in pos .. k : tokens[j].kind = "text"
    /\ k = Len(tokens) \/ tokens[k + 1].kind # "text"

Text(from, to) ==
  FlattenSeq([j \in 1 .. to - from + 1 |-> Append(tokens[from + j - 1].text, "nl")])

text_line ==
  /\ Line("text")
  /\ Len(frames) < MaxFrames
  /\ stash(Text(pos, TextEnd), TextEnd + 1)
  /\ frames' = Append(frames, Replace("none"))
  /\ UNCHANGED <<phase, files, macros, expanded>>

group_end ==
  /\ In("group")
  /\ ~has_next
  /\ \/ /\ Len(frames) = 1
        /\ Stop("done")
     \/ /\ Len(frames) > 1
        /\ restore
        /\ Return
        /\ UNCHANGED <<phase, files, macros, expanded>>

-----------------------------------------------------------------------------
(* replace_macro *)
IsMacro(x, type) == x \in DOMAIN macros /\ x \notin expanded /\ macros[x].type = type

check_object_macro == IsMacro(tokens[pos], "object")

check_function_macro == IsMacro(tokens[pos], "function") /\ Sees(pos + 1, "(")

(* A token that is not replaced. *)
replace_copy ==
  /\ In("replace")
  /\ has_next
  /\ ~check_object_macro /\ ~check_function_macro
  /\ frames' = [frames EXCEPT ![Len(frames)].result = Append(@, tokens[pos])]
  /\ pos' = pos + 1
  /\ UNCHANGED <<phase, files, macros, expanded, tokens, stashed>>

(* Variant: the macro is not marked. *)
ReplaceWith_Unmarked(name, ts, from, below) ==
  /\ expanded' = expanded
  /\ stash(ts, from)
  /\ frames' = Append(below, Replace(name))
  /\ UNCHANGED <<phase, files, macros>>

(* replace_macro is called on a replacement, with the macro marked. *)
ReplaceWith(name, ts, from, below) ==
  /\ expanded' = expanded \cup {name}
  /\ stash(ts, from)
  /\ frames' = Append(below, Replace(name))
  /\ UNCHANGED <<phase, files, macros>>

expand_object_macro ==
  /\ In("replace")
  /\ has_next
  /\ check_object_macro
  /\ Len(frames) < MaxFrames
  /\ ReplaceWith(tokens[pos], macros[tokens[pos]].replace, pos + 1, frames)

(* Variant: the mark of the macro stays. *)
replace_end_Marked ==
  /\ In("replace")
  /\ ~has_next
  /\ expanded' = expanded
  /\ restore
  /\ Return
  /\ UNCHANGED <<phase, files, macros>>

replace_end ==
  /\ In("replace")
  /\ ~has_next
  /\ expanded' = expanded \ {Top.macro}
  /\ restore
  /\ Return
  /\ UNCHANGED <<phase, files, macros>>

-----------------------------------------------------------------------------
(* expand_function_macro *)
Skipped(k) == IF Sees(k, "sp") THEN k + 1 ELSE k

expand_function_macro ==
  /\ In("replace")
  /\ has_next
  /\ check_function_macro
  /\ Len(frames) < MaxFrames
  /\ frames' = Append(frames, Gather(tokens[pos]))
  /\ pos' = pos + 2
  /\ UNCHANGED <<phase, files, macros, expanded, tokens, stashed>>

Count(t, from, to) == Cardinality({j \in from .. to : tokens[j] = t})

(* Variant: parentheses within an argument are not counted. *)
ArgumentEnds_Flat(from, stops) ==
  {k \in from .. Len(tokens) - 1 : tokens[k + 1] \in stops}

(* Where an argument that begins at from may end: a place with as many     *)
(* parentheses closed as opened, before one of the tokens in stops.        *)
ArgumentEnds(from, stops) ==
  {k \in from .. Len(tokens) - 1 :
     /\ Count("(", from, k) = Count(")", from, k)
     /\ tokens[k + 1] \in stops}

ArgumentEnd(from, stops) ==
  CHOOSE k \in ArgumentEnds(from, stops) : \A j \in ArgumentEnds(from, stops) : k <= j

(* The tokens of the argument, without a space at its end. *)
Argument(from, end) ==
  SubSeq(tokens, from, IF tokens[end] = "sp" THEN end - 1 ELSE end)

(* The argument of the next parameter is read, and the comma after it if   *)
(* there must or may be one; or, past the end of the tokens, the NULL that *)
(* is there is dereferenced.                                               *)
gather_arg(name, stops, must, may) ==
  LET from == Skipped(pos)
      end  == ArgumentEnd(from, stops)
  IN  IF ArgumentEnds(from, stops) = {} THEN Stop("crash")
      ELSE IF must /\ tokens[end + 1] # "," THEN Stop("error")
      ELSE /\ frames' = [frames EXCEPT ![Len(frames)].args =
                           Append(@, [param |-> name, tokens |-> Argument(from, end)])]
           /\ pos' = IF may /\ tokens[end + 1] = "," THEN end + 2 ELSE end + 1
           /\ UNCHANGED <<phase, files, macros, expanded, tokens, stashed>>

Gathering == macros[Top.macro]

Gathered == Len(Top.args)

(* The loop over the parameters: a comma must follow all but the last, and *)
(* may follow the last if there is an ellipsis.                            *)
gather_param ==
  /\ In("gather")
  /\ Gathered < Len(Gathering.params)
  /\ LET last == Gathered + 1 = Len(Gathering.params)
     IN  gather_arg(Gathering.params[Gathered + 1], {",", ")"}, ~last, ~last \/ Gathering.ellipsis)

gather_va_args ==
  /\ In("gather")
  /\ Gathering.ellipsis
  /\ Gathered = Len(Gathering.params)
  /\ gather_arg("__VA_ARGS__", {")"}, FALSE, FALSE)

(* expect(')'), the parameters are replaced, and the result is scanned.    *)
Substituted(replace, args) ==
  LET Of(t) == {i \in DOMAIN args : args[i].param = t}
  IN  FlattenSeq([j \in DOMAIN replace |->
                    IF Of(replace[j]) = {} THEN <<replace[j]>>
                    ELSE args[CHOOSE i \in Of(replace[j]) : \A k \in Of(replace[j]) : k <= i].tokens])

substitute ==
  /\ In("gather")
  /\ Gathered = Len(Gathering.params) + (IF Gathering.ellipsis THEN 1 ELSE 0)
  /\ IF pos > Len(tokens) THEN Stop("crash")
     ELSE IF tokens[pos] # ")" THEN Stop("error")
     ELSE ReplaceWith(Top.macro, Substituted(Gathering.replace, Top.args), pos + 1, Front(frames))

-----------------------------------------------------------------------------
Init ==
  /\ phase = "run"
  /\ files \in Programs
  /\ macros = << >>
  /\ expanded = {}
  /\ tokens = files.main
  /\ pos = 1
  /\ stashed = << >>
  /\ frames = <<Group>>

Next ==
  \/ define_directive \/ include_directive \/ text_line \/ group_end
  \/ replace_copy \/ expand_object_macro \/ replace_end
  \/ expand_function_macro \/ gather_param \/ gather_va_args \/ substitute

(* The preprocessor is sequential: its next step is the only one there is. *)
Spec == Init /\ [][Next]_vars /\ WF_vars(Next)

-----------------------------------------------------------------------------
(* The activations in which the replacement of a macro is scanned. *)
Scanning == {k \in DOMAIN frames : frames[k].fn = "replace" /\ frames[k].macro # "none"}

(* The macros marked are those whose replacement is being scanned, each of *)
(* them once: however macros name each other, they nest no deeper than     *)
(* there are macros (cpp.c:153-168, 242-248).                              *)
NestedOnce ==
  /\ expanded = {frames[k].macro : k \in Scanning}
  /\ Cardinality(expanded) = Cardinality(Scanning)
  /\ Len(frames) < MaxFrames

(* An activation of expand_function_macro has no tokens of its own. *)
Readers == {k \in DOMAIN frames : frames[k].fn # "gather"}

(* What the k-th reader reads, now or when it goes on.                     *)
ReadBy(k) == IF k \in DOMAIN stashed THEN stashed[k].tokens ELSE tokens

(* Whatever was read in between, a reader goes on in the tokens it was in: *)
(* there is one stash for each reader that waits, the first reader reads   *)
(* the file itself and every other group the header, and nothing is        *)
(* stashed at the end (cpp.c:57-67, 253-275, 325-340).                     *)
Restored ==
  /\ Len(stashed) = Cardinality(Readers) - 1
  /\ \A k \in Readers :
       frames[k].fn = "group" => ReadBy(k) = IF k = 1 THEN files.main ELSE files.header
  /\ phase = "done" => stashed = << >> /\ expanded = {}

(* Preprocessing ends, whatever the macros and the files are.              *)
Terminates == <>(phase # "run")
=============================================================================
