# A TLA+ development of sk2cc

sk2cc is a self-hosting compiler for a subset of C, with an assembler.  This
directory holds specifications of its parts, the TLC runs that check them on
bounded instances, and TLAPS proofs of the most important properties.  Line
numbers refer to the sources in `src/`.

## 1. The system

sk2cc is a sequential program without persistent state.  `main.c` runs one of
three commands, and every phase hands a complete data structure to the next:

    compile:   file -> lex.c -> cpp.c -> parse.c -> sema.c -> gen.c -> assembly
    --cpp:     file -> lex.c -> cpp.c -> text
    --as:      assembly -> as_lex.c -> as_parse.c -> as_sema.c -> as_encode.c
                        -> as_gen.c -> ELF object file

An error of any phase is a message and `exit(1)` (`error.c`, `as_error.c`).
There is no concurrency, no timeout and no message that could be lost.  What is
hard in this program is of another kind:

- *Bookkeeping done twice.*  The compiler keeps at compile time a record of what
  the printed code does at run time: the depth of the stack (`stack_depth`),
  frame offsets, label numbers, symbol indices.  The two must never diverge, on
  any nesting of constructs, and a divergence shows only in some programs.
- *Global state around recursion.*  `tokens`/`pos` in `cpp.c`, `stack_depth` in
  `gen.c`, the target stacks in `sema.c` and the `expanded` marks of macros are
  saved, changed and restored around recursive calls.
- *Agreements between files that are written down nowhere*: the size of the
  register save area (176 in both `sema.c` and `gen.c`), the terminating `NULL`
  of a vector that `cpp.c` and `parse.c` run on, the instructions and escapes
  `gen.c` prints and the assembler accepts, the bits of a register each form of
  expression leaves defined.
- *Shared structures changed in place*: a type is one object for all that point
  to it, and is completed when its tag or its initialiser turns up.
- *Boundaries*: six register arguments, 16-byte alignment, the exceptions of
  the x86 encoding, buffers at their capacity.

### Components

| component | code | state | operations | what makes it correct | model |
|---|---|---|---|---|---|
| vector | `vector.c` | buffer, capacity, length | push, pop, last, merge | is a stack of pointers; NULL after the last element, inside the buffer | `Vector`, `SeqStacks` |
| expressions | `gen.c:43-943` | `stack_depth`; the stack of the printed code | `gen_expr`, `gen_lvalue`, `gen_call` | depth known exactly; operands in their registers; calls aligned | `GenStack` |
| frames | `sema.c:12-49`, `gen.c:211-280, 1196-1267` | offsets, `stack_size`; memory of the frame | `put_variable`, prologue, stores, `va_start`, `va_arg` | variables apart; linkage kept; variable arguments in order | `Frame`, `CFrame` |
| statements | `sema.c:1382-1693`, `gen.c:945-1151` | target stacks, label lists, `label_no` | `sema_*`, `gen_*` of statements | printed jumps follow C; each label once; ill-formed bodies rejected | `Stmts` |
| preprocessor | `cpp.c` | `tokens`, `pos`, stash, macros, marks | directives, text lines, macro replacement | streams nest; recursion stops; result is C's | `Cpp`, `CMacros`, `CppC` |
| object files | `as_encode.c:1-109,183-191`, `as_gen.c`, `map.c` | section, symbols, relocations | labels, directives, references, `gen_obj` | every reference arrives, wherever the linker puts things | `AsObj` |
| instructions | `as_parse.c`, `as_sema.c`, `as_encode.c` | one instruction and its bytes | parse, check, encode | the bytes mean what was written | `Encode`, `X86` |
| lexer | `lex.c`; `parse.c:1585-1700`, `gen.c:1269-1306`, `as_lex.c:118-160` for what becomes of literals | position, line, column, tokens | `get_char`, one reader per kind of token | the tokens, places and values are C's; ends inside the file; literals come back from the assembler | `Lexer`, `LexerC` |
| parser | `parse.c` | token position, scopes, calls in progress | one function per rule | the tree is the grammar's; type names told from identifiers | `Parser`, `CGrammar`, `ParserC` |
| types of expressions | `sema.c:67-1045`, `gen.c:282-943` | types of operands; registers | `sema_*`, conversions, `gen_*` | type and value are C's | `Values`, `CArith` |
| declarations, data | `sema.c:50-66, 100-200, 1050-1380`, `gen.c:1153-1194` | tag scopes, types, variables | specifiers, declarators, initialisers | layout; tags; initial values in place | `Decls`, `DeclsC` |
| names | `parse.c:8-32, 710-726, 1046-1054, 1522-1583`, `sema.c:14-49, 1632-1665`, `gen.c:115-181, 286-289, 376-378, 1177-1220` | scopes, symbols with `prev`, `link`, `definition` | declarations, definitions, uses | labels and `.global` are those of C's definitions; uses reach their declaration | `Linkage`, `LinkageC` |
| map, string, binary | `map.c`, `string.c`, `binary.c` | buffers | put/lookup, push | as `vector.c` | map as a function in `AsObj` |
| drivers, errors | `main.c`, `cc.c`, `as.c`, `error.c`, `as_error.c` | none | | | an error is a final phase of the models |

The phases interact by data only: `Stmts` and `Frame` model the part of `sema.c`
that writes the fields `gen.c` reads (`break_target`, `offset`, `stack_size`)
together with the part of `gen.c` that reads them; `Encode` relates what `gen.c`
prints to what the assembler accepts; `AsObj` takes the statements of an
assembly file in the form `gen.c` prints them; `Lexer` follows a literal from the
source through `gen_string_literal` to the assembler's reading of it; `Values`
begins with operands where `GenStack` shows them to be, and `Decls` reserves memory
that `Frame` lays out.  `Vector` is what the others take
for granted when they write a vector as a sequence.

## 2. Modules

### Vector (with SeqStacks, VectorProofs)

`Vector` has, for each vector, `capacity`, `length` and `buffer` as in
`vector.h`; the cells a `realloc` adds hold `Junk`.  `vector_push`,
`vector_pop`, `vector_last` are one action each; `vector_merge` is a loop, hence
three actions (`MergeBegin`, `MergeStep`, `MergeEnd`), so that what holds half-way
is checked as well.  A vector is not merged into itself, as nowhere in the
program.  Popping an empty vector is not defined by the code and is never done
(`FlowAgrees` of `Stmts` and `Restored` of `Cpp` are about its callers).
`SeqStacks` is the abstract specification: named stacks.

### GenStack (with GenStackProofs)

The generator is a recursion; `frames` is its activation stack.  The tree of the
expression is chosen as the recursion descends.  The run-time stack of the
printed code is the sequence `slots`, whose elements say whose value they are
(`Operand(level, k)`: the value of operand k of the activation at that level).
Functions of `gen.c` with the same pushes and pops share a form: `binary` stands
for the thirteen functions `gen_mul` to `gen_or`, `unary` for `gen_uminus`,
`gen_not`, `gen_lnot` and `gen_cast`.  `gen_call` is split where the printed
code has a state of its own: padding, each argument, the pops, the call, the
restoration of `%rsp`, the push of the result.

### Frame (with CFrame, FrameProofs)

First `sema_func`, `sema_param` and `sema_decl` assign offsets; then `gen_func`
prints the prologue, which the model runs on a memory of 8-byte cells relative
to `%rbp`; then the body assigns to variables and walks `va_list`s.  The caller's
part of the stack is as `gen_call` leaves it (`ArgsInPlace` of `GenStack`).
`CFrame` is what C promises of the same call: separate variables, initial values
of parameters, arguments in order.  The refinement mapping reads each variable's
cells and each list's position.

### Stmts (with StmtsProofs)

A function is made of the kinds of statement of one of the `Grammars`, within its
bounds.  `sema_stmt` walks a tree chosen as it goes and fills the target stacks; an ill
body ends in `error`.  `gen_stmt` prints a sequence of labels, jumps and
evaluations, with the numbering of `label_no`; `Template` has one line per
statement form.  A case joins the `cases` of its switch when it is met (`switch_cases` in the
code).  The properties compare the code with the order of evaluation
the C standard gives the tree, told from the tree alone (`Follows`).  Conditions
are free: `FlowAgrees` looks at every evaluation and every value it may have.

### Cpp (with CMacros, CppC, CppProofs)

`frames` holds the activations of `group`, `replace_macro` and
`expand_function_macro`; `tokens`, `pos` and `stashed` are the globals.  Reading
a token that does not match is the phase `error`, reading past the terminating
NULL is `crash`.  `CMacros` is macro replacement as C11 6.10.3 has it, with hide
sets; it also says of a text which of the known deviations it meets (`marks`).
`CppC` compares.

### AsObj (with AsObjProofs)

The statements are the inputs; the object file's symbol table, relocation
entries and patched fields are the output.  `gen_obj` is three actions: it begins,
it numbers one symbol of the map after the other (`gen_symtab`), it writes the
relocations (`gen_rela`).  The linker is external and appears
only in the properties: it may put the sections anywhere in `Layouts` and find
imports anywhere in `Imports`.  A reference is recorded with what it means
(`refs`) besides the relocation the code makes of it.

### Encode (with X86, EncodeProofs)

One instruction from operands to bytes.  Sixty encoder functions reduce to seven
shapes (`TwoOperands`, `Extension`, `OneOperand`, `SetByte`, `Instr`, relative
jumps, plain opcodes).  `X86` decodes the bytes with tables taken from the
processor's manual, not from `as_encode.c`, and compares with what was written.

### Lexer (with LexerC)

A file is a sequence of characters; `split_lines` and the character reader come
first, then one action per kind of token (`next_token` and the functions it
calls), each with its own way to end outside the file (`crash`).  Afterwards
`parse` reads the numbers (`inspect_pp_number`), `gen` prints the literals and
`as` reads them back, each in one action.  `LexerC` takes the translation phases
of C11 5.1.1.2 one after the other: it splices all lines, then takes the longest
text that is a token.

### Parser (with CGrammar, ParserC)

The stack of calls is `todo`; a function of `parse.c` is the sequence of what it
does at the token it looks at (`Function`), and a token is chosen when it is first looked at,
so that one run covers every sentence and every first error.  The tree is
written in postfix.  `CGrammar` holds the grammar of C11 as productions and
computes all its sentences up to a length, with their trees; `ParserC` compares,
and tells scopes from the brackets of the text alone.

### Values (with CArith)

Operands that have been evaluated, each with its type and all bits of its
register; one action per operator joins two of them, so the expression built so
far may be of any size.  `CArith` is the arithmetic of C11 6.3 and 6.5 on the same
operands.  The widths are constants; a difference to C that is known has a name,
and an expression in which one appears is not continued.

### Decls (with DeclsC)

`types` is the heap of `type_new`; specifiers, declarators and initialisers are
applied to it as `sema.c` does, in place.  `gen` then prints or stores each initial
value.  C's own tags are kept beside (`ctags`, `uses`); `DeclsC` states the layout
of the System V ABI and the place of each element.

### Linkage (with LinkageC, LinkageProofs)

A unit is a sequence of items (declarations, definitions, parameters, uses, braces),
one for each call of `declaration`, `external_declaration`, `parameter_declaration`,
`primary_expression` and so on as the parser reads it; `sema_*` and `gen_*` then go
over the same items one by one.
`symbols` are the `Symbol`s of `cc.h`; the labels, `.global` directives and operands
printed are in `out`.  `LinkageC` tells scope, linkage and definitions from the items
alone, by C11 6.2.1, 6.2.2 and 6.9.2.

## 3. Runs

Each run is listed in `PROJECT.json` with its properties; every property is
violated by at least one mutation of the model: an operator marked "Variant",
kept beside the definition it would replace, that has a plausible mistake
(`Grown_Late`, `Popped_Not`).

| run | bounds | why they are enough |
|---|---|---|
| `vector` | 2 vectors, 2 values, capacity 2, length 4 | the length meets the capacity at 2 and at 4, and the buffer doubles twice; both ends of a merge grow |
| `gen_stack` | 5 activations, arities 0, 1, 6, 7, 8, frames of 0 and 8 bytes | calls below, at and above six arguments, of both parities, as operands and arguments of each other, at both alignments |
| `frame` | 0, 5, 6, 7 parameters of 4 bytes, one local of 1 or 24 bytes, up to 3 further arguments, 2 lists | each side of the limit of 6, sizes that need rounding and that span cells, two lists at different positions |
| `as_obj` | 6 statements, 2 identifiers, 2 layouts | each of reference, label, `.global` and section change in every order; sections in both orders |
| `stmts` | three grammars: 6 statements of loops, `if`, blocks, break, continue, return; 6 of `if`/`else`, `for (;;)`, blocks, 2 labels, goto, return; 8 of switch, case, default, `while`, blocks, break, continue | two loops in each other with an exit of each; labels and gotos in and out of blocks and loops; a switch in a loop in a switch, fallthrough, cases inside blocks |
| `cpp` | 7 tables of two macros, every text of 4 tokens, calls with 3 tokens of argument, 5 tokens with spaces; with and without a header | direct and mutual recursion, macros made by macros, nested calls, ellipsis, a macro defined in a header and used around it |
| `encode` | all 42 mnemonics, sizes, register numbers 1, 4, 13 (all 16 with `mov`, `lea`, `push`, `pop`), all address forms, immediates at the sign boundary | each REX bit on and off in each position, the exceptions of rsp/r12 and rbp/r13, both displacement limits |
| `lexer` | every file of 6 characters over 4 alphabets (comments, splicing, line ends, quotes), of 3 or 4 characters and a new-line over 7 (operators, words, literals, numbers) | two comments or splices in each other, an open one at the end, each two operators next to each other, each escape, each order of suffix letters |
| `parser` | some forty vocabularies of 3 to 12 tokens, sentences of 5 to 14 tokens | each two neighbouring levels of precedence, each prefix with each postfix, dangling else, casts and `sizeof` in each other, declarators of pointers, arrays and functions, a name declared again in blocks, parameters, `for` and enumerations |
| `values` | chars, shorts, ints and longs of 2, 3, 4, 5 bits, all values; the second operand next to the bounds of its type | each of the conversions between ten types at its limits; the upper bits of a register clean and dirty |
| `linkage` | 5 items of one object in and around functions, 5 of one function, 6 of both kinds with parameters; blocks up to 3 deep | every storage class after every other, a definition before, between and after declarations, an inner name that hides an object, a function or a parameter, and ends |
| `decls` | 4 declarations of 2 tags in 2 scopes; structures of 3 members of all sizes, nested twice; initialisers of 2 dimensions with 3 items | a tag used before, in and after its definition, inside and outside its scope; padding before, between and after; lists shorter than, as long as and longer than the array |

`CHECK_DEADLOCK FALSE` stands where the program is done when its input is
(`frame`, `as_obj`, `stmts`, `cpp`, `encode`, `lexer`, `parser`, `values`,
`decls`, `linkage`) and for `vector`, whose length is
bounded.  `gen_stack` has no end (another function can follow) and is checked for
deadlock: the generator never waits for a value nobody pushes.

### Known deviations

Deviations met while modelling that have no run of their own; each is a condition
in the passing properties, or shows in the names of the definitions, so that what
those say is exact.

Statements:

- A switch without default falls into its body, and a default is jumped to before
  the cases after it are compared (`gen.c:1028`).  All switches of the repository's
  tests end with their default, and so do those of the `stmts` run
  (`AnySwitch = FALSE`); with `TRUE` TLC shows `FlowAgrees` violated.

Assembler and preprocessor:

- A `.quad` of a label of its own section that is not global becomes a 32-bit
  distance (`as_gen.c:33`).  `gen.c` prints none, and `as_obj` restricts `.quad` to
  what it does print (`AnyQuad = FALSE`: from `.data` to a label already placed in
  `.rodata`).
- `movzb` and `movsb` from `%spl`, `%bpl`, `%sil` and `%dil` lack the prefix that names
  them (`as_encode.c:381`; `FromByteRegister` of `X86`).
- 64-bit immediates keep 32 bits, which `movq` sign-extends (`as_lex.c:213`;
  `LargeImmediate` of `X86`, `immediate` of `Values`); `gen.c:300` prints such.
- The `%rip` operand of an instruction with an immediate (`movl $1, x(%rip)`) is
  off by the size of the immediate (`as_encode.c:184`): `as_obj` has
  `Trailing = {0}`.
- A `.quad` of an identifier no other statement mentions makes `gen_rela` follow a
  null symbol (`as_gen.c:16`): excluded by `AnyQuad = FALSE`.
- Arguments are substituted unexpanded while the macro is marked
  (`cpp.c:231-247`), so `F(F(x))` keeps the inner `F`; an empty argument takes the
  comma or parenthesis after it (`cpp.c:190-199`); a function macro with a space
  before its parenthesis is not replaced (`cpp.c:100`); a replacement is not rescanned
  together with the rest of the line (`cpp.c:254-275`).  These are the marks
  `nested`, `empty`, `space` and `rest` of `CMacros`; `FollowsC` is about the
  programs that meet none of them.
- `leal`, `leaw`, the set instructions with a suffix or register of another size,
  and `cltd`, `cqto`, `leave` and `ret` with a suffix that is not theirs, which
  `put_insts` accepts with every instruction (`as_parse.c:131`), are encoded as if it
  were theirs (`OtherSize` of `X86`); accepted forms that no
  branch of the encoder covers (`negb %al`, `addw $1, %ax`) leave no bytes.
  `EncodesMeaning` is about the bytes there are; `AcceptsPrinted` shows that no
  form `gen.c` prints is among the dropped ones.

Lexer:

- `<<=`, `>>=`, `&=`, `|=`, `^=`, `##`, digraphs, floating constants, character
  constants of several characters, octal and hexadecimal escapes and encoding
  prefixes are no tokens of `lex.c` (`NotTaken` of `LexerC`).
- `uL` and `UL` are rejected, a parenthesis being misplaced at `parse.c:1647` and
  1650; `lL`, and `0x` without digits, are accepted (`NumbersRead`).
- The escapes `\a`, `\b`, `\f`, `\r`, `\t`, `\v` and characters that are not
  printable are printed by `gen.c` in a form its own assembler rejects
  (`Unreadable`); GNU as takes them.
- A lone quote and a new-line in a literal are accepted (`Undefined`); a file
  without a new-line at its end, or with a comment nothing ends, is read past its
  end (`InBounds`).

Parser:

- A unary operator takes a unary-expression, so `-(int) x` is an error; what
  follows `sizeof (x)` is not read as part of its operand; a typedef name cannot
  be declared again in an inner scope (`CastOperand`, `SizeofGoesOn`, `TypedefAgain`
  of `ParserC`).
- A name is entered after its initialiser, so `int x = x` means the outer `x`; the
  bodies of `if`, `while` and `switch` open no scope.
- `(T) x = y` and an empty list of specifiers are accepted here and refused by
  `sema.c`; parenthesised declarators are not parsed; `{}` is accepted as an
  initialiser; a label may not be named like a type.

Values (the names are those of `known`):

- `long to _Bool`: a long is not compared to 0.  `movzbw`: the line printed for an
  unsigned char to a short lacks its new-line (`gen.c:449`).
- `above an int`: a test of an int looks at all of `%rax`, and an unsigned int is
  widened by no instruction, whatever is in the upper half; `index`: an int added to
  a pointer is not sign-extended.
- `sar`: an unsigned value is shifted right with its sign; `type of a shift`: shifts
  have the common type of both operands; `type of sizeof`: it is an int.
- `difference of pointers`, `null pointer` (comparison and `?:`), `cast of a pointer`
  (to or from what is no long), `pointer to _Bool` are refused; `no cast`: a pointer
  is assigned to a long, and a long to a pointer, without one.
- `+x` of an lvalue remains one.

Declarations:

- A tag of an outer scope that is declared again in an inner one is the outer one,
  a structure may be defined twice, and an `enum` tag taken for a `struct`
  (phases `tag of an outer scope`, `redefinition`, `kind of a tag`).
- An array type without a length that has a typedef name is completed for all its
  users by the first initialiser (`completed for all`); arrays of an incomplete
  type have size 0 (`no size`).
- A structure without members divides by zero, and a brace around the initialiser
  of a scalar or structure follows a null pointer (`crash`).
- Global integers take four bytes, whatever their type (`gen.c:1170`; `Wide`); the
  length of inner lists is not checked (`Within`); the rest of a local array is not
  cleared (`InPlace` says only where the items that are written stand).

Names (`Known` of `LinkageC`):

- After a definition no declaration of the same name is accepted in its scope, not
  even a prototype, an `extern` or a second tentative definition (`sema.c:15`).
- `extern` with a value defines nothing; `extern` and `static` are refused in blocks;
  a function is internal only if its definition says `static`; a function that a
  block declares has an offset in the frame for its value.
- A call of an object follows a null pointer in `sema_call`; a function that is not
  declared may be called.
- A function's name that is neither called nor the operand of `&` stops `gen.c` at the
  assertion of `gen_load` (`gen.c:178`; phase `assertion`, `LoadsFunction`): an item
  does not say whether `&` stands before the name, so both ways are taken.

### Fairness

Safety needs none.  Two liveness properties are checked.  `MergeEnds` assumes
weak fairness of the steps of the merge loop: they are consecutive iterations of
a loop in a sequential program, and nothing else can happen before it ends.  `Terminates`
assumes `WF_vars(Next)`: the preprocessor is one thread and goes on while it can.

## 4. Proofs

Eight modules prove, for every value of the constants allowed by the assumption of
the module each is about (`VectorAssumption` and so on):

| theorem | statement |
|---|---|
| `VectorTypeOK` | `Spec => []TypeOK` |
| `VectorTerminated` | `Spec => []Terminated` |
| `VectorRefines` | `Spec => RefinesStacks`: a vector implements a stack |
| `VectorMergeAppends` | `Spec => MergeAppends`: a merge has appended its source when it ends |
| `GenStackTypeOK`, `GenStackDepth`, `GenStackOperands`, `GenStackAligned`, `GenStackArgs`, `GenStackJumps`, `GenStackBalanced` | `Spec => []` of the property of that name |
| `GenStackBelow` | `Spec => BelowUntouched` |
| `FrameVariablesApart`, `FrameLinkageKept`, `FrameListsInBounds` | `Spec => []` of the property of that name |
| `FrameRefinesC` | `Spec => RefinesC`: the frame implements the call C promises |
| `AsObjSymtabExact` | `Spec => []SymtabExact` |
| `AsObjNothingForgotten` | `Spec => NothingForgotten` |
| `AsObjLinkedRight` | `Spec => []LinkedRight`, assuming `Trailing = {0}` and `~AnyQuad` |
| `Nested` (`CppProofs`) | `Spec => []NestedOnce`: what is marked is what is being replaced, and the recursion is bounded |
| `ReadsRestored` (`CppProofs`) | `Spec => []Restored` |
| `StopsAtIll` (`StmtsProofs`) | `Spec => []RejectsIll` |
| `LabelsMeet` (`StmtsProofs`) | `Spec => []PrintedOnce` |
| `FollowsControl` (`StmtsProofs`) | `Spec => []FlowAgrees`, assuming `AnySwitch = FALSE`: the code follows C's order of evaluation |
| `NamesAreLinked` (`LinkageProofs`) | `Spec => []NamesLinked`: labels, `.global` and operands are what C's scopes and linkages make them |
| `BytesMean` (`EncodeProofs`) | `Spec => []EncodesMeaning`: bytes mean what was written |
| `PrintedAccepted` (`EncodeProofs`) | `Spec => []AcceptsPrinted`: what `gen.c` prints is encoded |

*Vector.*  The properties are inductive only together and with `MergeOK`: a merge
under way has copied no more than its source holds.  `PushKeeps` says what
storing one pointer does, at a doubling or not, and is used by push and merge.
For the refinement each action is mapped to `Push`, `Pop`, `Last` or a stutter.
For `MergeAppends` the invariant gets `Copied`: during the loop the last `i` elements of
the destination are the first `i` of the source.

*GenStack.*  None of the properties is inductive.  The invariant `IInv` says for
each activation of the recursion, at each place it can have reached, how many
slots it owns (`Count`) and which operand is in each (`Val`); the slots of an
activation begin where those of its caller end (`ChainOK`), a waiting caller lacks
exactly the value its callee is about to push (`LinksOK`, `Present`), and the
contents of all of them are as `Val` says (`ContentOK`).  From `DepthIsRsp` and
this follow alignment (the padding was computed from `stack_depth` at the
activation's base, and each argument adds one slot), the places of arguments and
operands, and the empty stack between statements.  For `BelowUntouched` a step
either puts slots on the stack or takes at most as many as its own activation has
there (`Grows`, `Drops`).

*Frame.*  The invariant lays the variables out one above the other, each at least
its size above the one before and the first above the save area (`Layout`; sizes
need not be multiples of 8, offsets are), gives the fields of each list as a
function of the arguments it has handed out (`Walk`), and says what is in the
cells no variable owns: linkage, saved registers, the caller's arguments
(`Memory`).  `StorageApart` and `StorageBelow` then make every store one to its
own variable alone.  For the refinement, laying out variables stutters, the
prologue is `Call`, and the other steps are those of the same name.

*AsObj.*  `MapOK` says that the map lists its keys once, `Numbered` which of them
have a number after some turns of the loop of `gen_obj`; `SymtabExact` is the
latter at the end of the loop.  For `LinkedRight` each relocation is `Sound`
(its symbol exists, its field lies in the section, its addend is that of its
type), places are unique because sections only grow, and every reference has its
relocation (`Links`); `FieldRight` then adds up what the linker does with a patch,
a number and a section symbol.  The two hypotheses exclude the deviations of
section 3 and are those of the `as_obj` run.

*Cpp.*  `Nesting` gives the stack of activations its shape: at the bottom the file and
perhaps a header, above them the text of a line, above that one macro inside the
other, and at the top perhaps the arguments of a macro that is not marked yet.
`Marked` says that the marks are the macros being scanned, and that no two
activations are of one macro; so there are at most as many as identifiers, and
`MaxFrames`, which `CppAssumption` asks to leave room for these and the files, is
never met: the bound on the recursion restricts nothing.  `Stashes` has one stash for
each waiting reader and says what is in those of the files.  `Macros` is needed because
the identifiers are the only names that may be defined.

*Stmts.*  During `sema.c` the invariant relates three stacks to the tree built so far:
the nodes still to visit and to leave (`ToDo`) are those around the place that is
visited, innermost first; `Targets` says that each target stack lists the loops and
switches not yet left, in this order, so that its last element is the innermost one;
`Complete` counts the missing children of each node.  `Shape` is the tree: a node
comes before those inside it, and everything between a node and one inside it is
inside it too.  From this follows `Referred` (a break, continue or case has been given
a target around it), and with the lists of labels that `sema.c` stops at exactly the
ill functions.  During `gen.c` `ToGo` has what is left to print, `Numbers` that
the labels of statements have numbers below `label_no`, each its own, `Unique` that no
label stands twice in what is printed and what is left together, `Reachable` that each
jump's label stands there or belongs to a statement still to visit.  `PrintedOnce` is
`Unique` and `Reachable` when nothing is left.  `LaysOut` is the lemma for one step: the items that replace a
visited node, whatever its kind.

*Flow.*  `FlowAgrees` compares two walks: of the machine from an instruction to the
next evaluation, and of control through the places of the tree.  The
invariant `Flowing` says in `sema.c` that each break, continue and case has the
innermost statement around it as its target (`Targeted`) and that a switch that was
left has its default last (`Closed`).  In `gen.c` it says that what is printed and what is
left together are a `Layout`: each statement visited has a beginning and an end in this
text, and the items of its template stand between them, each after the
one before or after the end of the statement before it.  A step of `gen_stmt` puts items in
the place of one call, and all later places move (`LayoutNext`).  At the end the layout is a
`Printout`, one `Block` of labels and jumps for each kind of statement.  There each place
of the tree has its `Position` in the code, and one step of control either is one or
more instructions of the machine, the same for every value in `%rax`, or leads to a place at
the same position and of a higher `Rank` (`Advances`, one lemma for each of before, after
and again).  So the walks end at the same evaluation, or both go round for ever
(`MachineFollows`, `ControlFollows`, `RunsArrives`).  A walk that ends comes to no place
twice, so that the bounds in `Runs` and `Arrive` cut none off (`Bounded`, by the
cardinalities of `FiniteSetTheorems`).
`CondFollows` and `SwitchFollows` are the first step, where the value counts.  The
hypothesis excludes the switches of section 3 for which the property is false, and is that
of the `stmts` run.

*Linkage.*  `NamesLinked` speaks of what is printed and of C, and the invariant of what
lies between.  `Items` relates a declaration to its symbol: `prev` leads to the declaration before it
in its scope (`Follows`), and a use has the symbol of the declaration that C sees there,
or none if there is none (`Finds`).  While `parse.c` reads, this needs `Scopes`: the stack of scopes
holds exactly the names that are open, each with what was declared last.  `Checked` says
that `sema.c` has let pass no declaration after a definition in its scope and no name that is
not declared, and what `link` and `definition` it has set; `Placed` and `Highest` that the
offsets of one function's locals grow.  `PrintedUpTo` has one label for each definition
and nothing else.  `Stopped`, `CallsObject` and `Loads` say why a run ends early, from which
follows that what C accepts, outside `Known`, is not stopped but by the value of a function.  C's side is two
recursive functions over the items, the level and the linkage of each; that they satisfy
their own equations is shown by a least item at which they would not (`LevelIs`,
`LinkagesAre`), and `prev` chains and linkages are then compared the same way, by the
last or first declaration of its kind.

*Encode.*  The invariant follows the instruction: `Parsed` operands, what `as_sema`
makes sure of (`Agreed`: suffix, sizes and kinds of operands), and that the text section
holds `Encoding`.  The rest is about operators.  `HeadDecoded` takes the prefixes and
the opcode off a sequence of bytes, in any of the combinations; `RexBits` gives the
three bits of REX back; `OpsForm` the ModR/M and SIB bytes and the displacement, for every
base, index and scale and with the exceptions of rsp, r12, rbp and r13;
`TwosComplement` the 32 bits of a displacement; `InTable` says that the opcode of an
encoder selects one row of the processor's table.  `InstrDecoded` puts these together:
the bytes `Instr` makes decode to the row and operands it was called with.  One lemma
for each shape of encoder and one for each mnemonic's opcode follow.  Nothing about
`Written` is assumed but its type: numbers of 32 bits as displacements, any eight bytes
after a `$`, any scale, any register in any place, any suffix with any mnemonic, any
number of operands.

The assumptions: frame sizes are multiples of 8, which `put_variable` ensures
(`sema.c:43-45`; `RoundUp` of `Frame`); the bound on the depth of the
recursion is arbitrary; a header includes nothing and only identifiers are defined
(`CppAssumption`); an identifier is not the empty string, and what is declared is an object
or a function with one of C's storage classes (`LinkageAssumption`).  `StopsAtIll` and
`LabelsMeet` need no assumption, `FollowsControl` that of `Stmts` on its
constants (`StmtsAssumption`) and `AnySwitch = FALSE`.

*Model-checked only.*  `FollowsC` of `CppC`, and the properties of `Lexer`, `Parser`, `Values` and `Decls`; all
liveness.  Out of the prover's reach stay liveness under fairness and `ENABLED`;
what depends on the recursive operators of `CMacros` and `CppC`; and inductions over
data, which is what a comparison of a reader with a grammar is.  Where a least element is enough, as for the statement around
another or for a function over the items of a unit, `Least` of `CppProofs`, `StmtsProofs` and
`LinkageProofs` takes the place of an induction.

## 5. Not modelled

Structures as values of expressions, types of functions, the checks of calls and of
constant expressions (`sema.c`).  The assembler's own lines, names and numbers: its
statements are taken parsed.  ELF headers and string tables.  `__FILE__` and
`__LINE__`, and the parameter list of a macro definition.  Floating point, which the
compiler has none of.  Growth of `map.c`, `string.c` and `binary.c`, which is that of
`vector.c`.  Drivers, arguments, messages.  Memory exhaustion (`calloc` is never
checked).  The phases are not composed in one state: each is given every input its
predecessor may hand over, within the bounds, which is more than a composition would
reach.

## 6. Plan

1. The lines of the assembler (`as_lex.c`, the directives of `as_parse.c`), composed
   with `AsObj`.
2. Calls and types of functions in `Values`; structures as values.
3. Proofs: the layout of structures (`LaidOut` of `DeclsC`) and the tags in scope (`TagsC`),
   then the bounds of the lexer's buffer (`InBounds` of `LexerC`).
