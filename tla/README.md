# A verification project for my-lil-compiler

TLA+ modules for the programs of this repository: `parsergen`, a generator of
packrat parsers; `kaleidoscope`, a compiler that uses such a parser; and
`toylisp`, a small read-eval-print loop on top of LLVM. Paths are relative to
the repository; `K` stands for `src/kaleidoscope/kaleidoscope.cpp`.

1. Inventory  2. The modules  3. Properties and runs  4. Bounds
5. Fairness  6. Proofs  7. Where code and docs disagree  8. Not modelled
9. Plan

## 1. Inventory

`parsergen` reads a `.peg` file with a hand-written packrat parser, turns the
syntax tree into rule records and prints a C parser that has nearly the same
runtime. `kaleidoscope` runs such a printed parser over its input and builds
LLVM code from the syntax tree. `toylisp` has a reader of its own. All are
single-threaded, keep everything in memory and persist nothing; what is hard
about them is backtracking over shared mutable state, positions and memory that
several loops move, and code generators that fail halfway.

| component | state | operations | interacts through |
|---|---|---|---|
| packrat runtime, `parsergen/peg_parser.c` | per parsing function `start`, `cur_start_pos`, `cur_end_pos`, `child_stack`, and what each macro saves; memo map, error list, read position of the buffer | the macros `SEQ DISJ STAR PLUS QUES BANG HIDE AMP T S C DOT`, `PEG_PARSE`, `is_memoized`, `memoize`, `delete_children` | calls; all parsing functions share the memo map and the error list |
| grammar of `.peg` files, same file 496-558 | none | 28 `PEG_PARSE` rules | bodies made of the macros |
| tree, error list, driver, `parsergen/parsergen.c` | nodes, `error_stack`, open files, exit code | `syntax_node_create/copy`, `add_error`, `delete_errors`, `print_errors`, `assign_line_numbers`, `main` and its clean-up labels | `main` runs the parser, stops if any error is left, else runs the next two |
| rule records, `parsergen/internal.c` | `rule_data_t`, `rule_exp_t`, cross references | the `collect_` functions, `get_escaped_char`, `resolve_rule_calls` | reads the tree and the buffer |
| generator, `parsergen/c_generator.c` | output buffers, files; the printed runtime's nodes, memo map and `dispatch[]` | `print_rule_exp`, `print_escape`, labels and names; printed: `PEG_PARSE`, `memoize`, `syntax_node_copy/destroy`, `X_parse` | reads the rule records |
| helpers, `narwhal_utils/` | arrays, the input buffer and its line table | `array_add/resize/copy`, `input_buffer_read_char/setpos/find_line/read_string/find_line_endings`, `wcs_trim`, `wcs_dup` | called by all of the above |
| kaleidoscope, `K` and `kscope.peg` | ASTs, `BinopPrecedence`, `NamedValues`, the LLVM module | `ParseXxx`, `ParseBinOpRHS`, `Codegen` methods, `HandleXxx`, `MainLoop` | the printed parser's tree; `BinopPrecedence` is written by `Codegen` and read while the *next* statement is built |
| its parser, `kaleidoscope/kscope.c` | as the printed runtime | 48 rules | `kscope_parse`, called by `main` |
| `toylisp/toylisp.cpp` | the reader's stack and token, `env`, the module, the builder's insert point | `readExpression`, `parseExpression`, the `Codegen` methods, `repl` | the loop reads a form, compiles it, runs it and prints an answer |

Components outside of the program's logic (GNU libavl, drafts, build files) are
listed in `PROJECT.json` with the reason for leaving them out; so is every
hazard, at its line, with the properties that are about it.

What is hard, and what makes each component right:

* **Two positions and one child stack, restored by some macros and not by
  others.** `DISJ` puts back one position, `BANG` and `AMP` both, `STAR`,
  `PLUS`, `QUES` and `HIDE` none; a memoized failure moves a position that a
  first failure leaves alone. Right is: the positions stay ordered and inside
  of the text, a failure leaves no nodes, nodes nest, and the result is the one
  parsing expression grammars define.
* **One error list cut back by everybody.** Right is: no record survives a
  success (`main` takes any record for a failed parse), no freed record comes
  back, the first record is the innermost failure.
* **Memoization and copies.** Right is: one answer per function and position,
  every node of a tree on record; in a printed parser also: a tree and its
  copies never differ, every node has one owner and is freed once, an action
  runs once for a node and after those below it.
* **Termination.** Left recursion and the repetition of what may be empty never
  end (`NOTES`); every other grammar must.
* **Two scanners.** `internal.c` divides literals and classes into characters a
  second time, by rules of its own. Right is: it agrees with the parser.
* **Trees of an expected shape.** The reader ends in `assert(0)` for others;
  kaleidoscope takes children by number and does not look whether they exist.
* **One buffer, one read position.** Strings, line ends and messages move the
  position that the parser reads at, and reading grows the buffer. Right is:
  nobody can tell; and no array or buffer is written beyond its memory.
* **Lines and carets** from four kinds of line end, files that end in the
  middle of a line, bytes above 0x7F. Right is: a node has the lines it stands
  on, and a message shows the line of its error with the caret under it; how far
  the code keeps to that is in section 7.
* **Exits.** `main` of `parsergen` leaves by `goto` from five places to four
  labels. Right is: what was acquired is released once, and the exit code tells
  whether the files were written.
* **Printed text that has to mean something.** Names forget their case, bodies
  go through a buffer of fixed length, literals through `fprintf`. Right is:
  the printed functions compile and are the rules.
* **Operator grouping from a flat list** with two deques popped at both ends.
* **A scope table changed in place** by a recursive code generator that returns
  early. Right is: names mean what lexical scoping says and no function sees
  another one's variables.
* **A precedence table and a module that must agree** across definitions that
  fail or are refused.
* **One environment and one insert point** in toylisp, for definitions that may
  stand inside of expressions and that fail. Right is: what was verified keeps
  meaning what it says, every form gets an answer, and what a finished function
  calls stays.

## 2. The modules

| module | models |
|---|---|
| `PegExpression` | the parsing macros as constructors of expressions, as `print_rule_exp` prints them |
| `PackratParser` | the packrat runtime as a machine that interprets those expressions |
| `PegSemantics` | Ford's definition of what an expression consumes: the abstract specification of a parse |
| `PegGrammar` | the 28 rules of the hand-written parser, as expressions |
| `GrammarReader` | `internal.c` on the trees that `PackratParser` builds with `PegGrammar` |
| `NarwhalArray` | `array_t`: items, memory and growth |
| `InputBuffer` | the input buffer: bytes, pieces of a file, memory and read position |
| `TextReader` | what a buffer promises its readers; `InputBuffer` implements it |
| `TextPositions` | the loops that read through the buffer: the line table, line numbers, strings, error messages. EXTENDS `InputBuffer`, `NarwhalArray` |
| `GeneratedParser` | the printed runtime: trees, copies, ownership, actions, `X_parse`. EXTENDS `PackratParser`; each of its steps is one of the machine's together with what it does to the trees |
| `Parsergen` | `main` of `parsergen.c` and the rest of `internal.c`'s cross references |
| `CGenerator` | what `c_generator.c` prints, and how a C compiler reads it. EXTENDS `Parsergen` |
| `KscopeGrammar`, `KscopeParser` | the rules of `kscope.c`; `PackratParser` with them, that is `kscope_parse`, and what `main` relies on |
| `KscopeReader` | `ParseXxx` and `MainLoop` on the trees of `KscopeParser` |
| `OperatorPrecedence` | `ParseBinOpRHS` |
| `KaleidoscopeCodegen` | the `Codegen` methods, `NamedValues`, `BinopPrecedence`, `MainLoop` |
| `ToyLispParser` | `parseExpression` of `toylisp.cpp`, from S-expressions to ASTs |
| `ToyLispCodegen` | its `Codegen` methods, `env`, the insert point and what LLVM keeps of functions and instructions |
| `ToyLisp` | its reader and `repl`. EXTENDS `ToyLispCodegen` and is given the parser as a constant |
| `PackratParserProofs`, `PackratGrammarProofs`, `OperatorPrecedenceProofs`, `TextPositionsProofs`, `ParsergenProofs`, `GeneratedParserProofs`, `KaleidoscopeCodegenProofs`, `ToyLispProofs` | theorems |
| `MCGrammarConditions` | decides for a given grammar whether `NoLeftRecursion` holds of it |
| `MCPackratGrammars`, `MCGrammarReader`, `MCTextPositions`, `MCGeneratedParser`, `MCParsergen`, `MCKscopeReader`, `MCOperatorPrecedence`, `MCKaleidoscopeCodegen`, `MCToyLisp` | instances for TLC |

**PackratParser.** `stack` holds one activation record per running parsing
function, with its parameters, its locals and in `ctl` one entry per macro that
is open in its body, with the locals that macro's prologue saves. A body is
entered and left expression by expression: `pc = "enter"` is before `exp`,
`pc = "leave"` is after the operand whose result is in `res`. `EnterMacro` is
every prologue; `SeqRight`, `StarAgain` and the like go on with an operand;
`SeqEnd` and the like are the epilogues; `MatchString/Class/Dot` are the
terminals; `CallMemoized` and `CallFunction` are `T`; `Succeed` and `Fail` are
the two ends of `PEG_PARSE` together with the rest of the caller's `T`.
`errors` keeps the cells of the array beyond `num` and whether each cell's
string was freed, because `delete_errors` only sets a number. A syntax node is
its type and extent; its children are those of the memo record of that type and
place, which `NodesOnRecord`, `EvaluatedOnce` and, with real trees,
`TreesAsRecorded` justify. `Exhaust` stands for the C program running out of
stack (`MaxDepth`) or memory (`MaxChildren`).

**PegGrammar, GrammarReader, KscopeGrammar, KscopeParser, KscopeReader.**
Characters are
model strings; a few letters and digits stand for their classes, chosen so that
each branch of the lexical rules has a character of its own. The readers extend
the parser and read its final state; their functions are the source's by name,
an `assert(0)` is the expression `AssertFails`, a child beyond the array is
`Missing` and what is made of it `Misread`.

**InputBuffer, TextPositions.** `ReadMore`, `EndOfFile` and `TakeChar` are
the turns of the loop in `input_buffer_read_char`; `Use` is a caller that moves the position
(`setpos`, or `current_pos = ...`) and calls again. Each loop of a caller is
one action per character: `task` says which loop is running, `str` is the array
it fills. Numbers in `wchar_t` are those the build gives, negative for bytes
above 0x7F. The loops find the buffer as a parse has left it: `Parse` is a read
of the parser at any place, and `end_reads`, which the program does not have,
counts those that met the end of the file.

**GeneratedParser.** A tree is the sequence of its nodes, each behind those
below it; a node's `child` says how many places before it each child stands, as
the C array `child` points to them, and `at` is its address. `nodes` holds the
trees under all running functions, one function's behind its caller's, and at
the end `root`; `forest` is the `child_stack` of every activation record, that
is, where in `nodes` its trees begin and where each of them ends. So
`delete_children` cuts `nodes` off, a function that succeeds appends its node
and leaves the rest where it is, and one that fails loses what is behind its
`base`. `kept` is the `parse_tree` of every memo record, `live` the addresses
allocated and not freed, `fired` the calls made through `dispatch[]`. `phase`
is `X_parse`, before and after the parse.

**Parsergen, CGenerator.** `pc` is the statement of `main` that is next, or the
label that was jumped to. `held` counts for every resource how often it was
acquired and not released. `disk` holds what was written: each output is the
rules it was printed from. File names are kept as far as their lengths and
suffixes tell them apart. `CGenerator` turns rules into tokens of C and reads
the tokens back as a compiler would. `Fprintf` prints as far as the first text
it cannot convert. A description is printed with its characters as the `.peg`
file has them, escaped or not (`Description`); what stands between two of its
quotes is taken to be no C, as letters are not.

**OperatorPrecedence.** An AST is its extent in the list of operands, the two
deques are sequences, `built` is the set of `BinaryExprAST`s. The loops are one
action per iteration; the two copies of the inner loop are one pair of actions.

**KaleidoscopeCodegen.** A `Codegen` call is an activation record on `frames`,
with the operand it is at and the bindings it has made. `top`-level statements
are handled one after another as `MainLoop` does. An alloca is a statement and
a number; LLVM is the set of functions and their arity. An assertion that fails
ends the run with status `assert`; the unchecked cast in an assignment has the
outcomes the build has: the strings that `CallExprAST` and `ForExprAST` have at
the place of `Name` are read as the name, other objects end in a failed lookup
or a crash.

**ToyLisp.** `readExpression` is one action per case of its switch, with the
stack and the token it keeps; the end of a form hands its tree to `repl`, which
parses, compiles, runs and answers. The parser is a recursive function over the
tree. The `Codegen` methods are recursive in the source; here `frames` is the
C++ stack of the calls under way, and an action is what one of them does
between two calls: `VisitX` begins a method, `NextPart` goes on with an operand,
`ReturnToX` takes its value, `FinishX` inserts the instruction and returns.
`ReturnToFunction` is the end of a definition that `verifyFunction` lets pass,
`Abort` of one that it does not, and `Unwind` the `catch` that erases the
function and throws again, frame by frame. An instruction is its operation, its
operands and the function it was put in. Three fields are not in the program
and no guard reads them: for which AST an instruction was made (`ast`), whether
its function was finished by then (`late`), and in which other definitions a
function was begun (`inside`). LLVM is taken to be built without its own
assertions, and what running compiled code does is a choice: an answer, or the
end of the program when the code calls functions.

A definition `X_Change` is `X` with one plausible mistake. Nothing refers to
it; it is there to show that a run notices the mistake.

## 3. Properties and runs

Runs that pass:

| run | asks |
|---|---|
| `MCWellFormed` | on every well-formed grammar of a family, and on grammars that recurse or repeat without end: `PositionsOrdered`, `FailureKeepsNoChildren`, `EvaluatedOnce`, `ErrorsOnlyOnFailure`, `ErrorsOutward`, `ErrorsLive`, `NodesOnRecord`, `AmpFreeTreesNested`; of the well-formed ones `WellFormedTerminates`; and `BacktrackingAgreesWithFord`: the parser computes `PegSemantics` |
| `MCGrammar` | `AcceptsWithTrailingSlash`: the `.peg` parser accepts what its own rules say but for one slash; `ReaderNeverAsserts`; `ReadsBack`: an expression written out is read back as itself; `PlainTextsDecoded`: the two scanners agree on texts without the escapes of section 7 |
| `MCPositions` | `ReadsText`: the buffer implements `TextReader`; `MemoryFits`, `BufferBounded`: its length, exactly but for one increment per loop; `StringRead`, `LinesButForLostEnds`, `MessageShowsError`: strings, line numbers and messages are those of the text, in whatever order they are asked for, the last two with the exceptions of section 7 |
| `MCGenerated` | `NodesAccounted`, `TreesAsRecorded`, `ActionsBottomUp`, `AnswerComplete` of printed parsers |
| `MCParsergen` | `ReleasedOnce`, `ExitCodeTells`; `OutputMeansGrammar`: when the printed files compile, what they mean, and when the body buffer overflows, exactly |
| `MCKscope` | `FileAlwaysParsed`, `ChildrenAlwaysThere`, `ProgramsReadBack`: a program written out comes back as its ASTs, through the printed parser and the builders |
| `MCPrecedence` | `OperatorsInPlace`; `GroupsUnlessJoinedTooEarly`: which expressions `ParseBinOpRHS` groups by precedence, exactly |
| `MCCodegen` | `DistinctScopesAreLexical`, `OwnVariables`, `OperatorsInstalled`, `FunctionsKept` |
| `MCToyLisp` | `SourceRead`, `AnswersEveryForm`: of the reader and `repl`; `FunctionsMean`: what was verified computes what its definition says; `CallsStand`: which functions that are called may be erased, exactly |

What they show. The stale positions of section 1 are harmless for memory: they
never leave the text, in any grammar. They are not harmless for the language:
`BacktrackingAgreesWithFord` states the condition under which they are
(`Backtracks`: what may fail inside of a repetition, option or choice does not
consume first, or sets the end position again), and it holds; without the
condition it does not (section 7). Of the grammar of `.peg` files only one rule
violates the condition with an effect, the trailing slash. The error list is
sound everywhere although its sizes are restored in a way that looks wrong: it
is always empty when an operand is entered, which is the reason and what the
proof uses. `AMP` is the one macro that breaks the nesting of nodes. A printed
`PEG_PARSE` drops `child_stack` on failure without destroying what is in it,
and loses nothing, because nothing is ever in it then. The input buffer
gives everyone the text of the file whoever moved its position, and pays for
each read at the end of the file with one increment that is never used
(`BufferBounded`). Kaleidoscope's `main`
uses a tree it has not checked for, and is saved by the rule `UNKNOWN`, which
makes every file parse. `ParseBinOpRHS` groups wrongly for exactly the
sequences `JoinsTooEarly` describes; with the standard operators alone those
begin with an `=` or `<`. In `toylisp` names of one function can be visible in
another, and instructions land in a function that is finished; that none of
this gets past `verifyFunction` into a function that is kept is
`FunctionsMean`. A function that is called can be erased in two ways: by a
definition that fails after a foreign declaration of the same name, and by one
that fails after a definition nested in it has called it, as in
`(def (f x) (if (def (g x) (f x)) y y))`.

Runs that TLC refutes, one finding each: `MCNotFord`, `MCMisgrouped`,
`MCAssert` (section 7).

## 4. Bounds

* `MCPackratGrammars`: two rules. The first has any body of two macros over
  three atoms (and some of three), the second one of seven bodies that
  terminate, recurse, match nothing or fail late; texts are all strings over
  two characters of length 0 to 3. Every pair of macros occurs nested, which is
  what the saved and restored locals depend on. `MaxDepth = 8` and
  `MaxChildren = 4` are beyond what a well-formed grammar of the family needs
  on such a text, so that `WellFormedTerminates` also says neither bound is
  met; the grammars of `IllFormed` do meet them.
* `MCGrammarReader`: rules of up to three tokens of eight kinds, and of four of
  the five that decide where a rule ends; expressions of up to three levels
  written out with the parentheses they need; literals and classes with two
  characters of eight kinds, three of six, or an escape of up to three digits
  and what follows it. `MaxDepth = 60`, `MaxChildren = 12` are not met.
* `MCTextPositions`: every file of up to three bytes of five kinds (a letter,
  both line ends, a byte above 0x7F, 0xFF) and seven longer ones, with a 0 on
  either side of a byte above 0x7F and with line ends the table loses; the
  buffer grows by two bytes, so that lines and strings span several reads. The
  parse before the loops reads anywhere until it has met the end of the file
  `MaxEndReads = 2` times: the first such read makes the buffer longer than the
  file needs, the second shows that this goes on. Then up to two strings or
  messages after the line table, since the second one finds a buffer and a
  position the first has moved.
* `MCGeneratedParser`: the handful of grammars with every macro, and those that
  call one rule at two places so that a memo hit copies a tree; `MaxDepth = 8`,
  `MaxChildren = 5`.
* `MCParsergen`: grammars of one and two rules, every pair of names that are
  equal, differ in case, differ, or are `null`; a body buffer of 24 characters,
  on both sides of which there are bodies; every description of up to four
  letters, quotes and escaped quotes, which has the quotes side by side and
  apart in every way, and a few with a carriage return, another escape or a byte
  above 0x7F before, between and after others; lengths of the argument on both
  sides of both name buffers; each of the three files may fail to open.
* `MCKscopeReader`: every form of AST with every form in its operands, two
  statements after one another, every prototype; texts of a few tokens of any
  kind, most of them no program. `MaxDepth = 60`, `MaxChildren = 12` are not
  met.
* `MCOperatorPrecedence`: five operators, all sequences of up to six, three
  precedence maps (an operator without, with the lowest and with a middle
  precedence). The shortest wrong grouping needs four operators.
* `MCKaleidoscopeCodegen`: three names, three operators, one ordinary function;
  one definition with any of some 400 bodies in which two binders nest or stand
  beside each other, and all sequences of one to three of some twenty
  statements.
* `MCToyLisp`: every program of up to three of sixteen forms that declare,
  define, fail to define and call two functions; two or three with a form that
  nests a definition (one of these calls the definition it stands in, another
  stands in the argument of a call, which then lands in the nested function),
  two with a broken form; every text of up to five pieces. A declaration, a
  failure and a use take three forms.

## 5. Fairness

Only `PackratParser` has a liveness property. `FairSpec` is weak fairness of
`Step`: the program is one thread that takes its next step as long as it has
one, and no step waits for anything. `WellFormedTerminates` is claimed for
well-formed grammars only; section 1 says why. Deadlock is checked except in
the models of programs that end (`MCPositions`, `MCGenerated`, `MCParsergen`,
`MCToyLisp`).

## 6. Proofs

All theorems hold for every value of the constants, under the assumptions the
modules state: the constants have their types and `WEOF` is no character of a
parsed text.

`PackratParserProofs`: `TypeCorrect`, `PositionsCorrect`,
`ErrorsOnlyOnFailureCorrect`. None of the three is inductive. The inductive
invariant is `BasicInv`: all three, and that every activation record is `Good`
(the sizes of `child_stack` its macros saved grow inwards and are within the
array, and the sizes of the error list they saved are all zero), that a
function began where its caller's cursor is (`Linked`) and that memoized
extents are in the text (`MemoInText`). `Good` carries the argument: a macro
may cut `child_stack` to what it saved only if no inner macro has cut it
further, and may cut the error list only if that never lengthens it. The proof
goes action by action; the lemmas `TopGood` to `MoveGood` say what each helper
on activation records preserves, and `TopReplaced` and `Returned` lift that to
the stack.

Its second part proves `FailureKeepsNoChildrenCorrect`, `NodesOnRecordCorrect`,
`ErrorsOutwardCorrect` and `ErrorsLiveCorrect`. The inductive invariant is
`TreeInv`, on top of `BasicInv`. Only `SEQ`, `STAR` and `PLUS` may run an
operand with more in `child_stack` than they found (`Repeating`); below all
other macros the saved sizes are equal (`Chained`), and before an expression
and after a failed one `child_stack` has the size the innermost macro saved
(`Settled`). At the outermost level that size is zero, which is
`FailureKeepsNoChildren`. Records are never changed or removed, so a node that
was on record stays there (`StillHas`). Every error is at or behind the start
of the running function (`ErrorsInv`), so a new one, which is at that start,
comes last in the order; and since the list is empty when it is cut back to
what a macro saved, no cell within `num` is a freed one.

`PackratGrammarProofs`, on top of `BasicInv` and `TreeInv`: what holds for
grammars of a kind.

* `EvaluatedOnceCorrect`, for grammars without left recursion.
  `NoLeftRecursion` says that there are levels for the expressions of the
  grammar such that whatever an expression may run before a character is
  consumed has a lower level; no recursive notion is needed to state it. The
  inductive invariant `OnceInv` says that the macros open in a function were
  each run by the one before (`Traced`), that those which began where the
  function did are not above its body in level and that a macro which has
  consumed began before whatever it runs next (`Timed`), so that of two
  functions under way at one place the inner one has the lower body
  (`Falling`) and is another function; hence none of the functions under way
  is on record where it began (`Fresh`), and what it records when it finishes
  is the only record. TLC evaluates, before the runs, that the well-formed
  grammars of `MCPackratGrammars` and the two real ones, `PegGrammar` and
  `KscopeGrammar`, fulfil the condition (the ASSUMEs there; `MCGrammarConditions`
  finds the levels).
* `TreesNestedCorrect`, for grammars without `AMP`, left-recursive or not. The
  inductive invariant `NestInv` says that in every running function the
  children lie between its start and its cursor in order and without overlap,
  and those that a macro found when it began end where it began: only `AMP`
  goes back over children that stay.

`OperatorPrecedenceProofs`: `OperatorsInPlaceCorrect` and
`GroupsUnlessJoinedTooEarlyCorrect`. For the first the inductive invariant is
that the extents on `Unis` cover the operands taken so far, one after the
other, with the operators between them at the same places of `Ops` (`Covers`).
Three lemmas say that pushing, joining at the back and joining at the front
keep it; that both deques are long enough for each pop follows.

For the second, `GroupInv` says what the precedences on `Ops` look like. Between
an operator on the stack and the next one there are only such as bind more
tightly (`RightsBind`), so the right side of every join is as it should be. The
stack does not rise as far as it holds operators that are the lowest so far,
and rises from there on (`Stacked`), so a `while` loop stops at the lowest
operator so far (`TopLowest`, `LowestOfAll`), and the joins from the left at the
end are right as well. The left side of a join in a loop is wrong exactly if
something lower than the operator was joined to its left before (`Passed`). That
happens only behind three rising precedences (`PassedIsEarly`, which takes the
last of the lowest operators between the two), and each operator that stands
behind three such ones stays so on the stack until it is joined (`Late`), which
is the other direction: the expressions `JoinsTooEarly` describes are always
grouped wrongly.

`TextPositionsProofs`: `MemoryFitsCorrect`, `ReadsTextCorrect`,
`LinesButForLostEndsCorrect`, `StringReadCorrect`, `MessageShowsErrorCorrect`,
`BufferBoundedCorrect`. The buffer is never filled beyond its size because every
turn of the loop makes it one increment longer and reads at most an increment
(`BytesFit`). The lemmas on `NarwhalArray` (what a new, a cleared, a resized
array and one with an item added are) carry `ArraysFit` through every loop.
`ReadsTextCorrect` is the refinement: initial states map to initial states of
`TextReader`, a turn of the loop that only reads the file is a stutter, and each
other action is a step of it. The character returned is the text's because the
bytes read are the first ones of the file, wherever the position was moved.

The loops that fill an array have one argument in common: the items are those of
a set of positions, each at its rank in it, as far as the loop has come
(`Lists`, `Closed`). For the line table the positions are the line ends but for
those that are lost (`TableEnds`), and a carriage return waits in `eol_pos`
until the character after it is known (`TableInv`). `TableOrLost` says that the
ends of the text are those of the table and the lost ones, and `RankOfBoth` and
`LineOfTable` carry a line's number from the table to the text; for a string
they are the readable bytes of the extent (`StringInv`). Rank and count are
related by lemmas on finite sets of naturals, and what the table gives for a
position follows without going through the loop of `find_line`. `MessageInv`
says where the caret is after each character of the line that holds the error,
and that the characters collected are those of the text from the start the table
gives (`LineRead`). That start is the text's (`StartInTable`): a line end that
the table has lost is followed by another carriage return, so it is never the
last one before a character that is none. `LineShown` takes the first 0 of the
array, where `fprintf` stops, back to the text. `BoundInv` counts the increments
the buffer was given (`Grown`): one for each piece of the file, one for each
read of the parse that met the end of the file, and at most one more for each
loop after it, since there the end of the file is the last thing a loop reads
(`Extra`, `Most`).

`GeneratedParserProofs`: `GeneratedIsParser`, `NodesAccountedCorrect`,
`AnswerCompleteCorrect`, `TreesAsRecordedCorrect`, `ActionsBottomUpCorrect`. A
step of `GeneratedParser` is one of `PackratParser` or changes nothing of it, so
the invariants above hold here and are used below.

Who owns the nodes is `HeapInv`. Each `child_stack` begins where the trees of
its caller end, its trees are those that `PackratParser` has in `children`, and
the last one ends with `nodes` (`Standing`); each memo record has a tree exactly
if it is a success, and it is one of the record's type and extent (`Answers`);
the addresses in `nodes` and in the records are those that are live, each once
(`Owns`). One lemma for each thing that happens to a `child_stack` (`CutStands`,
`PushStands`, `CallStands`, `ReturnStands`) and to the nodes (`OwnsCut`,
`OwnsMore`, `OwnsKept`, `OwnsAlone`) carries these through the steps. That a
failing function loses no node although it destroys none is `FailedAlone`, and
needs `FailureKeepsNoChildren`. The tree at the end is the start rule's because
the outermost activation record is always that of the start rule (`Started`).

What is in the trees is `ProperInv`: every node, with the extents of its
children, is the one on record first for its type and position
(`Recorded1st`), and its action has run once, after those of the children
(`FiredOnce`). Trees are put behind others, cut off and copied without harm
(`ProperJoin`, `ProperPrefix`, `ProperCopy`), and a function's nodes can be
taken out from behind its caller's because no child is on another shelf
(`Bounded`). A new record does not hide an older one, and a new node is the
first on record, and its action one that has not run (`FiredKnown`), because the
function is not on record where it began. That last fact is `Fresh`, from the
proof of `EvaluatedOnce`, and is where the condition on the grammar comes in.

The third part is about the one grammar of `kscope.peg`, on which `main` of
`kaleidoscope.cpp` relies without a check: `FileAlwaysParsedCorrect`, for every
text and every bound. That the parser goes on from where a failed operand
stopped (section 7) rules out reasoning rule by rule as one would on Ford's
semantics, and nothing need be known of the statements: what matters is where
the cursor is left. `Left` says it of an expression, from where it began and
with what result: those of `NeverFails` succeed, those of `ToTheEnd` leave the
cursor at the end of the text, `DOT` fails nowhere else, and `EOF` succeeds
there. `RecordLeft` says the same of every memo
record, because `T` may answer from one, and `BehindAll` that `UNKNOWN` looks
for `EOF` with the cursor at the end. With the macros that are open in a
function (`Traced`) and that each function runs for the operand its caller is
at (`Waiting`), both known from `EvaluatedOnce`, these make the inductive
invariant `FileInv`. Its only hypothesis is that the grammar is this one.

`ParsergenProofs`: `ReleasedOnceCorrect` and `ExitCodeTellsCorrect`. The
inductive invariant `HeldInv` says of every statement and every label of `main`
exactly which resources are held when it is reached (`Acquired`); the second
invariant, `DiskInv`, says what is on the disk there.

`KaleidoscopeCodegenProofs`: `CodegenTypesCorrect`, `OwnVariablesCorrect`,
`OperatorsInstalledCorrect`, `FunctionsKeptCorrect`. The inductive invariant
`Inv` adds to the types how `Codegen`'s activations lie on each other (`Stack`:
the function at the bottom and nowhere else, and every activation but the
running one at an operand it has not finished, so that a return finds a caller
that waits for it), and that what a binding has shadowed, and may put back
later, belongs to the statement being compiled or is nothing (`Scopes`).
Without the second part `OwnVariables` would not survive the end of a `for`.
`BindValues` says what `Bind`, which binds arguments and undoes bindings, makes
of a table; it takes the last of several bindings of a name, which exists by
the well-foundedness of `Nat`. `OperatorsInstalled` is inductive by itself,
because a precedence is written and erased only together with the function of
the same name.

In the same module, on top of `Inv`: `DistinctScopesCorrect`. The inductive
invariant `LexInv` says that an activation has bound what its operands so far
are for (`BindingsInStep`), that, as long as nothing has failed, each name
stands for its last binding in the innermost activation that binds it
(`Resolved`), and that what each binding will put back is what its name means
in the activations below (`Shadowed`). The condition that no `var` binds a name
twice is needed for the last part alone; without it the property is false
(section 7).

`ToyLispProofs`: `ToyLispTypeCorrect`, `FunctionsMeanCorrect`,
`CallsStandCorrect`. The difficulty is that a definition may stand inside of
another one, clears `env` and leaves the insert point behind, so that what is
compiled afterwards for the outer definition uses arguments of the inner one
and goes into it. So the invariant does not say that an operand is the right
one. It says that *if* it is a number of the function it is used in, it is the
right one (`Made`), and `verifyFunction` accepts numbers of the function
alone; `VerifiedTranslates` and `VerifiedMeans` draw the conclusion, for a
value and for a body. To keep `Made`, each frame must wait for the part that
the frame above it was pushed for (`WaitingOK`), the frames of a definition
must lie together above those of the definitions it is nested in (`NestedOK`,
`InsideOK`), and the insert point must be in the definition under way or in a
finished one that was nested in it (`PointOK`). The second case is what `late`
records: such an instruction comes after everything that was verified, whose
operands are all older, so it changes nothing of that. `CallsStand` follows
from what holds of every callee already when the call is begun (`Stands`): it
is finished, foreign, the caller itself, or a definition that the caller was
nested in. The assumption on the ASTs, that the parts of one are ASTs with the
lengths the parser gives them, is evaluated by TLC on the parser's results.

Only model-checked are `WellFormedTerminates` (liveness is out of the provers'
reach), the two properties of `toylisp`'s reader and `repl`, `SourceRead` and
`AnswersEveryForm` (they compare with programs written out by recursion over a
tree), and whatever speaks of `PegSemantics`, `GrammarReader`, `CGenerator` or
`KscopeReader` (recursive operators, and inductions over trees; the parser
beneath the latter is `KscopeParser`, which is free of them). Every other
property of a passing run is a theorem. Three of these are theorems for grammars
without left recursion (`EvaluatedOnce`, `TreesAsRecorded`, `ActionsBottomUp`),
and `AmpFreeTreesNested` is about grammars without `AMP`; TLC checks the three
for the left-recursive grammars of the runs as well.

## 7. Where code and docs disagree

Each of these is a run that TLC refutes:

* `MCNotFord`: repetitions, options and choices go on from where a failed
  operand stopped (`peg_parser.c:217-337`), against the format that
  `src/parsergen/README:3` names.
* `MCMisgrouped`: `a = b < c * d + e` becomes `a = ((b < (c * d)) + e)`,
  against the precedences at `K:1272-1277`.
* `MCAssert`: `1 / 2` fails the assertion at `K:770`, since `kscope.peg` admits
  operators that nothing defines.

Stated in a property that passes, as the exception it makes:

* `AcceptsWithTrailingSlash`: because of the first finding `a <- a /` is
  accepted (`peg_parser.c:507`), against `peg_parser.h:50`.
* `PlainTextsDecoded`: `get_escaped_char` (`internal.c:333`) wants three
  characters after the backslash of an octal escape, against `peg_parser.h:69`;
  an escaped bracket in a class puts the backslash into it as well
  (`internal.c:402`, `peg_parser.h:66`).
* `DistinctScopesAreLexical`: after `var a = 1, a = 2 in a` the name means the
  first inner variable, because bindings are undone in the order they were made
  (`K:983-985`), against the comment at `K:971-972`.
* `LinesButForLostEnds`: of two carriage returns in a row the table of line
  ends has the second only, because `eol_pos` is overwritten
  (`narwhal_buffers.c:181-184`), against the comment at `narwhal_buffers.c:159`
  and the rule for the end of a line at `peg_parser.c:555`. Every line after
  them gets a number that is too low.
* `MessageShowsError`: with a byte above 0x7F in the line of the error neither
  the line nor a line end is printed, and the caret stands under nothing
  (`parsergen.c:215`); a 0 in the line cuts it off; for an error in the first
  column the caret stands under the second (`parsergen.c:206`).
* `ExitCodeTells`: a name of 126 or more characters makes both outputs one file,
  with exit code 0 (`parsergen.c:373`).
* `OutputMeansGrammar`: two rules that differ in case, a rule named `null`, a
  byte above 0x7F in a literal or in the description of a rule, and a carriage
  return or a quote in a description that is not escaped give C files that do
  not compile, with exit code 0 (the description goes between quotes as it
  stands, `c_generator.c:1339`; quotes in pairs side by side do no harm, since C
  joins literals); a long body overruns its buffer (`c_generator.c:1242`).
* `AnswersEveryForm`, `SourceRead`, `FunctionsMean`, `CallsStand`: the end of the
  input always ends toylisp in the assertion of `parseCallExpr`, so that `main`
  never prints the module; `f(x)` is read as `(fx)`, an unmatched `)` or a
  string without an end is never answered; a nested definition moves the insert
  point for good, so that code is added to functions that are finished; a
  definition that fails erases a foreign declaration that finished functions
  call, and itself although a function that was nested in it calls it.

Seen while modelling, without a property of their own: `peg_parser.h:47` allows
a file without rules and `peg_parser.c:499` does not; `peg_parser.h:70` lets a
lone backslash be a character and `peg_parser.c:538` does not; `iswdigit` lets
`\0999` pass for octal. The prefix of all printed names is the file name of the
grammar, so one that begins with a digit gives C that does not compile. In `kscope.peg` a `;` is a blank, so `x; -y` is a
subtraction, which the comment at `K:1139` does not expect; keywords need no
end of a word (`kscope.c:1115`); the grammar has no calls and prototypes
without arguments, although `K:345` writes `expression*`; `UNKNOWN` swallows
what is no statement. A printed `syntax_node_destroy` frees the children and
not the array they are in; what an action stores in `data` is lost in copies.

## 8. Not modelled

* `new.cpp`, `new2.cpp`, `ks.cpp`, `kaleidoscope.cpp.orig`: earlier stages of
  `kaleidoscope.cpp`, which no build file names and whose code generator is the
  modelled one.
* `avl/`: GNU libavl, vendored, and an unfinished file around it; no build file
  names it. Build files and samples have no logic.
* Printing: `print_rules`, `syntax_node_print`, the printed node visitors, and
  the constant text of the printed runtime as text (its meaning is
  `GeneratedParser`). The copied source text and the line numbers in the rule
  records.
* `fgetc_utf8`, `wcs_trim_char`, `str2wcs`, `wcs2str` and kaleidoscope's lexer
  `gettok`, which nobody calls.
* LLVM: basic blocks, instructions other than what `ToyLispCodegen` needs, the
  optimiser, the JIT, and LLVM's own assertions. In `KaleidoscopeCodegen` who
  calls a function is not kept, so `eraseFromParent` of a declaration that is
  still called is seen in `ToyLispCodegen` alone.
* In `MCCodegen` expressions are given as ASTs, so the interplay of
  `BinopPrecedence` with the grouping of later statements is only in the two
  modules separately.

## 9. Plan

1. Proofs: `OutputMeansGrammar` without its trees, once its data are no
   recursive operators.
2. `OperatorPrecedence` composed with `KaleidoscopeCodegen`, so that a statement
   is grouped with the precedences the statements before it left.
3. The callers of erased functions in `KaleidoscopeCodegen`.
4. Whether `EvaluatedOnce` needs the condition it is proved under: TLC finds no
   exception among the left-recursive grammars of `MCPackratGrammars`.
