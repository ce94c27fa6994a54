--------------------------- MODULE PackratParser ---------------------------
(***************************************************************************)
(* The packrat runtime: the parsing functions that the PEG_PARSE macro of  *)
(* src/parsergen/peg_parser.c defines, the macros their bodies are made of *)
(* and the memo and error arrays they share.  c_generator.c prints the     *)
(* same runtime into every parser it generates.                            *)
(*                                                                         *)
(* A parsing function is an activation record on `stack': its parameters,  *)
(* its locals and `ctl', the macros it is inside of.  The machine takes    *)
(* one step per macro prologue, per operand that comes back and per        *)
(* function that is called or returns, in the order the C code does.       *)
(*                                                                         *)
(* A definition named Operator_Change is Operator with one mistake in it;  *)
(* nothing uses it but the runs that show a property notices the mistake.  *)
(*                                                                         *)
(* Two bounds stand for the resources the C program runs out of:           *)
(*   MaxDepth     activation records on the C stack,                       *)
(*   MaxChildren  entries in one child_stack.                              *)
(***************************************************************************)
EXTENDS Integers, Sequences, PegExpression

CONSTANTS
  Char,         \* the characters an input may hold
  WEOF,         \* what input_buffer_read_char returns at the end of input
  Rule,         \* the parsing functions, one per node type
  Exp,          \* the expressions, closed under operands
  Grammars,     \* [start, body]: the function called first, each one's EXP
  Inputs,       \* the texts to parse
  MaxDepth,
  MaxChildren

NoNode == [null |-> TRUE]     \* the null syntax_node_t pointer

IsExp(e) ==
  \/ e.op \in Binary /\ e.A \in Exp /\ e.B \in Exp
  \/ e.op \in Unary  /\ e.A \in Exp
  \/ e.op = "T" /\ e.func \in Rule
  \/ e.op = "S" /\ e.str \in Seq(Char)
  \/ e.op = "C" /\ e.class \subseteq Char
  \/ e.op = "DOT"

ASSUME ExpAssumption == \A e \in Exp : IsExp(e)
ASSUME GrammarAssumption == Grammars \subseteq [start : Rule, body : [Rule -> Exp]]
ASSUME InputAssumption == WEOF \notin Char /\ Inputs \subseteq Seq(Char)
ASSUME BoundAssumption == MaxDepth \in Nat \ {0} /\ MaxChildren \in Nat

VARIABLES
  grammar,      \* the rules, fixed
  input,        \* the text, fixed
  stack,        \* the activation records, the running one last
  pc,           \* "enter" exp, or "leave" the expression just finished
  exp,          \* the expression to enter
  res,          \* the local `res' of the running function
  errors,       \* error_stack: the cells of the array and its num
  memo,         \* the memo_map_t: an array of records per node type
  root,         \* the tree parse_peg_spec returns
  status        \* "running", "done", or "exhausted" at one of the bounds

vars == <<grammar, input, stack, pc, exp, res, errors, memo, root, status>>

-----------------------------------------------------------------------------
(* Syntax nodes.  A node is known by its type and extent; the children it  *)
(* was built with are in the memo record of that type and position, so     *)
(* syntax_node_copy, a deep copy, is equality here.                        *)

Node(type, begin, end) == [type |-> type, begin |-> begin, end |-> end]

(* delete_children: the entries from start_index on are destroyed. *)
delete_children(children, start_index) == SubSeq(children, 1, start_index)

(* The array of error records.  Cells beyond num keep their contents, and  *)
(* `freed' tells whether the cell's string was given to free().            *)

NoErrors == [cells |-> <<>>, num |-> 0]

add_error(errs, pos, type) ==
  LET rec == [pos |-> pos, type |-> type, freed |-> FALSE]
      n   == errs.num + 1
  IN  [cells |-> [i \in 1..(IF n > Len(errs.cells) THEN n ELSE Len(errs.cells))
                    |-> IF i = n THEN rec ELSE errs.cells[i]],
       num   |-> n]

delete_errors_KeepsNum(errs, start_index) ==
  [cells |-> [i \in 1..Len(errs.cells) |->
                IF start_index < i /\ i <= errs.num
                THEN [errs.cells[i] EXCEPT !.freed = TRUE] ELSE errs.cells[i]],
   num   |-> errs.num]

delete_errors(errs, start_index) ==
  [cells |-> [i \in 1..Len(errs.cells) |->
                IF start_index < i /\ i <= errs.num
                THEN [errs.cells[i] EXCEPT !.freed = TRUE] ELSE errs.cells[i]],
   num   |-> start_index]

is_memoized_Never(type, start) == FALSE

(* is_memoized: the first record of that type that starts there. *)
is_memoized(type, start) == \E i \in 1..Len(memo[type]) : memo[type][i].start = start

MemoRecord(type, start) ==
  memo[type][CHOOSE i \in 1..Len(memo[type]) :
               /\ memo[type][i].start = start
               /\ \A j \in 1..(i - 1) : memo[type][j].start # start]

memoize_LastOnly(type, start, end, ok, children) ==
  memo' = [memo EXCEPT ![type] =
             <<[start |-> start, end |-> end, ok |-> ok, children |-> children]>>]

memoize(type, start, end, ok, children) ==
  memo' = [memo EXCEPT ![type] =
             Append(@, [start |-> start, end |-> end, ok |-> ok, children |-> children])]

(* input_buffer_setpos and input_buffer_read_char. *)
CharAt(pos) == IF pos < Len(input) THEN input[pos + 1] ELSE WEOF

-----------------------------------------------------------------------------
(* The running function, and the macro its last operand belongs to. *)
top == stack[Len(stack)]
ctx == top.ctl[Len(top.ctl)]

Activation(func, start) ==
  [rule |-> func, start |-> start, curStart |-> start, curEnd |-> start,
   children |-> <<>>, ctl |-> <<>>]

WithTop(f) == [stack EXCEPT ![Len(stack)] = f]

PopCtl(f) == [f EXCEPT !.ctl = SubSeq(@, 1, Len(@) - 1)]

Enter(e) == pc' = "enter" /\ exp' = e
Leave    == pc' = "leave" /\ exp' = exp

(* A macro has saved what its prologue saves and runs its operand again or *)
(* its second operand: f is the running function then.                     *)
Continue(f, e) ==
  /\ stack' = WithTop(f)
  /\ Enter(e)
  /\ res' = res
  /\ UNCHANGED <<grammar, input, memo, root, status>>

(* A macro is over with result r. *)
Finish(f, r) ==
  /\ stack' = WithTop(PopCtl(f))
  /\ Leave
  /\ res' = r
  /\ UNCHANGED <<grammar, input, memo, root, status>>

Running      == status = "running"
Entering(op) == Running /\ pc = "enter" /\ exp.op = op
Leaving(op)  == Running /\ pc = "leave" /\ top.ctl # <<>> /\ ctx.exp.op = op

-----------------------------------------------------------------------------
(* Macro prologues.  Every macro's locals are saved the same way; each     *)
(* epilogue reads the ones its macro declares.                             *)
EnterMacro ==
  /\ Running /\ pc = "enter" /\ exp.op \in Macros
  /\ Continue([top EXCEPT !.ctl =
                 Append(@, [exp |-> exp, second |-> FALSE, count |-> FALSE,
                            size |-> Len(top.children), pos |-> top.curStart,
                            errs |-> errors.num])],
              exp.A)
  /\ UNCHANGED errors

(* What epilogues do to the running function's locals. *)
Advance(f)      == [f EXCEPT !.curStart = f.curEnd]
GoBack(f)       == [f EXCEPT !.curStart = ctx.pos]
GoBackBoth(f)   == [f EXCEPT !.curStart = ctx.pos, !.curEnd = ctx.pos]
DropChildren(f) == [f EXCEPT !.children = delete_children(@, ctx.size)]
Counted(f)      == [f EXCEPT !.ctl[Len(f.ctl)].count = TRUE]
AtSecond(f)     == [f EXCEPT !.ctl[Len(f.ctl)].second = TRUE]

EndOfPair_KeepsChildren == IF res THEN Advance(top) ELSE top

(* SEQ and DISJ end alike. *)
EndOfPair == IF res THEN Advance(top) ELSE DropChildren(top)

SeqRight ==
  /\ Leaving("SEQ") /\ ~ctx.second /\ res
  /\ Continue(AtSecond(top), ctx.exp.B)
  /\ UNCHANGED errors

SeqEnd ==
  /\ Leaving("SEQ") /\ (ctx.second \/ ~res)
  /\ Finish(EndOfPair, res)
  /\ UNCHANGED errors

DisjRight_KeepsErrors ==
  /\ Leaving("DISJ") /\ ~ctx.second /\ ~res
  /\ Continue(AtSecond(GoBack(top)), ctx.exp.B)
  /\ UNCHANGED errors

DisjRight_KeepsPosition ==
  /\ Leaving("DISJ") /\ ~ctx.second /\ ~res
  /\ errors' = delete_errors(errors, 0)
  /\ Continue(AtSecond(top), ctx.exp.B)

DisjRight ==
  /\ Leaving("DISJ") /\ ~ctx.second /\ ~res
  /\ errors' = delete_errors(errors, 0)
  /\ Continue(AtSecond(GoBack(top)), ctx.exp.B)

DisjEnd ==
  /\ Leaving("DISJ") /\ (ctx.second \/ res)
  /\ Finish(EndOfPair, res)
  /\ UNCHANGED errors

StarAgain_SamePlace ==
  /\ Leaving("STAR") /\ res
  /\ Continue(GoBack(top), ctx.exp.A)
  /\ UNCHANGED errors

StarAgain ==
  /\ Leaving("STAR") /\ res
  /\ Continue(Advance(top), ctx.exp.A)
  /\ UNCHANGED errors

StarEnd_KeepsErrors ==
  /\ Leaving("STAR") /\ ~res
  /\ Finish(top, TRUE)
  /\ UNCHANGED errors

StarEnd ==
  /\ Leaving("STAR") /\ ~res
  /\ Finish(top, TRUE)
  /\ errors' = delete_errors(errors, 0)

PlusAgain ==
  /\ Leaving("PLUS") /\ res
  /\ Continue(Counted(Advance(top)), ctx.exp.A)
  /\ UNCHANGED errors

PlusEnd ==
  /\ Leaving("PLUS") /\ ~res
  /\ IF ctx.count
     THEN Finish(top, TRUE) /\ errors' = delete_errors(errors, ctx.errs)
     ELSE /\ Finish(DropChildren(top), FALSE)
          /\ UNCHANGED errors

QuesEnd_KeepsResult ==
  /\ Leaving("QUES")
  /\ Finish(IF res THEN Advance(top) ELSE top, res)
  /\ errors' = delete_errors(errors, ctx.errs)

QuesEnd ==
  /\ Leaving("QUES")
  /\ Finish(IF res THEN Advance(top) ELSE top, TRUE)
  /\ errors' = delete_errors(errors, ctx.errs)

BangEnd_KeepsChildren ==
  /\ Leaving("BANG")
  /\ Finish(GoBackBoth(top), ~res)
  /\ errors' = delete_errors(errors, ctx.errs)

BangEnd ==
  /\ Leaving("BANG")
  /\ Finish(DropChildren(GoBackBoth(top)), ~res)
  /\ errors' = delete_errors(errors, ctx.errs)

HideEnd ==
  /\ Leaving("HIDE")
  /\ Finish(Advance(DropChildren(top)), res)
  /\ UNCHANGED errors

AmpEnd ==
  /\ Leaving("AMP")
  /\ Finish(GoBackBoth(top), res)
  /\ UNCHANGED errors

-----------------------------------------------------------------------------
(* The terminals S, C and DOT: a match moves both positions past it. *)
Terminal(matches, length) ==
  /\ stack' = IF matches
              THEN WithTop([top EXCEPT !.curStart = @ + length,
                                       !.curEnd   = top.curStart + length])
              ELSE stack
  /\ res' = matches
  /\ Leave
  /\ UNCHANGED <<grammar, input, errors, memo, root, status>>

MatchString ==
  /\ Entering("S")
  /\ Terminal(\A i \in 1..Len(exp.str) : CharAt(top.curStart + i - 1) = exp.str[i],
              Len(exp.str))

MatchClass ==
  /\ Entering("C")
  /\ Terminal(CharAt(top.curStart) \in exp.class, 1)

MatchDot_AtEnd ==
  /\ Entering("DOT")
  /\ Terminal(TRUE, 1)

MatchDot ==
  /\ Entering("DOT")
  /\ Terminal(CharAt(top.curStart) # WEOF, 1)

-----------------------------------------------------------------------------
(* T(func) when func's answer at this position is in the memo map.  A      *)
(* failure on record moves cur_end_pos back to here.                       *)
AddChild(f, node) ==
  [f EXCEPT !.children = Append(@, node),
            !.curStart = node.end, !.curEnd = node.end]

CallMemoized ==
  /\ Entering("T") /\ is_memoized(exp.func, top.curStart)
  /\ Len(top.children) < MaxChildren
  /\ LET rec == MemoRecord(exp.func, top.curStart)
     IN  /\ stack' = WithTop(IF rec.ok
                             THEN AddChild(top, Node(exp.func, rec.start, rec.end))
                             ELSE [top EXCEPT !.curEnd = rec.end])
         /\ res' = rec.ok
  /\ Leave
  /\ UNCHANGED <<grammar, input, errors, memo, root, status>>

CallFunction ==
  /\ Entering("T") /\ ~is_memoized(exp.func, top.curStart)
  /\ Len(top.children) < MaxChildren /\ Len(stack) < MaxDepth
  /\ stack' = Append(stack, Activation(exp.func, top.curStart))
  /\ Enter(grammar.body[exp.func])
  /\ res' = FALSE
  /\ UNCHANGED <<grammar, input, errors, memo, root, status>>

(* The C program dies here, of stack overflow or for want of memory. *)
Exhaust ==
  /\ Entering("T")
  /\ \/ Len(top.children) >= MaxChildren
     \/ ~is_memoized(exp.func, top.curStart) /\ Len(stack) >= MaxDepth
  /\ status' = "exhausted"
  /\ UNCHANGED <<grammar, input, stack, pc, exp, res, errors, memo, root>>

-----------------------------------------------------------------------------
(* The end of a parsing function, and the rest of T in its caller. *)
caller == stack[Len(stack) - 1]

ReturnTo(f) == [SubSeq(stack, 1, Len(stack) - 1) EXCEPT ![Len(stack) - 1] = f]

Returning == Running /\ pc = "leave" /\ top.ctl = <<>>

Succeed ==
  LET node == Node(top.rule, top.start, top.curEnd)
  IN  /\ Returning /\ res
      /\ memoize(top.rule, top.start, top.curEnd, TRUE, top.children)
      /\ IF Len(stack) > 1
         THEN /\ stack' = ReturnTo(AddChild(caller, node))
              /\ UNCHANGED <<root, status>>
         ELSE /\ stack' = <<>>
              /\ root' = node
              /\ status' = "done"
      /\ Leave
      /\ UNCHANGED <<grammar, input, res, errors>>

Fail ==
  /\ Returning /\ ~res
  /\ errors' = add_error(errors, top.start, top.rule)
  /\ memoize(top.rule, top.start, top.start, FALSE, <<>>)
  /\ IF Len(stack) > 1
     THEN stack' = ReturnTo(caller) /\ UNCHANGED status
     ELSE stack' = <<>> /\ status' = "done"
  /\ Leave
  /\ UNCHANGED <<grammar, input, res, root>>

-----------------------------------------------------------------------------
Init ==
  /\ grammar \in Grammars
  /\ input \in Inputs
  /\ stack = <<Activation(grammar.start, 0)>>
  /\ pc = "enter"
  /\ exp = grammar.body[grammar.start]
  /\ res = FALSE
  /\ errors = NoErrors
  /\ memo = [type \in Rule |-> <<>>]
  /\ root = NoNode
  /\ status = "running"

Macro    == \/ EnterMacro
            \/ SeqRight \/ SeqEnd \/ DisjRight \/ DisjEnd
            \/ StarAgain \/ StarEnd \/ PlusAgain \/ PlusEnd
            \/ QuesEnd \/ BangEnd \/ HideEnd \/ AmpEnd
Match    == MatchString \/ MatchClass \/ MatchDot
Function == CallMemoized \/ CallFunction \/ Exhaust \/ Succeed \/ Fail

Step       == Macro \/ Match \/ Function
Terminated == ~Running /\ UNCHANGED vars
Next       == Step \/ Terminated

Spec     == Init /\ [][Next]_vars
FairSpec == Spec /\ WF_vars(Step)

-----------------------------------------------------------------------------
(* Properties *)

Span   == [type : Rule, begin : Nat, end : Nat]
Ctx    == [exp : Exp, second : BOOLEAN, count : BOOLEAN, size : Nat, pos : Nat, errs : Nat]
Frame  == [rule : Rule, start : Nat, curStart : Nat, curEnd : Nat,
           children : Seq(Span), ctl : Seq(Ctx)]
Cell   == [pos : Nat, type : Rule, freed : BOOLEAN]
Record == [start : Nat, end : Nat, ok : BOOLEAN, children : Seq(Span)]

(* Every variable has its type. *)
TypeOK ==
  /\ grammar \in Grammars
  /\ input \in Inputs
  /\ stack \in Seq(Frame)
  /\ Running => stack # <<>>
  /\ pc \in {"enter", "leave"}
  /\ exp \in Exp
  /\ res \in BOOLEAN
  /\ errors \in [cells : Seq(Cell), num : Nat]
  /\ errors.num <= Len(errors.cells)
  /\ memo \in [Rule -> Seq(Record)]
  /\ root \in Span \cup {NoNode}
  /\ status \in {"running", "done", "exhausted"}

(* The cursor of a parsing function never runs behind the place where a    *)
(* macro it is inside of, or the function itself, began, never overtakes   *)
(* cur_end_pos and never leaves the text: input_buffer_setpos and the      *)
(* extents given to syntax_node_create are always inside the buffer, in    *)
(* spite of cur_end_pos being stale when a DISJ or a memoized failure has  *)
(* moved only one of the two.                                              *)
PositionsOf(f) ==
  /\ f.start <= f.curStart /\ f.curStart <= f.curEnd /\ f.curEnd <= Len(input)
  /\ \A i \in 1..Len(f.ctl) : f.start <= f.ctl[i].pos /\ f.ctl[i].pos <= f.curStart
  /\ \A i \in 1..Len(f.ctl) : \A j \in 1..i : f.ctl[j].pos <= f.ctl[i].pos

PositionsOrdered == \A k \in 1..Len(stack) : PositionsOf(stack[k])

(* A parsing function whose expression failed has an empty child_stack:    *)
(* every macro that can leave children behind deletes them before the      *)
(* failure reaches PEG_PARSE.  The generated parsers depend on it, for     *)
(* their PEG_PARSE drops the array without the delete_children(0) that     *)
(* the hand-written one has at peg_parser.c:452.                           *)
FailureKeepsNoChildren == Returning /\ ~res => top.children = <<>>

(* The children of every node on record lie inside it, one after another.  *)
(* (AMP alone breaks this: it goes back and keeps the children.)           *)
InOrder(children, first, last) ==
  /\ \A i \in 1..Len(children) : /\ first <= children[i].begin
                                 /\ children[i].begin <= children[i].end
                                 /\ children[i].end <= last
  /\ \A i \in 1..Len(children) : \A j \in 1..(i - 1) :
       children[j].end <= children[i].begin

TreesNested ==
  \A type \in Rule : \A i \in 1..Len(memo[type]) :
    LET rec == memo[type][i]
    IN  rec.ok => InOrder(rec.children, rec.start, rec.end)

WithoutAmp[e \in Exp] ==
  /\ e.op # "AMP"
  /\ e.op \in Macros => WithoutAmp[e.A]
  /\ e.op \in Binary => WithoutAmp[e.B]

(* So they do in every grammar that does not use AMP, whatever was tried   *)
(* and taken back before the children came to stand where they are.        *)
NoAmp(body) == \A r \in Rule : WithoutAmp[body[r]]

AmpFreeTreesNested == NoAmp(grammar.body) => TreesNested

(* The packrat guarantee: a parsing function's body is finished at most    *)
(* once at each position, so the memo map holds one record for the two     *)
(* and the linear search of is_memoized cannot meet a second, different    *)
(* answer.  In a generated parser it is also the guarantee that the action *)
(* installed in dispatch[] runs at most once for a node type and position. *)
EvaluatedOnce ==
  \A type \in Rule : \A i, j \in 1..Len(memo[type]) :
    memo[type][i].start = memo[type][j].start => i = j

(* It is proved for grammars in which no rule calls itself before it has   *)
(* consumed anything.  parts has all expressions the grammar is made of,   *)
(* empty those that may succeed without consuming, and level falls from    *)
(* each expression to what it can run at the place where it began.         *)
MadeOf(body, parts) ==
  /\ \A r \in Rule : body[r] \in parts
  /\ \A e \in parts : /\ e.op \in Macros => e.A \in parts
                      /\ e.op \in Binary => e.B \in parts

Skips(body, empty, e) ==
  \/ e.op \in {"STAR", "QUES", "BANG", "AMP"}
  \/ e.op = "S" /\ e.str = <<>>
  \/ e.op = "SEQ" /\ e.A \in empty /\ e.B \in empty
  \/ e.op = "DISJ" /\ (e.A \in empty \/ e.B \in empty)
  \/ e.op \in {"PLUS", "HIDE"} /\ e.A \in empty
  \/ e.op = "T" /\ body[e.func] \in empty

RunsFirst(body, empty, e, a) ==
  \/ e.op \in Macros /\ a = e.A
  \/ e.op = "DISJ" /\ a = e.B
  \/ e.op = "SEQ" /\ e.A \in empty /\ a = e.B
  \/ e.op = "T" /\ a = body[e.func]

Descends(body, parts, empty, level) ==
  /\ MadeOf(body, parts)
  /\ \A e \in parts : Skips(body, empty, e) => e \in empty
  /\ \A e, a \in parts : RunsFirst(body, empty, e, a) => level[a] < level[e]

NoLeftRecursion(body) ==
  \E parts, empty \in SUBSET Exp : \E level \in [parts -> Nat] :
    Descends(body, parts, empty, level)

(* The error list is empty whenever the parse goes on after a success, and *)
(* so at the end of a successful parse: the failures of alternatives that  *)
(* were not needed are all gone.  main in parsergen.c takes any error left *)
(* in the list for a reason to stop, so one survivor would make parsergen  *)
(* reject a correct grammar.                                               *)
ErrorsOnlyOnFailure == pc = "enter" \/ res => errors.num = 0

(* The errors are listed from the inside out: a later record is about a    *)
(* function that began no later in the text.  main prints the first record *)
(* alone, so the message names the furthest place the failure came from.   *)
ErrorsOutward ==
  \A i \in 1..errors.num : \A j \in 1..(i - 1) :
    errors.cells[i].pos <= errors.cells[j].pos

(* No error record that print_errors or delete_errors can reach has had    *)
(* its string freed: delete_errors is never given a start_index beyond the *)
(* end, which would bring deleted records back.                            *)
ErrorsLive == \A i \in 1..errors.num : ~errors.cells[i].freed

(* Every node in a child_stack, under a node or at the root is one that    *)
(* the memo map has on record: trees are made of copies of memoized nodes  *)
(* and of nothing else, so the children a macro drops are never lost for   *)
(* the call that needs them next.                                          *)
OnRecord(node) ==
  \E i \in 1..Len(memo[node.type]) :
    LET rec == memo[node.type][i]
    IN  rec.ok /\ rec.start = node.begin /\ rec.end = node.end

AllOnRecord(children) == \A i \in 1..Len(children) : OnRecord(children[i])

NodesOnRecord ==
  /\ \A k \in 1..Len(stack) : AllOnRecord(stack[k].children)
  /\ \A type \in Rule : \A i \in 1..Len(memo[type]) : AllOnRecord(memo[type][i].children)
  /\ root # NoNode => OnRecord(root)

(* The parse ends, with an answer. *)
Terminates == <>(status = "done")
=============================================================================
