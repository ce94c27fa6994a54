------------------------ MODULE PackratParserProofs ------------------------
(***************************************************************************)
(* Invariants of PackratParser, proved for every grammar, every text and   *)
(* every bound.                                                            *)
(***************************************************************************)
EXTENDS PackratParser, SequenceTheorems, WellFoundedInduction, TLAPS

(* Replacing, removing and adding the last element of a sequence. *)
LEMMA ReplaceLast ==
  ASSUME NEW Q, NEW s \in Seq(Q), s # <<>>, NEW f \in Q
  PROVE  LET t == [s EXCEPT ![Len(s)] = f]
         IN  /\ t \in Seq(Q) /\ Len(t) = Len(s) /\ t # <<>>
             /\ t[Len(s)] = f
             /\ \A k \in 1..Len(s) : k # Len(s) => t[k] = s[k]
  OBVIOUS

LEMMA AddLast ==
  ASSUME NEW Q, NEW s \in Seq(Q), NEW f \in Q
  PROVE  LET t == Append(s, f)
         IN  /\ t \in Seq(Q) /\ Len(t) = Len(s) + 1 /\ t # <<>>
             /\ t[Len(s) + 1] = f
             /\ \A k \in 1..Len(s) : t[k] = s[k]
  OBVIOUS

LEMMA Prefix ==
  ASSUME NEW Q, NEW s \in Seq(Q), NEW n \in Nat, n <= Len(s)
  PROVE  LET t == SubSeq(s, 1, n)
         IN  t \in Seq(Q) /\ Len(t) = n /\ \A k \in 1..n : t[k] = s[k]
  OBVIOUS

LEMMA RemoveLast ==
  ASSUME NEW Q, NEW s \in Seq(Q), s # <<>>
  PROVE  LET t == SubSeq(s, 1, Len(s) - 1)
         IN  /\ t \in Seq(Q) /\ Len(t) = Len(s) - 1
             /\ \A k \in 1..(Len(s) - 1) : t[k] = s[k]
  <1>1. Len(s) - 1 \in Nat /\ Len(s) - 1 <= Len(s)
    OBVIOUS
  <1> QED
    BY <1>1, Prefix

(* The operands of a macro are expressions. *)
LEMMA Operands ==
  ASSUME NEW e \in Exp
  PROVE  /\ e.op \in Macros => e.A \in Exp
         /\ e.op \in Binary => e.B \in Exp
         /\ e.op = "T" => e.func \in Rule
         /\ e.op = "S" => e.str \in Seq(Char)
         /\ e.op = "C" => e.class \subseteq Char
  BY ExpAssumption DEF IsExp, Macros, Binary, Unary

-----------------------------------------------------------------------------
(* The invariant.  Each activation record is in good order: the error      *)
(* sizes its macros saved are zero, because the list is empty whenever an  *)
(* operand is entered; the child_stack sizes they saved grow from the      *)
(* outermost inwards and are within the array; and the positions are those *)
(* of PositionsOrdered.  A function began where its caller's cursor is.    *)
(* The memo map's answers lie in the text too.                             *)
Balanced(f) ==
  \A i \in 1..Len(f.ctl) :
    /\ f.ctl[i].errs = 0
    /\ f.ctl[i].size <= Len(f.children)
    /\ \A j \in 1..i : f.ctl[j].size <= f.ctl[i].size

Good(f) == f \in Frame /\ Balanced(f) /\ PositionsOf(f)

MemoInText ==
  \A type \in Rule : \A i \in 1..Len(memo[type]) :
    memo[type][i].start <= memo[type][i].end /\ memo[type][i].end <= Len(input)

Linked == \A k \in 1..(Len(stack) - 1) : stack[k + 1].start = stack[k].curStart

BasicInv ==
  /\ TypeOK
  /\ \A k \in 1..Len(stack) : Good(stack[k])
  /\ Linked
  /\ MemoInText
  /\ ErrorsOnlyOnFailure

LEMMA TopGood ==
  ASSUME BasicInv, Running
  PROVE  /\ Len(stack) \in Nat \ {0} /\ Good(top)
         /\ top.ctl # <<>> => ctx \in Ctx /\ Len(top.ctl) \in Nat \ {0}
  <1>1. stack \in Seq(Frame) /\ stack # <<>>
    BY DEF BasicInv, TypeOK
  <1>2. Len(stack) \in Nat \ {0} /\ Good(top)
    BY <1>1 DEF top, BasicInv
  <1>3. ASSUME top.ctl # <<>> PROVE ctx \in Ctx /\ Len(top.ctl) \in Nat \ {0}
    <2>1. top.ctl \in Seq(Ctx)
      BY <1>2 DEF Good, Frame
    <2> QED
      BY <2>1, <1>3 DEF ctx
  <1> QED
    BY <1>2, <1>3

(* What the macros do to an activation record keeps it in good order. *)
LEMMA PopCtlGood ==
  ASSUME NEW f, Good(f), f.ctl # <<>>
  PROVE  /\ Good(PopCtl(f)) /\ Len(PopCtl(f).ctl) = Len(f.ctl) - 1
         /\ PopCtl(f).start = f.start
  <1>1. f \in Frame /\ f.ctl \in Seq(Ctx)
    BY DEF Good, Frame
  <1> DEFINE c == SubSeq(f.ctl, 1, Len(f.ctl) - 1)
  <1>2. /\ c \in Seq(Ctx) /\ Len(c) = Len(f.ctl) - 1
        /\ \A i \in 1..(Len(f.ctl) - 1) : c[i] = f.ctl[i]
    BY <1>1, RemoveLast
  <1>3. PopCtl(f) = [f EXCEPT !.ctl = c]
    BY DEF PopCtl
  <1> HIDE DEF c
  <1> DEFINE g == [f EXCEPT !.ctl = c]
  <1>4. /\ g \in Frame /\ g.ctl = c /\ g.children = f.children
        /\ g.start = f.start /\ g.curStart = f.curStart /\ g.curEnd = f.curEnd
    BY <1>1, <1>2 DEF Frame
  <1> HIDE DEF g
  <1>5. Balanced(g)
    <2>1. SUFFICES ASSUME NEW i \in 1..Len(c), NEW j \in 1..i
                   PROVE  c[i].errs = 0 /\ c[i].size <= Len(f.children) /\ c[j].size <= c[i].size
      BY <1>4 DEF Balanced
    <2>2. i \in 1..Len(f.ctl) /\ c[i] = f.ctl[i] /\ c[j] = f.ctl[j]
      BY <1>1, <1>2
    <2> QED
      BY <2>2 DEF Good, Balanced
  <1>6. PositionsOf(g)
    <2>1. PositionsOf(f)
      BY DEF Good
    <2>2. /\ g.start <= g.curStart /\ g.curStart <= g.curEnd
          /\ g.curEnd <= Len(input)
      BY <2>1, <1>4 DEF PositionsOf
    <2>3. ASSUME NEW i \in 1..Len(c), NEW j \in 1..i
          PROVE  /\ f.start <= c[i].pos /\ c[i].pos <= f.curStart
                 /\ c[j].pos <= c[i].pos
      <3>1. /\ i \in 1..Len(f.ctl) /\ j \in 1..i
            /\ c[i] = f.ctl[i] /\ c[j] = f.ctl[j]
        BY <1>1, <1>2
      <3> QED
        BY <3>1, <2>1 DEF PositionsOf
    <2>4. \A i \in 1..Len(c) : i \in 1..i
      BY <1>2
    <2> QED
      BY <2>2, <2>3, <2>4, <1>4 DEF PositionsOf
  <1> QED
    BY <1>2, <1>3, <1>4, <1>5, <1>6 DEF Good, g

LEMMA PushCtlGood ==
  ASSUME NEW f, Good(f), NEW c \in Ctx,
         c.errs = 0, c.size = Len(f.children), c.pos = f.curStart
  PROVE  Good([f EXCEPT !.ctl = Append(@, c)])
  <1>1. f \in Frame /\ f.ctl \in Seq(Ctx) /\ Len(f.children) \in Nat /\ Len(f.ctl) \in Nat
    BY DEF Good, Frame
  <1> DEFINE d == Append(f.ctl, c)
  <1>2. /\ d \in Seq(Ctx) /\ Len(d) = Len(f.ctl) + 1 /\ d[Len(f.ctl) + 1] = c
        /\ \A i \in 1..Len(f.ctl) : d[i] = f.ctl[i]
    BY <1>1
  <1> HIDE DEF d
  <1> DEFINE g == [f EXCEPT !.ctl = d]
  <1>3. /\ g \in Frame /\ g.ctl = d /\ g.children = f.children
        /\ g.start = f.start /\ g.curStart = f.curStart /\ g.curEnd = f.curEnd
    BY <1>1, <1>2 DEF Frame
  <1> HIDE DEF g
  <1>4. ASSUME NEW i \in 1..Len(d)
        PROVE  /\ d[i].errs = 0 /\ d[i].size <= Len(f.children)
               /\ f.start <= d[i].pos /\ d[i].pos <= f.curStart
    <2>1. CASE i = Len(f.ctl) + 1
      BY <2>1, <1>1, <1>2 DEF Good, PositionsOf, Frame
    <2>2. CASE i \in 1..Len(f.ctl)
      BY <2>2, <1>1, <1>2 DEF Good, PositionsOf, Balanced
    <2> QED
      BY <2>1, <2>2, <1>1, <1>2
  <1>5. ASSUME NEW i \in 1..Len(d), NEW j \in 1..i
        PROVE  d[j].size <= d[i].size /\ d[j].pos <= d[i].pos
    <2>1. CASE i = Len(f.ctl) + 1
      <3>1. j \in 1..Len(d)
        BY <1>1, <1>2
      <3> QED
        BY <2>1, <3>1, <1>2, <1>4
    <2>2. CASE i \in 1..Len(f.ctl)
      <3>1. j \in 1..Len(f.ctl) /\ d[i] = f.ctl[i] /\ d[j] = f.ctl[j]
        BY <2>2, <1>1, <1>2
      <3> QED
        BY <2>2, <3>1 DEF Good, PositionsOf, Balanced
    <2> QED
      BY <2>1, <2>2, <1>1, <1>2
  <1>6. Balanced(g) /\ PositionsOf(g)
    BY <1>1, <1>3, <1>4, <1>5 DEF Good, Balanced, PositionsOf
  <1> QED
    BY <1>3, <1>6 DEF Good, g, d

(* A change of `second' or `count' is no matter. *)
LEMMA SameCtlGood ==
  ASSUME NEW f, Good(f), NEW c \in Seq(Ctx), Len(c) = Len(f.ctl),
         \A i \in 1..Len(c) : /\ c[i].errs = f.ctl[i].errs
                              /\ c[i].size = f.ctl[i].size
                              /\ c[i].pos = f.ctl[i].pos
  PROVE  Good([f EXCEPT !.ctl = c])
  <1> DEFINE g == [f EXCEPT !.ctl = c]
  <1>1. f \in Frame /\ f.ctl \in Seq(Ctx)
    BY DEF Good, Frame
  <1>2. /\ g \in Frame /\ g.ctl = c /\ g.children = f.children
        /\ g.start = f.start /\ g.curStart = f.curStart /\ g.curEnd = f.curEnd
    BY <1>1 DEF Frame
  <1> HIDE DEF g
  <1>3. ASSUME NEW i \in 1..Len(c), NEW j \in 1..i
        PROVE  /\ c[i].errs = 0 /\ c[i].size <= Len(f.children) /\ c[j].size <= c[i].size
               /\ f.start <= c[i].pos /\ c[i].pos <= f.curStart /\ c[j].pos <= c[i].pos
    <2>1. i \in 1..Len(f.ctl) /\ j \in 1..Len(c)
      BY <1>1
    <2> QED
      BY <2>1 DEF Good, Balanced, PositionsOf
  <1>4. Balanced(g) /\ PositionsOf(g)
    BY <1>1, <1>2, <1>3 DEF Good, Balanced, PositionsOf
  <1> QED
    BY <1>2, <1>4 DEF Good, g

LEMMA MarkCtlGood ==
  ASSUME NEW f, Good(f), f.ctl # <<>>
  PROVE  /\ Good([f EXCEPT !.ctl[Len(f.ctl)].second = TRUE])
         /\ Good([f EXCEPT !.ctl[Len(f.ctl)].count = TRUE])
  <1>1. f.ctl \in Seq(Ctx) /\ Len(f.ctl) \in 1..Len(f.ctl)
    BY DEF Good, Frame
  <1> DEFINE last == f.ctl[Len(f.ctl)]
             Marked(e) == [f.ctl EXCEPT ![Len(f.ctl)] = e]
  <1>2. ASSUME NEW e \in Ctx, e.errs = last.errs, e.size = last.size, e.pos = last.pos
        PROVE  Good([f EXCEPT !.ctl = Marked(e)])
    <2>1. /\ Marked(e) \in Seq(Ctx) /\ Len(Marked(e)) = Len(f.ctl)
          /\ Marked(e)[Len(f.ctl)] = e
          /\ \A i \in 1..Len(f.ctl) : i # Len(f.ctl) => Marked(e)[i] = f.ctl[i]
      BY <1>1, ReplaceLast
    <2> QED
      BY <1>2, <2>1, SameCtlGood
  <1>3. last \in Ctx
    BY <1>1
  <1>4. /\ [last EXCEPT !.second = TRUE] \in Ctx
        /\ [last EXCEPT !.second = TRUE].errs = last.errs
        /\ [last EXCEPT !.second = TRUE].size = last.size
        /\ [last EXCEPT !.second = TRUE].pos = last.pos
        /\ [last EXCEPT !.count = TRUE] \in Ctx
        /\ [last EXCEPT !.count = TRUE].errs = last.errs
        /\ [last EXCEPT !.count = TRUE].size = last.size
        /\ [last EXCEPT !.count = TRUE].pos = last.pos
    BY <1>3 DEF Ctx
  <1>5. /\ Good([f EXCEPT !.ctl = Marked([last EXCEPT !.second = TRUE])])
        /\ Good([f EXCEPT !.ctl = Marked([last EXCEPT !.count = TRUE])])
    BY <1>2, <1>4
  <1> QED
    BY <1>5

LEMMA MoveGood ==
  ASSUME NEW f, Good(f), NEW p \in Nat, NEW q \in Nat,
         f.start <= p, p <= q, q <= Len(input),
         \A i \in 1..Len(f.ctl) : f.ctl[i].pos <= p
  PROVE  /\ Good([f EXCEPT !.curStart = p, !.curEnd = q])
         /\ f.curEnd = q => Good([f EXCEPT !.curStart = p])
  BY DEF Good, Frame, Ctx, Balanced, PositionsOf

LEMMA TruncateGood ==
  ASSUME NEW f, Good(f), NEW n \in Nat, n <= Len(f.children),
         \A i \in 1..Len(f.ctl) : f.ctl[i].size <= n
  PROVE  Good([f EXCEPT !.children = delete_children(@, n)])
  <1>1. f \in Frame /\ f.children \in Seq(Span)
    BY DEF Good, Frame
  <1>2. /\ delete_children(f.children, n) \in Seq(Span)
        /\ Len(delete_children(f.children, n)) = n
    BY <1>1, Prefix DEF delete_children
  <1> QED
    BY <1>1, <1>2 DEF Good, Frame, Balanced, PositionsOf

LEMMA AddChildGood ==
  ASSUME NEW f, Good(f), NEW node \in Span,
         f.curStart <= node.end, node.end <= Len(input)
  PROVE  Good(AddChild(f, node))
  <1>1. f \in Frame /\ f.children \in Seq(Span) /\ node.end \in Nat /\ f.ctl \in Seq(Ctx)
    BY DEF Good, Frame, Span
  <1> DEFINE c == Append(f.children, node)
             g == [f EXCEPT !.children = c, !.curStart = node.end, !.curEnd = node.end]
  <1>2. c \in Seq(Span) /\ Len(c) = Len(f.children) + 1
    BY <1>1
  <1> HIDE DEF c
  <1>3. /\ g \in Frame /\ g.ctl = f.ctl /\ g.children = c
        /\ g.start = f.start /\ g.curStart = node.end /\ g.curEnd = node.end
    BY <1>1, <1>2 DEF Frame
  <1> HIDE DEF g
  <1>4. ASSUME NEW i \in 1..Len(f.ctl)
        PROVE  /\ f.ctl[i].errs = 0 /\ f.ctl[i].size <= Len(c)
               /\ f.start <= f.ctl[i].pos /\ f.ctl[i].pos <= node.end
    <2>1. /\ f.ctl[i] \in Ctx /\ Len(f.children) \in Nat /\ f.curStart \in Nat
          /\ f.ctl[i].size \in Nat /\ f.ctl[i].pos \in Nat
      <3>1. f.ctl[i] \in Ctx
        BY <1>1
      <3>2. Len(f.children) \in Nat /\ f.curStart \in Nat
        BY <1>1 DEF Frame
      <3> QED
        BY <3>1, <3>2 DEF Ctx
    <2>2. /\ f.ctl[i].errs = 0 /\ f.ctl[i].size <= Len(f.children)
          /\ f.start <= f.ctl[i].pos /\ f.ctl[i].pos <= f.curStart
      BY DEF Good, Balanced, PositionsOf
    <2> QED
      BY <1>1, <1>2, <2>1, <2>2
  <1>5. f.start <= node.end
    BY <1>1 DEF Good, Frame, PositionsOf
  <1>6. Balanced(g) /\ PositionsOf(g)
    BY <1>1, <1>3, <1>4, <1>5 DEF Good, Balanced, PositionsOf
  <1>7. AddChild(f, node) = g
    BY DEF AddChild, g, c
  <1> QED
    BY <1>3, <1>6, <1>7 DEF Good

LEMMA ActivationGood ==
  ASSUME NEW func \in Rule, NEW start \in Nat, start <= Len(input)
  PROVE  Good(Activation(func, start))
  BY DEF Good, Activation, Frame, Balanced, PositionsOf

-----------------------------------------------------------------------------
(* The error list. *)
ErrorList == [cells : Seq(Cell), num : Nat]

LEMMA DeleteErrorsType ==
  ASSUME NEW errs \in ErrorList
  PROVE  /\ delete_errors(errs, 0) \in ErrorList
         /\ delete_errors(errs, 0).num = 0
  <1> DEFINE F(i) == IF 0 < i /\ i <= errs.num
                     THEN [errs.cells[i] EXCEPT !.freed = TRUE] ELSE errs.cells[i]
  <1>1. errs.cells \in Seq(Cell) /\ Len(errs.cells) \in Nat
    BY DEF ErrorList
  <1>2. ASSUME NEW i \in 1..Len(errs.cells) PROVE F(i) \in Cell
    <2>1. errs.cells[i] \in Cell
      BY <1>1
    <2> QED
      BY <2>1 DEF Cell
  <1>3. [i \in 1..Len(errs.cells) |-> F(i)] \in Seq(Cell)
    BY <1>1, <1>2
  <1> QED
    BY <1>3 DEF delete_errors, ErrorList

LEMMA AddErrorType ==
  ASSUME NEW errs \in ErrorList, errs.num <= Len(errs.cells),
         NEW pos \in Nat, NEW type \in Rule
  PROVE  LET e == add_error(errs, pos, type)
         IN  /\ e \in ErrorList
             /\ e.num = errs.num + 1 /\ e.num <= Len(e.cells)
             /\ e.cells[e.num] = [pos |-> pos, type |-> type, freed |-> FALSE]
             /\ \A i \in 1..errs.num : e.cells[i] = errs.cells[i]
  <1> DEFINE n   == errs.num + 1
             len == IF n > Len(errs.cells) THEN n ELSE Len(errs.cells)
             rec == [pos |-> pos, type |-> type, freed |-> FALSE]
             c   == [i \in 1..len |-> IF i = n THEN rec ELSE errs.cells[i]]
  <1>1. errs.cells \in Seq(Cell) /\ Len(errs.cells) \in Nat /\ n \in 1..len /\ len \in Nat
    BY DEF ErrorList
  <1>2. rec \in Cell
    BY DEF Cell
  <1>3. ASSUME NEW i \in 1..len PROVE (IF i = n THEN rec ELSE errs.cells[i]) \in Cell
    <2>1. CASE i = n
      BY <2>1, <1>2
    <2>2. CASE i # n
      <3>1. i \in 1..Len(errs.cells)
        BY <2>2, <1>1 DEF ErrorList
      <3> QED
        BY <2>2, <3>1, <1>1
    <2> QED
      BY <2>1, <2>2
  <1> HIDE DEF rec
  <1>4. c \in Seq(Cell) /\ Len(c) = len
    BY <1>1, <1>3
  <1>5. c[n] = rec /\ \A i \in 1..errs.num : c[i] = errs.cells[i]
    BY <1>1 DEF ErrorList
  <1>6. add_error(errs, pos, type) = [cells |-> c, num |-> n]
    BY DEF add_error, rec
  <1> HIDE DEF c
  <1> QED
    BY <1>1, <1>4, <1>5, <1>6 DEF ErrorList, rec

-----------------------------------------------------------------------------
(* What the invariant says of the locals of the macro the last operand     *)
(* belongs to.                                                             *)
LEMMA CtxFacts ==
  ASSUME BasicInv, Running, top.ctl # <<>>
  PROVE  /\ ctx.exp \in Exp /\ ctx.size \in Nat /\ ctx.pos \in Nat
         /\ ctx.errs = 0
         /\ ctx.size <= Len(top.children)
         /\ top.start <= ctx.pos /\ ctx.pos <= top.curStart
         /\ top.curStart <= top.curEnd /\ top.curEnd <= Len(input)
         /\ \A i \in 1..Len(top.ctl) : /\ top.ctl[i].size <= ctx.size
                                       /\ top.ctl[i].pos <= ctx.pos
         /\ top \in Frame
         /\ ctx \in Ctx
  <1>1. ctx \in Ctx /\ Len(top.ctl) \in Nat \ {0} /\ Good(top)
    BY TopGood
  <1>2. ctx.exp \in Exp /\ ctx.size \in Nat /\ ctx.pos \in Nat
    BY <1>1 DEF Ctx
  <1>3. Len(top.ctl) \in 1..Len(top.ctl) /\ ctx = top.ctl[Len(top.ctl)]
    BY <1>1 DEF ctx
  <1>4. /\ ctx.errs = 0 /\ ctx.size <= Len(top.children)
        /\ \A i \in 1..Len(top.ctl) : top.ctl[i].size <= ctx.size
    BY <1>1, <1>3 DEF Good, Balanced
  <1>5. /\ top.start <= ctx.pos /\ ctx.pos <= top.curStart
        /\ top.curStart <= top.curEnd /\ top.curEnd <= Len(input)
        /\ \A i \in 1..Len(top.ctl) : top.ctl[i].pos <= ctx.pos
    BY <1>1, <1>3 DEF Good, PositionsOf
  <1> QED
    BY <1>1, <1>2, <1>4, <1>5 DEF Good

(* The epilogues' changes of the locals keep the record in good order. *)
LEMMA EpilogueGood ==
  ASSUME BasicInv, Running, top.ctl # <<>>
  PROVE  /\ Good(Advance(top)) /\ Advance(top).ctl = top.ctl /\ Advance(top).start = top.start
         /\ Good(GoBack(top)) /\ GoBack(top).ctl = top.ctl /\ GoBack(top).start = top.start
         /\ Good(GoBackBoth(top)) /\ GoBackBoth(top).ctl = top.ctl /\ GoBackBoth(top).start = top.start
         /\ Good(DropChildren(top)) /\ DropChildren(top).ctl = top.ctl /\ DropChildren(top).start = top.start
  <1>1. Good(top) /\ top \in Frame
    BY TopGood DEF Good
  <1>2. /\ top.start \in Nat /\ top.curStart \in Nat /\ top.curEnd \in Nat
        /\ top.ctl \in Seq(Ctx) /\ top.children \in Seq(Span)
    BY <1>1 DEF Frame
  <1>3. \A i \in 1..Len(top.ctl) : top.ctl[i].pos \in Nat /\ top.ctl[i].size \in Nat
    <2>1. ASSUME NEW i \in 1..Len(top.ctl) PROVE top.ctl[i] \in Ctx
      BY <1>2
    <2> QED
      BY <2>1 DEF Ctx
  <1>4. Good(Advance(top)) /\ Advance(top).ctl = top.ctl /\ Advance(top).start = top.start
    <2>1. \A i \in 1..Len(top.ctl) : top.ctl[i].pos <= top.curEnd
      BY <1>2, <1>3, <1>1 DEF Good, PositionsOf
    <2>2. top.start <= top.curEnd /\ top.curEnd <= top.curEnd /\ top.curEnd <= Len(input)
      BY <1>2, CtxFacts
    <2>3. Good([top EXCEPT !.curStart = top.curEnd])
      BY <1>1, <1>2, <2>1, <2>2, MoveGood
    <2> QED
      BY <1>1, <2>3 DEF Advance, Frame
  <1>5. Good(GoBack(top)) /\ GoBack(top).ctl = top.ctl /\ GoBack(top).start = top.start
    <2>1. Good([top EXCEPT !.curStart = ctx.pos])
      <3>1. ctx.pos <= top.curEnd
        BY <1>2, CtxFacts
      <3> QED
        BY <1>1, <1>2, <3>1, CtxFacts, MoveGood
    <2> QED
      BY <1>1, <2>1 DEF GoBack, Frame
  <1>6. Good(GoBackBoth(top)) /\ GoBackBoth(top).ctl = top.ctl /\ GoBackBoth(top).start = top.start
    <2>1. Good([top EXCEPT !.curStart = ctx.pos, !.curEnd = ctx.pos])
      <3>1. ctx.pos <= Len(input) /\ ctx.pos <= ctx.pos
        BY <1>2, CtxFacts
      <3> QED
        BY <1>1, <1>2, <3>1, CtxFacts, MoveGood
    <2> QED
      BY <1>1, <2>1 DEF GoBackBoth, Frame
  <1>7. Good(DropChildren(top)) /\ DropChildren(top).ctl = top.ctl /\ DropChildren(top).start = top.start
    <2>1. Good([top EXCEPT !.children = delete_children(@, ctx.size)])
      BY <1>1, CtxFacts, TruncateGood
    <2> QED
      BY <1>1, <2>1 DEF DropChildren, Frame
  <1> QED
    BY <1>4, <1>5, <1>6, <1>7

LEMMA MarkGood ==
  ASSUME NEW f, Good(f), f.ctl # <<>>
  PROVE  /\ Good(AtSecond(f)) /\ AtSecond(f).ctl # <<>> /\ AtSecond(f).start = f.start
         /\ Good(Counted(f)) /\ Counted(f).ctl # <<>> /\ Counted(f).start = f.start
  <1>1. f \in Frame /\ f.ctl \in Seq(Ctx) /\ Len(f.ctl) \in Nat \ {0}
    BY DEF Good, Frame
  <1> DEFINE c(e) == [f.ctl EXCEPT ![Len(f.ctl)] = e]
             g(e) == [f EXCEPT !.ctl = c(e)]
  <1>2. ASSUME NEW e PROVE g(e).ctl # <<>> /\ g(e).start = f.start
    <2>1. g(e).ctl = c(e) /\ g(e).start = f.start
      BY <1>1 DEF Frame
    <2>2. DOMAIN c(e) = 1..Len(f.ctl) /\ 1 \in DOMAIN c(e)
      BY <1>1
    <2>3. DOMAIN << >> = {}
      OBVIOUS
    <2> QED
      BY <2>1, <2>2, <2>3
  <1> HIDE DEF g
  <1>3. /\ AtSecond(f) = g([f.ctl[Len(f.ctl)] EXCEPT !.second = TRUE])
        /\ Counted(f) = g([f.ctl[Len(f.ctl)] EXCEPT !.count = TRUE])
    BY DEF AtSecond, Counted, g
  <1>4. Good(AtSecond(f)) /\ Good(Counted(f))
    BY MarkCtlGood DEF AtSecond, Counted
  <1> QED
    BY <1>2, <1>3, <1>4

(* A step that changes nothing of the stack but the running function, and  *)
(* nothing of what the parse has produced but the error list.              *)
LEMMA TopReplaced ==
  ASSUME BasicInv, Running, NEW f, Good(f), f.start = top.start, stack' = WithTop(f),
         UNCHANGED <<grammar, input, memo, root, status>>,
         pc' \in {"enter", "leave"}, exp' \in Exp, res' \in BOOLEAN,
         errors' \in ErrorList, errors'.num <= Len(errors'.cells),
         pc' = "enter" \/ res' => errors'.num = 0
  PROVE  BasicInv'
  <1>1. /\ stack \in Seq(Frame) /\ stack # <<>>
        /\ \A k \in 1..Len(stack) : Good(stack[k])
    BY DEF BasicInv, TypeOK
  <1>2. f \in Frame
    BY DEF Good
  <1>3. /\ stack' \in Seq(Frame) /\ Len(stack') = Len(stack) /\ stack' # <<>>
        /\ stack'[Len(stack)] = f
        /\ \A k \in 1..Len(stack) : k # Len(stack) => stack'[k] = stack[k]
    BY <1>1, <1>2, ReplaceLast DEF WithTop
  <1>4. (\A k \in 1..Len(stack) : Good(stack[k]))'
    <2>1. \A k \in 1..Len(stack') : Good(stack'[k])
      BY <1>1, <1>3
    <2> QED
      BY <2>1 DEF Good, Balanced, PositionsOf
  <1>5. TypeOK'
    BY <1>3 DEF BasicInv, TypeOK, ErrorList, Running
  <1>6. MemoInText' /\ ErrorsOnlyOnFailure'
    BY DEF BasicInv, MemoInText, ErrorsOnlyOnFailure
  <1>7. Linked'
    <2>1. ASSUME NEW k \in 1..(Len(stack) - 1)
          PROVE  stack'[k + 1].start = stack'[k].curStart
      <3>1. k \in 1..Len(stack) /\ k + 1 \in 1..Len(stack) /\ k # Len(stack)
        BY <1>1
      <3>2. stack'[k + 1].start = stack[k + 1].start
        BY <1>3, <3>1 DEF top
      <3>3. stack[k + 1].start = stack[k].curStart
        BY DEF BasicInv, Linked
      <3> QED
        BY <1>3, <3>1, <3>2, <3>3
    <2> QED
      BY <1>3, <2>1 DEF Linked
  <1> QED
    BY <1>4, <1>5, <1>6, <1>7 DEF BasicInv

LEMMA ErrorsType ==
  ASSUME BasicInv
  PROVE  /\ errors \in ErrorList /\ errors.num <= Len(errors.cells)
         /\ pc = "enter" \/ res => errors.num = 0
         /\ res \in BOOLEAN /\ exp \in Exp
  BY DEF BasicInv, TypeOK, ErrorList, ErrorsOnlyOnFailure

LEMMA ErrorsDeleted ==
  ASSUME BasicInv, errors' = delete_errors(errors, 0)
  PROVE  /\ errors' \in ErrorList /\ errors'.num <= Len(errors'.cells)
         /\ errors'.num = 0
  <1>1. errors' \in ErrorList /\ errors'.num = 0
    BY ErrorsType, DeleteErrorsType
  <1> QED
    BY <1>1 DEF ErrorList

LEMMA ContinueInv ==
  ASSUME BasicInv, Running, NEW f, Good(f), f.start = top.start,
         NEW e \in Exp, Continue(f, e),
         errors' \in ErrorList, errors'.num <= Len(errors'.cells), errors'.num = 0
  PROVE  BasicInv'
  <1>1. res' \in BOOLEAN
    BY ErrorsType DEF Continue
  <1> QED
    BY <1>1, TopReplaced DEF Continue, Enter

LEMMA FinishInv ==
  ASSUME BasicInv, Running, NEW f, Good(f), f.ctl # <<>>, f.start = top.start,
         Finish(f, res'),
         res' \in BOOLEAN,
         errors' \in ErrorList, errors'.num <= Len(errors'.cells),
         res' => errors'.num = 0
  PROVE  BasicInv'
  <1>1. Good(PopCtl(f)) /\ PopCtl(f).start = f.start
    BY PopCtlGood
  <1>2. exp \in Exp
    BY ErrorsType
  <1> QED
    BY <1>1, <1>2, TopReplaced DEF Finish, Leave

-----------------------------------------------------------------------------
(* Every macro step preserves the invariant. *)
LEMMA MacroInv ==
  ASSUME BasicInv, Running, Macro
  PROVE  BasicInv'
  <1>1. /\ Good(top) /\ top \in Frame
        /\ Len(top.children) \in Nat /\ top.curStart \in Nat
    BY TopGood DEF Good, Frame
  <1>2. /\ errors.num \in Nat /\ exp \in Exp /\ res \in BOOLEAN
        /\ pc = "enter" \/ res => errors.num = 0
    BY ErrorsType DEF ErrorList
  <1>3. ASSUME EnterMacro PROVE BasicInv'
    <2> DEFINE c == [exp |-> exp, second |-> FALSE, count |-> FALSE,
                     size |-> Len(top.children), pos |-> top.curStart,
                     errs |-> errors.num]
    <2>1. pc = "enter" /\ exp.A \in Exp
      BY <1>2, <1>3, Operands DEF EnterMacro
    <2>2. c \in Ctx /\ c.errs = 0 /\ c.size = Len(top.children) /\ c.pos = top.curStart
      BY <1>1, <1>2, <2>1 DEF Ctx
    <2>3. /\ Good([top EXCEPT !.ctl = Append(@, c)])
          /\ [top EXCEPT !.ctl = Append(@, c)].start = top.start
      BY <1>1, <2>2, PushCtlGood DEF Frame
    <2>4. Continue([top EXCEPT !.ctl = Append(@, c)], exp.A) /\ errors' = errors
      BY <1>3 DEF EnterMacro
    <2> HIDE DEF c
    <2> QED
      BY <1>2, <2>1, <2>3, <2>4, ErrorsType, ContinueInv
  <1>4. ASSUME top.ctl # <<>>
        PROVE  /\ ctx.exp \in Exp /\ ctx.errs = 0
               /\ ctx.exp.op \in Macros => ctx.exp.A \in Exp
               /\ ctx.exp.op \in Binary => ctx.exp.B \in Exp
    BY <1>4, CtxFacts, Operands
  <1>5. ASSUME top.ctl # <<>>
        PROVE  Good(EndOfPair) /\ EndOfPair.ctl = top.ctl /\ EndOfPair.start = top.start
    BY <1>5, EpilogueGood DEF EndOfPair
  <1>6. ASSUME SeqRight PROVE BasicInv'
    <2>1. top.ctl # <<>> /\ ctx.exp.B \in Exp /\ res
      BY <1>4, <1>6 DEF SeqRight, Leaving, Binary
    <2>2. Good(AtSecond(top)) /\ AtSecond(top).start = top.start
      BY <1>1, <2>1, MarkGood
    <2> QED
      BY <1>2, <1>6, <2>1, <2>2, ErrorsType, ContinueInv DEF SeqRight
  <1>7. ASSUME SeqEnd PROVE BasicInv'
    <2>1. top.ctl # <<>>
      BY <1>7 DEF SeqEnd, Leaving
    <2>2. Finish(EndOfPair, res') /\ res' = res /\ errors' = errors
      BY <1>7 DEF SeqEnd, Finish
    <2> QED
      BY <1>2, <1>5, <2>1, <2>2, ErrorsType, FinishInv
  <1>8. ASSUME DisjRight PROVE BasicInv'
    <2>1. top.ctl # <<>> /\ ctx.exp.B \in Exp
      BY <1>4, <1>8 DEF DisjRight, Leaving, Binary
    <2>2. Good(AtSecond(GoBack(top))) /\ AtSecond(GoBack(top)).start = top.start
      BY <2>1, EpilogueGood, MarkGood
    <2>3. Continue(AtSecond(GoBack(top)), ctx.exp.B) /\ errors' = delete_errors(errors, 0)
      BY <1>8 DEF DisjRight
    <2> QED
      BY <2>1, <2>2, <2>3, ErrorsDeleted, ContinueInv
  <1>9. ASSUME DisjEnd PROVE BasicInv'
    <2>1. top.ctl # <<>>
      BY <1>9 DEF DisjEnd, Leaving
    <2>2. Finish(EndOfPair, res') /\ res' = res /\ errors' = errors
      BY <1>9 DEF DisjEnd, Finish
    <2> QED
      BY <1>2, <1>5, <2>1, <2>2, ErrorsType, FinishInv
  <1>10. ASSUME StarAgain PROVE BasicInv'
    <2>1. top.ctl # <<>> /\ ctx.exp.A \in Exp /\ res
      BY <1>4, <1>10 DEF StarAgain, Leaving, Macros, Unary
    <2> QED
      BY <1>2, <1>10, <2>1, EpilogueGood, ErrorsType, ContinueInv DEF StarAgain
  <1>11. ASSUME StarEnd PROVE BasicInv'
    <2>1. top.ctl # <<>>
      BY <1>11 DEF StarEnd, Leaving
    <2>2. Finish(top, res') /\ res' = TRUE /\ errors' = delete_errors(errors, 0)
      BY <1>11 DEF StarEnd, Finish
    <2> QED
      BY <1>1, <2>1, <2>2, ErrorsDeleted, FinishInv
  <1>12. ASSUME PlusAgain PROVE BasicInv'
    <2>1. top.ctl # <<>> /\ ctx.exp.A \in Exp /\ res
      BY <1>4, <1>12 DEF PlusAgain, Leaving, Macros, Unary
    <2>2. Good(Counted(Advance(top))) /\ Counted(Advance(top)).start = top.start
      BY <2>1, EpilogueGood, MarkGood
    <2> QED
      BY <1>2, <1>12, <2>1, <2>2, ErrorsType, ContinueInv DEF PlusAgain
  <1>13. ASSUME PlusEnd PROVE BasicInv'
    <2>1. top.ctl # <<>> /\ ctx.errs = 0
      BY <1>4, <1>13 DEF PlusEnd, Leaving
    <2>2. CASE ctx.count
      <3>1. Finish(top, res') /\ res' = TRUE /\ errors' = delete_errors(errors, 0)
        BY <1>13, <2>1, <2>2 DEF PlusEnd, Finish
      <3> QED
        BY <1>1, <2>1, <3>1, ErrorsDeleted, FinishInv
    <2>3. CASE ~ctx.count
      <3>1. Finish(DropChildren(top), res') /\ res' = FALSE /\ errors' = errors
        BY <1>13, <2>3 DEF PlusEnd, Finish
      <3> QED
        BY <2>1, <3>1, EpilogueGood, ErrorsType, FinishInv
    <2> QED
      BY <2>2, <2>3
  <1>14. ASSUME QuesEnd PROVE BasicInv'
    <2>1. top.ctl # <<>> /\ ctx.errs = 0
      BY <1>4, <1>14 DEF QuesEnd, Leaving
    <2> DEFINE f == IF res THEN Advance(top) ELSE top
    <2>2. Good(f) /\ f.ctl # <<>> /\ f.start = top.start
      BY <1>1, <2>1, EpilogueGood
    <2>3. Finish(f, res') /\ res' = TRUE /\ errors' = delete_errors(errors, 0)
      BY <1>14, <2>1 DEF QuesEnd, Finish
    <2> HIDE DEF f
    <2> QED
      BY <2>2, <2>3, ErrorsDeleted, FinishInv
  <1>15. ASSUME BangEnd PROVE BasicInv'
    <2>1. top.ctl # <<>> /\ ctx.errs = 0
      BY <1>4, <1>15 DEF BangEnd, Leaving
    <2>2. /\ Good(DropChildren(GoBackBoth(top))) /\ DropChildren(GoBackBoth(top)).ctl # <<>>
          /\ DropChildren(GoBackBoth(top)).start = top.start
      <3>1. Good(GoBackBoth(top)) /\ GoBackBoth(top).ctl = top.ctl /\ GoBackBoth(top).start = top.start
        BY <2>1, EpilogueGood
      <3>2. GoBackBoth(top).children = top.children /\ GoBackBoth(top) \in Frame
        BY <1>1, <3>1 DEF GoBackBoth, Frame, Good
      <3>3. /\ Good([GoBackBoth(top) EXCEPT !.children = delete_children(@, ctx.size)])
        BY <3>1, <3>2, <2>1, CtxFacts, TruncateGood
      <3> QED
        BY <3>1, <3>2, <3>3, <2>1 DEF DropChildren, Frame
    <2>3. /\ Finish(DropChildren(GoBackBoth(top)), res')
          /\ res' \in BOOLEAN /\ errors' = delete_errors(errors, 0)
      BY <1>2, <1>15, <2>1 DEF BangEnd, Finish
    <2> QED
      BY <1>2, <2>2, <2>3, ErrorsDeleted, FinishInv
  <1>16. ASSUME HideEnd PROVE BasicInv'
    <2>1. top.ctl # <<>>
      BY <1>16 DEF HideEnd, Leaving
    <2>2. /\ Good(Advance(DropChildren(top))) /\ Advance(DropChildren(top)).ctl # <<>>
          /\ Advance(DropChildren(top)).start = top.start
      <3>1. Good(Advance(top)) /\ Advance(top).ctl = top.ctl /\ Advance(top).start = top.start
        BY <2>1, EpilogueGood
      <3>2. Advance(top).children = top.children
        BY <1>1 DEF Advance, Frame
      <3>3. Good([Advance(top) EXCEPT !.children = delete_children(@, ctx.size)])
        BY <3>1, <3>2, <2>1, CtxFacts, TruncateGood
      <3>4. /\ Advance(DropChildren(top))
                 = [Advance(top) EXCEPT !.children = delete_children(@, ctx.size)]
            /\ Advance(DropChildren(top)).ctl = top.ctl
            /\ Advance(DropChildren(top)).start = top.start
        BY <1>1 DEF Advance, DropChildren, Frame
      <3> QED
        BY <3>3, <3>4, <2>1
    <2>3. Finish(Advance(DropChildren(top)), res') /\ res' = res /\ errors' = errors
      BY <1>16 DEF HideEnd, Finish
    <2> QED
      BY <1>2, <2>2, <2>3, ErrorsType, FinishInv
  <1>17. ASSUME AmpEnd PROVE BasicInv'
    <2>1. top.ctl # <<>>
      BY <1>17 DEF AmpEnd, Leaving
    <2>2. Finish(GoBackBoth(top), res') /\ res' = res /\ errors' = errors
      BY <1>17 DEF AmpEnd, Finish
    <2> QED
      BY <1>2, <2>1, <2>2, EpilogueGood, ErrorsType, FinishInv
  <1> QED
    BY <1>3, <1>6, <1>7, <1>8, <1>9, <1>10, <1>11, <1>12, <1>13, <1>14, <1>15,
       <1>16, <1>17 DEF Macro

-----------------------------------------------------------------------------
(* The record is_memoized finds is one of the array's, the first that fits. *)
LEMMA MemoRecordFound ==
  ASSUME NEW type \in Rule, NEW start \in Nat, TypeOK, is_memoized(type, start)
  PROVE  \E i \in 1..Len(memo[type]) : /\ MemoRecord(type, start) = memo[type][i]
                                       /\ memo[type][i].start = start
                                       /\ \A j \in 1..(i - 1) : memo[type][j].start # start
  <1> DEFINE M == memo[type]
             Found == {i \in 1..Len(M) : M[i].start = start}
  <1>1. M \in Seq(Record) /\ Len(M) \in Nat
    BY DEF TypeOK
  <1>2. PICK n \in 1..Len(M) : M[n].start = start
    BY DEF is_memoized
  <1>3. Found \in SUBSET Nat /\ n \in Found
    BY <1>1, <1>2
  <1>4. PICK m \in Found : \A k \in Found : m <= k
    <2> HIDE DEF Found
    <2> DEFINE Below == {ss \in Nat \X Nat : ss[1] < ss[2]}
    <2>1. IsWellFoundedOn(Below, Nat)
      BY NatLessThanWellFounded DEF OpToRel
    <2>2. \E m \in Found : \A k \in Found : <<k, m>> \notin Below
      <3> HIDE DEF Below
      <3> QED
        BY <1>3, <2>1, WFMin
    <2>3. ASSUME NEW k \in Nat, NEW m \in Nat, k < m PROVE <<k, m>> \in Below
      <3>1. <<k, m>> \in Nat \X Nat /\ <<k, m>>[1] = k /\ <<k, m>>[2] = m
        OBVIOUS
      <3> QED
        BY <2>3, <3>1
    <2>4. ASSUME NEW k \in Found, NEW m \in Found, <<k, m>> \notin Below PROVE m <= k
      <3>1. k \in Nat /\ m \in Nat
        BY <1>3
      <3> HIDE DEF Below
      <3>2. ~(k < m)
        BY <2>3, <2>4, <3>1
      <3> QED
        BY <3>1, <3>2
    <2> HIDE DEF Below
    <2> QED
      BY <2>2, <2>4
  <1>5. ASSUME NEW j \in 1..(m - 1) PROVE M[j].start # start
    <2>1. j \in 1..Len(M) /\ j < m
      BY <1>1, <1>4
    <2> QED
      BY <1>4, <2>1
  <1>6. /\ m \in 1..Len(M) /\ M[m].start = start
        /\ \A j \in 1..(m - 1) : M[j].start # start
    BY <1>4, <1>5
  <1> DEFINE P(i) == M[i].start = start /\ \A j \in 1..(i - 1) : M[j].start # start
             c == CHOOSE i \in 1..Len(M) : P(i)
  <1>7. c \in 1..Len(M) /\ P(c)
    <2>1. \E i \in 1..Len(M) : P(i)
      BY <1>6
    <2> HIDE DEF P
    <2> QED
      BY <2>1
  <1>8. MemoRecord(type, start) = M[c]
    BY DEF MemoRecord
  <1> HIDE DEF c
  <1> QED
    BY <1>7, <1>8

-----------------------------------------------------------------------------
(* The terminals: a match cannot reach beyond the text, for no character   *)
(* of an expression is WEOF.                                               *)
LEMMA MatchInv ==
  ASSUME BasicInv, Running, Match
  PROVE  BasicInv'
  <1>1. /\ Good(top) /\ top \in Frame
        /\ top.curStart \in Nat /\ top.start \in Nat /\ top.ctl \in Seq(Ctx)
        /\ top.start <= top.curStart /\ top.curStart <= Len(input)
        /\ \A i \in 1..Len(top.ctl) : top.ctl[i].pos <= top.curStart
    <2>1. Good(top) /\ top \in Frame
      BY TopGood DEF Good
    <2> QED
      BY <2>1 DEF Good, Frame, PositionsOf
  <1>2. input \in Seq(Char) /\ Len(input) \in Nat
    BY InputAssumption DEF BasicInv, TypeOK
  <1>3. ASSUME NEW m \in BOOLEAN, NEW n \in Nat, Terminal(m, n), pc = "enter",
               m => top.curStart + n <= Len(input)
        PROVE  BasicInv'
    <2> DEFINE f == IF m THEN [top EXCEPT !.curStart = @ + n, !.curEnd = top.curStart + n]
                         ELSE top
    <2>1. Good(f) /\ f.start = top.start
      <3>1. CASE m
        <4>1. /\ top.curStart + n \in Nat /\ top.start <= top.curStart + n
              /\ top.curStart + n <= top.curStart + n /\ top.curStart + n <= Len(input)
          BY <1>1, <1>2, <1>3, <3>1
        <4>2. \A i \in 1..Len(top.ctl) : top.ctl[i].pos <= top.curStart + n
          <5>1. ASSUME NEW i \in 1..Len(top.ctl) PROVE top.ctl[i].pos <= top.curStart + n
            <6>1. top.ctl[i] \in Ctx
              BY <1>1
            <6>2. top.ctl[i].pos \in Nat /\ top.ctl[i].pos <= top.curStart
              BY <1>1, <6>1 DEF Ctx
            <6> QED
              BY <1>1, <6>2
          <5> QED
            BY <5>1
        <4>3. Good([top EXCEPT !.curStart = top.curStart + n, !.curEnd = top.curStart + n])
          BY <1>1, <4>1, <4>2, MoveGood
        <4> QED
          BY <1>1, <3>1, <4>3 DEF Frame
      <3>2. CASE ~m
        BY <1>1, <3>2
      <3> QED
        BY <3>1, <3>2
    <2>2. stack' = WithTop(f)
      <3>1. CASE m
        BY <1>3, <3>1 DEF Terminal
      <3>2. CASE ~m
        <4>1. stack' = stack
          BY <1>3, <3>2 DEF Terminal
        <4>2. WithTop(top) = stack
          <5>1. stack \in Seq(Frame)
            BY DEF BasicInv, TypeOK
          <5> QED
            BY <5>1 DEF WithTop, top
        <4> QED
          BY <3>2, <4>1, <4>2
      <3> QED
        BY <3>1, <3>2
    <2>3. /\ pc' = "leave" /\ exp' = exp /\ res' \in BOOLEAN /\ errors' = errors
          /\ UNCHANGED <<grammar, input, memo, root, status>>
      BY <1>3 DEF Terminal, Leave
    <2> HIDE DEF f
    <2> QED
      BY <1>3, <2>1, <2>2, <2>3, ErrorsType, TopReplaced
  <1>4. ASSUME NEW pos \in Nat, CharAt(pos) # WEOF
        PROVE  pos + 1 <= Len(input)
    BY <1>2, <1>4 DEF CharAt
  <1>5. ASSUME MatchString PROVE BasicInv'
    <2> DEFINE m == \A i \in 1..Len(exp.str) : CharAt(top.curStart + i - 1) = exp.str[i]
    <2>1. exp.str \in Seq(Char) /\ Len(exp.str) \in Nat /\ pc = "enter"
      BY <1>5, ErrorsType, Operands DEF MatchString, Entering
    <2>2. ASSUME m PROVE top.curStart + Len(exp.str) <= Len(input)
      <3>1. CASE Len(exp.str) = 0
        BY <1>1, <1>2, <3>1
      <3>2. CASE Len(exp.str) # 0
        <4>1. Len(exp.str) \in 1..Len(exp.str) /\ exp.str[Len(exp.str)] \in Char
          BY <2>1, <3>2
        <4>2. CharAt(top.curStart + Len(exp.str) - 1) # WEOF
          BY <2>2, <4>1, InputAssumption
        <4>3. top.curStart + Len(exp.str) - 1 \in Nat
          BY <1>1, <4>1
        <4> QED
          BY <1>1, <1>2, <1>4, <2>1, <4>2, <4>3
      <3> QED
        BY <3>1, <3>2
    <2>3. Terminal(m, Len(exp.str)) /\ m \in BOOLEAN
      BY <1>5 DEF MatchString
    <2> HIDE DEF m
    <2> QED
      BY <1>3, <2>1, <2>2, <2>3
  <1>6. ASSUME MatchClass PROVE BasicInv'
    <2> DEFINE m == CharAt(top.curStart) \in exp.class
    <2>1. exp.class \subseteq Char /\ pc = "enter"
      BY <1>6, ErrorsType, Operands DEF MatchClass, Entering
    <2>2. ASSUME m PROVE top.curStart + 1 <= Len(input)
      BY <1>1, <1>4, <2>1, <2>2, InputAssumption
    <2>3. Terminal(m, 1) /\ m \in BOOLEAN
      BY <1>6 DEF MatchClass
    <2> HIDE DEF m
    <2> QED
      BY <1>3, <2>1, <2>2, <2>3
  <1>7. ASSUME MatchDot PROVE BasicInv'
    <2> DEFINE m == CharAt(top.curStart) # WEOF
    <2>1. ASSUME m PROVE top.curStart + 1 <= Len(input)
      BY <1>1, <1>4, <2>1
    <2>2. Terminal(m, 1) /\ m \in BOOLEAN /\ pc = "enter"
      BY <1>7 DEF MatchDot, Entering
    <2> HIDE DEF m
    <2> QED
      BY <1>3, <2>1, <2>2
  <1> QED
    BY <1>5, <1>6, <1>7 DEF Match

-----------------------------------------------------------------------------
(* Calls and returns. *)
LEMMA CallMemoizedInv ==
  ASSUME BasicInv, Running, CallMemoized
  PROVE  BasicInv'
  <1> DEFINE func == exp.func
             rec == MemoRecord(func, top.curStart)
  <1>1. /\ Good(top) /\ top \in Frame
        /\ top.curStart \in Nat /\ top.start \in Nat /\ top.ctl \in Seq(Ctx)
        /\ top.start <= top.curStart
        /\ \A i \in 1..Len(top.ctl) : top.ctl[i].pos <= top.curStart
    <2>1. Good(top) /\ top \in Frame
      BY TopGood DEF Good
    <2> QED
      BY <2>1 DEF Good, Frame, PositionsOf
  <1>2. /\ func \in Rule /\ pc = "enter" /\ is_memoized(func, top.curStart)
        /\ TypeOK /\ MemoInText
    BY ErrorsType, Operands DEF CallMemoized, Entering, BasicInv
  <1> HIDE DEF func
  <1>3. PICK i \in 1..Len(memo[func]) : /\ rec = memo[func][i]
                                        /\ memo[func][i].start = top.curStart
    BY <1>1, <1>2, MemoRecordFound
  <1>4. rec \in Record /\ rec.start = top.curStart
    <2>1. memo[func] \in Seq(Record)
      BY <1>2 DEF TypeOK
    <2> QED
      BY <1>3, <2>1
  <1>5. rec.start <= rec.end /\ rec.end <= Len(input)
    BY <1>2, <1>3 DEF MemoInText
  <1> DEFINE g == AddChild(top, Node(func, rec.start, rec.end))
             h == [top EXCEPT !.curEnd = rec.end]
             f == IF rec.ok THEN g ELSE h
  <1>6. stack' = WithTop(f) /\ res' = rec.ok
    BY <1>2 DEF CallMemoized, func
  <1> HIDE DEF rec
  <1>7. rec.start \in Nat /\ rec.end \in Nat /\ rec.ok \in BOOLEAN
    BY <1>4 DEF Record
  <1>8. Good(g) /\ g.start = top.start
    <2>1. Node(func, rec.start, rec.end) \in Span /\ Node(func, rec.start, rec.end).end = rec.end
      BY <1>2, <1>7 DEF Node, Span
    <2>2. Good(g)
      BY <1>1, <1>4, <1>5, <2>1, AddChildGood
    <2> QED
      BY <1>1, <2>2 DEF AddChild, Frame
  <1>9. Good(h) /\ h.start = top.start
    <2>1. Good([top EXCEPT !.curStart = top.curStart, !.curEnd = rec.end])
      BY <1>1, <1>4, <1>5, <1>7, MoveGood
    <2> QED
      BY <1>1, <2>1 DEF Frame
  <1>10. Good(f) /\ f.start = top.start
    BY <1>8, <1>9
  <1>11. /\ pc' = "leave" /\ exp' = exp /\ errors' = errors
         /\ UNCHANGED <<grammar, input, memo, root, status>>
    BY DEF CallMemoized, Leave
  <1> HIDE DEF f
  <1> QED
    BY <1>2, <1>6, <1>7, <1>10, <1>11, ErrorsType, TopReplaced

LEMMA CallFunctionInv ==
  ASSUME BasicInv, Running, CallFunction
  PROVE  BasicInv'
  <1>1. /\ Good(top) /\ top.curStart \in Nat /\ top.curStart <= Len(input)
        /\ Len(stack) \in Nat \ {0} /\ top = stack[Len(stack)]
    <2>1. Good(top) /\ top \in Frame
      BY TopGood DEF Good
    <2>2. top.curStart \in Nat /\ top.curEnd \in Nat /\ Len(input) \in Nat
      BY <2>1, InputAssumption DEF Frame, BasicInv, TypeOK
    <2> QED
      BY <2>1, <2>2, TopGood DEF Good, PositionsOf, top
  <1>2. exp.func \in Rule /\ pc = "enter"
    BY ErrorsType, Operands DEF CallFunction, Entering
  <1>3. grammar.body[exp.func] \in Exp
    BY <1>2, GrammarAssumption DEF BasicInv, TypeOK
  <1> DEFINE f == Activation(exp.func, top.curStart)
  <1>4. Good(f) /\ f \in Frame /\ f.start = top.curStart
    <2>1. Good(f)
      BY <1>1, <1>2, ActivationGood
    <2> QED
      BY <2>1 DEF Good, Activation
  <1>5. /\ stack' = Append(stack, f) /\ pc' = "enter" /\ exp' = grammar.body[exp.func]
        /\ res' = FALSE /\ UNCHANGED <<grammar, input, errors, memo, root, status>>
    BY DEF CallFunction, Enter
  <1> HIDE DEF f
  <1>6. /\ stack \in Seq(Frame) /\ \A k \in 1..Len(stack) : Good(stack[k])
        /\ \A k \in 1..(Len(stack) - 1) : stack[k + 1].start = stack[k].curStart
    BY DEF BasicInv, TypeOK, Linked
  <1>7. /\ stack' \in Seq(Frame) /\ Len(stack') = Len(stack) + 1 /\ stack' # <<>>
        /\ stack'[Len(stack) + 1] = f
        /\ \A k \in 1..Len(stack) : stack'[k] = stack[k]
    BY <1>4, <1>5, <1>6, AddLast
  <1>8. (\A k \in 1..Len(stack) : Good(stack[k]))'
    <2>1. \A k \in 1..Len(stack') : Good(stack'[k])
      BY <1>1, <1>4, <1>6, <1>7
    <2> QED
      BY <1>5, <2>1 DEF Good, Balanced, PositionsOf
  <1>9. Linked'
    <2>1. ASSUME NEW k \in 1..(Len(stack') - 1)
          PROVE  stack'[k + 1].start = stack'[k].curStart
      <3>1. CASE k = Len(stack)
        BY <1>1, <1>4, <1>7, <3>1
      <3>2. CASE k # Len(stack)
        <4>1. k \in 1..(Len(stack) - 1) /\ k \in 1..Len(stack) /\ k + 1 \in 1..Len(stack)
          BY <1>1, <1>7, <3>2
        <4> QED
          BY <1>6, <1>7, <4>1
      <3> QED
        BY <3>1, <3>2
    <2> QED
      BY <2>1 DEF Linked
  <1>10. TypeOK'
    BY <1>3, <1>5, <1>7 DEF BasicInv, TypeOK, Running
  <1>11. MemoInText' /\ ErrorsOnlyOnFailure'
    BY <1>2, <1>5 DEF BasicInv, MemoInText, ErrorsOnlyOnFailure
  <1> QED
    BY <1>8, <1>9, <1>10, <1>11 DEF BasicInv

LEMMA ExhaustInv ==
  ASSUME BasicInv, Running, Exhaust
  PROVE  BasicInv'
  BY DEF BasicInv, Exhaust, TypeOK, Running, Good, Balanced, PositionsOf, Linked,
         MemoInText, ErrorsOnlyOnFailure

LEMMA Returned ==
  ASSUME BasicInv, Running, Len(stack) > 1, input' = input,
         NEW f, Good(f), f.start = caller.start, stack' = ReturnTo(f)
  PROVE  /\ stack' \in Seq(Frame) /\ stack' # <<>>
         /\ (\A k \in 1..Len(stack) : Good(stack[k]))'
         /\ Linked'
  <1>1. /\ stack \in Seq(Frame) /\ Len(stack) \in Nat
        /\ \A k \in 1..Len(stack) : Good(stack[k])
        /\ \A k \in 1..(Len(stack) - 1) : stack[k + 1].start = stack[k].curStart
    BY DEF BasicInv, TypeOK, Linked
  <1> DEFINE below == SubSeq(stack, 1, Len(stack) - 1)
             n     == Len(stack) - 1
  <1>2. /\ n \in Nat \ {0} /\ n <= Len(stack)
        /\ below \in Seq(Frame) /\ Len(below) = n /\ \A k \in 1..n : below[k] = stack[k]
    BY <1>1, Prefix
  <1>3. f \in Frame /\ below # <<>>
    BY <1>2 DEF Good
  <1>4. stack' = [below EXCEPT ![Len(below)] = f]
    BY <1>2 DEF ReturnTo
  <1> HIDE DEF below
  <1>5. /\ stack' \in Seq(Frame) /\ Len(stack') = n /\ stack' # <<>> /\ stack'[n] = f
        /\ \A k \in 1..n : k # n => stack'[k] = stack[k]
    BY <1>2, <1>3, <1>4, ReplaceLast
  <1>6. (\A k \in 1..Len(stack) : Good(stack[k]))'
    <2>1. ASSUME NEW k \in 1..Len(stack') PROVE Good(stack'[k])
      <3>1. k \in 1..n /\ k \in 1..Len(stack)
        BY <1>2, <1>5
      <3> QED
        BY <1>1, <1>5, <3>1
    <2> QED
      BY <2>1 DEF Good, Balanced, PositionsOf
  <1>7. Linked'
    <2>1. ASSUME NEW k \in 1..(n - 1)
          PROVE  stack'[k + 1].start = stack'[k].curStart
      <3>1. k \in 1..n /\ k + 1 \in 1..n /\ k # n /\ k \in 1..(Len(stack) - 1)
        BY <1>2
      <3>2. stack'[k + 1].start = stack[k + 1].start
        BY <1>5, <3>1 DEF caller
      <3> QED
        BY <1>1, <1>5, <3>1, <3>2
    <2> QED
      BY <1>5, <2>1 DEF Linked
  <1> QED
    BY <1>5, <1>6, <1>7

LEMMA Memoized ==
  ASSUME BasicInv, input' = input, NEW type \in Rule, NEW rec \in Record,
         memo' = [memo EXCEPT ![type] = Append(@, rec)],
         rec.start <= rec.end, rec.end <= Len(input)
  PROVE  memo' \in [Rule -> Seq(Record)] /\ MemoInText'
  <1>1. memo \in [Rule -> Seq(Record)] /\ memo[type] \in Seq(Record)
    BY DEF BasicInv, TypeOK
  <1> DEFINE c == Append(memo[type], rec)
  <1>2. /\ c \in Seq(Record) /\ Len(c) = Len(memo[type]) + 1 /\ c[Len(memo[type]) + 1] = rec
        /\ \A i \in 1..Len(memo[type]) : c[i] = memo[type][i]
    BY <1>1, AddLast
  <1>3. memo' = [memo EXCEPT ![type] = c]
    OBVIOUS
  <1> HIDE DEF c
  <1>4. memo' \in [Rule -> Seq(Record)]
    BY <1>1, <1>2, <1>3
  <1>5. ASSUME NEW t \in Rule, NEW i \in 1..Len(memo'[t])
        PROVE  memo'[t][i].start <= memo'[t][i].end /\ memo'[t][i].end <= Len(input)
    <2>1. CASE t # type
      BY <1>1, <1>3, <2>1 DEF BasicInv, MemoInText
    <2>2. CASE t = type
      <3>1. memo'[t] = c
        BY <1>1, <1>3, <2>2
      <3>2. CASE i = Len(memo[type]) + 1
        BY <1>2, <3>1, <3>2
      <3>3. CASE i \in 1..Len(memo[type])
        BY <1>2, <3>1, <3>3 DEF BasicInv, MemoInText
      <3> QED
        BY <1>1, <1>2, <3>1, <3>2, <3>3
    <2> QED
      BY <2>1, <2>2
  <1>6. MemoInText'
    BY <1>5 DEF MemoInText
  <1> QED
    BY <1>4, <1>6

(* What a parsing function and its caller know of each other on return. *)
LEMMA ReturnFacts ==
  ASSUME BasicInv, Running
  PROVE  /\ top.rule \in Rule /\ top.start \in Nat /\ top.curEnd \in Nat
         /\ top.children \in Seq(Span)
         /\ top.start <= top.curEnd /\ top.curEnd <= Len(input)
         /\ Len(stack) > 1 => Good(caller) /\ caller.curStart = top.start
  <1>1. Good(top) /\ top \in Frame /\ Len(stack) \in Nat \ {0}
    BY TopGood DEF Good
  <1>2. /\ top.rule \in Rule /\ top.start \in Nat /\ top.curEnd \in Nat
        /\ top.curStart \in Nat /\ top.children \in Seq(Span)
    BY <1>1 DEF Frame
  <1>3. top.start <= top.curEnd /\ top.curEnd <= Len(input)
    BY <1>1, <1>2 DEF Good, PositionsOf
  <1>4. ASSUME Len(stack) > 1 PROVE Good(caller) /\ caller.curStart = top.start
    <2>1. Len(stack) - 1 \in 1..Len(stack) /\ Len(stack) - 1 \in 1..(Len(stack) - 1)
          /\ (Len(stack) - 1) + 1 = Len(stack)
      BY <1>1, <1>4
    <2> QED
      BY <2>1 DEF BasicInv, Linked, caller, top
  <1> QED
    BY <1>2, <1>3, <1>4

LEMMA SucceedInv ==
  ASSUME BasicInv, Running, Succeed
  PROVE  BasicInv'
  <1> DEFINE node == Node(top.rule, top.start, top.curEnd)
             rec  == [start |-> top.start, end |-> top.curEnd, ok |-> TRUE,
                      children |-> top.children]
  <1>1. /\ res /\ pc' = "leave" /\ exp' = exp
        /\ memo' = [memo EXCEPT ![top.rule] = Append(@, rec)]
        /\ UNCHANGED <<grammar, input, res, errors>>
    BY DEF Succeed, Leave, memoize
  <1>2. rec \in Record /\ rec.start = top.start /\ rec.end = top.curEnd
    BY ReturnFacts DEF Record
  <1> HIDE DEF rec
  <1>3. memo' \in [Rule -> Seq(Record)] /\ MemoInText'
    BY <1>1, <1>2, ReturnFacts, Memoized
  <1>4. node \in Span /\ node.end = top.curEnd
    BY ReturnFacts DEF Node, Span
  <1>5. ErrorsOnlyOnFailure'
    BY <1>1 DEF BasicInv, ErrorsOnlyOnFailure
  <1>6. CASE Len(stack) > 1
    <2> DEFINE f == AddChild(caller, node)
    <2>1. stack' = ReturnTo(f) /\ UNCHANGED <<root, status>>
      BY <1>6 DEF Succeed
    <2>2. Good(f) /\ f.start = caller.start
      <3>1. Good(f)
        BY <1>4, <1>6, ReturnFacts, AddChildGood
      <3>2. caller \in Frame
        BY <1>6, ReturnFacts DEF Good
      <3> QED
        BY <3>1, <3>2 DEF AddChild, Frame
    <2> HIDE DEF f
    <2>3. /\ stack' \in Seq(Frame) /\ stack' # <<>>
          /\ (\A k \in 1..Len(stack) : Good(stack[k]))' /\ Linked'
      BY <1>1, <1>6, <2>1, <2>2, Returned
    <2>4. TypeOK'
      BY <1>1, <1>3, <2>1, <2>3 DEF BasicInv, TypeOK, Running
    <2> QED
      BY <1>3, <1>5, <2>3, <2>4 DEF BasicInv
  <1>7. CASE ~(Len(stack) > 1)
    <2>1. stack' = <<>> /\ root' = node /\ status' = "done"
      BY <1>7 DEF Succeed
    <2> HIDE DEF node
    <2>2. TypeOK'
      BY <1>1, <1>3, <1>4, <2>1 DEF BasicInv, TypeOK, Running
    <2> QED
      BY <1>3, <1>5, <2>1, <2>2 DEF BasicInv, Linked
  <1> QED
    BY <1>6, <1>7

LEMMA FailInv ==
  ASSUME BasicInv, Running, Fail
  PROVE  BasicInv'
  <1> DEFINE rec == [start |-> top.start, end |-> top.start, ok |-> FALSE,
                     children |-> <<>>]
  <1>1. /\ ~res /\ pc' = "leave" /\ exp' = exp
        /\ memo' = [memo EXCEPT ![top.rule] = Append(@, rec)]
        /\ errors' = add_error(errors, top.start, top.rule)
        /\ UNCHANGED <<grammar, input, res, root>>
    BY DEF Fail, Returning, Leave, memoize
  <1>2. rec \in Record /\ rec.start = top.start /\ rec.end = top.start
    BY ReturnFacts DEF Record
  <1> HIDE DEF rec
  <1>3. memo' \in [Rule -> Seq(Record)] /\ MemoInText'
    <2>1. rec.start <= rec.end /\ rec.end <= Len(input)
      <3>1. Len(input) \in Nat
        BY InputAssumption DEF BasicInv, TypeOK
      <3> QED
        BY <1>2, <3>1, ReturnFacts
    <2>2. top.rule \in Rule
      BY ReturnFacts
    <2> QED
      BY <1>1, <1>2, <2>1, <2>2, Memoized
  <1>4. errors' \in ErrorList /\ errors'.num <= Len(errors'.cells)
    BY <1>1, ErrorsType, ReturnFacts, AddErrorType
  <1>5. ErrorsOnlyOnFailure'
    BY <1>1 DEF ErrorsOnlyOnFailure
  <1>6. CASE Len(stack) > 1
    <2>1. stack' = ReturnTo(caller) /\ UNCHANGED status
      BY <1>6 DEF Fail
    <2>2. /\ stack' \in Seq(Frame) /\ stack' # <<>>
          /\ (\A k \in 1..Len(stack) : Good(stack[k]))' /\ Linked'
      BY <1>1, <1>6, <2>1, ReturnFacts, Returned
    <2>3. TypeOK'
      BY <1>1, <1>3, <1>4, <2>1, <2>2 DEF BasicInv, TypeOK, Running, ErrorList
    <2> QED
      BY <1>3, <1>5, <2>2, <2>3 DEF BasicInv
  <1>7. CASE ~(Len(stack) > 1)
    <2>1. stack' = <<>> /\ status' = "done"
      BY <1>7 DEF Fail
    <2>2. TypeOK'
      BY <1>1, <1>3, <1>4, <2>1 DEF BasicInv, TypeOK, Running, ErrorList
    <2> QED
      BY <1>3, <1>5, <2>1, <2>2 DEF BasicInv, Linked
  <1> QED
    BY <1>6, <1>7

-----------------------------------------------------------------------------
LEMMA BasicInit == Init => BasicInv
  <1> SUFFICES ASSUME Init PROVE BasicInv
    OBVIOUS
  <1>1. /\ grammar \in [start : Rule, body : [Rule -> Exp]] /\ grammar \in Grammars
        /\ input \in Seq(Char) /\ input \in Inputs /\ Len(input) \in Nat
    BY GrammarAssumption, InputAssumption DEF Init
  <1> DEFINE f == Activation(grammar.start, 0)
  <1>2. Good(f) /\ f \in Frame
    BY <1>1, ActivationGood DEF Good
  <1>3. stack = <<f>>
    BY DEF Init
  <1> HIDE DEF f
  <1>4. stack \in Seq(Frame) /\ stack # <<>> /\ Len(stack) = 1 /\ stack[1] = f
    BY <1>2, <1>3
  <1>5. NoErrors \in ErrorList /\ NoErrors.num = 0 /\ NoErrors.num <= Len(NoErrors.cells)
    BY DEF NoErrors, ErrorList
  <1>6. TypeOK
    <2>1. exp \in Exp
      BY <1>1 DEF Init
    <2>2. memo \in [Rule -> Seq(Record)]
      BY DEF Init
    <2>3. errors \in [cells : Seq(Cell), num : Nat] /\ errors.num <= Len(errors.cells)
      BY <1>5 DEF Init, ErrorList
    <2> QED
      BY <1>1, <1>4, <2>1, <2>2, <2>3 DEF Init, TypeOK
  <1>7. MemoInText
    BY DEF Init, MemoInText
  <1> QED
    BY <1>2, <1>4, <1>5, <1>6, <1>7
    DEF BasicInv, Init, Linked, ErrorsOnlyOnFailure

LEMMA BasicNext == BasicInv /\ [Next]_vars => BasicInv'
  <1> SUFFICES ASSUME BasicInv, [Next]_vars PROVE BasicInv'
    OBVIOUS
  <1>1. ASSUME UNCHANGED vars PROVE BasicInv'
    BY <1>1 DEF vars, BasicInv, TypeOK, Running, Good, Balanced, PositionsOf, Linked,
                MemoInText, ErrorsOnlyOnFailure
  <1>2. ASSUME Macro PROVE BasicInv'
    <2>1. Running
      BY <1>2 DEF Macro, EnterMacro, SeqRight, SeqEnd, DisjRight, DisjEnd, StarAgain,
                  StarEnd, PlusAgain, PlusEnd, QuesEnd, BangEnd, HideEnd, AmpEnd, Leaving
    <2> QED
      BY <1>2, <2>1, MacroInv
  <1>3. ASSUME Match PROVE BasicInv'
    <2>1. Running
      BY <1>3 DEF Match, MatchString, MatchClass, MatchDot, Entering
    <2> QED
      BY <1>3, <2>1, MatchInv
  <1>4. ASSUME Function PROVE BasicInv'
    <2>1. Running
      BY <1>4 DEF Function, CallMemoized, CallFunction, Exhaust, Succeed, Fail, Entering,
                  Returning
    <2> QED
      BY <1>4, <2>1, CallMemoizedInv, CallFunctionInv, ExhaustInv, SucceedInv, FailInv
      DEF Function
  <1> QED
    BY <1>1, <1>2, <1>3, <1>4 DEF Next, Step, Terminated

THEOREM BasicCorrect == Spec => []BasicInv
  BY BasicInit, BasicNext, PTL DEF Spec

(* Every variable of the parser has its type, always: what the macros do   *)
(* to an activation record, and PEG_PARSE to the memo and error arrays,    *)
(* leaves each of them well formed, and while the parse runs there is a    *)
(* function to run.                                                        *)
THEOREM TypeCorrect == Spec => []TypeOK
  <1>1. BasicInv => TypeOK
    BY DEF BasicInv
  <1> QED
    BY <1>1, BasicCorrect, PTL

(* Whatever the grammar and the text, the cursor of every parsing function *)
(* stays between where its macros began and cur_end_pos, inside the text.  *)
THEOREM PositionsCorrect == Spec => []PositionsOrdered
  <1>1. BasicInv => PositionsOrdered
    BY DEF BasicInv, Good, PositionsOrdered
  <1> QED
    BY <1>1, BasicCorrect, PTL

(* Whatever the grammar and the text, no error record survives a success:  *)
(* a parse that succeeds hands main an empty list.                         *)
THEOREM ErrorsOnlyOnFailureCorrect == Spec => []ErrorsOnlyOnFailure
  <1>1. BasicInv => ErrorsOnlyOnFailure
    BY DEF BasicInv
  <1> QED
    BY <1>1, BasicCorrect, PTL

-----------------------------------------------------------------------------
(***************************************************************************)
(* What the parser leaves in child_stack, the memo map and the error list. *)
(***************************************************************************)

(* The macros that may run an operand with more in child_stack than they   *)
(* found there.  The others run theirs at the size they have saved.        *)
Repeating == {"SEQ", "STAR", "PLUS"}

LastCtx(f) == f.ctl[Len(f.ctl)]

(* The sizes saved by nested macros agree where nothing can come between.  *)
Chained(f) ==
  /\ f.ctl # <<>> => f.ctl[1].size = 0
  /\ \A i \in 1..(Len(f.ctl) - 1) :
       f.ctl[i].exp.op \notin Repeating => f.ctl[i + 1].size = f.ctl[i].size

(* child_stack is as it was when the expression at hand was entered. *)
Settled(f) ==
  IF f.ctl = <<>> THEN Len(f.children) = 0
  ELSE LastCtx(f).exp.op \notin Repeating => Len(f.children) = LastCtx(f).size

(* OnRecord and AllOnRecord of a memo map m. *)
Has(m, node) ==
  \E i \in 1..Len(m[node.type]) :
    /\ m[node.type][i].ok
    /\ m[node.type][i].start = node.begin
    /\ m[node.type][i].end = node.end

AllHave(m, children) == \A i \in 1..Len(children) : Has(m, children[i])

RecordsHave(m) == \A type \in Rule : \A i \in 1..Len(m[type]) : AllHave(m, m[type][i].children)

FramesInv == \A k \in 1..Len(stack) : Chained(stack[k]) /\ AllHave(memo, stack[k].children)

(* A function that waits for a T has its child_stack as it was before; so  *)
(* has the running one before an expression and after one that failed.     *)
SettledInv ==
  /\ \A k \in 1..(Len(stack) - 1) : Settled(stack[k])
  /\ Running /\ (pc = "enter" \/ ~res) => Settled(top)

RecordsInv == RecordsHave(memo) /\ (root # NoNode => Has(memo, root))

(* No error is about a place before the running function's. *)
ErrorsInv ==
  /\ ErrorsOutward /\ ErrorsLive
  /\ Running => \A i \in 1..errors.num : top.start <= errors.cells[i].pos

TreeInv == FramesInv /\ SettledInv /\ RecordsInv /\ ErrorsInv

-----------------------------------------------------------------------------
(* A macro is entered at the size it saves. *)
LEMMA PushTidy ==
  ASSUME NEW f \in Frame, Chained(f), Settled(f), NEW c \in Ctx, c.size = Len(f.children)
  PROVE  LET g == [f EXCEPT !.ctl = Append(@, c)]
         IN  g \in Frame /\ Chained(g) /\ Settled(g) /\ g.children = f.children /\ g.start = f.start
  <1> DEFINE d == Append(f.ctl, c)
             n == Len(f.ctl)
             g == [f EXCEPT !.ctl = d]
  <1>1. f.ctl \in Seq(Ctx) /\ n \in Nat
    BY DEF Frame
  <1>2. /\ d \in Seq(Ctx) /\ Len(d) = n + 1 /\ d # <<>> /\ d[n + 1] = c
        /\ \A i \in 1..n : d[i] = f.ctl[i]
    BY <1>1, AddLast
  <1> HIDE DEF d
  <1>3. g \in Frame /\ g.ctl = d /\ g.children = f.children /\ g.start = f.start
    BY <1>2 DEF Frame
  <1> HIDE DEF g
  <1>4. Settled(g)
    BY <1>1, <1>2, <1>3 DEF Settled, LastCtx
  <1>5. CASE n = 0
    <2>1. f.ctl = <<>>
      BY <1>1, <1>5
    <2>2. c.size = 0
      BY <2>1 DEF Settled
    <2> QED
      BY <1>2, <1>3, <1>4, <1>5, <2>2 DEF Chained, g, d
  <1>6. CASE n # 0
    <2>1. f.ctl # <<>> /\ 1 \in 1..n
      BY <1>1, <1>6
    <2>2. d[1].size = 0
      BY <1>2, <2>1 DEF Chained
    <2>3. ASSUME NEW i \in 1..n, d[i].exp.op \notin Repeating
          PROVE  d[i + 1].size = d[i].size
      <3>1. CASE i = n
        <4>1. LastCtx(f) = d[i]
          BY <1>2, <3>1 DEF LastCtx
        <4> QED
          BY <1>2, <2>1, <2>3, <3>1, <4>1 DEF Settled
      <3>2. CASE i # n
        <4>1. i \in 1..(n - 1) /\ i + 1 \in 1..n
          BY <1>1, <3>2
        <4> QED
          BY <1>2, <2>3, <4>1 DEF Chained
      <3> QED
        BY <3>1, <3>2
    <2>4. Len(g.ctl) - 1 = n
      BY <1>1, <1>2, <1>3
    <2>5. Chained(g)
      BY <1>3, <2>2, <2>3, <2>4 DEF Chained
    <2> QED
      BY <1>3, <1>4, <2>5 DEF g, d
  <1> QED
    BY <1>5, <1>6

(* A macro that is over with child_stack as it found it. *)
LEMMA PopTidy ==
  ASSUME NEW f \in Frame, f.ctl # <<>>, Chained(f)
  PROVE  LET g == PopCtl(f)
         IN  /\ g \in Frame /\ Chained(g) /\ g.children = f.children /\ g.start = f.start
             /\ Len(f.children) = LastCtx(f).size => Settled(g)
  <1> DEFINE d == SubSeq(f.ctl, 1, Len(f.ctl) - 1)
             n == Len(f.ctl) - 1
             g == [f EXCEPT !.ctl = d]
  <1>1. f.ctl \in Seq(Ctx) /\ Len(f.ctl) = n + 1 /\ n \in Nat
    BY DEF Frame
  <1>2. d \in Seq(Ctx) /\ Len(d) = n /\ \A i \in 1..n : d[i] = f.ctl[i]
    BY <1>1, RemoveLast
  <1>3. PopCtl(f) = g
    BY DEF PopCtl
  <1> HIDE DEF d
  <1>4. g \in Frame /\ g.ctl = d /\ g.children = f.children /\ g.start = f.start
    BY <1>2 DEF Frame
  <1> HIDE DEF g, n
  <1>5. Chained(g)
    <2>1. d # <<>> => d[1].size = 0
      <3>1. d # <<>> => 1 \in 1..n
        BY <1>1, <1>2
      <3> QED
        BY <1>2, <3>1 DEF Chained
    <2>2. ASSUME NEW i \in 1..(n - 1), d[i].exp.op \notin Repeating
          PROVE  d[i + 1].size = d[i].size
      <3>1. i \in 1..n /\ i + 1 \in 1..n /\ i \in 1..(Len(f.ctl) - 1)
        BY <1>1
      <3> QED
        BY <1>2, <2>2, <3>1 DEF Chained
    <2> QED
      BY <1>2, <1>4, <2>1, <2>2 DEF Chained
  <1>6. ASSUME Len(f.children) = LastCtx(f).size PROVE Settled(g)
    <2>1. CASE n = 0
      <3>1. d = <<>> /\ LastCtx(f) = f.ctl[1]
        BY <1>1, <1>2, <2>1 DEF LastCtx
      <3> QED
        BY <1>4, <1>6, <3>1 DEF Chained, Settled
    <2>2. CASE n # 0
      <3>1. /\ n \in 1..(Len(f.ctl) - 1) /\ n \in 1..n
            /\ LastCtx(f) = f.ctl[n + 1] /\ LastCtx(g) = f.ctl[n]
        BY <1>1, <1>2, <1>4, <2>2 DEF LastCtx
      <3>2. g.ctl # <<>>
        BY <1>1, <1>2, <1>4, <2>2
      <3> QED
        BY <1>4, <1>6, <3>1, <3>2 DEF Chained, Settled
    <2> QED
      BY <2>1, <2>2
  <1> QED
    BY <1>3, <1>4, <1>5, <1>6

(* `second' and `count' play no part. *)
LEMMA MarkTidy ==
  ASSUME NEW f \in Frame, f.ctl # <<>>, Chained(f),
         NEW e \in Ctx, e.size = LastCtx(f).size, e.exp = LastCtx(f).exp
  PROVE  LET g == [f EXCEPT !.ctl = [f.ctl EXCEPT ![Len(f.ctl)] = e]]
         IN  /\ g \in Frame /\ Chained(g) /\ g.children = f.children /\ g.start = f.start
             /\ Settled(f) => Settled(g)
  <1> DEFINE d == [f.ctl EXCEPT ![Len(f.ctl)] = e]
             g == [f EXCEPT !.ctl = d]
             n == Len(f.ctl)
  <1>1. f.ctl \in Seq(Ctx) /\ n \in Nat \ {0}
    BY DEF Frame
  <1>2. /\ d \in Seq(Ctx) /\ Len(d) = n /\ d # <<>> /\ d[n] = e
        /\ \A i \in 1..n : i # n => d[i] = f.ctl[i]
    BY <1>1, ReplaceLast
  <1> HIDE DEF d
  <1>3. g \in Frame /\ g.ctl = d /\ g.children = f.children /\ g.start = f.start
    BY <1>2 DEF Frame
  <1>4. \A i \in 1..n : d[i].size = f.ctl[i].size /\ d[i].exp = f.ctl[i].exp
    BY <1>2 DEF LastCtx
  <1> HIDE DEF g, n
  <1>5. Chained(g)
    <2>1. d[1].size = 0
      <3>1. 1 \in 1..n
        BY <1>1
      <3> QED
        BY <1>4, <3>1 DEF Chained
    <2>2. ASSUME NEW i \in 1..(n - 1), d[i].exp.op \notin Repeating
          PROVE  d[i + 1].size = d[i].size
      <3>1. i \in 1..n /\ i + 1 \in 1..n /\ n = Len(f.ctl)
        BY <1>1 DEF n
      <3> QED
        BY <1>4, <2>2, <3>1 DEF Chained
    <2> QED
      BY <1>2, <1>3, <2>1, <2>2 DEF Chained
  <1>6. Settled(f) => Settled(g)
    <2>1. LastCtx(g) = e
      BY <1>2, <1>3 DEF LastCtx
    <2> QED
      BY <1>2, <1>3, <2>1 DEF Settled
  <1> QED
    BY <1>3, <1>5, <1>6 DEF g, d

-----------------------------------------------------------------------------
(* Nodes on record stay on record. *)
WithRecord(m, type, rec) == [m EXCEPT ![type] = Append(@, rec)]

LEMMA StillHas ==
  ASSUME NEW m \in [Rule -> Seq(Record)], NEW type \in Rule, NEW rec \in Record,
         NEW w, w = WithRecord(m, type, rec)
  PROVE  /\ \A node \in Span : Has(m, node) => Has(w, node)
         /\ \A ch \in Seq(Span) : AllHave(m, ch) => AllHave(w, ch)
         /\ \A t \in Rule : \A i \in 1..Len(w[t]) :
              \/ t = type /\ w[t][i] = rec
              \/ i \in 1..Len(m[t]) /\ w[t][i] = m[t][i]
         /\ \A node \in Span : /\ rec.ok /\ node.type = type
                               /\ node.begin = rec.start /\ node.end = rec.end
                               => Has(w, node)
  <1> DEFINE c == Append(m[type], rec)
             n == Len(m[type])
  <1>1. m[type] \in Seq(Record) /\ n \in Nat
    OBVIOUS
  <1>2. c \in Seq(Record) /\ Len(c) = n + 1 /\ c[n + 1] = rec /\ \A i \in 1..n : c[i] = m[type][i]
    BY <1>1, AddLast
  <1>3. /\ w[type] = c
        /\ \A t \in Rule : t # type => w[t] = m[t]
    BY DEF WithRecord
  <1> HIDE DEF c
  <1>4. ASSUME NEW t \in Rule, NEW i \in 1..Len(m[t])
        PROVE  i \in 1..Len(w[t]) /\ w[t][i] = m[t][i]
    <2>1. CASE t = type
      BY <1>1, <1>2, <1>3, <2>1
    <2>2. CASE t # type
      BY <1>3, <2>2
    <2> QED
      BY <2>1, <2>2
  <1>5. ASSUME NEW node \in Span, Has(m, node) PROVE Has(w, node)
    <2>1. node.type \in Rule
      BY DEF Span
    <2>2. PICK i \in 1..Len(m[node.type]) : /\ m[node.type][i].ok
                                            /\ m[node.type][i].start = node.begin
                                            /\ m[node.type][i].end = node.end
      BY <1>5 DEF Has
    <2>3. i \in 1..Len(w[node.type]) /\ w[node.type][i] = m[node.type][i]
      BY <1>4, <2>1
    <2> QED
      BY <2>2, <2>3 DEF Has
  <1>6. ASSUME NEW ch \in Seq(Span), AllHave(m, ch) PROVE AllHave(w, ch)
    <2>1. ASSUME NEW i \in 1..Len(ch) PROVE Has(w, ch[i])
      <3>1. ch[i] \in Span
        OBVIOUS
      <3> QED
        BY <1>5, <1>6, <3>1 DEF AllHave
    <2> QED
      BY <2>1 DEF AllHave
  <1>7. ASSUME NEW t \in Rule, NEW i \in 1..Len(w[t])
        PROVE  \/ t = type /\ w[t][i] = rec
               \/ i \in 1..Len(m[t]) /\ w[t][i] = m[t][i]
    <2>1. CASE t = type
      <3>1. CASE i = n + 1
        BY <1>2, <1>3, <2>1, <3>1
      <3>2. CASE i \in 1..n
        BY <1>2, <1>3, <2>1, <3>2
      <3> QED
        BY <1>1, <1>2, <1>3, <2>1, <3>1, <3>2
    <2>2. CASE t # type
      BY <1>3, <2>2
    <2> QED
      BY <2>1, <2>2
  <1>8. ASSUME NEW node \in Span, rec.ok, node.type = type,
               node.begin = rec.start, node.end = rec.end
        PROVE  Has(w, node)
    <2>1. n + 1 \in 1..Len(w[type]) /\ w[type][n + 1] = rec
      BY <1>1, <1>2, <1>3
    <2> QED
      BY <1>8, <2>1 DEF Has
  <1> QED
    BY <1>5, <1>6, <1>7, <1>8

(* The node a call adds is on record, and so then are all. *)
LEMMA AddChildTidy ==
  ASSUME NEW f \in Frame, Chained(f), NEW m, AllHave(m, f.children),
         NEW node \in Span, Has(m, node)
  PROVE  LET g == AddChild(f, node)
         IN  g \in Frame /\ Chained(g) /\ AllHave(m, g.children) /\ g.start = f.start
  <1> DEFINE c == Append(f.children, node)
             g == [f EXCEPT !.children = c, !.curStart = node.end, !.curEnd = node.end]
             n == Len(f.children)
  <1>1. f.children \in Seq(Span) /\ node.end \in Nat /\ n \in Nat
    BY DEF Frame, Span
  <1>2. c \in Seq(Span) /\ Len(c) = n + 1 /\ c[n + 1] = node /\ \A i \in 1..n : c[i] = f.children[i]
    BY <1>1, AddLast
  <1> HIDE DEF c
  <1>3. g \in Frame /\ g.ctl = f.ctl /\ g.children = c /\ g.start = f.start
    BY <1>1, <1>2 DEF Frame
  <1>4. AddChild(f, node) = g
    BY DEF AddChild, c
  <1> HIDE DEF g, n
  <1>5. Chained(g)
    BY <1>3 DEF Chained
  <1>6. ASSUME NEW i \in 1..Len(c) PROVE Has(m, c[i])
    <2>1. CASE i = n + 1
      BY <1>2, <2>1
    <2>2. CASE i \in 1..n
      BY <1>2, <2>2 DEF AllHave, n
    <2> QED
      BY <1>1, <1>2, <2>1, <2>2
  <1> QED
    BY <1>3, <1>4, <1>5, <1>6 DEF AllHave

-----------------------------------------------------------------------------
LEMMA TopTidy ==
  ASSUME BasicInv, TreeInv, Running
  PROVE  /\ top \in Frame /\ Chained(top) /\ AllHave(memo, top.children)
         /\ pc = "enter" \/ ~res => Settled(top)
         /\ top.ctl # <<>> => ctx = LastCtx(top) /\ ctx \in Ctx
         /\ memo \in [Rule -> Seq(Record)] /\ stack \in Seq(Frame)
         /\ Len(stack) \in Nat \ {0} /\ top = stack[Len(stack)]
         /\ top.start \in Nat /\ top.rule \in Rule /\ top.children \in Seq(Span)
  <1>1. top \in Frame /\ Len(stack) \in Nat \ {0} /\ (top.ctl # <<>> => ctx \in Ctx)
    BY TopGood DEF Good
  <1>2. Chained(top) /\ AllHave(memo, top.children)
    BY <1>1 DEF TreeInv, FramesInv, top
  <1>3. memo \in [Rule -> Seq(Record)] /\ stack \in Seq(Frame)
    BY DEF BasicInv, TypeOK
  <1>4. top.start \in Nat /\ top.rule \in Rule /\ top.children \in Seq(Span)
    BY <1>1 DEF Frame
  <1> QED
    BY <1>1, <1>2, <1>3, <1>4 DEF TreeInv, SettledInv, LastCtx, ctx, top

(* A step that changes nothing of the stack but the running function, and  *)
(* nothing of what the parse has produced but the error list.              *)
LEMMA TopTree ==
  ASSUME BasicInv, TreeInv, Running,
         NEW f \in Frame, f.start = top.start, Chained(f), AllHave(memo, f.children),
         stack' = WithTop(f), UNCHANGED <<memo, root, status>>,
         pc' = "enter" \/ ~res' => Settled(f),
         errors' = errors \/ errors'.num = 0
  PROVE  TreeInv'
  <1>1. stack \in Seq(Frame) /\ stack # <<>> /\ Len(stack) \in Nat \ {0}
    BY TopTidy
  <1>2. /\ Len(stack') = Len(stack) /\ stack'[Len(stack)] = f
        /\ \A k \in 1..Len(stack) : k # Len(stack) => stack'[k] = stack[k]
    BY <1>1, ReplaceLast DEF WithTop
  <1>3. top' = f
    BY <1>2 DEF top
  <1>4. FramesInv'
    <2>1. ASSUME NEW k \in 1..Len(stack') PROVE Chained(stack'[k]) /\ AllHave(memo, stack'[k].children)
      BY <1>2 DEF TreeInv, FramesInv
    <2>2. memo' = memo
      OBVIOUS
    <2> QED
      BY <2>1, <2>2 DEF FramesInv
  <1>5. SettledInv'
    <2>1. ASSUME NEW k \in 1..(Len(stack') - 1) PROVE Settled(stack'[k])
      <3>1. k \in 1..Len(stack) /\ k # Len(stack) /\ k \in 1..(Len(stack) - 1)
        BY <1>1, <1>2
      <3> QED
        BY <1>2, <3>1 DEF TreeInv, SettledInv
    <2> QED
      BY <1>3, <2>1 DEF SettledInv, Running
  <1>6. RecordsInv'
    BY DEF TreeInv, RecordsInv
  <1>7. ErrorsInv'
    <2>1. CASE errors' = errors
      <3>1. top'.start = top.start /\ (Running' <=> Running)
        BY <1>3 DEF Running
      <3> QED
        BY <2>1, <3>1 DEF TreeInv, ErrorsInv, ErrorsOutward, ErrorsLive
    <2>2. CASE errors'.num = 0
      BY <2>2 DEF ErrorsInv, ErrorsOutward, ErrorsLive
    <2> QED
      BY <2>1, <2>2
  <1> QED
    BY <1>4, <1>5, <1>6, <1>7 DEF TreeInv

(* A macro runs an operand. *)
LEMMA ContinueTree ==
  ASSUME BasicInv, TreeInv, Running,
         NEW f \in Frame, f.start = top.start, Chained(f), f.children = top.children,
         Settled(f), NEW e, Continue(f, e), errors' = errors \/ errors'.num = 0
  PROVE  TreeInv'
  BY TopTidy, TopTree DEF Continue, Enter

(* A macro is over; if it failed, child_stack is as it found it. *)
LEMMA FinishTree ==
  ASSUME BasicInv, TreeInv, Running,
         NEW f \in Frame, f.start = top.start, f.ctl = top.ctl, top.ctl # <<>>,
         AllHave(memo, f.children), Finish(f, res'),
         ~res' => Len(f.children) = ctx.size,
         errors' = errors \/ errors'.num = 0
  PROVE  TreeInv'
  <1>1. Chained(f) /\ LastCtx(f) = ctx
    BY TopTidy DEF Chained, LastCtx
  <1>2. /\ PopCtl(f) \in Frame /\ Chained(PopCtl(f)) /\ PopCtl(f).children = f.children
        /\ PopCtl(f).start = f.start
        /\ ~res' => Settled(PopCtl(f))
    BY <1>1, PopTidy
  <1>3. stack' = WithTop(PopCtl(f)) /\ pc' = "leave" /\ UNCHANGED <<memo, root, status>>
    BY DEF Finish, Leave
  <1> QED
    BY <1>2, <1>3, TopTree

-----------------------------------------------------------------------------
(* What the epilogues do to the running function. *)
LEMMA MovedTidy ==
  ASSUME BasicInv, TreeInv, Running, top.ctl # <<>>,
         NEW f, f \in {top, Advance(top), GoBack(top), GoBackBoth(top)}
  PROVE  f \in Frame /\ f.start = top.start /\ f.ctl = top.ctl /\ f.children = top.children
  <1>1. top \in Frame
    BY TopTidy
  <1>2. Advance(top) \in Frame /\ GoBack(top) \in Frame /\ GoBackBoth(top) \in Frame
    BY EpilogueGood DEF Good
  <1>3. /\ Advance(top).start = top.start /\ Advance(top).ctl = top.ctl
        /\ Advance(top).children = top.children
    BY <1>1 DEF Advance, Frame
  <1>4. /\ GoBack(top).start = top.start /\ GoBack(top).ctl = top.ctl
        /\ GoBack(top).children = top.children
    BY <1>1 DEF GoBack, Frame
  <1>5. /\ GoBackBoth(top).start = top.start /\ GoBackBoth(top).ctl = top.ctl
        /\ GoBackBoth(top).children = top.children
    BY <1>1 DEF GoBackBoth, Frame
  <1> QED
    BY <1>1, <1>2, <1>3, <1>4, <1>5

LEMMA DroppedTidy ==
  ASSUME BasicInv, TreeInv, Running, top.ctl # <<>>,
         NEW f \in Frame, f.start = top.start, f.ctl = top.ctl, f.children = top.children
  PROVE  LET g == DropChildren(f)
         IN  /\ g \in Frame /\ g.start = top.start /\ g.ctl = top.ctl
             /\ AllHave(memo, g.children) /\ Len(g.children) = ctx.size
  <1> DEFINE c == delete_children(f.children, ctx.size)
             g == [f EXCEPT !.children = c]
  <1>1. f.children \in Seq(Span) /\ ctx.size \in Nat /\ ctx.size <= Len(f.children)
    BY CtxFacts DEF Frame
  <1>2. c \in Seq(Span) /\ Len(c) = ctx.size /\ \A k \in 1..ctx.size : c[k] = f.children[k]
    BY <1>1, Prefix DEF delete_children
  <1> HIDE DEF c
  <1>3. g \in Frame /\ g.start = f.start /\ g.ctl = f.ctl /\ g.children = c
    BY <1>2 DEF Frame
  <1>4. ASSUME NEW k \in 1..Len(c) PROVE Has(memo, c[k])
    <2>1. k \in 1..Len(f.children) /\ c[k] = f.children[k]
      BY <1>1, <1>2
    <2> QED
      BY <2>1, TopTidy DEF AllHave
  <1>5. DropChildren(f) = g
    BY DEF DropChildren, c
  <1> HIDE DEF g
  <1> QED
    BY <1>2, <1>3, <1>4, <1>5 DEF AllHave

(* The running function, at its macro's operand: ready for another one. *)
LEMMA AgainTidy ==
  ASSUME BasicInv, TreeInv, Running, top.ctl # <<>>,
         NEW f, f \in {top, Advance(top), GoBack(top), GoBackBoth(top)},
         ctx.exp.op \in Repeating \/ Settled(top)
  PROVE  \A g \in {f, AtSecond(f), Counted(f)} :
           /\ g \in Frame /\ g.start = top.start /\ Chained(g)
           /\ g.children = top.children /\ Settled(g)
  <1>1. f \in Frame /\ f.start = top.start /\ f.ctl = top.ctl /\ f.children = top.children
    BY MovedTidy
  <1>2. Chained(f) /\ Settled(f) /\ LastCtx(f) = ctx /\ ctx \in Ctx
    BY <1>1, TopTidy DEF Chained, Settled, LastCtx
  <1> DEFINE e1 == [LastCtx(f) EXCEPT !.second = TRUE]
             e2 == [LastCtx(f) EXCEPT !.count = TRUE]
             g(e) == [f EXCEPT !.ctl = [f.ctl EXCEPT ![Len(f.ctl)] = e]]
  <1>3. /\ e1 \in Ctx /\ e1.size = LastCtx(f).size /\ e1.exp = LastCtx(f).exp
        /\ e2 \in Ctx /\ e2.size = LastCtx(f).size /\ e2.exp = LastCtx(f).exp
    BY <1>2 DEF Ctx
  <1>4. AtSecond(f) = g(e1) /\ Counted(f) = g(e2)
    BY DEF AtSecond, Counted, LastCtx
  <1> HIDE DEF e1, e2
  <1>5. ASSUME NEW e \in {e1, e2}
        PROVE  g(e) \in Frame /\ Chained(g(e)) /\ g(e).children = f.children
               /\ g(e).start = f.start /\ Settled(g(e))
    BY <1>1, <1>2, <1>3, MarkTidy
  <1> HIDE DEF g
  <1> QED
    BY <1>1, <1>2, <1>4, <1>5

-----------------------------------------------------------------------------
LEMMA MacroTree ==
  ASSUME BasicInv, TreeInv, Running, Macro
  PROVE  TreeInv'
  <1>1. /\ top \in Frame /\ Chained(top) /\ AllHave(memo, top.children)
        /\ pc = "enter" \/ ~res => Settled(top)
        /\ res \in BOOLEAN
    BY TopTidy, ErrorsType
  <1>2. ASSUME top.ctl # <<>>
        PROVE  /\ ctx.errs = 0
               /\ \A f \in {top, Advance(top), GoBack(top), GoBackBoth(top)} :
                    /\ f \in Frame /\ f.start = top.start /\ f.ctl = top.ctl
                    /\ AllHave(memo, f.children) /\ f.children = top.children
               /\ LET f == DropChildren(top)
                  IN  /\ f \in Frame /\ f.start = top.start /\ f.ctl = top.ctl
                      /\ AllHave(memo, f.children) /\ Len(f.children) = ctx.size
    BY <1>1, <1>2, CtxFacts, MovedTidy, DroppedTidy
  <1>3. delete_errors(errors, 0).num = 0
    BY DEF delete_errors
  <1>4. ASSUME top.ctl # <<>>, ctx.exp.op \notin Repeating, ~res
        PROVE  Len(top.children) = ctx.size
    BY <1>1, <1>4, TopTidy DEF Settled
  <1>5. ASSUME EnterMacro PROVE TreeInv'
    <2> DEFINE c == [exp |-> exp, second |-> FALSE, count |-> FALSE,
                     size |-> Len(top.children), pos |-> top.curStart,
                     errs |-> errors.num]
               f == [top EXCEPT !.ctl = Append(@, c)]
    <2>1. pc = "enter" /\ Continue(f, exp.A) /\ errors' = errors
      BY <1>5 DEF EnterMacro
    <2>2. /\ exp \in Exp /\ errors.num \in Nat /\ Len(top.children) \in Nat
          /\ top.curStart \in Nat
      BY <1>1, ErrorsType DEF Frame, ErrorList
    <2>3. c \in Ctx /\ c.size = Len(top.children)
      BY <2>2 DEF Ctx
    <2> HIDE DEF c
    <2>4. f \in Frame /\ Chained(f) /\ Settled(f) /\ f.children = top.children /\ f.start = top.start
      BY <1>1, <2>1, <2>3, PushTidy
    <2> HIDE DEF f
    <2> QED
      BY <2>1, <2>4, ContinueTree
  <1>6. ASSUME SeqRight PROVE TreeInv'
    <2>1. /\ top.ctl # <<>> /\ ctx.exp.op \in Repeating
          /\ Continue(AtSecond(top), ctx.exp.B) /\ errors' = errors
      BY <1>6 DEF SeqRight, Leaving, Repeating
    <2> QED
      BY <2>1, AgainTidy, ContinueTree
  <1>7. ASSUME DisjRight PROVE TreeInv'
    <2>1. /\ top.ctl # <<>> /\ Settled(top)
          /\ Continue(AtSecond(GoBack(top)), ctx.exp.B) /\ errors'.num = 0
      BY <1>1, <1>3, <1>7 DEF DisjRight, Leaving
    <2> QED
      BY <2>1, AgainTidy, ContinueTree
  <1>8. ASSUME StarAgain PROVE TreeInv'
    <2>1. /\ top.ctl # <<>> /\ ctx.exp.op \in Repeating
          /\ Continue(Advance(top), ctx.exp.A) /\ errors' = errors
      BY <1>8 DEF StarAgain, Leaving, Repeating
    <2> QED
      BY <2>1, AgainTidy, ContinueTree
  <1>9. ASSUME PlusAgain PROVE TreeInv'
    <2>1. /\ top.ctl # <<>> /\ ctx.exp.op \in Repeating
          /\ Continue(Counted(Advance(top)), ctx.exp.A) /\ errors' = errors
      BY <1>9 DEF PlusAgain, Leaving, Repeating
    <2> QED
      BY <2>1, AgainTidy, ContinueTree
  <1>10. ASSUME SeqEnd \/ DisjEnd PROVE TreeInv'
    <2>1. top.ctl # <<>> /\ Finish(EndOfPair, res') /\ res' = res /\ errors' = errors
      BY <1>10 DEF SeqEnd, DisjEnd, Leaving, Finish
    <2>2. CASE res
      BY <1>2, <2>1, <2>2, FinishTree DEF EndOfPair
    <2>3. CASE ~res
      BY <1>2, <2>1, <2>3, FinishTree DEF EndOfPair
    <2> QED
      BY <2>2, <2>3
  <1>11. ASSUME StarEnd PROVE TreeInv'
    <2>1. top.ctl # <<>> /\ Finish(top, res') /\ res' = TRUE /\ errors'.num = 0
      BY <1>3, <1>11 DEF StarEnd, Leaving, Finish
    <2> QED
      BY <1>2, <2>1, FinishTree
  <1>12. ASSUME PlusEnd PROVE TreeInv'
    <2>1. top.ctl # <<>>
      BY <1>12 DEF PlusEnd, Leaving
    <2>2. CASE ctx.count
      <3>1. Finish(top, res') /\ res' = TRUE /\ errors'.num = 0
        BY <1>2, <1>3, <1>12, <2>1, <2>2 DEF PlusEnd, Finish
      <3> QED
        BY <1>2, <2>1, <3>1, FinishTree
    <2>3. CASE ~ctx.count
      <3>1. Finish(DropChildren(top), res') /\ errors' = errors
        BY <1>12, <2>3 DEF PlusEnd, Finish
      <3> QED
        BY <1>2, <2>1, <3>1, FinishTree
    <2> QED
      BY <2>2, <2>3
  <1>13. ASSUME QuesEnd PROVE TreeInv'
    <2> DEFINE f == IF res THEN Advance(top) ELSE top
    <2>1. top.ctl # <<>> /\ Finish(f, res') /\ res' = TRUE /\ errors'.num = 0
      BY <1>2, <1>3, <1>13 DEF QuesEnd, Leaving, Finish
    <2>2. f \in {top, Advance(top)}
      OBVIOUS
    <2> HIDE DEF f
    <2> QED
      BY <1>2, <2>1, <2>2, FinishTree
  <1>14. ASSUME BangEnd PROVE TreeInv'
    <2>1. /\ top.ctl # <<>> /\ Finish(DropChildren(GoBackBoth(top)), res')
          /\ errors'.num = 0
      BY <1>2, <1>3, <1>14 DEF BangEnd, Leaving, Finish
    <2> QED
      BY <1>2, <2>1, DroppedTidy, FinishTree
  <1>15. ASSUME HideEnd PROVE TreeInv'
    <2> DEFINE f == Advance(DropChildren(top))
    <2>1. top.ctl # <<>> /\ Finish(f, res') /\ errors' = errors
      BY <1>15 DEF HideEnd, Leaving, Finish
    <2>2. /\ f \in Frame /\ f.start = DropChildren(top).start
          /\ f.ctl = DropChildren(top).ctl /\ f.children = DropChildren(top).children
      <3>1. DropChildren(top) \in Frame
        BY <1>2, <2>1
      <3> QED
        BY <3>1 DEF Advance, Frame
    <2> HIDE DEF f
    <2> QED
      BY <1>2, <2>1, <2>2, FinishTree
  <1>16. ASSUME AmpEnd PROVE TreeInv'
    <2>1. /\ top.ctl # <<>> /\ Finish(GoBackBoth(top), res') /\ res' = res /\ errors' = errors
          /\ ctx.exp.op \notin Repeating
      BY <1>16 DEF AmpEnd, Leaving, Finish, Repeating
    <2> QED
      BY <1>2, <1>4, <2>1, FinishTree
  <1> QED
    BY <1>5, <1>6, <1>7, <1>8, <1>9, <1>10, <1>11, <1>12, <1>13, <1>14, <1>15, <1>16
    DEF Macro

-----------------------------------------------------------------------------
LEMMA MatchTree ==
  ASSUME BasicInv, TreeInv, Running, Match
  PROVE  TreeInv'
  <1>1. /\ top \in Frame /\ Chained(top) /\ AllHave(memo, top.children)
        /\ stack \in Seq(Frame) /\ Len(stack) \in Nat \ {0} /\ top = stack[Len(stack)]
    BY TopTidy
  <1>2. ASSUME NEW m, NEW n, Terminal(m, n), pc = "enter" PROVE TreeInv'
    <2> DEFINE f == IF m THEN [top EXCEPT !.curStart = @ + n, !.curEnd = top.curStart + n]
                         ELSE top
    <2>1. stack' = WithTop(f)
      <3>1. WithTop(top) = stack
        BY <1>1 DEF WithTop
      <3> QED
        BY <1>2, <3>1 DEF Terminal
    <2>2. f \in Frame
      <3>1. stack' \in Seq(Frame)
        BY MatchInv DEF BasicInv, TypeOK
      <3> HIDE DEF f
      <3>2. DOMAIN stack' = 1..Len(stack) /\ stack'[Len(stack)] = f
        BY <1>1, <2>1 DEF WithTop
      <3>3. Len(stack) \in 1..Len(stack')
        BY <1>1, <3>1, <3>2
      <3> QED
        BY <3>1, <3>2, <3>3
    <2>3. f.start = top.start /\ f.ctl = top.ctl /\ f.children = top.children
      BY <1>1 DEF Frame
    <2>4. Settled(top)
      BY <1>2, TopTidy
    <2>5. UNCHANGED <<memo, root, status, errors>>
      BY <1>2 DEF Terminal
    <2> HIDE DEF f
    <2>6. Chained(f) /\ Settled(f) /\ AllHave(memo, f.children)
      BY <1>1, <2>3, <2>4 DEF Chained, Settled, LastCtx
    <2> QED
      BY <2>1, <2>2, <2>3, <2>5, <2>6, TopTree
  <1> QED
    BY <1>2 DEF Match, MatchString, MatchClass, MatchDot, Entering

LEMMA CallMemoizedTree ==
  ASSUME BasicInv, TreeInv, Running, CallMemoized
  PROVE  TreeInv'
  <1> DEFINE func == exp.func
             rec == MemoRecord(func, top.curStart)
             node == Node(func, rec.start, rec.end)
  <1>1. /\ top \in Frame /\ Chained(top) /\ AllHave(memo, top.children)
        /\ pc = "enter" /\ Settled(top) /\ top.curStart \in Nat
    BY TopTidy DEF CallMemoized, Entering, Frame
  <1>2. func \in Rule /\ is_memoized(func, top.curStart) /\ TypeOK
    BY ErrorsType, Operands DEF CallMemoized, Entering, BasicInv
  <1> HIDE DEF func
  <1>3. PICK i \in 1..Len(memo[func]) : rec = memo[func][i]
    BY <1>1, <1>2, MemoRecordFound
  <1>4. rec \in Record
    BY <1>2, <1>3 DEF TypeOK
  <1>5. /\ stack' = WithTop(IF rec.ok THEN AddChild(top, node)
                            ELSE [top EXCEPT !.curEnd = rec.end])
        /\ res' = rec.ok /\ pc' = "leave"
        /\ UNCHANGED <<errors, memo, root, status>>
    BY DEF CallMemoized, func, Leave
  <1> HIDE DEF rec
  <1>6. /\ node \in Span /\ node.type = func /\ node.begin = rec.start /\ node.end = rec.end
        /\ rec.end \in Nat
    BY <1>2, <1>4 DEF Record, Span, Node
  <1>7. CASE rec.ok
    <2>1. Has(memo, node)
      BY <1>3, <1>6, <1>7 DEF Has
    <2> HIDE DEF node
    <2>2. LET f == AddChild(top, node)
          IN  f \in Frame /\ Chained(f) /\ AllHave(memo, f.children) /\ f.start = top.start
      BY <1>1, <1>6, <2>1, AddChildTidy
    <2> QED
      BY <1>5, <1>7, <2>2, TopTree
  <1>8. CASE ~rec.ok
    <2> DEFINE f == [top EXCEPT !.curEnd = rec.end]
    <2>1. f \in Frame /\ f.start = top.start /\ f.ctl = top.ctl /\ f.children = top.children
      BY <1>1, <1>6 DEF Frame
    <2>2. stack' = WithTop(f)
      BY <1>5, <1>8
    <2> HIDE DEF f
    <2>3. Chained(f) /\ Settled(f) /\ AllHave(memo, f.children)
      BY <1>1, <2>1 DEF Chained, Settled, LastCtx
    <2> QED
      BY <1>5, <2>1, <2>2, <2>3, TopTree
  <1> QED
    BY <1>7, <1>8

LEMMA CallFunctionTree ==
  ASSUME BasicInv, TreeInv, Running, CallFunction
  PROVE  TreeInv'
  <1> DEFINE f == Activation(exp.func, top.curStart)
  <1>1. /\ stack \in Seq(Frame) /\ Len(stack) \in Nat \ {0} /\ top = stack[Len(stack)]
        /\ Settled(top) /\ errors.num = 0 /\ top.curStart \in Nat /\ exp.func \in Rule
    BY TopTidy, ErrorsType, Operands DEF CallFunction, Entering, Frame
  <1>2. /\ f \in Frame /\ f.ctl = <<>> /\ f.children = <<>>
    BY <1>1 DEF Activation, Frame
  <1>3. stack' = Append(stack, f) /\ UNCHANGED <<errors, memo, root, status>>
    BY DEF CallFunction
  <1> HIDE DEF f
  <1>4. /\ Len(stack') = Len(stack) + 1 /\ stack'[Len(stack) + 1] = f
        /\ \A k \in 1..Len(stack) : stack'[k] = stack[k]
    BY <1>1, <1>2, <1>3, AddLast
  <1>5. top' = f
    BY <1>1, <1>4 DEF top
  <1>6. Chained(f) /\ Settled(f) /\ AllHave(memo, f.children)
    BY <1>2 DEF Chained, Settled, AllHave
  <1>7. FramesInv'
    <2>1. ASSUME NEW k \in 1..Len(stack')
          PROVE  Chained(stack'[k]) /\ AllHave(memo, stack'[k].children)
      <3>1. k = Len(stack) + 1 \/ k \in 1..Len(stack)
        BY <1>1, <1>4
      <3> QED
        BY <1>4, <1>6, <3>1 DEF TreeInv, FramesInv
    <2> QED
      BY <1>3, <2>1 DEF FramesInv
  <1>8. SettledInv'
    <2>1. ASSUME NEW k \in 1..(Len(stack') - 1) PROVE Settled(stack'[k])
      <3>1. k \in 1..Len(stack) /\ (k = Len(stack) \/ k \in 1..(Len(stack) - 1))
        BY <1>1, <1>4
      <3> QED
        BY <1>1, <1>4, <3>1 DEF TreeInv, SettledInv
    <2> QED
      BY <1>5, <1>6, <2>1 DEF SettledInv
  <1>9. RecordsInv' /\ ErrorsInv'
    BY <1>1, <1>3 DEF TreeInv, RecordsInv, ErrorsInv, ErrorsOutward, ErrorsLive
  <1> QED
    BY <1>7, <1>8, <1>9 DEF TreeInv

LEMMA ExhaustTree ==
  ASSUME TreeInv, Exhaust
  PROVE  TreeInv'
  <1>1. ~Running' /\ UNCHANGED <<stack, pc, res, errors, memo, root>>
    BY DEF Exhaust, Running
  <1> QED
    BY <1>1 DEF TreeInv, FramesInv, SettledInv, RecordsInv, ErrorsInv, ErrorsOutward, ErrorsLive

(* The caller, on return. *)
LEMMA CallerTidy ==
  ASSUME BasicInv, TreeInv, Running, Len(stack) > 1
  PROVE  /\ caller \in Frame /\ Chained(caller) /\ AllHave(memo, caller.children)
         /\ Settled(caller) /\ caller.start \in Nat /\ caller.start <= top.start
         /\ caller.children \in Seq(Span)
  <1>1. /\ Len(stack) - 1 \in 1..(Len(stack) - 1) /\ Len(stack) - 1 \in 1..Len(stack)
    BY TopTidy
  <1>2. Good(caller) /\ caller.curStart = top.start
    BY ReturnFacts
  <1>3. caller \in Frame /\ caller.start <= top.start
    BY <1>2 DEF Good, PositionsOf
  <1>4. Chained(caller) /\ AllHave(memo, caller.children) /\ Settled(caller)
    BY <1>1 DEF TreeInv, FramesInv, SettledInv, caller
  <1> QED
    BY <1>3, <1>4 DEF Frame

LEMMA OneLess ==
  ASSUME NEW k \in Nat, k > 1
  PROVE  k - 1 \in Nat \ {0} /\ k - 1 <= k /\ k = (k - 1) + 1
  OBVIOUS

LEMMA AllButLast ==
  ASSUME NEW Q, NEW s \in Seq(Q), Len(s) > 1
  PROVE  LET n == Len(s) - 1
             t == SubSeq(s, 1, n)
         IN  /\ n \in Nat \ {0} /\ n <= Len(s) /\ Len(s) = n + 1
             /\ t \in Seq(Q) /\ Len(t) = n /\ t # <<>> /\ \A k \in 1..n : t[k] = s[k]
  <1> DEFINE n == Len(s) - 1
  <1>0. Len(s) \in Nat /\ Len(s) > 1
    OBVIOUS
  <1>1. n \in Nat \ {0} /\ n <= Len(s) /\ Len(s) = n + 1
    BY <1>0, OneLess
  <1> DEFINE t == SubSeq(s, 1, n)
  <1>2. t \in Seq(Q) /\ Len(t) = n /\ \A k \in 1..n : t[k] = s[k]
    BY <1>1, Prefix
  <1>3. t # <<>>
    BY <1>1, <1>2
  <1> QED
    BY <1>1, <1>2, <1>3

(* A return to the caller, which is f now, with one more record. *)
LEMMA CallerTree ==
  ASSUME BasicInv, TreeInv, Running, Len(stack) > 1,
         NEW f \in Frame, f.start = caller.start, Chained(f), AllHave(memo', f.children),
         stack' = ReturnTo(f),
         NEW type \in Rule, NEW rec \in Record,
         memo' = WithRecord(memo, type, rec),
         pc' = "leave", ~res' => Settled(f)
  PROVE  FramesInv' /\ SettledInv' /\ top' = f
  <1> DEFINE n == Len(stack) - 1
             below == SubSeq(stack, 1, n)
  <1>1. stack \in Seq(Frame) /\ memo \in [Rule -> Seq(Record)]
    BY TopTidy
  <1>2. /\ n \in Nat \ {0} /\ n <= Len(stack) /\ Len(stack) = n + 1
        /\ below \in Seq(Frame) /\ Len(below) = n /\ below # <<>>
        /\ \A k \in 1..n : below[k] = stack[k]
    BY <1>1, AllButLast
  <1>3. stack' = [below EXCEPT ![Len(below)] = f]
    BY <1>2 DEF ReturnTo
  <1> HIDE DEF below
  <1>4. /\ stack' \in Seq(Frame) /\ Len(stack') = n /\ stack'[n] = f
        /\ \A k \in 1..n : k # n => stack'[k] = stack[k]
    <2>1. below \in Seq(Frame) /\ below # <<>> /\ f \in Frame
      BY <1>2
    <2> DEFINE t == [below EXCEPT ![Len(below)] = f]
    <2>2. /\ t \in Seq(Frame) /\ Len(t) = Len(below) /\ t[Len(below)] = f
          /\ \A k \in 1..Len(below) : k # Len(below) => t[k] = below[k]
      BY ONLY <2>1, ReplaceLast
    <2>3. stack' = t
      BY <1>3
    <2> HIDE DEF t
    <2> QED
      BY <1>2, <2>2, <2>3
  <1>5. FramesInv'
    <2>1. ASSUME NEW k \in 1..n PROVE Chained(stack'[k]) /\ AllHave(memo', stack'[k].children)
      <3>1. CASE k = n
        BY <1>4, <3>1
      <3>2. CASE k # n
        <4>1. k \in 1..Len(stack) /\ stack'[k] = stack[k] /\ stack[k] \in Frame
          BY <1>1, <1>4, <3>2
        <4>2. stack[k].children \in Seq(Span)
          BY <4>1 DEF Frame
        <4>3. Chained(stack[k]) /\ AllHave(memo, stack[k].children)
          BY <4>1 DEF TreeInv, FramesInv
        <4>4. AllHave(memo', stack[k].children)
          BY <1>1, <4>2, <4>3, StillHas
        <4> QED
          BY <4>1, <4>3, <4>4
      <3> QED
        BY <3>1, <3>2
    <2> QED
      BY <1>4, <2>1 DEF FramesInv
  <1>6. top' = f
    BY <1>4 DEF top
  <1>7. SettledInv'
    <2>1. ASSUME NEW k \in 1..(n - 1) PROVE Settled(stack'[k])
      <3>1. k \in 1..n /\ k # n /\ k \in 1..(Len(stack) - 1)
        BY <1>1
      <3> QED
        BY <1>4, <3>1 DEF TreeInv, SettledInv
    <2> QED
      BY <1>4, <1>6, <2>1 DEF SettledInv
  <1> QED
    BY <1>5, <1>6, <1>7

(* A record whose children are on record. *)
LEMMA RecordsTree ==
  ASSUME BasicInv, TreeInv, NEW type \in Rule, NEW rec \in Record,
         memo' = WithRecord(memo, type, rec),
         AllHave(memo, rec.children)
  PROVE  RecordsHave(memo') /\ (root # NoNode => Has(memo', root))
  <1>1. memo \in [Rule -> Seq(Record)] /\ root \in Span \cup {NoNode}
    BY DEF BasicInv, TypeOK
  <1>2. ASSUME NEW t \in Rule, NEW i \in 1..Len(memo'[t])
        PROVE  AllHave(memo', memo'[t][i].children)
    <2>1. CASE memo'[t][i] = rec
      <3>1. rec.children \in Seq(Span)
        BY DEF Record
      <3> QED
        BY <1>1, <2>1, <3>1, StillHas
    <2>2. CASE i \in 1..Len(memo[t]) /\ memo'[t][i] = memo[t][i]
      <3>1. memo[t][i] \in Record
        BY <1>1, <2>2
      <3>2. memo[t][i].children \in Seq(Span)
        BY <3>1 DEF Record
      <3>3. AllHave(memo, memo[t][i].children)
        BY <2>2 DEF TreeInv, RecordsInv, RecordsHave
      <3> QED
        BY <1>1, <2>2, <3>2, <3>3, StillHas
    <2> QED
      BY <1>1, <2>1, <2>2, StillHas
  <1>3. root # NoNode => Has(memo', root)
    BY <1>1, StillHas DEF TreeInv, RecordsInv
  <1> QED
    BY <1>2, <1>3 DEF RecordsHave

LEMMA SucceedTree ==
  ASSUME BasicInv, TreeInv, Running, Succeed
  PROVE  TreeInv'
  <1> DEFINE node == Node(top.rule, top.start, top.curEnd)
             rec  == [start |-> top.start, end |-> top.curEnd, ok |-> TRUE,
                      children |-> top.children]
  <1>1. /\ res /\ res' = res /\ errors' = errors /\ errors.num = 0 /\ pc' = "leave"
        /\ memo' = WithRecord(memo, top.rule, rec)
    BY ErrorsType DEF Succeed, Leave, memoize, WithRecord
  <1>2. /\ rec \in Record /\ rec.children = top.children /\ rec.ok
        /\ rec.start = top.start /\ rec.end = top.curEnd /\ top.rule \in Rule
    BY ReturnFacts DEF Record
  <1>3. /\ node \in Span /\ node.type = top.rule /\ node.begin = top.start
        /\ node.end = top.curEnd
    BY ReturnFacts DEF Node, Span
  <1> HIDE DEF rec
  <1>4. Has(memo', node)
    BY <1>1, <1>2, <1>3, TopTidy, StillHas
  <1>5. RecordsHave(memo') /\ (root # NoNode => Has(memo', root))
    BY <1>1, <1>2, TopTidy, RecordsTree
  <1>6. ErrorsInv'
    BY <1>1 DEF ErrorsInv, ErrorsOutward, ErrorsLive
  <1>7. CASE Len(stack) > 1
    <2> DEFINE f == AddChild(caller, node)
    <2>1. stack' = ReturnTo(f) /\ root' = root
      BY <1>7 DEF Succeed
    <2>2. AllHave(memo', caller.children)
      <3>1. /\ caller.children \in Seq(Span) /\ AllHave(memo, caller.children)
            /\ memo \in [Rule -> Seq(Record)] /\ memo' = WithRecord(memo, top.rule, rec)
        BY <1>1, <1>7, CallerTidy, TopTidy
      <3> QED
        BY <1>2, <3>1, StillHas
    <2> HIDE DEF node
    <2>3. f \in Frame /\ Chained(f) /\ AllHave(memo', f.children) /\ f.start = caller.start
      BY <1>3, <1>4, <1>7, <2>2, CallerTidy, AddChildTidy
    <2> HIDE DEF f
    <2>4. FramesInv' /\ SettledInv'
      BY <1>1, <1>2, <1>7, <2>1, <2>3, CallerTree
    <2>5. RecordsInv'
      BY <1>5, <2>1 DEF RecordsInv, RecordsHave, AllHave, Has
    <2> QED
      BY <1>6, <2>4, <2>5 DEF TreeInv
  <1>8. CASE ~(Len(stack) > 1)
    <2>1. stack' = <<>> /\ root' = node /\ status' = "done"
      BY <1>8 DEF Succeed
    <2>2. RecordsInv'
      BY <1>4, <1>5, <2>1 DEF RecordsInv, RecordsHave, AllHave, Has
    <2>3. FramesInv' /\ SettledInv'
      BY <2>1 DEF FramesInv, SettledInv, Running
    <2> QED
      BY <1>6, <2>2, <2>3 DEF TreeInv
  <1> QED
    BY <1>7, <1>8

LEMMA FailTree ==
  ASSUME BasicInv, TreeInv, Running, Fail
  PROVE  TreeInv'
  <1> DEFINE rec == [start |-> top.start, end |-> top.start, ok |-> FALSE,
                     children |-> <<>>]
  <1>1. /\ ~res /\ res' = res /\ pc' = "leave" /\ root' = root
        /\ memo' = WithRecord(memo, top.rule, rec)
        /\ errors' = add_error(errors, top.start, top.rule)
    BY DEF Fail, Returning, Leave, memoize, WithRecord
  <1>2. rec \in Record /\ AllHave(memo, rec.children)
    BY ReturnFacts DEF Record, AllHave
  <1>3. top.rule \in Rule /\ top.start \in Nat
    BY TopTidy
  <1> HIDE DEF rec
  <1>4. RecordsInv'
    <2>1. RecordsHave(memo') /\ (root # NoNode => Has(memo', root))
      BY <1>1, <1>2, <1>3, RecordsTree
    <2> QED
      BY <1>1, <2>1 DEF RecordsInv, RecordsHave, AllHave, Has
  <1> DEFINE n == errors.num
  <1>5. /\ errors'.num = n + 1 /\ n \in Nat
        /\ errors'.cells[n + 1] = [pos |-> top.start, type |-> top.rule, freed |-> FALSE]
        /\ \A i \in 1..n : errors'.cells[i] = errors.cells[i]
    <2>1. n \in Nat
      BY ErrorsType DEF ErrorList
    <2> QED
      BY <1>1, <1>3, <2>1, ErrorsType, AddErrorType
  <1>6. \A i \in 1..(n + 1) : top.start <= errors'.cells[i].pos /\ ~errors'.cells[i].freed
    <2>1. ASSUME NEW i \in 1..n
          PROVE  top.start <= errors'.cells[i].pos /\ ~errors'.cells[i].freed
      BY <1>5 DEF TreeInv, ErrorsInv, ErrorsLive
    <2>2. top.start <= errors'.cells[n + 1].pos /\ ~errors'.cells[n + 1].freed
      BY <1>3, <1>5
    <2>3. \A i \in 1..(n + 1) : i \in 1..n \/ i = n + 1
      BY <1>5
    <2> QED
      BY <2>1, <2>2, <2>3
  <1>7. ASSUME NEW i \in 1..(n + 1), NEW j \in 1..(i - 1)
        PROVE  errors'.cells[i].pos <= errors'.cells[j].pos
    <2>1. j \in 1..n
      BY <1>5
    <2>2. CASE i = n + 1
      BY <1>5, <1>6, <2>1, <2>2
    <2>3. CASE i \in 1..n
      BY <1>5, <2>1, <2>3 DEF TreeInv, ErrorsInv, ErrorsOutward
    <2> QED
      BY <1>5, <2>2, <2>3
  <1>8. ErrorsOutward' /\ ErrorsLive'
    BY <1>5, <1>6, <1>7 DEF ErrorsOutward, ErrorsLive
  <1>9. CASE Len(stack) > 1
    <2>1. stack' = ReturnTo(caller) /\ status' = status
      BY <1>9 DEF Fail
    <2>2. AllHave(memo', caller.children)
      <3>1. /\ caller.children \in Seq(Span) /\ AllHave(memo, caller.children)
            /\ memo \in [Rule -> Seq(Record)] /\ memo' = WithRecord(memo, top.rule, rec)
        BY <1>1, <1>9, CallerTidy, TopTidy
      <3> QED
        BY <1>2, <1>3, <3>1, StillHas
    <2>3. FramesInv' /\ SettledInv' /\ top' = caller
      BY <1>1, <1>2, <1>3, <1>9, <2>1, <2>2, CallerTidy, CallerTree
    <2>4. \A i \in 1..errors'.num : caller.start <= errors'.cells[i].pos
      <3>1. ASSUME NEW i \in 1..(n + 1) PROVE caller.start <= errors'.cells[i].pos
        <4>1. errors'.cells[i].pos \in Nat
          <5>1. errors' \in ErrorList /\ errors'.num <= Len(errors'.cells)
            BY <1>1, <1>3, ErrorsType, AddErrorType
          <5>2. i \in 1..Len(errors'.cells) /\ errors'.cells \in Seq(Cell)
            BY <1>5, <5>1 DEF ErrorList
          <5>3. errors'.cells[i] \in Cell
            BY <5>2
          <5> QED
            BY <5>3 DEF Cell
        <4> QED
          BY <1>3, <1>6, <1>9, <4>1, CallerTidy
      <3> QED
        BY <1>5, <3>1
    <2>5. ErrorsInv'
      BY <1>8, <2>3, <2>4 DEF ErrorsInv
    <2> QED
      BY <1>4, <2>3, <2>5 DEF TreeInv
  <1>10. CASE ~(Len(stack) > 1)
    <2>1. stack' = <<>> /\ ~Running'
      BY <1>10 DEF Fail, Running
    <2>2. FramesInv' /\ SettledInv' /\ ErrorsInv'
      BY <1>8, <2>1 DEF FramesInv, SettledInv, ErrorsInv
    <2> QED
      BY <1>4, <2>2 DEF TreeInv
  <1> QED
    BY <1>9, <1>10

-----------------------------------------------------------------------------
LEMMA TreeInit == Init => TreeInv
  <1> SUFFICES ASSUME Init PROVE TreeInv
    OBVIOUS
  <1> DEFINE f == Activation(grammar.start, 0)
  <1>1. f.ctl = <<>> /\ f.children = <<>>
    BY DEF Activation
  <1>2. stack = <<f>>
    BY DEF Init
  <1> HIDE DEF f
  <1>3. Len(stack) = 1 /\ stack[1] = f /\ top = f
    BY <1>2 DEF top
  <1>4. Chained(f) /\ Settled(f) /\ AllHave(memo, f.children)
    BY <1>1 DEF Chained, Settled, AllHave
  <1>5. FramesInv /\ SettledInv
    BY <1>3, <1>4 DEF FramesInv, SettledInv
  <1>6. RecordsInv
    BY DEF Init, RecordsInv, RecordsHave
  <1>7. ErrorsInv
    BY DEF Init, NoErrors, ErrorsInv, ErrorsOutward, ErrorsLive
  <1> QED
    BY <1>5, <1>6, <1>7 DEF TreeInv

LEMMA TreeNext == BasicInv /\ TreeInv /\ [Next]_vars => TreeInv'
  <1> SUFFICES ASSUME BasicInv, TreeInv, [Next]_vars PROVE TreeInv'
    OBVIOUS
  <1>1. ASSUME UNCHANGED vars PROVE TreeInv'
    BY <1>1 DEF vars, TreeInv, FramesInv, SettledInv, RecordsInv, ErrorsInv, ErrorsOutward,
                ErrorsLive, Running, top
  <1>2. ASSUME Macro PROVE TreeInv'
    <2>1. Running
      BY <1>2 DEF Macro, EnterMacro, SeqRight, SeqEnd, DisjRight, DisjEnd, StarAgain,
                  StarEnd, PlusAgain, PlusEnd, QuesEnd, BangEnd, HideEnd, AmpEnd, Leaving
    <2> QED
      BY <1>2, <2>1, MacroTree
  <1>3. ASSUME Match PROVE TreeInv'
    <2>1. Running
      BY <1>3 DEF Match, MatchString, MatchClass, MatchDot, Entering
    <2> QED
      BY <1>3, <2>1, MatchTree
  <1>4. ASSUME Function PROVE TreeInv'
    <2>1. Running
      BY <1>4 DEF Function, CallMemoized, CallFunction, Exhaust, Succeed, Fail, Entering,
                  Returning
    <2> QED
      BY <1>4, <2>1, CallMemoizedTree, CallFunctionTree, ExhaustTree, SucceedTree, FailTree
      DEF Function
  <1> QED
    BY <1>1, <1>2, <1>3, <1>4 DEF Next, Step, Terminated

(* The four parts of TreeInv hold of every state of every parse.           *)
THEOREM TreeCorrect == Spec => []TreeInv
  BY BasicCorrect, TreeInit, TreeNext, PTL DEF Spec

(* Whatever the grammar, a parsing function whose expression failed has an *)
(* empty child_stack: the generated parsers' PEG_PARSE may drop the array. *)
THEOREM FailureKeepsNoChildrenCorrect == Spec => []FailureKeepsNoChildren
  <1>1. BasicInv /\ TreeInv => FailureKeepsNoChildren
    <2> SUFFICES ASSUME BasicInv, TreeInv, Returning, ~res PROVE top.children = <<>>
      BY DEF FailureKeepsNoChildren
    <2>1. Settled(top) /\ top.ctl = <<>> /\ top.children \in Seq(Span)
      BY TopTidy DEF Returning
    <2>2. Len(top.children) = 0
      BY <2>1 DEF Settled
    <2> QED
      BY <2>1, <2>2
  <1> QED
    BY <1>1, BasicCorrect, TreeCorrect, PTL

(* Every node in use, in a child_stack, under another node or at the root, *)
(* is one the memo map has a successful record of.                         *)
THEOREM NodesOnRecordCorrect == Spec => []NodesOnRecord
  <1>1. TreeInv => NodesOnRecord
    <2>1. ASSUME NEW node PROVE OnRecord(node) <=> Has(memo, node)
      BY DEF OnRecord, Has
    <2>2. ASSUME NEW ch PROVE AllOnRecord(ch) <=> AllHave(memo, ch)
      BY <2>1 DEF AllOnRecord, AllHave
    <2> QED
      BY <2>1, <2>2 DEF TreeInv, FramesInv, RecordsInv, RecordsHave, NodesOnRecord
  <1> QED
    BY <1>1, TreeCorrect, PTL

(* The first error record main prints is the one furthest into the text.   *)
THEOREM ErrorsOutwardCorrect == Spec => []ErrorsOutward
  <1>1. TreeInv => ErrorsOutward
    BY DEF TreeInv, ErrorsInv
  <1> QED
    BY <1>1, TreeCorrect, PTL

(* No record within reach of print_errors has had its string freed. *)
THEOREM ErrorsLiveCorrect == Spec => []ErrorsLive
  <1>1. TreeInv => ErrorsLive
    BY DEF TreeInv, ErrorsInv
  <1> QED
    BY <1>1, TreeCorrect, PTL
=============================================================================
