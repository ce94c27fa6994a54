------------------------ MODULE PackratGrammarProofs ------------------------
(***************************************************************************)
(* What PackratParser guarantees for grammars of a kind, whatever the text *)
(* and the bounds: without left recursion no parsing function is finished  *)
(* twice at a place, and without AMP the trees nest.                       *)
(***************************************************************************)
EXTENDS PackratParserProofs

(* The expression a function has entered last and not left yet, and where  *)
(* it began: an operand of the innermost macro, or the whole body.         *)
RunBy(c)         == IF c.second THEN c.exp.B ELSE c.exp.A
Operand(body, f) == IF f.ctl = <<>> THEN body[f.rule] ELSE RunBy(LastCtx(f))
Began(f)         == IF f.ctl = <<>> THEN f.start ELSE LastCtx(f).pos

(* The macro has been through an operand that cannot succeed on nothing. *)
Consumed(empty, c) ==
  /\ c.exp.A \notin empty
  /\ \/ c.exp.op = "SEQ" /\ c.second
     \/ c.exp.op = "PLUS" /\ c.count

(* Each macro of a function runs the next one. *)
Traced(body, parts, f) ==
  \A i \in 1..Len(f.ctl) :
    /\ f.ctl[i].exp \in parts /\ f.ctl[i].exp.op \in Macros
    /\ f.ctl[i].second => f.ctl[i].exp.op \in Binary
    /\ f.ctl[i].exp = IF i = 1 THEN body[f.rule] ELSE RunBy(f.ctl[i - 1])

(* Macros that began where the function did are below its body in level,   *)
(* and nothing is left where a macro began once it has consumed.           *)
Timed(body, empty, level, f) ==
  \A i \in 1..Len(f.ctl) :
    /\ f.ctl[i].pos = f.start => level[f.ctl[i].exp] <= level[body[f.rule]]
    /\ Consumed(empty, f.ctl[i]) =>
         /\ f.ctl[i].pos < f.curStart
         /\ \A j \in (i + 1)..Len(f.ctl) : f.ctl[i].pos < f.ctl[j].pos

FramesOnce(body, parts, empty, level) ==
  \A k \in 1..Len(stack) :
    Traced(body, parts, stack[k]) /\ Timed(body, empty, level, stack[k])

(* A caller is at the T that called. *)
Waiting(body) ==
  \A k \in 1..(Len(stack) - 1) :
    /\ Operand(body, stack[k]).op = "T"
    /\ Operand(body, stack[k]).func = stack[k + 1].rule

(* Of the functions that began at one place the later has the lower body;  *)
(* so they are different functions.                                        *)
Falling(body, level) ==
  \A k \in 1..Len(stack) : \A j \in 1..(k - 1) :
    /\ stack[j].start <= stack[k].start
    /\ stack[j].start = stack[k].start =>
         level[body[stack[k].rule]] < level[body[stack[j].rule]]

(* None of the functions under way is on record where it began. *)
Fresh ==
  \A k \in 1..Len(stack) : \A i \in 1..Len(memo[stack[k].rule]) :
    memo[stack[k].rule][i].start # stack[k].start

(* Only a function that may consumes nothing. *)
RecordsSkip(body, empty) ==
  \A type \in Rule : \A i \in 1..Len(memo[type]) :
    memo[type][i].ok /\ memo[type][i].start = memo[type][i].end => body[type] \in empty

(* What is entered is what the function is at, and what was left without   *)
(* consuming may do so.                                                    *)
AtHand(body, empty, level) ==
  /\ Running /\ pc = "enter" =>
       /\ exp = Operand(body, top)
       /\ top.curStart = top.start => level[exp] <= level[body[top.rule]]
  /\ Running /\ pc = "leave" /\ res /\ top.curStart = Began(top) =>
       Operand(body, top) \in empty

OnceInv(body, parts, empty, level) ==
  /\ FramesOnce(body, parts, empty, level)
  /\ Waiting(body)
  /\ Falling(body, level)
  /\ Fresh
  /\ RecordsSkip(body, empty)
  /\ EvaluatedOnce
  /\ AtHand(body, empty, level)

(* The grammar's rules, with what NoLeftRecursion asks for. *)
Fits(body, parts, empty, level) ==
  /\ body = grammar.body
  /\ parts \in SUBSET Exp /\ empty \in SUBSET Exp /\ level \in [parts -> Nat]
  /\ Descends(body, parts, empty, level)

-----------------------------------------------------------------------------
(* An expression of the grammar is entered next. *)
LEMMA OperandIn ==
  ASSUME NEW body, NEW parts, MadeOf(body, parts),
         NEW f \in Frame, Traced(body, parts, f)
  PROVE  Operand(body, f) \in parts
  <1>1. CASE f.ctl = <<>>
    BY <1>1 DEF Operand, MadeOf, Frame
  <1>2. CASE f.ctl # <<>>
    <2>1. Len(f.ctl) \in 1..Len(f.ctl) /\ LastCtx(f) = f.ctl[Len(f.ctl)]
      BY <1>2 DEF Frame, LastCtx
    <2> DEFINE c == LastCtx(f)
    <2>2. c.exp \in parts /\ c.exp.op \in Macros /\ (c.second => c.exp.op \in Binary)
      BY <2>1 DEF Traced
    <2>3. RunBy(c) \in parts
      BY <2>2 DEF MadeOf, RunBy
    <2> QED
      BY <1>2, <2>3 DEF Operand
  <1> QED
    BY <1>1, <1>2

(* A macro is entered. *)
LEMMA PushOnce ==
  ASSUME NEW body, NEW parts, NEW empty, NEW level,
         NEW f \in Frame, PositionsOf(f), Traced(body, parts, f), Timed(body, empty, level, f),
         NEW c \in Ctx, c.exp = Operand(body, f), c.exp \in parts, c.exp.op \in Macros,
         ~c.second, ~c.count, c.pos = f.curStart,
         f.curStart = f.start => level[c.exp] <= level[body[f.rule]]
  PROVE  LET g == [f EXCEPT !.ctl = Append(@, c)]
         IN  /\ g \in Frame /\ g.rule = f.rule /\ g.start = f.start
             /\ g.curStart = f.curStart
             /\ Traced(body, parts, g) /\ Timed(body, empty, level, g)
             /\ g.ctl # <<>> /\ LastCtx(g) = c
  <1> DEFINE d == Append(f.ctl, c)
             n == Len(f.ctl)
             g == [f EXCEPT !.ctl = d]
  <1>1. f.ctl \in Seq(Ctx) /\ n \in Nat
    BY DEF Frame
  <1>2. /\ d \in Seq(Ctx) /\ Len(d) = n + 1 /\ d # <<>> /\ d[n + 1] = c
        /\ \A i \in 1..n : d[i] = f.ctl[i]
    BY <1>1, AddLast
  <1> HIDE DEF d
  <1>3. /\ g \in Frame /\ g.ctl = d /\ g.rule = f.rule /\ g.start = f.start
        /\ g.curStart = f.curStart
    BY <1>2 DEF Frame
  <1> HIDE DEF g
  <1>4. LastCtx(g) = c
    BY <1>2, <1>3 DEF LastCtx
  <1>5. Traced(body, parts, g)
    <2>1. SUFFICES ASSUME NEW i \in 1..(n + 1)
                   PROVE  /\ d[i].exp \in parts /\ d[i].exp.op \in Macros
                          /\ d[i].second => d[i].exp.op \in Binary
                          /\ d[i].exp = IF i = 1 THEN body[f.rule] ELSE RunBy(d[i - 1])
      BY <1>2, <1>3 DEF Traced
    <2>2. CASE i = n + 1
      <3>1. CASE n = 0
        <4>1. f.ctl = <<>>
          BY <1>1, <3>1
        <4> QED
          BY <1>2, <2>2, <3>1, <4>1 DEF Operand
      <3>2. CASE n # 0
        <4>1. f.ctl # <<>> /\ i - 1 = n /\ n \in 1..n /\ i # 1
          BY <1>1, <2>2, <3>2
        <4>2. LastCtx(f) = d[i - 1]
          BY <1>2, <4>1 DEF LastCtx
        <4> QED
          BY <1>2, <2>2, <4>1, <4>2 DEF Operand
      <3> QED
        BY <3>1, <3>2
    <2>3. CASE i # n + 1
      <3>1. i \in 1..n /\ (i # 1 => i - 1 \in 1..n)
        BY <1>1, <2>3
      <3> QED
        BY <1>2, <3>1 DEF Traced
    <2> QED
      BY <2>2, <2>3
  <1>6. Timed(body, empty, level, g)
    <2>1. SUFFICES ASSUME NEW i \in 1..(n + 1)
                   PROVE  /\ d[i].pos = f.start => level[d[i].exp] <= level[body[f.rule]]
                          /\ Consumed(empty, d[i]) =>
                               /\ d[i].pos < f.curStart
                               /\ \A j \in (i + 1)..(n + 1) : d[i].pos < d[j].pos
      BY <1>2, <1>3 DEF Timed
    <2>2. CASE i = n + 1
      BY <1>2, <2>2 DEF Consumed
    <2>3. CASE i # n + 1
      <3>1. i \in 1..n /\ d[i] = f.ctl[i]
        BY <1>1, <1>2, <2>3
      <3>2. ASSUME Consumed(empty, d[i])
            PROVE  /\ d[i].pos < f.curStart
                   /\ \A j \in (i + 1)..(n + 1) : d[i].pos < d[j].pos
        <4>1. d[i].pos < f.curStart /\ \A j \in (i + 1)..n : d[i].pos < f.ctl[j].pos
          BY <3>1, <3>2 DEF Timed
        <4>2. \A j \in (i + 1)..(n + 1) : j = n + 1 \/ (j \in 1..n /\ j \in (i + 1)..n)
          BY <1>1, <3>1
        <4> QED
          BY <1>2, <4>1, <4>2
      <3> QED
        BY <3>1, <3>2 DEF Timed
    <2> QED
      BY <2>2, <2>3
  <1> QED
    BY <1>2, <1>3, <1>4, <1>5, <1>6 DEF g, d

(* A macro is over. *)
LEMMA PopOnce ==
  ASSUME NEW body, NEW parts, NEW empty, NEW level,
         NEW f \in Frame, f.ctl # <<>>,
         \A i \in 1..Len(f.ctl) : f.start <= f.ctl[i].pos /\ f.ctl[i].pos <= LastCtx(f).pos,
         Traced(body, parts, f), Timed(body, empty, level, f)
  PROVE  LET g == PopCtl(f)
         IN  /\ g \in Frame /\ g.rule = f.rule /\ g.start = f.start
             /\ g.curStart = f.curStart
             /\ Traced(body, parts, g) /\ Timed(body, empty, level, g)
             /\ Operand(body, g) = LastCtx(f).exp /\ Began(g) <= LastCtx(f).pos
             /\ Began(g) \in Nat
  <1> DEFINE d == SubSeq(f.ctl, 1, Len(f.ctl) - 1)
             n == Len(f.ctl) - 1
             g == [f EXCEPT !.ctl = d]
  <1>1. f.ctl \in Seq(Ctx) /\ Len(f.ctl) = n + 1 /\ n \in Nat
    BY DEF Frame
  <1>2. d \in Seq(Ctx) /\ Len(d) = n /\ \A i \in 1..n : d[i] = f.ctl[i]
    BY <1>1, RemoveLast
  <1>3. PopCtl(f) = g
    BY DEF PopCtl
  <1> HIDE DEF d
  <1>4. /\ g \in Frame /\ g.ctl = d /\ g.rule = f.rule /\ g.start = f.start
        /\ g.curStart = f.curStart /\ f.start \in Nat
    BY <1>2 DEF Frame
  <1> HIDE DEF g, n
  <1>5. Traced(body, parts, g)
    <2>1. \A i \in 1..n : i \in 1..Len(f.ctl) /\ (i # 1 => i - 1 \in 1..n)
      BY <1>1
    <2> QED
      BY <1>2, <1>4, <2>1 DEF Traced
  <1>6. Timed(body, empty, level, g)
    <2>1. SUFFICES ASSUME NEW i \in 1..n
                   PROVE  /\ d[i].pos = f.start => level[d[i].exp] <= level[body[f.rule]]
                          /\ Consumed(empty, d[i]) =>
                               /\ d[i].pos < f.curStart
                               /\ \A j \in (i + 1)..n : d[i].pos < d[j].pos
      BY <1>2, <1>4 DEF Timed
    <2>2. /\ i \in 1..Len(f.ctl) /\ d[i] = f.ctl[i]
          /\ \A j \in (i + 1)..n : j \in (i + 1)..Len(f.ctl) /\ d[j] = f.ctl[j]
      BY <1>1, <1>2
    <2> QED
      BY <2>2 DEF Timed
  <1>7. Operand(body, g) = LastCtx(f).exp /\ Began(g) <= LastCtx(f).pos /\ Began(g) \in Nat
    <2>1. n + 1 \in 1..Len(f.ctl) /\ LastCtx(f) = f.ctl[n + 1]
      BY <1>1 DEF LastCtx
    <2>2. CASE n = 0
      <3>1. d = <<>>
        BY <1>2, <2>2
      <3>2. LastCtx(f).exp = body[f.rule] /\ f.start <= LastCtx(f).pos
        BY <2>1, <2>2 DEF Traced
      <3> QED
        BY <1>4, <3>1, <3>2 DEF Operand, Began
    <2>3. CASE n # 0
      <3>1. /\ n + 1 # 1 /\ (n + 1) - 1 = n /\ n \in 1..n /\ n \in 1..Len(f.ctl)
            /\ d # <<>>
        BY <1>1, <1>2, <2>3
      <3>2. LastCtx(g) = f.ctl[n]
        BY <1>2, <1>4, <3>1 DEF LastCtx
      <3>3. LastCtx(f).exp = RunBy(f.ctl[n]) /\ f.ctl[n].pos <= LastCtx(f).pos
        <4>1. f.ctl[n + 1].exp = RunBy(f.ctl[(n + 1) - 1])
          BY <2>1, <3>1 DEF Traced
        <4> QED
          BY <2>1, <3>1, <4>1
      <3>4. f.ctl[n] \in Ctx
        BY <1>1, <3>1
      <3>5. f.ctl[n].pos \in Nat
        BY <3>4 DEF Ctx
      <3> QED
        BY <1>4, <3>1, <3>2, <3>3, <3>5 DEF Operand, Began
    <2> QED
      BY <2>2, <2>3
  <1> QED
    BY <1>3, <1>4, <1>5, <1>6, <1>7

(* A function moves, and its innermost macro marks what it has been        *)
(* through.  It may move back to where a macro began that has not consumed.*)
LEMMA MarkOnce ==
  ASSUME NEW body, NEW parts, NEW empty, NEW level,
         NEW f \in Frame, f.ctl # <<>>,
         Traced(body, parts, f), Timed(body, empty, level, f),
         NEW g \in Frame, g.rule = f.rule, g.start = f.start, Len(g.ctl) = Len(f.ctl),
         \A i \in 1..Len(f.ctl) : i # Len(f.ctl) => g.ctl[i] = f.ctl[i],
         LastCtx(g).exp = LastCtx(f).exp, LastCtx(g).pos = LastCtx(f).pos,
         LastCtx(g).second => LastCtx(f).exp.op \in Binary,
         f.curStart <= g.curStart \/ g.curStart = LastCtx(f).pos,
         Consumed(empty, LastCtx(g)) => LastCtx(f).pos < g.curStart
  PROVE  Traced(body, parts, g) /\ Timed(body, empty, level, g)
  <1> DEFINE n == Len(f.ctl)
  <1>1. /\ f.ctl \in Seq(Ctx) /\ g.ctl \in Seq(Ctx) /\ n \in Nat \ {0}
        /\ f.curStart \in Nat /\ g.curStart \in Nat
    BY DEF Frame
  <1>2. LastCtx(f) = f.ctl[n] /\ LastCtx(g) = g.ctl[n]
    BY DEF LastCtx
  <1>3. /\ \A i \in 1..n : g.ctl[i].exp = f.ctl[i].exp /\ g.ctl[i].pos = f.ctl[i].pos
        /\ \A i \in 1..n : f.ctl[i].pos \in Nat
    <2>1. \A i \in 1..n : f.ctl[i] \in Ctx
      BY <1>1
    <2> QED
      BY <1>2, <2>1 DEF Ctx
  <1> HIDE DEF n
  <1>4. Traced(body, parts, g)
    <2>1. SUFFICES ASSUME NEW i \in 1..n
                   PROVE  /\ g.ctl[i].exp \in parts /\ g.ctl[i].exp.op \in Macros
                          /\ g.ctl[i].second => g.ctl[i].exp.op \in Binary
                          /\ g.ctl[i].exp = IF i = 1 THEN body[g.rule] ELSE RunBy(g.ctl[i - 1])
      BY DEF Traced, n
    <2>2. i \in 1..Len(f.ctl) /\ (i # 1 => i - 1 \in 1..Len(f.ctl) /\ i - 1 # n)
      BY <1>1 DEF n
    <2>3. i # 1 => g.ctl[i - 1] = f.ctl[i - 1]
      BY <2>2 DEF n
    <2>4. i = n \/ g.ctl[i] = f.ctl[i]
      BY <2>2 DEF n
    <2> QED
      BY <1>2, <1>3, <2>2, <2>3, <2>4 DEF Traced
  <1>5. Timed(body, empty, level, g)
    <2>1. SUFFICES ASSUME NEW i \in 1..n
                   PROVE  /\ g.ctl[i].pos = g.start => level[g.ctl[i].exp] <= level[body[g.rule]]
                          /\ Consumed(empty, g.ctl[i]) =>
                               /\ g.ctl[i].pos < g.curStart
                               /\ \A j \in (i + 1)..n : g.ctl[i].pos < g.ctl[j].pos
      BY DEF Timed, n
    <2>2. g.ctl[i].pos = g.start => level[g.ctl[i].exp] <= level[body[g.rule]]
      BY <1>3 DEF Timed, n
    <2>3. ASSUME Consumed(empty, g.ctl[i])
          PROVE  /\ g.ctl[i].pos < g.curStart
                 /\ \A j \in (i + 1)..n : g.ctl[i].pos < g.ctl[j].pos
      <3>1. CASE i = n
        <4>1. (i + 1)..n = {}
          BY <1>1, <3>1
        <4> QED
          BY <1>2, <1>3, <2>3, <3>1, <4>1
      <3>2. CASE i # n
        <4>1. g.ctl[i] = f.ctl[i] /\ n \in (i + 1)..n /\ \A j \in (i + 1)..n : j \in 1..n
          BY <1>1, <3>2 DEF n
        <4>2. /\ f.ctl[i].pos < f.curStart
              /\ \A j \in (i + 1)..n : f.ctl[i].pos < f.ctl[j].pos
          BY <2>3, <4>1 DEF Timed, n
        <4>3. f.ctl[i].pos < LastCtx(f).pos
          BY <1>2, <4>1, <4>2
        <4>4. f.ctl[i].pos < g.curStart
          BY <1>1, <1>3, <4>2, <4>3
        <4> QED
          BY <1>3, <4>1, <4>2, <4>4
      <3> QED
        BY <3>1, <3>2
    <2> QED
      BY <2>2, <2>3
  <1> QED
    BY <1>4, <1>5
-----------------------------------------------------------------------------
LEMMA TopOnceFacts ==
  ASSUME BasicInv, Running, NEW body, NEW parts, NEW empty, NEW level,
         Fits(body, parts, empty, level), OnceInv(body, parts, empty, level)
  PROVE  /\ top \in Frame /\ PositionsOf(top)
         /\ Traced(body, parts, top) /\ Timed(body, empty, level, top)
         /\ top.rule \in Rule /\ top.start \in Nat
         /\ top.curStart \in Nat /\ top.curEnd \in Nat
         /\ top.start <= top.curStart /\ top.curStart <= top.curEnd
         /\ stack \in Seq(Frame) /\ Len(stack) \in Nat \ {0} /\ top = stack[Len(stack)]
         /\ Operand(body, top) \in parts
         /\ \A r \in Rule : body[r] \in parts
         /\ \A e \in parts : level[e] \in Nat
  <1>1. Good(top) /\ Len(stack) \in Nat \ {0} /\ stack \in Seq(Frame)
    BY TopGood DEF BasicInv, TypeOK
  <1>2. top \in Frame /\ PositionsOf(top) /\ Len(stack) \in 1..Len(stack)
    BY <1>1 DEF Good
  <1>3. Traced(body, parts, top) /\ Timed(body, empty, level, top)
    BY <1>2 DEF OnceInv, FramesOnce, top
  <1>4. MadeOf(body, parts) /\ level \in [parts -> Nat]
    BY DEF Fits, Descends
  <1>5. Operand(body, top) \in parts
    BY <1>2, <1>3, <1>4, OperandIn
  <1>6. /\ top.rule \in Rule /\ top.start \in Nat
        /\ top.curStart \in Nat /\ top.curEnd \in Nat
        /\ top.start <= top.curStart /\ top.curStart <= top.curEnd
    BY <1>2 DEF Frame, PositionsOf
  <1> QED
    BY <1>1, <1>2, <1>3, <1>4, <1>5, <1>6 DEF MadeOf, top

(* A step that changes nothing of the stack but the running function, and  *)
(* nothing of the memo map.                                                *)
LEMMA TopOnce ==
  ASSUME BasicInv, Running, NEW body, NEW parts, NEW empty, NEW level,
         Fits(body, parts, empty, level), OnceInv(body, parts, empty, level),
         NEW f \in Frame, f.rule = top.rule, f.start = top.start,
         Traced(body, parts, f), Timed(body, empty, level, f),
         stack' = WithTop(f), UNCHANGED <<memo, status>>,
         pc' = "enter" => /\ exp' = Operand(body, f)
                          /\ f.curStart = f.start => level[exp'] <= level[body[f.rule]],
         pc' = "leave" /\ res' /\ f.curStart = Began(f) => Operand(body, f) \in empty
  PROVE  OnceInv(body, parts, empty, level)'
  <1>1. stack \in Seq(Frame) /\ stack # <<>> /\ Len(stack) \in Nat \ {0}
    BY TopOnceFacts
  <1>2. /\ Len(stack') = Len(stack) /\ stack'[Len(stack)] = f
        /\ \A k \in 1..Len(stack) : k # Len(stack) => stack'[k] = stack[k]
    BY <1>1, ReplaceLast DEF WithTop
  <1>3. top' = f
    BY <1>2 DEF top
  <1>4. /\ \A k \in 1..Len(stack) : /\ stack'[k].rule = stack[k].rule
                                   /\ stack'[k].start = stack[k].start
        /\ \A k \in 1..(Len(stack) - 1) : stack'[k] = stack[k]
    <2>1. \A k \in 1..(Len(stack) - 1) : k \in 1..Len(stack) /\ k # Len(stack)
      BY <1>1
    <2> QED
      BY <1>2, <2>1 DEF top
  <1>5. FramesOnce(body, parts, empty, level)'
    BY <1>2 DEF OnceInv, FramesOnce
  <1>6. Waiting(body)'
    <2>1. \A k \in 1..(Len(stack) - 1) : k + 1 \in 1..Len(stack)
      BY <1>1
    <2> QED
      BY <1>2, <1>4, <2>1 DEF OnceInv, Waiting
  <1>7. Falling(body, level)'
    <2>1. \A k \in 1..Len(stack) : \A j \in 1..(k - 1) : j \in 1..Len(stack)
      BY <1>1
    <2> QED
      BY <1>2, <1>4, <2>1 DEF OnceInv, Falling
  <1>8. Fresh'
    BY <1>2, <1>4 DEF OnceInv, Fresh
  <1>9. RecordsSkip(body, empty)' /\ EvaluatedOnce'
    BY DEF OnceInv, RecordsSkip, EvaluatedOnce
  <1>10. AtHand(body, empty, level)'
    BY <1>3 DEF AtHand
  <1> QED
    BY <1>5, <1>6, <1>7, <1>8, <1>9, <1>10 DEF OnceInv

(* A macro runs an operand, its first or its second. *)
LEMMA ContinueOnce ==
  ASSUME BasicInv, Running, NEW body, NEW parts, NEW empty, NEW level,
         Fits(body, parts, empty, level), OnceInv(body, parts, empty, level),
         top.ctl # <<>>,
         NEW g \in Frame, g.rule = top.rule, g.start = top.start,
         Len(g.ctl) = Len(top.ctl), g.ctl # <<>>,
         \A i \in 1..Len(top.ctl) : i # Len(top.ctl) => g.ctl[i] = top.ctl[i],
         LastCtx(g).exp = ctx.exp, LastCtx(g).pos = ctx.pos,
         LastCtx(g).second => ctx.exp.op \in Binary,
         top.curStart <= g.curStart \/ g.curStart = ctx.pos,
         Consumed(empty, LastCtx(g)) => ctx.pos < g.curStart,
         NEW e, Continue(g, e), e = RunBy(LastCtx(g)),
         g.curStart = ctx.pos => RunsFirst(body, empty, ctx.exp, e)
  PROVE  OnceInv(body, parts, empty, level)'
  <1>1. LastCtx(top) = ctx
    BY DEF LastCtx, ctx
  <1>2. Traced(body, parts, g) /\ Timed(body, empty, level, g)
    BY <1>1, TopOnceFacts, MarkOnce
  <1>3. Operand(body, g) = e
    BY DEF Operand
  <1>4. ASSUME g.curStart = g.start PROVE level[e] <= level[body[g.rule]]
    <2>1. top.start <= ctx.pos /\ ctx.pos <= top.curStart /\ ctx.pos \in Nat
      BY CtxFacts
    <2>2. ctx.pos = top.start /\ g.curStart = ctx.pos
      <3>1. g.curStart \in Nat
        BY DEF Frame
      <3>2. top.start \in Nat /\ top.curStart \in Nat
        BY TopOnceFacts
      <3> QED
        BY <1>4, <2>1, <3>1, <3>2
    <2>3. /\ Len(top.ctl) \in 1..Len(top.ctl) /\ ctx = top.ctl[Len(top.ctl)]
      BY TopOnceFacts DEF Frame, ctx
    <2>4. ctx.exp \in parts /\ level[ctx.exp] <= level[body[top.rule]]
      BY <2>2, <2>3, TopOnceFacts DEF Traced, Timed
    <2>5. e \in parts
      BY <1>2, <1>3, OperandIn DEF Fits, Descends
    <2>6. level[e] < level[ctx.exp]
      BY <2>2, <2>4, <2>5 DEF Fits, Descends
    <2>7. level[e] \in Nat /\ level[ctx.exp] \in Nat /\ level[body[top.rule]] \in Nat
      BY <2>4, <2>5, TopOnceFacts
    <2> QED
      BY <2>4, <2>6, <2>7
  <1> QED
    BY <1>2, <1>3, <1>4, TopOnce DEF Continue, Enter

(* A macro is over. *)
LEMMA FinishOnce ==
  ASSUME BasicInv, Running, NEW body, NEW parts, NEW empty, NEW level,
         Fits(body, parts, empty, level), OnceInv(body, parts, empty, level),
         top.ctl # <<>>,
         NEW f \in Frame, f.rule = top.rule, f.start = top.start, f.ctl = top.ctl,
         \/ top.curStart <= f.curStart
         \/ f.curStart = ctx.pos /\ ~Consumed(empty, ctx),
         Finish(f, res'),
         res' /\ f.curStart = ctx.pos => ctx.exp \in empty
  PROVE  OnceInv(body, parts, empty, level)'
  <1>1. LastCtx(top) = ctx /\ LastCtx(f) = ctx
    BY DEF LastCtx, ctx
  <1>2. /\ ctx.pos \in Nat /\ ctx.pos <= top.curStart
        /\ \A i \in 1..Len(top.ctl) : top.start <= top.ctl[i].pos /\ top.ctl[i].pos <= ctx.pos
    BY CtxFacts, TopOnceFacts DEF PositionsOf
  <1>3. f.curStart \in Nat /\ top.curStart \in Nat /\ ctx.pos <= f.curStart
    <2>1. f.curStart \in Nat
      BY DEF Frame
    <2>2. top.curStart \in Nat
      BY TopOnceFacts
    <2> QED
      BY <1>2, <2>1, <2>2
  <1>4. /\ ctx.second => ctx.exp.op \in Binary
        /\ Consumed(empty, ctx) => ctx.pos < top.curStart
    <2>1. /\ Len(top.ctl) \in 1..Len(top.ctl) /\ ctx = top.ctl[Len(top.ctl)]
      BY TopOnceFacts DEF Frame, ctx
    <2> QED
      BY <2>1, TopOnceFacts DEF Traced, Timed
  <1>5. Consumed(empty, ctx) => ctx.pos < f.curStart
    BY <1>2, <1>3, <1>4
  <1>6. Traced(body, parts, f) /\ Timed(body, empty, level, f)
    BY <1>1, <1>4, <1>5, TopOnceFacts, MarkOnce
  <1> DEFINE g == PopCtl(f)
  <1>7. /\ g \in Frame /\ g.rule = f.rule /\ g.start = f.start /\ g.curStart = f.curStart
        /\ Traced(body, parts, g) /\ Timed(body, empty, level, g)
        /\ Operand(body, g) = ctx.exp /\ Began(g) <= ctx.pos /\ Began(g) \in Nat
    <2>1. /\ f.ctl # <<>>
          /\ \A i \in 1..Len(f.ctl) : f.start <= f.ctl[i].pos /\ f.ctl[i].pos <= LastCtx(f).pos
      BY <1>1, <1>2
    <2> HIDE DEF g
    <2>2. /\ g \in Frame /\ g.rule = f.rule /\ g.start = f.start /\ g.curStart = f.curStart
          /\ Traced(body, parts, g) /\ Timed(body, empty, level, g)
          /\ Operand(body, g) = LastCtx(f).exp /\ Began(g) <= LastCtx(f).pos
          /\ Began(g) \in Nat
      BY <1>6, <2>1, PopOnce DEF g
    <2> QED
      BY <1>1, <2>2
  <1>8. stack' = WithTop(g) /\ pc' = "leave" /\ UNCHANGED <<memo, status>>
    BY DEF Finish, Leave
  <1> HIDE DEF g
  <1>9. ASSUME res', g.curStart = Began(g) PROVE Operand(body, g) \in empty
    <2>1. f.curStart = ctx.pos
      BY <1>2, <1>3, <1>7, <1>9
    <2> QED
      BY <1>7, <1>9, <2>1
  <1> QED
    BY <1>7, <1>8, <1>9, TopOnce
-----------------------------------------------------------------------------
(* What the epilogues do to the running function. *)
LEMMA Dropped ==
  ASSUME NEW f \in Frame, ctx.size \in Nat, ctx.size <= Len(f.children)
  PROVE  LET g == DropChildren(f)
         IN  /\ g \in Frame /\ g.rule = f.rule /\ g.start = f.start /\ g.ctl = f.ctl
             /\ g.curStart = f.curStart /\ g.curEnd = f.curEnd
             /\ Len(g.children) = ctx.size
             /\ \A i \in 1..ctx.size : g.children[i] = f.children[i]
  <1> DEFINE c == delete_children(f.children, ctx.size)
             g == [f EXCEPT !.children = c]
  <1>1. f.children \in Seq(Span)
    BY DEF Frame
  <1>2. c \in Seq(Span) /\ Len(c) = ctx.size /\ \A i \in 1..ctx.size : c[i] = f.children[i]
    BY <1>1, Prefix DEF delete_children
  <1>3. DropChildren(f) = g
    BY DEF DropChildren
  <1> HIDE DEF c
  <1>4. /\ g \in Frame /\ g.rule = f.rule /\ g.start = f.start /\ g.ctl = f.ctl
        /\ g.curStart = f.curStart /\ g.curEnd = f.curEnd /\ g.children = c
    BY <1>2 DEF Frame
  <1> HIDE DEF g
  <1> QED
    BY <1>2, <1>3, <1>4

LEMMA Moved ==
  ASSUME NEW f \in Frame, ctx.pos \in Nat
  PROVE  /\ \A g \in {f, Advance(f), GoBack(f), GoBackBoth(f)} :
              /\ g \in Frame /\ g.rule = f.rule /\ g.start = f.start /\ g.ctl = f.ctl
              /\ g.children = f.children
         /\ Advance(f).curStart = f.curEnd
         /\ GoBack(f).curStart = ctx.pos /\ GoBackBoth(f).curStart = ctx.pos
  <1>1. /\ Advance(f) \in Frame /\ Advance(f).rule = f.rule /\ Advance(f).start = f.start
        /\ Advance(f).ctl = f.ctl /\ Advance(f).children = f.children
        /\ Advance(f).curStart = f.curEnd
    BY DEF Advance, Frame
  <1>2. /\ GoBack(f) \in Frame /\ GoBack(f).rule = f.rule /\ GoBack(f).start = f.start
        /\ GoBack(f).ctl = f.ctl /\ GoBack(f).children = f.children
        /\ GoBack(f).curStart = ctx.pos
    BY DEF GoBack, Frame
  <1>3. /\ GoBackBoth(f) \in Frame /\ GoBackBoth(f).rule = f.rule
        /\ GoBackBoth(f).start = f.start
        /\ GoBackBoth(f).ctl = f.ctl /\ GoBackBoth(f).children = f.children
        /\ GoBackBoth(f).curStart = ctx.pos
    BY DEF GoBackBoth, Frame
  <1> QED
    BY <1>1, <1>2, <1>3

LEMMA Marked ==
  ASSUME NEW f \in Frame, f.ctl # <<>>
  PROVE  /\ \A g \in {AtSecond(f), Counted(f)} :
              /\ g \in Frame /\ g.rule = f.rule /\ g.start = f.start
              /\ g.curStart = f.curStart /\ g.children = f.children
              /\ Len(g.ctl) = Len(f.ctl) /\ g.ctl # <<>>
              /\ \A i \in 1..Len(f.ctl) : i # Len(f.ctl) => g.ctl[i] = f.ctl[i]
              /\ LastCtx(g).exp = LastCtx(f).exp /\ LastCtx(g).pos = LastCtx(f).pos
              /\ LastCtx(g).size = LastCtx(f).size
         /\ LastCtx(AtSecond(f)).second /\ LastCtx(AtSecond(f)).count = LastCtx(f).count
         /\ LastCtx(Counted(f)).second = LastCtx(f).second
  <1> DEFINE last  == LastCtx(f)
             d(e)  == [f.ctl EXCEPT ![Len(f.ctl)] = e]
             g(e)  == [f EXCEPT !.ctl = d(e)]
             e1    == [last EXCEPT !.second = TRUE]
             e2    == [last EXCEPT !.count = TRUE]
  <1>1. f.ctl \in Seq(Ctx) /\ Len(f.ctl) \in 1..Len(f.ctl)
    BY DEF Frame
  <1>2. last \in Ctx
    BY <1>1 DEF LastCtx
  <1>3. /\ e1 \in Ctx /\ e1.exp = last.exp /\ e1.pos = last.pos /\ e1.size = last.size
        /\ e1.second = TRUE /\ e1.count = last.count
        /\ e2 \in Ctx /\ e2.exp = last.exp /\ e2.pos = last.pos /\ e2.size = last.size
        /\ e2.second = last.second
    BY <1>2 DEF Ctx
  <1>4. AtSecond(f) = g(e1) /\ Counted(f) = g(e2)
    BY DEF AtSecond, Counted, LastCtx
  <1> HIDE DEF e1, e2
  <1>5. ASSUME NEW e \in Ctx
        PROVE  /\ g(e) \in Frame /\ g(e).rule = f.rule /\ g(e).start = f.start
               /\ g(e).curStart = f.curStart /\ g(e).children = f.children
               /\ Len(g(e).ctl) = Len(f.ctl) /\ g(e).ctl # <<>>
               /\ \A i \in 1..Len(f.ctl) : i # Len(f.ctl) => g(e).ctl[i] = f.ctl[i]
               /\ LastCtx(g(e)) = e
    <2>1. /\ d(e) \in Seq(Ctx) /\ Len(d(e)) = Len(f.ctl) /\ d(e) # <<>>
          /\ d(e)[Len(f.ctl)] = e
          /\ \A i \in 1..Len(f.ctl) : i # Len(f.ctl) => d(e)[i] = f.ctl[i]
      BY <1>1, ReplaceLast
    <2> HIDE DEF d
    <2>2. /\ g(e) \in Frame /\ g(e).rule = f.rule /\ g(e).start = f.start
          /\ g(e).curStart = f.curStart /\ g(e).children = f.children /\ g(e).ctl = d(e)
      BY <2>1 DEF Frame
    <2> HIDE DEF g
    <2> QED
      BY <2>1, <2>2 DEF LastCtx
  <1> HIDE DEF g
  <1> QED
    BY <1>3, <1>4, <1>5

(* What the invariant says of the macro the last operand belongs to. *)
LEMMA CtxOnce ==
  ASSUME BasicInv, Running, NEW body, NEW parts, NEW empty, NEW level,
         Fits(body, parts, empty, level), OnceInv(body, parts, empty, level),
         top.ctl # <<>>
  PROVE  /\ LastCtx(top) = ctx /\ ctx.exp \in parts /\ ctx.exp.op \in Macros
         /\ ctx.second => ctx.exp.op \in Binary
         /\ ctx.pos \in Nat /\ ctx.pos <= top.curStart /\ ctx.size \in Nat
         /\ ctx.size <= Len(top.children)
         /\ Consumed(empty, ctx) => ctx.pos < top.curStart
         /\ pc = "leave" /\ res /\ top.curStart = ctx.pos => RunBy(ctx) \in empty
         /\ Skips(body, empty, ctx.exp) => ctx.exp \in empty
  <1>1. LastCtx(top) = ctx
    BY DEF LastCtx, ctx
  <1>2. Len(top.ctl) \in 1..Len(top.ctl) /\ ctx = top.ctl[Len(top.ctl)]
    BY TopOnceFacts DEF Frame, ctx
  <1>3. /\ ctx.exp \in parts /\ ctx.exp.op \in Macros
        /\ ctx.second => ctx.exp.op \in Binary
        /\ Consumed(empty, ctx) => ctx.pos < top.curStart
    BY <1>2, TopOnceFacts DEF Traced, Timed
  <1>4. pc = "leave" /\ res /\ top.curStart = ctx.pos => RunBy(ctx) \in empty
    BY <1>1 DEF OnceInv, AtHand, Operand, Began
  <1>5. Skips(body, empty, ctx.exp) => ctx.exp \in empty
    BY <1>3 DEF Fits, Descends
  <1> QED
    BY <1>1, <1>3, <1>4, <1>5, CtxFacts

LEMMA EnterMacroOnce ==
  ASSUME BasicInv, Running, NEW body, NEW parts, NEW empty, NEW level,
         Fits(body, parts, empty, level), OnceInv(body, parts, empty, level),
         EnterMacro
  PROVE  OnceInv(body, parts, empty, level)'
  <1> DEFINE c == [exp |-> exp, second |-> FALSE, count |-> FALSE,
                   size |-> Len(top.children), pos |-> top.curStart,
                   errs |-> errors.num]
             g == [top EXCEPT !.ctl = Append(@, c)]
  <1>1. /\ pc = "enter" /\ exp.op \in Macros
        /\ stack' = WithTop(g) /\ pc' = "enter" /\ exp' = exp.A /\ UNCHANGED <<memo, status>>
    BY DEF EnterMacro, Continue, Enter
  <1>2. c \in Ctx
    <2>1. exp \in Exp /\ errors.num \in Nat
      BY ErrorsType DEF ErrorList
    <2>2. Len(top.children) \in Nat /\ top.curStart \in Nat
      BY TopOnceFacts DEF Frame
    <2> QED
      BY <2>1, <2>2 DEF Ctx
  <1>3. /\ c.exp = exp /\ ~c.second /\ ~c.count /\ c.pos = top.curStart
    OBVIOUS
  <1> HIDE DEF c
  <1>4. /\ exp = Operand(body, top) /\ exp \in parts
        /\ top.curStart = top.start => level[exp] <= level[body[top.rule]]
    BY <1>1, TopOnceFacts DEF OnceInv, AtHand
  <1>5. /\ g \in Frame /\ g.rule = top.rule /\ g.start = top.start
        /\ g.curStart = top.curStart
        /\ Traced(body, parts, g) /\ Timed(body, empty, level, g)
        /\ g.ctl # <<>> /\ LastCtx(g) = c
    <2>1. /\ c.exp = Operand(body, top) /\ c.exp \in parts /\ c.exp.op \in Macros
          /\ top.curStart = top.start => level[c.exp] <= level[body[top.rule]]
      BY <1>1, <1>3, <1>4
    <2>2. /\ top \in Frame /\ PositionsOf(top)
          /\ Traced(body, parts, top) /\ Timed(body, empty, level, top)
      BY TopOnceFacts
    <2> HIDE DEF g
    <2> QED
      BY <1>2, <1>3, <2>1, <2>2, PushOnce DEF g
  <1> HIDE DEF g
  <1>6. Operand(body, g) = exp.A
    BY <1>3, <1>5 DEF Operand, RunBy
  <1>7. ASSUME g.curStart = g.start PROVE level[exp.A] <= level[body[g.rule]]
    <2>1. exp.A \in parts
      BY <1>1, <1>4 DEF Fits, Descends, MadeOf
    <2>2. level[exp.A] < level[exp]
      BY <1>1, <1>4, <2>1 DEF Fits, Descends, RunsFirst
    <2>3. level[exp.A] \in Nat /\ level[exp] \in Nat /\ level[body[top.rule]] \in Nat
      BY <1>4, <2>1, TopOnceFacts
    <2> QED
      BY <1>4, <1>5, <1>7, <2>2, <2>3
  <1> QED
    BY <1>1, <1>5, <1>6, <1>7, TopOnce
(* The macros that run an operand more. *)
LEMMA AgainOnce ==
  ASSUME BasicInv, Running, NEW body, NEW parts, NEW empty, NEW level,
         Fits(body, parts, empty, level), OnceInv(body, parts, empty, level),
         SeqRight \/ DisjRight \/ StarAgain \/ PlusAgain
  PROVE  OnceInv(body, parts, empty, level)'
  <1>1. top.ctl # <<>> /\ pc = "leave"
    BY DEF SeqRight, DisjRight, StarAgain, PlusAgain, Leaving
  <1>2. /\ LastCtx(top) = ctx /\ ctx.exp \in parts /\ ctx.exp.op \in Macros
        /\ ctx.second => ctx.exp.op \in Binary
        /\ ctx.pos \in Nat /\ ctx.pos <= top.curStart
        /\ res /\ top.curStart = ctx.pos => RunBy(ctx) \in empty
    BY <1>1, CtxOnce
  <1>3. /\ top \in Frame /\ top.curStart \in Nat /\ top.curEnd \in Nat
        /\ top.curStart <= top.curEnd
    BY TopOnceFacts
  <1>4. ASSUME SeqRight PROVE OnceInv(body, parts, empty, level)'
    <2> DEFINE g == AtSecond(top)
    <2>1. /\ ctx.exp.op = "SEQ" /\ ~ctx.second /\ res /\ Continue(g, ctx.exp.B)
      BY <1>4 DEF SeqRight, Leaving
    <2>2. top.curStart = ctx.pos => ctx.exp.A \in empty
      BY <1>2, <2>1 DEF RunBy
    <2>3. /\ g \in Frame /\ g.rule = top.rule /\ g.start = top.start
          /\ g.curStart = top.curStart /\ Len(g.ctl) = Len(top.ctl) /\ g.ctl # <<>>
          /\ \A i \in 1..Len(top.ctl) : i # Len(top.ctl) => g.ctl[i] = top.ctl[i]
          /\ LastCtx(g).exp = ctx.exp /\ LastCtx(g).pos = ctx.pos /\ LastCtx(g).second
      BY <1>1, <1>2, <1>3, Marked
    <2> HIDE DEF g
    <2>4. Consumed(empty, LastCtx(g)) => ctx.pos < g.curStart
      BY <1>2, <1>3, <2>2, <2>3 DEF Consumed
    <2>5. g.curStart = ctx.pos => RunsFirst(body, empty, ctx.exp, ctx.exp.B)
      BY <2>1, <2>2, <2>3 DEF RunsFirst
    <2>6. ctx.exp.B = RunBy(LastCtx(g)) /\ ctx.exp.op \in Binary /\ top.curStart <= g.curStart
      BY <1>3, <2>1, <2>3 DEF RunBy, Binary
    <2> QED
      BY <1>1, <2>1, <2>3, <2>4, <2>5, <2>6, ContinueOnce
  <1>5. ASSUME DisjRight PROVE OnceInv(body, parts, empty, level)'
    <2> DEFINE h == GoBack(top)
               g == AtSecond(h)
    <2>1. /\ ctx.exp.op = "DISJ" /\ Continue(g, ctx.exp.B)
      BY <1>5 DEF DisjRight, Leaving
    <2>2. /\ h \in Frame /\ h.rule = top.rule /\ h.start = top.start /\ h.ctl = top.ctl
          /\ h.curStart = ctx.pos
      BY <1>2, <1>3, Moved
    <2> HIDE DEF h
    <2>3. LastCtx(h) = ctx
      BY <1>2, <2>2 DEF LastCtx
    <2>4. /\ g \in Frame /\ g.rule = top.rule /\ g.start = top.start
          /\ g.curStart = ctx.pos /\ Len(g.ctl) = Len(top.ctl) /\ g.ctl # <<>>
          /\ \A i \in 1..Len(top.ctl) : i # Len(top.ctl) => g.ctl[i] = top.ctl[i]
          /\ LastCtx(g).exp = ctx.exp /\ LastCtx(g).pos = ctx.pos /\ LastCtx(g).second
      BY <1>1, <2>2, <2>3, Marked
    <2> HIDE DEF g
    <2>5. ~Consumed(empty, LastCtx(g))
      BY <2>1, <2>4 DEF Consumed
    <2>6. RunsFirst(body, empty, ctx.exp, ctx.exp.B)
      BY <2>1 DEF RunsFirst
    <2>7. ctx.exp.B = RunBy(LastCtx(g)) /\ ctx.exp.op \in Binary
      BY <2>1, <2>4 DEF RunBy, Binary
    <2> QED
      BY <1>1, <2>1, <2>4, <2>5, <2>6, <2>7, ContinueOnce
  <1>6. ASSUME StarAgain PROVE OnceInv(body, parts, empty, level)'
    <2> DEFINE g == Advance(top)
    <2>1. /\ ctx.exp.op = "STAR" /\ Continue(g, ctx.exp.A)
      BY <1>6 DEF StarAgain, Leaving
    <2>2. /\ g \in Frame /\ g.rule = top.rule /\ g.start = top.start /\ g.ctl = top.ctl
          /\ g.curStart = top.curEnd
      BY <1>2, <1>3, Moved
    <2> HIDE DEF g
    <2>3. LastCtx(g) = ctx
      BY <1>2, <2>2 DEF LastCtx
    <2>4. ~ctx.second /\ ~Consumed(empty, ctx)
      BY <1>2, <2>1 DEF Binary, Consumed
    <2>5. RunsFirst(body, empty, ctx.exp, ctx.exp.A) /\ ctx.exp.A = RunBy(ctx)
      BY <1>2, <2>4 DEF RunsFirst, RunBy
    <2> QED
      BY <1>1, <1>3, <2>1, <2>2, <2>3, <2>4, <2>5, ContinueOnce
  <1>7. ASSUME PlusAgain PROVE OnceInv(body, parts, empty, level)'
    <2> DEFINE h == Advance(top)
               g == Counted(h)
    <2>1. /\ ctx.exp.op = "PLUS" /\ res /\ Continue(g, ctx.exp.A)
      BY <1>7 DEF PlusAgain, Leaving
    <2>2. /\ h \in Frame /\ h.rule = top.rule /\ h.start = top.start /\ h.ctl = top.ctl
          /\ h.curStart = top.curEnd
      BY <1>2, <1>3, Moved
    <2> HIDE DEF h
    <2>3. LastCtx(h) = ctx
      BY <1>2, <2>2 DEF LastCtx
    <2>4. /\ g \in Frame /\ g.rule = top.rule /\ g.start = top.start
          /\ g.curStart = top.curEnd /\ Len(g.ctl) = Len(top.ctl) /\ g.ctl # <<>>
          /\ \A i \in 1..Len(top.ctl) : i # Len(top.ctl) => g.ctl[i] = top.ctl[i]
          /\ LastCtx(g).exp = ctx.exp /\ LastCtx(g).pos = ctx.pos
          /\ LastCtx(g).second = ctx.second
      BY <1>1, <2>2, <2>3, Marked
    <2> HIDE DEF g
    <2>5. ~ctx.second
      BY <1>2, <2>1 DEF Binary
    <2>6. RunsFirst(body, empty, ctx.exp, ctx.exp.A) /\ ctx.exp.A = RunBy(ctx)
          /\ ctx.exp.A = RunBy(LastCtx(g))
      BY <1>2, <2>4, <2>5 DEF RunsFirst, RunBy
    <2>7. Consumed(empty, LastCtx(g)) => ctx.pos < g.curStart
      <3>1. top.curStart = ctx.pos => ctx.exp.A \in empty
        BY <1>2, <2>1, <2>6
      <3> QED
        BY <1>2, <1>3, <2>4, <3>1 DEF Consumed
    <2>8. top.curStart <= g.curStart /\ ~LastCtx(g).second
      BY <1>3, <2>4, <2>5
    <2> QED
      BY <1>1, <2>1, <2>4, <2>6, <2>7, <2>8, ContinueOnce
  <1> QED
    BY <1>4, <1>5, <1>6, <1>7

(* The macros that end. *)
LEMMA EndOnce ==
  ASSUME BasicInv, Running, NEW body, NEW parts, NEW empty, NEW level,
         Fits(body, parts, empty, level), OnceInv(body, parts, empty, level),
         \/ SeqEnd \/ DisjEnd \/ StarEnd \/ PlusEnd
         \/ QuesEnd \/ BangEnd \/ HideEnd \/ AmpEnd
  PROVE  OnceInv(body, parts, empty, level)'
  <1>1. top.ctl # <<>> /\ pc = "leave"
    BY DEF SeqEnd, DisjEnd, StarEnd, PlusEnd, QuesEnd, BangEnd, HideEnd, AmpEnd, Leaving
  <1>2. /\ ctx.second => ctx.exp.op \in Binary
        /\ ctx.pos \in Nat /\ ctx.pos <= top.curStart
        /\ ctx.size \in Nat /\ ctx.size <= Len(top.children)
        /\ Consumed(empty, ctx) => ctx.pos < top.curStart
        /\ res /\ top.curStart = ctx.pos => RunBy(ctx) \in empty
        /\ Skips(body, empty, ctx.exp) => ctx.exp \in empty
    BY <1>1, CtxOnce
  <1>3. /\ top \in Frame /\ top.curStart \in Nat /\ top.curEnd \in Nat
        /\ top.curStart <= top.curEnd
    BY TopOnceFacts
  <1> DEFINE Moves(f) == /\ f \in Frame /\ f.rule = top.rule /\ f.start = top.start
                         /\ f.ctl = top.ctl
  <1>4. /\ Moves(top)
        /\ Moves(Advance(top)) /\ Advance(top).curStart = top.curEnd
        /\ Moves(GoBackBoth(top)) /\ GoBackBoth(top).curStart = ctx.pos
        /\ GoBackBoth(top).children = top.children
    BY <1>2, <1>3, Moved
  <1>5. /\ Moves(DropChildren(top)) /\ DropChildren(top).curStart = top.curStart
        /\ DropChildren(top).curEnd = top.curEnd
    BY <1>2, <1>3, Dropped
  <1>6. Moves(DropChildren(GoBackBoth(top))) /\ DropChildren(GoBackBoth(top)).curStart = ctx.pos
    <2> DEFINE h == GoBackBoth(top)
    <2>1. Moves(h) /\ h.curStart = ctx.pos /\ h.children = top.children
      BY <1>4
    <2> HIDE DEF h
    <2>2. Moves(DropChildren(h)) /\ DropChildren(h).curStart = ctx.pos
      BY <1>2, <2>1, Dropped
    <2> QED
      BY <2>2 DEF h
  <1>7. Moves(Advance(DropChildren(top))) /\ Advance(DropChildren(top)).curStart = top.curEnd
    <2> DEFINE h == DropChildren(top)
    <2>1. Moves(h) /\ h.curEnd = top.curEnd
      BY <1>5
    <2> HIDE DEF h
    <2>2. Moves(Advance(h)) /\ Advance(h).curStart = top.curEnd
      BY <1>2, <2>1, Moved
    <2> QED
      BY <2>2 DEF h
  <1>8. ASSUME NEW f, Moves(f), Finish(f, res'),
               \/ top.curStart <= f.curStart
               \/ f.curStart = ctx.pos /\ ctx.exp.op \notin {"SEQ", "PLUS"},
               res' /\ f.curStart = ctx.pos => Skips(body, empty, ctx.exp)
        PROVE  OnceInv(body, parts, empty, level)'
    <2>1. ctx.exp.op \notin {"SEQ", "PLUS"} => ~Consumed(empty, ctx)
      BY DEF Consumed
    <2> QED
      BY <1>1, <1>2, <1>8, <2>1, FinishOnce
  <1> HIDE DEF Moves
  <1>9. top.curEnd = ctx.pos => top.curStart = ctx.pos
    BY <1>2, <1>3
  <1>10. ASSUME SeqEnd PROVE OnceInv(body, parts, empty, level)'
    <2>1. /\ ctx.exp.op = "SEQ" /\ (ctx.second \/ ~res) /\ res' = res
          /\ Finish(IF res THEN Advance(top) ELSE DropChildren(top), res')
      BY <1>10 DEF SeqEnd, Leaving, Finish, EndOfPair
    <2>2. CASE res
      <3>1. ASSUME top.curEnd = ctx.pos PROVE Skips(body, empty, ctx.exp)
        <4>1. ctx.second /\ ~Consumed(empty, ctx) /\ RunBy(ctx) \in empty
          BY <1>2, <1>3, <1>9, <2>1, <2>2, <3>1
        <4> QED
          BY <2>1, <4>1 DEF Consumed, RunBy, Skips
      <3> QED
        BY <1>3, <1>4, <1>8, <2>1, <2>2, <3>1
    <2>3. CASE ~res
      BY <1>3, <1>5, <1>8, <2>1, <2>3
    <2> QED
      BY <2>2, <2>3
  <1>11. ASSUME DisjEnd PROVE OnceInv(body, parts, empty, level)'
    <2>1. /\ ctx.exp.op = "DISJ" /\ res' = res
          /\ Finish(IF res THEN Advance(top) ELSE DropChildren(top), res')
      BY <1>11 DEF DisjEnd, Leaving, Finish, EndOfPair
    <2>2. CASE res
      <3>1. ASSUME top.curEnd = ctx.pos PROVE Skips(body, empty, ctx.exp)
        BY <1>2, <1>9, <2>1, <2>2, <3>1 DEF RunBy, Skips
      <3> QED
        BY <1>3, <1>4, <1>8, <2>1, <2>2, <3>1
    <2>3. CASE ~res
      BY <1>3, <1>5, <1>8, <2>1, <2>3
    <2> QED
      BY <2>2, <2>3
  <1>12. ASSUME StarEnd PROVE OnceInv(body, parts, empty, level)'
    <2>1. Skips(body, empty, ctx.exp) /\ Finish(top, res')
      BY <1>12 DEF StarEnd, Leaving, Finish, Skips
    <2> QED
      BY <1>3, <1>4, <1>8, <2>1
  <1>13. ASSUME PlusEnd PROVE OnceInv(body, parts, empty, level)'
    <2>1. ctx.exp.op = "PLUS"
      BY <1>13 DEF PlusEnd, Leaving
    <2>2. CASE ctx.count
      <3>1. Finish(top, res')
        BY <1>13, <2>2 DEF PlusEnd, Finish
      <3>2. ASSUME top.curStart = ctx.pos PROVE Skips(body, empty, ctx.exp)
        BY <1>2, <1>3, <2>1, <2>2, <3>2 DEF Consumed, Skips
      <3> QED
        BY <1>3, <1>4, <1>8, <3>1, <3>2
    <2>3. CASE ~ctx.count
      <3>1. Finish(DropChildren(top), res') /\ ~res'
        BY <1>13, <2>3 DEF PlusEnd, Finish
      <3> QED
        BY <1>3, <1>5, <1>8, <3>1
    <2> QED
      BY <2>2, <2>3
  <1>14. ASSUME QuesEnd PROVE OnceInv(body, parts, empty, level)'
    <2>1. Skips(body, empty, ctx.exp) /\ Finish(IF res THEN Advance(top) ELSE top, res')
      BY <1>14 DEF QuesEnd, Leaving, Finish, Skips
    <2>2. CASE res
      BY <1>3, <1>4, <1>8, <2>1, <2>2
    <2>3. CASE ~res
      BY <1>3, <1>4, <1>8, <2>1, <2>3
    <2> QED
      BY <2>2, <2>3
  <1>15. ASSUME BangEnd PROVE OnceInv(body, parts, empty, level)'
    <2>1. /\ Skips(body, empty, ctx.exp) /\ ctx.exp.op \notin {"SEQ", "PLUS"}
          /\ Finish(DropChildren(GoBackBoth(top)), res')
      BY <1>15 DEF BangEnd, Leaving, Finish, Skips
    <2> QED
      BY <1>6, <1>8, <2>1
  <1>16. ASSUME HideEnd PROVE OnceInv(body, parts, empty, level)'
    <2>1. ctx.exp.op = "HIDE" /\ res' = res /\ Finish(Advance(DropChildren(top)), res')
      BY <1>16 DEF HideEnd, Leaving, Finish
    <2>2. ASSUME res, top.curEnd = ctx.pos PROVE Skips(body, empty, ctx.exp)
      <3>1. ~ctx.second /\ RunBy(ctx) \in empty
        BY <1>2, <1>9, <2>1, <2>2 DEF Binary
      <3> QED
        BY <2>1, <3>1 DEF RunBy, Skips
    <2> QED
      BY <1>3, <1>7, <1>8, <2>1, <2>2
  <1>17. ASSUME AmpEnd PROVE OnceInv(body, parts, empty, level)'
    <2>1. /\ Skips(body, empty, ctx.exp) /\ ctx.exp.op \notin {"SEQ", "PLUS"}
          /\ Finish(GoBackBoth(top), res')
      BY <1>17 DEF AmpEnd, Leaving, Finish, Skips
    <2> QED
      BY <1>4, <1>8, <2>1
  <1> QED
    BY <1>10, <1>11, <1>12, <1>13, <1>14, <1>15, <1>16, <1>17
-----------------------------------------------------------------------------
(* A function that moves on keeps what is known of its macros. *)
LEMMA AheadOnce ==
  ASSUME NEW body, NEW parts, NEW empty, NEW level,
         NEW f \in Frame, Traced(body, parts, f), Timed(body, empty, level, f),
         NEW g \in Frame, g.rule = f.rule, g.start = f.start, g.ctl = f.ctl,
         f.curStart <= g.curStart
  PROVE  /\ Traced(body, parts, g) /\ Timed(body, empty, level, g)
         /\ Operand(body, g) = Operand(body, f) /\ Began(g) = Began(f)
  <1>1. f.curStart \in Nat /\ g.curStart \in Nat /\ f.ctl \in Seq(Ctx)
    BY DEF Frame
  <1>2. \A i \in 1..Len(f.ctl) : f.ctl[i].pos \in Nat
    <2>1. \A i \in 1..Len(f.ctl) : f.ctl[i] \in Ctx
      BY <1>1
    <2> QED
      BY <2>1 DEF Ctx
  <1>3. Timed(body, empty, level, g)
    BY <1>1, <1>2 DEF Timed
  <1> QED
    BY <1>3 DEF Traced, Operand, Began, LastCtx

LEMMA BeganBefore ==
  ASSUME NEW f \in Frame, PositionsOf(f)
  PROVE  Began(f) \in Nat /\ Began(f) <= f.curStart
  <1>1. f.ctl \in Seq(Ctx) /\ f.start \in Nat /\ f.start <= f.curStart
    BY DEF Frame, PositionsOf
  <1>2. ASSUME f.ctl # <<>> PROVE LastCtx(f) \in Ctx /\ LastCtx(f).pos <= f.curStart
    <2>1. Len(f.ctl) \in 1..Len(f.ctl)
      BY <1>1, <1>2
    <2> QED
      BY <1>1, <2>1 DEF LastCtx, PositionsOf
  <1> QED
    BY <1>1, <1>2 DEF Began, Ctx

LEMMA Added ==
  ASSUME NEW f \in Frame, NEW node \in Span
  PROVE  LET g == AddChild(f, node)
         IN  /\ g \in Frame /\ g.rule = f.rule /\ g.start = f.start /\ g.ctl = f.ctl
             /\ g.curStart = node.end /\ Len(g.children) = Len(f.children) + 1
             /\ g.children[Len(f.children) + 1] = node
             /\ \A i \in 1..Len(f.children) : g.children[i] = f.children[i]
  <1> DEFINE c == Append(f.children, node)
             g == [f EXCEPT !.children = c, !.curStart = node.end, !.curEnd = node.end]
  <1>1. f.children \in Seq(Span) /\ node.end \in Nat
    BY DEF Frame, Span
  <1>2. /\ c \in Seq(Span) /\ Len(c) = Len(f.children) + 1 /\ c[Len(f.children) + 1] = node
        /\ \A i \in 1..Len(f.children) : c[i] = f.children[i]
    BY <1>1, AddLast
  <1>3. AddChild(f, node) = g
    BY DEF AddChild
  <1> HIDE DEF c
  <1>4. /\ g \in Frame /\ g.rule = f.rule /\ g.start = f.start /\ g.ctl = f.ctl
        /\ g.curStart = node.end /\ g.children = c
    BY <1>1, <1>2 DEF Frame
  <1> HIDE DEF g
  <1> QED
    BY <1>2, <1>3, <1>4

LEMMA MatchOnce ==
  ASSUME BasicInv, Running, NEW body, NEW parts, NEW empty, NEW level,
         Fits(body, parts, empty, level), OnceInv(body, parts, empty, level), Match
  PROVE  OnceInv(body, parts, empty, level)'
  <1>1. /\ top \in Frame /\ PositionsOf(top)
        /\ Traced(body, parts, top) /\ Timed(body, empty, level, top)
        /\ top.curStart \in Nat /\ top.curEnd \in Nat
        /\ stack \in Seq(Frame) /\ Len(stack) \in Nat \ {0} /\ top = stack[Len(stack)]
    BY TopOnceFacts
  <1>2. Began(top) \in Nat /\ Began(top) <= top.curStart
    BY <1>1, BeganBefore
  <1>3. ASSUME NEW m, NEW n \in Nat, Terminal(m, n), pc = "enter",
               n = 0 => Skips(body, empty, exp)
        PROVE  OnceInv(body, parts, empty, level)'
    <2>1. exp = Operand(body, top) /\ exp \in parts
      BY <1>3, TopOnceFacts DEF OnceInv, AtHand
    <2>2. n = 0 => Operand(body, top) \in empty
      BY <1>3, <2>1 DEF Fits, Descends
    <2>3. pc' = "leave" /\ UNCHANGED <<memo, status>> /\ (res' <=> m)
      BY <1>3 DEF Terminal, Leave
    <2>4. CASE m
      <3> DEFINE p == top.curStart + n
                 g == [top EXCEPT !.curStart = p, !.curEnd = p]
      <3>1. stack' = WithTop(g)
        BY <1>3, <2>4 DEF Terminal
      <3>2. /\ g \in Frame /\ g.rule = top.rule /\ g.start = top.start /\ g.ctl = top.ctl
            /\ g.curStart = top.curStart + n
        <4>1. p \in Nat
          BY <1>1, <1>3
        <4> HIDE DEF p
        <4>2. /\ g \in Frame /\ g.rule = top.rule /\ g.start = top.start /\ g.ctl = top.ctl
              /\ g.curStart = p
          BY <1>1, <4>1 DEF Frame
        <4> QED
          BY <4>2 DEF p
      <3> HIDE DEF g
      <3>3. top.curStart <= g.curStart
        BY <1>1, <3>2
      <3>4. /\ Traced(body, parts, g) /\ Timed(body, empty, level, g)
            /\ Operand(body, g) = Operand(body, top) /\ Began(g) = Began(top)
        BY <1>1, <3>2, <3>3, AheadOnce
      <3>5. g.curStart = Began(g) => n = 0
        BY <1>1, <1>2, <3>2, <3>4
      <3> QED
        BY <2>2, <2>3, <3>1, <3>2, <3>4, <3>5, TopOnce
    <2>5. CASE ~m
      <3>1. stack' = WithTop(top)
        BY <1>1, <1>3, <2>5 DEF Terminal, WithTop
      <3> QED
        BY <1>1, <2>3, <2>5, <3>1, TopOnce
    <2> QED
      BY <2>4, <2>5
  <1>4. ASSUME MatchString PROVE OnceInv(body, parts, empty, level)'
    <2>1. exp.op = "S" /\ exp.str \in Seq(Char) /\ pc = "enter"
      BY <1>4, ErrorsType, Operands DEF MatchString, Entering
    <2>2. Len(exp.str) \in Nat /\ (Len(exp.str) = 0 => Skips(body, empty, exp))
      BY <2>1 DEF Skips
    <2> QED
      BY <1>3, <1>4, <2>1, <2>2 DEF MatchString
  <1> QED
    BY <1>3, <1>4 DEF Match, MatchClass, MatchDot, Entering

LEMMA CallMemoizedOnce ==
  ASSUME BasicInv, Running, NEW body, NEW parts, NEW empty, NEW level,
         Fits(body, parts, empty, level), OnceInv(body, parts, empty, level), CallMemoized
  PROVE  OnceInv(body, parts, empty, level)'
  <1> DEFINE func == exp.func
             rec  == MemoRecord(func, top.curStart)
             node == Node(func, rec.start, rec.end)
  <1>1. /\ top \in Frame /\ PositionsOf(top)
        /\ Traced(body, parts, top) /\ Timed(body, empty, level, top)
        /\ top.curStart \in Nat
    BY TopOnceFacts
  <1>2. /\ func \in Rule /\ is_memoized(func, top.curStart) /\ TypeOK
        /\ exp.op = "T" /\ pc = "enter"
    BY ErrorsType, Operands DEF CallMemoized, Entering, BasicInv
  <1>3. exp = Operand(body, top) /\ exp \in parts
    BY <1>2, TopOnceFacts DEF OnceInv, AtHand
  <1>4. body[func] \in empty => Operand(body, top) \in empty
    BY <1>2, <1>3 DEF Fits, Descends, Skips
  <1>5. /\ stack' = WithTop(IF rec.ok THEN AddChild(top, node)
                            ELSE [top EXCEPT !.curEnd = rec.end])
        /\ res' = rec.ok /\ pc' = "leave" /\ UNCHANGED <<memo, status>>
    BY DEF CallMemoized, Leave
  <1> HIDE DEF func
  <1>6. PICK i \in 1..Len(memo[func]) : rec = memo[func][i] /\ rec.start = top.curStart
    BY <1>1, <1>2, MemoRecordFound
  <1> HIDE DEF rec
  <1>7. rec \in Record /\ rec.start <= rec.end
    BY <1>2, <1>6 DEF TypeOK, BasicInv, MemoInText
  <1>8. rec.start \in Nat /\ rec.end \in Nat
    BY <1>7 DEF Record
  <1>9. rec.ok /\ rec.start = rec.end => Operand(body, top) \in empty
    BY <1>2, <1>4, <1>6 DEF OnceInv, RecordsSkip
  <1>10. CASE rec.ok
    <2>1. node \in Span /\ node.end = rec.end
      BY <1>2, <1>8 DEF Node, Span
    <2> DEFINE g == AddChild(top, node)
    <2> HIDE DEF node
    <2>2. /\ g \in Frame /\ g.rule = top.rule /\ g.start = top.start /\ g.ctl = top.ctl
          /\ g.curStart = rec.end
      BY <1>1, <2>1, Added
    <2>3. stack' = WithTop(g)
      BY <1>5, <1>10
    <2> HIDE DEF g
    <2>4. top.curStart <= g.curStart
      BY <1>6, <1>7, <2>2
    <2>5. /\ Traced(body, parts, g) /\ Timed(body, empty, level, g)
          /\ Operand(body, g) = Operand(body, top) /\ Began(g) = Began(top)
      BY <1>1, <2>2, <2>4, AheadOnce
    <2>6. g.curStart = Began(g) => rec.start = rec.end
      BY <1>1, <1>6, <1>7, <1>8, <2>2, <2>5, BeganBefore
    <2> QED
      BY <1>5, <1>9, <1>10, <2>2, <2>3, <2>5, <2>6, TopOnce
  <1>11. CASE ~rec.ok
    <2> DEFINE g == [top EXCEPT !.curEnd = rec.end]
    <2>1. /\ g \in Frame /\ g.rule = top.rule /\ g.start = top.start /\ g.ctl = top.ctl
          /\ g.curStart = top.curStart
      BY <1>1, <1>8 DEF Frame
    <2>2. stack' = WithTop(g)
      BY <1>5, <1>11
    <2> HIDE DEF g
    <2>3. top.curStart <= g.curStart
      BY <1>1, <2>1
    <2>4. Traced(body, parts, g) /\ Timed(body, empty, level, g)
      BY <1>1, <2>1, <2>3, AheadOnce
    <2> QED
      BY <1>5, <1>11, <2>1, <2>2, <2>4, TopOnce
  <1> QED
    BY <1>10, <1>11

LEMMA CallFunctionOnce ==
  ASSUME BasicInv, Running, NEW body, NEW parts, NEW empty, NEW level,
         Fits(body, parts, empty, level), OnceInv(body, parts, empty, level), CallFunction
  PROVE  OnceInv(body, parts, empty, level)'
  <1> DEFINE f == Activation(exp.func, top.curStart)
             n == Len(stack)
  <1>1. /\ top \in Frame /\ top.curStart \in Nat /\ top.start \in Nat
        /\ top.start <= top.curStart /\ top.rule \in Rule
        /\ stack \in Seq(Frame) /\ n \in Nat \ {0} /\ top = stack[n]
        /\ \A r \in Rule : body[r] \in parts /\ level[body[r]] \in Nat
        /\ \A e \in parts : level[e] \in Nat
    BY TopOnceFacts
  <1>2. /\ exp.op = "T" /\ pc = "enter" /\ exp.func \in Rule
        /\ ~is_memoized(exp.func, top.curStart)
        /\ stack' = Append(stack, f) /\ pc' = "enter" /\ exp' = body[exp.func]
        /\ UNCHANGED <<memo, status>>
    BY ErrorsType, Operands DEF CallFunction, Entering, Enter, Fits
  <1>3. /\ exp = Operand(body, top) /\ exp \in parts
        /\ top.curStart = top.start => level[exp] <= level[body[top.rule]]
    BY <1>2, TopOnceFacts DEF OnceInv, AtHand
  <1>4. level[body[exp.func]] < level[exp]
    BY <1>1, <1>2, <1>3 DEF Fits, Descends, RunsFirst
  <1>5. /\ f \in Frame /\ f.rule = exp.func /\ f.start = top.curStart
        /\ f.curStart = top.curStart /\ f.ctl = <<>>
    BY <1>1, <1>2 DEF Activation, Frame
  <1> HIDE DEF f
  <1>6. /\ Traced(body, parts, f) /\ Timed(body, empty, level, f)
        /\ Operand(body, f) = body[exp.func]
    BY <1>5 DEF Traced, Timed, Operand
  <1>7. /\ Len(stack') = n + 1 /\ stack'[n + 1] = f
        /\ \A k \in 1..n : stack'[k] = stack[k]
    BY <1>1, <1>2, <1>5, AddLast
  <1>8. top' = f
    BY <1>1, <1>7 DEF top
  <1>9. /\ \A k \in 1..(n + 1) : k = n + 1 \/ k \in 1..n
        /\ \A k \in 1..n : \A j \in 1..(k - 1) : j \in 1..n
        /\ \A j \in 1..((n + 1) - 1) : j = n \/ j \in 1..(n - 1)
        /\ \A j \in 1..(n - 1) : j \in 1..n
        /\ n \in 1..n
    BY <1>1
  <1>10. \A k \in 1..n : /\ stack[k].rule \in Rule /\ stack[k].start \in Nat
                         /\ level[body[stack[k].rule]] \in Nat
    <2>1. ASSUME NEW k \in 1..n PROVE stack[k].rule \in Rule /\ stack[k].start \in Nat
      <3>1. stack[k] \in Frame
        BY <1>1
      <3> QED
        BY <3>1 DEF Frame
    <2> QED
      BY <1>1, <2>1
  <1> HIDE DEF n
  <1>11. FramesOnce(body, parts, empty, level)'
    BY <1>6, <1>7, <1>9 DEF OnceInv, FramesOnce, n
  <1>12. Waiting(body)'
    <2>1. /\ \A k \in 1..((n + 1) - 1) : k \in 1..n
          /\ \A k \in 1..n : k # n => k \in 1..(n - 1) /\ k + 1 \in 1..n
      BY <1>1
    <2>2. ASSUME NEW k \in 1..((n + 1) - 1)
          PROVE  /\ Operand(body, stack'[k]).op = "T"
                 /\ Operand(body, stack'[k]).func = stack'[k + 1].rule
      <3>1. CASE k = n
        BY <1>1, <1>2, <1>3, <1>5, <1>7, <2>1, <3>1
      <3>2. CASE k # n
        <4>1. /\ k \in 1..(n - 1) /\ stack'[k] = stack[k] /\ stack'[k + 1] = stack[k + 1]
          BY <1>7, <2>1, <3>2
        <4> QED
          BY <4>1 DEF OnceInv, Waiting, n
      <3> QED
        BY <3>1, <3>2
    <2> QED
      BY <1>7, <2>2 DEF Waiting
  <1>13. Falling(body, level)'
    <2>1. ASSUME NEW j \in 1..n
          PROVE  /\ stack[j].start <= f.start
                 /\ stack[j].start = f.start => level[body[f.rule]] < level[body[stack[j].rule]]
      <3> DEFINE lj == level[body[stack[j].rule]]
                 ln == level[body[top.rule]]
                 le == level[exp]
                 lf == level[body[f.rule]]
      <3>1. /\ lj \in Nat /\ ln \in Nat /\ le \in Nat /\ lf \in Nat /\ lf < le
            /\ top.curStart = top.start => le <= ln
        BY <1>1, <1>2, <1>3, <1>4, <1>5, <1>10
      <3>2. CASE j = n
        <4>1. stack[j] = top /\ lj = ln
          BY <1>1, <3>2
        <4> HIDE DEF lj, ln, le, lf
        <4>2. /\ stack[j].start <= f.start
              /\ stack[j].start = f.start => lf < lj
          BY <1>1, <1>5, <3>1, <4>1
        <4> QED
          BY <4>2 DEF lj, lf
      <3>3. CASE j # n
        <4>1. j \in 1..(n - 1)
          BY <1>1, <3>3
        <4>2. stack[j].start <= top.start /\ (stack[j].start = top.start => ln < lj)
          BY <1>1, <1>9, <4>1 DEF OnceInv, Falling, n
        <4>3. stack[j].start \in Nat
          BY <1>10
        <4> HIDE DEF lj, ln, le, lf
        <4>4. /\ stack[j].start <= f.start
              /\ stack[j].start = f.start => lf < lj
          BY <1>1, <1>5, <3>1, <4>2, <4>3
        <4> QED
          BY <4>4 DEF lj, lf
      <3> QED
        BY <3>2, <3>3
    <2>2. ASSUME NEW k \in 1..(n + 1), NEW j \in 1..(k - 1)
          PROVE  /\ stack'[j].start <= stack'[k].start
                 /\ stack'[j].start = stack'[k].start =>
                      level[body[stack'[k].rule]] < level[body[stack'[j].rule]]
      <3>1. CASE k = n + 1
        <4>1. j \in 1..n
          BY <1>9, <3>1
        <4> QED
          BY <1>7, <2>1, <3>1, <4>1
      <3>2. CASE k \in 1..n
        <4>1. j \in 1..n
          BY <1>9, <3>2
        <4> QED
          BY <1>7, <3>2, <4>1 DEF OnceInv, Falling, n
      <3> QED
        BY <1>9, <3>1, <3>2
    <2> QED
      BY <1>7, <2>2 DEF Falling
  <1>14. Fresh'
    <2>1. ASSUME NEW k \in 1..(n + 1), NEW i \in 1..Len(memo[stack'[k].rule])
          PROVE  memo[stack'[k].rule][i].start # stack'[k].start
      <3>1. CASE k = n + 1
        BY <1>2, <1>5, <1>7, <3>1 DEF is_memoized
      <3>2. CASE k \in 1..n
        BY <1>7, <3>2 DEF OnceInv, Fresh, n
      <3> QED
        BY <1>9, <3>1, <3>2
    <2> QED
      BY <1>2, <1>7, <2>1 DEF Fresh
  <1>15. RecordsSkip(body, empty)' /\ EvaluatedOnce'
    BY <1>2 DEF OnceInv, RecordsSkip, EvaluatedOnce
  <1>16. AtHand(body, empty, level)'
    <2>1. level[body[exp.func]] <= level[body[exp.func]]
      BY <1>1, <1>2
    <2> QED
      BY <1>2, <1>5, <1>6, <1>8, <2>1 DEF AtHand
  <1> QED
    BY <1>11, <1>12, <1>13, <1>14, <1>15, <1>16 DEF OnceInv

LEMMA ExhaustOnce ==
  ASSUME NEW body, NEW parts, NEW empty, NEW level,
         OnceInv(body, parts, empty, level), Exhaust
  PROVE  OnceInv(body, parts, empty, level)'
  <1>1. ~Running' /\ UNCHANGED <<stack, memo>>
    BY DEF Exhaust, Running
  <1> QED
    BY <1>1 DEF OnceInv, FramesOnce, Waiting, Falling, Fresh, RecordsSkip, EvaluatedOnce, AtHand

-----------------------------------------------------------------------------
(* A memo map with one more record has the old ones and that one. *)
LEMMA Recorded ==
  ASSUME NEW m \in [Rule -> Seq(Record)], NEW type \in Rule, NEW rec \in Record,
         NEW w, w = WithRecord(m, type, rec),
         NEW t \in Rule, NEW i \in 1..Len(w[t])
  PROVE  \/ t = type /\ i = Len(m[type]) + 1 /\ w[t][i] = rec
         \/ i \in 1..Len(m[t]) /\ w[t][i] = m[t][i]
  <1> DEFINE c == Append(m[type], rec)
             n == Len(m[type])
  <1>1. m[type] \in Seq(Record) /\ n \in Nat
    OBVIOUS
  <1>2. c \in Seq(Record) /\ Len(c) = n + 1 /\ c[n + 1] = rec /\ \A k \in 1..n : c[k] = m[type][k]
    BY <1>1, AddLast
  <1>3. /\ w[type] = c
        /\ t # type => w[t] = m[t]
    BY DEF WithRecord
  <1> HIDE DEF c
  <1>4. \A k \in 1..(n + 1) : k = n + 1 \/ k \in 1..n
    BY <1>1
  <1> QED
    BY <1>2, <1>3, <1>4

(* The record that the running function leaves behind is the first of its  *)
(* kind, and no caller is waiting for it.                                  *)
LEMMA RecordOnce ==
  ASSUME BasicInv, Running, NEW body, NEW parts, NEW empty, NEW level,
         Fits(body, parts, empty, level), OnceInv(body, parts, empty, level),
         NEW rec \in Record, memo' = WithRecord(memo, top.rule, rec), rec.start = top.start,
         rec.ok /\ rec.start = rec.end => body[top.rule] \in empty
  PROVE  /\ RecordsSkip(body, empty)' /\ EvaluatedOnce'
         /\ \A k \in 1..(Len(stack) - 1) : \A i \in 1..Len(memo'[stack[k].rule]) :
              memo'[stack[k].rule][i].start # stack[k].start
  <1>1. /\ stack \in Seq(Frame) /\ Len(stack) \in Nat \ {0} /\ top = stack[Len(stack)]
        /\ top.rule \in Rule /\ memo \in [Rule -> Seq(Record)]
        /\ \A r \in Rule : level[body[r]] \in Nat
    BY TopOnceFacts DEF BasicInv, TypeOK
  <1>2. \A t \in Rule : \A i \in 1..Len(memo'[t]) :
           \/ t = top.rule /\ i = Len(memo[top.rule]) + 1 /\ memo'[t][i] = rec
           \/ i \in 1..Len(memo[t]) /\ memo'[t][i] = memo[t][i]
    <2> DEFINE w == memo'
               type == top.rule
    <2>1. w = WithRecord(memo, type, rec) /\ type \in Rule /\ memo \in [Rule -> Seq(Record)]
      BY <1>1
    <2> HIDE DEF w, type
    <2>2. ASSUME NEW t \in Rule, NEW i \in 1..Len(w[t])
          PROVE  \/ t = type /\ i = Len(memo[type]) + 1 /\ w[t][i] = rec
                 \/ i \in 1..Len(memo[t]) /\ w[t][i] = memo[t][i]
      BY ONLY <2>1, rec \in Record, Recorded
    <2> QED
      BY <2>2 DEF w, type
  <1>3. RecordsSkip(body, empty)'
    <2>1. ASSUME NEW t \in Rule, NEW i \in 1..Len(memo'[t]),
                 memo'[t][i].ok, memo'[t][i].start = memo'[t][i].end
          PROVE  body[t] \in empty
      BY <1>2, <2>1 DEF OnceInv, RecordsSkip
    <2> QED
      BY <2>1 DEF RecordsSkip
  <1>4. \A i \in 1..Len(memo[top.rule]) : memo[top.rule][i].start # top.start
    <2>1. Len(stack) \in 1..Len(stack)
      BY <1>1
    <2> QED
      BY <1>1, <2>1 DEF OnceInv, Fresh
  <1>5. EvaluatedOnce'
    <2>1. ASSUME NEW t \in Rule, NEW i \in 1..Len(memo'[t]), NEW j \in 1..Len(memo'[t]),
                 memo'[t][i].start = memo'[t][j].start
          PROVE  i = j
      <3>1. CASE i \in 1..Len(memo[t]) /\ memo'[t][i] = memo[t][i]
        <4>1. CASE j \in 1..Len(memo[t]) /\ memo'[t][j] = memo[t][j]
          BY <2>1, <3>1, <4>1 DEF OnceInv, EvaluatedOnce
        <4>2. CASE t = top.rule /\ memo'[t][j] = rec
          BY <1>4, <2>1, <3>1, <4>2
        <4> QED
          BY <1>2, <4>1, <4>2
      <3>2. CASE t = top.rule /\ i = Len(memo[top.rule]) + 1 /\ memo'[t][i] = rec
        <4>1. CASE j \in 1..Len(memo[t]) /\ memo'[t][j] = memo[t][j]
          BY <1>4, <2>1, <3>2, <4>1
        <4>2. CASE j = Len(memo[top.rule]) + 1
          BY <3>2, <4>2
        <4> QED
          BY <1>2, <4>1, <4>2
      <3> QED
        BY <1>2, <3>1, <3>2
    <2> QED
      BY <2>1 DEF EvaluatedOnce
  <1>6. ASSUME NEW k \in 1..(Len(stack) - 1), NEW i \in 1..Len(memo'[stack[k].rule])
        PROVE  memo'[stack[k].rule][i].start # stack[k].start
    <2>1. k \in 1..Len(stack) /\ k \in 1..(Len(stack) - 1) /\ Len(stack) \in 1..Len(stack)
      BY <1>1
    <2>2. stack[k].rule \in Rule
      <3>1. stack[k] \in Frame
        BY <1>1, <2>1
      <3> QED
        BY <3>1 DEF Frame
    <2>3. stack[k].start = top.start => level[body[top.rule]] < level[body[stack[k].rule]]
      BY <1>1, <2>1 DEF OnceInv, Falling
    <2>4. ~(stack[k].start = top.start /\ stack[k].rule = top.rule)
      <3>1. level[body[top.rule]] \in Nat
        BY <1>1
      <3> QED
        BY <2>3, <3>1
    <2>5. CASE stack[k].rule = top.rule /\ memo'[stack[k].rule][i] = rec
      BY <2>4, <2>5
    <2>6. CASE /\ i \in 1..Len(memo[stack[k].rule])
               /\ memo'[stack[k].rule][i] = memo[stack[k].rule][i]
      BY <2>1, <2>6 DEF OnceInv, Fresh
    <2> QED
      BY <1>2, <2>2, <2>5, <2>6
  <1> QED
    BY <1>3, <1>5, <1>6

(* A return to the caller, which is f now. *)
LEMMA ReturnOnce ==
  ASSUME BasicInv, Running, NEW body, NEW parts, NEW empty, NEW level,
         Fits(body, parts, empty, level), OnceInv(body, parts, empty, level),
         Len(stack) > 1,
         NEW f \in Frame, f.rule = caller.rule, f.start = caller.start,
         Traced(body, parts, f), Timed(body, empty, level, f),
         stack' = ReturnTo(f), pc' = "leave",
         NEW rec \in Record, memo' = WithRecord(memo, top.rule, rec), rec.start = top.start,
         rec.ok /\ rec.start = rec.end => body[top.rule] \in empty,
         res' /\ f.curStart = Began(f) => Operand(body, f) \in empty
  PROVE  OnceInv(body, parts, empty, level)'
  <1> DEFINE n == Len(stack) - 1
             below == SubSeq(stack, 1, n)
  <1>1. stack \in Seq(Frame)
    BY TopOnceFacts
  <1>2. /\ n \in Nat \ {0} /\ n <= Len(stack) /\ Len(stack) = n + 1
        /\ below \in Seq(Frame) /\ Len(below) = n /\ below # <<>>
        /\ \A k \in 1..n : below[k] = stack[k]
    BY <1>1, AllButLast
  <1>3. stack' = [below EXCEPT ![Len(below)] = f]
    BY <1>2 DEF ReturnTo
  <1> HIDE DEF below
  <1>4. /\ Len(stack') = n /\ stack'[n] = f
        /\ \A k \in 1..n : k # n => stack'[k] = stack[k]
    <2> DEFINE t == [below EXCEPT ![Len(below)] = f]
    <2>1. below \in Seq(Frame) /\ below # <<>> /\ f \in Frame
      BY <1>2
    <2>2. /\ Len(t) = Len(below) /\ t[Len(below)] = f
          /\ \A k \in 1..Len(below) : k # Len(below) => t[k] = below[k]
      BY ONLY <2>1, ReplaceLast
    <2>3. stack' = t
      BY <1>3
    <2> HIDE DEF t
    <2> QED
      BY <1>2, <2>2, <2>3
  <1>5. caller = stack[n]
    BY DEF caller
  <1>6. /\ \A k \in 1..n : stack'[k].rule = stack[k].rule /\ stack'[k].start = stack[k].start
        /\ \A k \in 1..n : k \in 1..Len(stack) /\ k \in 1..(Len(stack) - 1)
        /\ \A k \in 1..n : \A j \in 1..(k - 1) : j \in 1..n
        /\ \A k \in 1..(n - 1) : /\ k \in 1..n /\ k + 1 \in 1..n /\ k # n
                                /\ k \in 1..(Len(stack) - 1)
    <2>1. \A k \in 1..n : stack'[k].rule = stack[k].rule /\ stack'[k].start = stack[k].start
      BY <1>4, <1>5
    <2> DEFINE len == Len(stack)
    <2>2. n \in Nat \ {0} /\ len = n + 1
      BY <1>2
    <2> HIDE DEF n, len
    <2>3. /\ \A k \in 1..n : k \in 1..len /\ k \in 1..(len - 1)
          /\ \A k \in 1..n : \A j \in 1..(k - 1) : j \in 1..n
          /\ \A k \in 1..(n - 1) : k \in 1..n /\ k + 1 \in 1..n /\ k # n /\ k \in 1..(len - 1)
      BY ONLY <2>2
    <2> QED
      BY <2>1, <2>3 DEF len
  <1> HIDE DEF n
  <1>7. top' = f
    BY <1>4 DEF top
  <1>8. FramesOnce(body, parts, empty, level)'
    <2>1. ASSUME NEW k \in 1..n
          PROVE  Traced(body, parts, stack'[k]) /\ Timed(body, empty, level, stack'[k])
      <3>1. CASE k = n
        BY <1>4, <3>1
      <3>2. CASE k # n
        BY <1>4, <1>6, <3>2 DEF OnceInv, FramesOnce
      <3> QED
        BY <3>1, <3>2
    <2> QED
      BY <1>4, <2>1 DEF FramesOnce
  <1>9. Waiting(body)'
    <2>1. ASSUME NEW k \in 1..(n - 1)
          PROVE  /\ Operand(body, stack'[k]).op = "T"
                 /\ Operand(body, stack'[k]).func = stack'[k + 1].rule
      <3>1. stack'[k] = stack[k] /\ stack'[k + 1].rule = stack[k + 1].rule
        BY <1>4, <1>6
      <3> QED
        BY <1>6, <3>1 DEF OnceInv, Waiting
    <2> QED
      BY <1>4, <2>1 DEF Waiting
  <1>10. Falling(body, level)'
    <2>1. ASSUME NEW k \in 1..n, NEW j \in 1..(k - 1)
          PROVE  /\ stack'[j].start <= stack'[k].start
                 /\ stack'[j].start = stack'[k].start =>
                      level[body[stack'[k].rule]] < level[body[stack'[j].rule]]
      <3>1. k \in 1..Len(stack) /\ j \in 1..n
        BY <1>6
      <3> QED
        BY <1>6, <3>1 DEF OnceInv, Falling
    <2> QED
      BY <1>4, <2>1 DEF Falling
  <1>11. /\ RecordsSkip(body, empty)' /\ EvaluatedOnce'
         /\ \A k \in 1..(Len(stack) - 1) : \A i \in 1..Len(memo'[stack[k].rule]) :
              memo'[stack[k].rule][i].start # stack[k].start
    BY ONLY BasicInv, Running, Fits(body, parts, empty, level),
            OnceInv(body, parts, empty, level), rec \in Record,
            memo' = WithRecord(memo, top.rule, rec), rec.start = top.start,
            rec.ok /\ rec.start = rec.end => body[top.rule] \in empty, RecordOnce
  <1>12. Fresh'
    <2>1. ASSUME NEW k \in 1..n, NEW i \in 1..Len(memo'[stack'[k].rule])
          PROVE  memo'[stack'[k].rule][i].start # stack'[k].start
      BY <1>6, <1>11
    <2> QED
      BY <1>4, <2>1 DEF Fresh
  <1>13. AtHand(body, empty, level)'
    BY <1>7 DEF AtHand
  <1> QED
    BY <1>8, <1>9, <1>10, <1>11, <1>12, <1>13 DEF OnceInv

(* The caller, on return. *)
LEMMA CallerOnce ==
  ASSUME BasicInv, Running, NEW body, NEW parts, NEW empty, NEW level,
         Fits(body, parts, empty, level), OnceInv(body, parts, empty, level),
         Len(stack) > 1
  PROVE  /\ caller \in Frame /\ PositionsOf(caller)
         /\ Traced(body, parts, caller) /\ Timed(body, empty, level, caller)
         /\ caller.curStart = top.start /\ caller.curStart \in Nat
         /\ body[top.rule] \in empty => Operand(body, caller) \in empty
  <1> DEFINE n == Len(stack) - 1
  <1>1. n \in 1..(Len(stack) - 1) /\ n \in 1..Len(stack) /\ n + 1 = Len(stack)
    BY TopOnceFacts
  <1>2. caller = stack[n] /\ top = stack[n + 1]
    BY <1>1 DEF caller, top
  <1> HIDE DEF n
  <1>3. caller \in Frame /\ PositionsOf(caller) /\ caller.curStart = top.start
    BY ReturnFacts DEF Good
  <1>4. Traced(body, parts, caller) /\ Timed(body, empty, level, caller)
    BY <1>1, <1>2 DEF OnceInv, FramesOnce
  <1>5. Operand(body, caller).op = "T" /\ Operand(body, caller).func = top.rule
    BY <1>1, <1>2 DEF OnceInv, Waiting
  <1>6. Operand(body, caller) \in parts
    BY <1>3, <1>4, OperandIn DEF Fits, Descends
  <1>7. body[top.rule] \in empty => Operand(body, caller) \in empty
    BY <1>5, <1>6 DEF Fits, Descends, Skips
  <1> QED
    BY <1>3, <1>4, <1>7, TopOnceFacts

LEMMA SucceedOnce ==
  ASSUME BasicInv, Running, NEW body, NEW parts, NEW empty, NEW level,
         Fits(body, parts, empty, level), OnceInv(body, parts, empty, level), Succeed
  PROVE  OnceInv(body, parts, empty, level)'
  <1> DEFINE node == Node(top.rule, top.start, top.curEnd)
             rec  == [start |-> top.start, end |-> top.curEnd, ok |-> TRUE,
                      children |-> top.children]
  <1>1. /\ pc = "leave" /\ res /\ top.ctl = <<>> /\ pc' = "leave"
        /\ memo' = WithRecord(memo, top.rule, rec)
    BY DEF Succeed, Returning, Leave, memoize, WithRecord
  <1>2. rec \in Record /\ rec.start = top.start /\ rec.end = top.curEnd
    BY ReturnFacts DEF Record
  <1>3. node \in Span /\ node.end = top.curEnd
    BY ReturnFacts DEF Node, Span
  <1>4. /\ top.start \in Nat /\ top.curStart \in Nat /\ top.curEnd \in Nat
        /\ top.start <= top.curStart /\ top.curStart <= top.curEnd
    BY TopOnceFacts
  <1>5. ASSUME top.curEnd = top.start PROVE body[top.rule] \in empty
    <2>1. top.curStart = top.start
      BY <1>4, <1>5
    <2> QED
      BY <1>1, <2>1 DEF OnceInv, AtHand, Began, Operand
  <1>6. rec.ok /\ rec.start = rec.end => body[top.rule] \in empty
    BY <1>2, <1>5
  <1> HIDE DEF rec
  <1>7. CASE Len(stack) > 1
    <2> DEFINE g == AddChild(caller, node)
    <2>1. stack' = ReturnTo(g)
      BY <1>7 DEF Succeed
    <2>2. /\ caller \in Frame /\ PositionsOf(caller)
          /\ Traced(body, parts, caller) /\ Timed(body, empty, level, caller)
          /\ caller.curStart = top.start
          /\ body[top.rule] \in empty => Operand(body, caller) \in empty
      BY <1>7, CallerOnce
    <2> HIDE DEF node
    <2>3. /\ g \in Frame /\ g.rule = caller.rule /\ g.start = caller.start
          /\ g.ctl = caller.ctl /\ g.curStart = top.curEnd
      BY <1>3, <2>2, Added
    <2> HIDE DEF g
    <2>4. caller.curStart <= g.curStart
      BY <1>4, <2>2, <2>3
    <2>5. /\ Traced(body, parts, g) /\ Timed(body, empty, level, g)
          /\ Operand(body, g) = Operand(body, caller) /\ Began(g) = Began(caller)
      BY <2>2, <2>3, <2>4, AheadOnce
    <2>6. g.curStart = Began(g) => Operand(body, g) \in empty
      <3>1. Began(caller) \in Nat /\ Began(caller) <= top.start
        BY <2>2, BeganBefore
      <3>2. g.curStart = Began(g) => top.curEnd = top.start
        BY <1>4, <2>3, <2>5, <3>1
      <3> QED
        BY <1>5, <2>2, <2>5, <3>2
    <2> QED
      BY <1>1, <1>2, <1>6, <1>7, <2>1, <2>3, <2>5, <2>6, ReturnOnce
  <1>8. CASE ~(Len(stack) > 1)
    <2>1. stack' = <<>> /\ ~Running'
      BY <1>8 DEF Succeed, Running
    <2>2. RecordsSkip(body, empty)' /\ EvaluatedOnce'
      BY <1>1, <1>2, <1>6, RecordOnce
    <2> QED
      BY <2>1, <2>2 DEF OnceInv, FramesOnce, Waiting, Falling, Fresh, AtHand
  <1> QED
    BY <1>7, <1>8

LEMMA FailOnce ==
  ASSUME BasicInv, Running, NEW body, NEW parts, NEW empty, NEW level,
         Fits(body, parts, empty, level), OnceInv(body, parts, empty, level), Fail
  PROVE  OnceInv(body, parts, empty, level)'
  <1> DEFINE rec == [start |-> top.start, end |-> top.start, ok |-> FALSE,
                     children |-> <<>>]
  <1>1. /\ pc' = "leave" /\ ~res'
        /\ memo' = WithRecord(memo, top.rule, rec)
    BY DEF Fail, Returning, Leave, memoize, WithRecord
  <1>2. rec \in Record /\ rec.start = top.start /\ ~rec.ok
    BY ReturnFacts DEF Record
  <1> HIDE DEF rec
  <1>3. CASE Len(stack) > 1
    <2>1. stack' = ReturnTo(caller)
      BY <1>3 DEF Fail
    <2>2. /\ caller \in Frame
          /\ Traced(body, parts, caller) /\ Timed(body, empty, level, caller)
      BY <1>3, CallerOnce
    <2> QED
      BY <1>1, <1>2, <1>3, <2>1, <2>2, ReturnOnce
  <1>4. CASE ~(Len(stack) > 1)
    <2>1. stack' = <<>> /\ ~Running'
      BY <1>4 DEF Fail, Running
    <2>2. RecordsSkip(body, empty)' /\ EvaluatedOnce'
      BY <1>1, <1>2, RecordOnce
    <2> QED
      BY <2>1, <2>2 DEF OnceInv, FramesOnce, Waiting, Falling, Fresh, AtHand
  <1> QED
    BY <1>3, <1>4

-----------------------------------------------------------------------------
LEMMA OnceInit ==
  ASSUME Init, NEW body, NEW parts, NEW empty, NEW level, Fits(body, parts, empty, level)
  PROVE  OnceInv(body, parts, empty, level)
  <1> DEFINE f == Activation(grammar.start, 0)
  <1>1. /\ stack = <<f>> /\ exp = grammar.body[grammar.start] /\ pc = "enter"
        /\ memo = [type \in Rule |-> <<>>] /\ grammar.start \in Rule
    BY GrammarAssumption DEF Init
  <1>2. f.ctl = <<>> /\ f.rule = grammar.start /\ f.start = 0
    BY DEF Activation
  <1> HIDE DEF f
  <1>3. Len(stack) = 1 /\ stack[1] = f /\ top = f
    BY <1>1 DEF top
  <1>4. /\ Traced(body, parts, f) /\ Timed(body, empty, level, f)
        /\ Operand(body, f) = body[f.rule]
    BY <1>2 DEF Traced, Timed, Operand
  <1>5. \A type \in Rule : Len(memo[type]) = 0
    BY <1>1
  <1>6. FramesOnce(body, parts, empty, level) /\ Waiting(body) /\ Falling(body, level)
    BY <1>3, <1>4 DEF FramesOnce, Waiting, Falling
  <1>7. Fresh /\ RecordsSkip(body, empty) /\ EvaluatedOnce
    BY <1>1, <1>2, <1>3, <1>5 DEF Fresh, RecordsSkip, EvaluatedOnce
  <1>8. AtHand(body, empty, level)
    <2>1. level[body[f.rule]] \in Nat
      BY <1>1, <1>2 DEF Fits, Descends, MadeOf
    <2> QED
      BY <1>1, <1>2, <1>3, <1>4, <2>1 DEF AtHand, Fits
  <1> QED
    BY <1>6, <1>7, <1>8 DEF OnceInv

LEMMA OnceNext ==
  ASSUME BasicInv, [Next]_vars, NEW body, NEW parts, NEW empty, NEW level,
         Fits(body, parts, empty, level), OnceInv(body, parts, empty, level)
  PROVE  OnceInv(body, parts, empty, level)'
  <1>1. ASSUME UNCHANGED vars PROVE OnceInv(body, parts, empty, level)'
    BY <1>1 DEF vars, OnceInv, FramesOnce, Waiting, Falling, Fresh, RecordsSkip, EvaluatedOnce,
                AtHand, Running, top
  <1>2. ASSUME Macro PROVE OnceInv(body, parts, empty, level)'
    <2>1. Running
      BY <1>2 DEF Macro, EnterMacro, SeqRight, SeqEnd, DisjRight, DisjEnd, StarAgain,
                  StarEnd, PlusAgain, PlusEnd, QuesEnd, BangEnd, HideEnd, AmpEnd, Leaving
    <2> QED
      BY <1>2, <2>1, EnterMacroOnce, AgainOnce, EndOnce DEF Macro
  <1>3. ASSUME Match PROVE OnceInv(body, parts, empty, level)'
    <2>1. Running
      BY <1>3 DEF Match, MatchString, MatchClass, MatchDot, Entering
    <2> QED
      BY <1>3, <2>1, MatchOnce
  <1>4. ASSUME Function PROVE OnceInv(body, parts, empty, level)'
    <2>1. Running
      BY <1>4 DEF Function, CallMemoized, CallFunction, Exhaust, Succeed, Fail, Entering,
                  Returning
    <2> QED
      BY <1>4, <2>1, CallMemoizedOnce, CallFunctionOnce, ExhaustOnce, SucceedOnce, FailOnce
      DEF Function
  <1> QED
    BY <1>1, <1>2, <1>3, <1>4 DEF Next, Step, Terminated

LEMMA GrammarFixed == [Next]_vars => grammar' = grammar
  BY DEF Next, Step, Terminated, vars, Macro, Match, Function, EnterMacro, SeqRight, SeqEnd,
         DisjRight, DisjEnd, StarAgain, StarEnd, PlusAgain, PlusEnd, QuesEnd, BangEnd,
         HideEnd, AmpEnd, Continue, Finish, MatchString, MatchClass, MatchDot, Terminal,
         CallMemoized, CallFunction, Exhaust, Succeed, Fail

LEMMA OnceCorrect ==
  Spec => [](NoLeftRecursion(grammar.body) => EvaluatedOnce /\ Fresh)
  <1> DEFINE Inv == \A body, parts, empty, level :
                      Fits(body, parts, empty, level) => OnceInv(body, parts, empty, level)
  <1>1. Init => Inv
    BY OnceInit
  <1>2. BasicInv /\ Inv /\ [Next]_vars => Inv'
    <2> SUFFICES ASSUME BasicInv, Inv, [Next]_vars,
                        NEW body, NEW parts, NEW empty, NEW level,
                        Fits(body, parts, empty, level)'
                 PROVE  OnceInv(body, parts, empty, level)'
      OBVIOUS
    <2>1. grammar' = grammar
      BY GrammarFixed
    <2>2. Fits(body, parts, empty, level)
      BY <2>1 DEF Fits
    <2>3. OnceInv(body, parts, empty, level)
      BY <2>2
    <2> QED
      BY <2>1, <2>2, <2>3, OnceNext
  <1>3. Inv => (NoLeftRecursion(grammar.body) => EvaluatedOnce /\ Fresh)
    <2> SUFFICES ASSUME Inv, NoLeftRecursion(grammar.body) PROVE EvaluatedOnce /\ Fresh
      OBVIOUS
    <2>1. PICK parts, empty \in SUBSET Exp : \E level \in [parts -> Nat] :
            Descends(grammar.body, parts, empty, level)
      BY DEF NoLeftRecursion
    <2>2. PICK level \in [parts -> Nat] : Descends(grammar.body, parts, empty, level)
      BY <2>1
    <2>3. Fits(grammar.body, parts, empty, level)
      BY <2>2 DEF Fits
    <2> QED
      BY <2>3 DEF OnceInv
  <1> QED
    BY <1>1, <1>2, <1>3, BasicCorrect, PTL DEF Spec

(* In a grammar without left recursion every parsing function is finished  *)
(* at most once at each position of the text: the memo map never holds two *)
(* records for the two, whatever has failed, been tried again or been left *)
(* behind by stale positions in between.                                   *)
THEOREM EvaluatedOnceCorrect ==
  Spec => [](NoLeftRecursion(grammar.body) => EvaluatedOnce)
  BY OnceCorrect, PTL

-----------------------------------------------------------------------------
(* Trees.  A function's children lie between its start and its cursor, and *)
(* those a macro found when it was entered lie before the macro's start:   *)
(* so going back to there and dropping the later ones keeps them in order. *)
Placed(f) ==
  /\ InOrder(f.children, f.start, f.curStart)
  /\ \A i \in 1..Len(f.ctl) : \A j \in 1..f.ctl[i].size :
       f.children[j].end <= f.ctl[i].pos

Within(parts, f) == \A i \in 1..Len(f.ctl) : f.ctl[i].exp \in parts

NestInv(parts) ==
  /\ \A k \in 1..Len(stack) : Placed(stack[k]) /\ Within(parts, stack[k])
  /\ Running /\ pc = "enter" => exp \in parts
  /\ TreesNested

(* The grammar's expressions, none of which is AMP. *)
Plain(parts) == MadeOf(grammar.body, parts) /\ \A e \in parts : e.op # "AMP"

-----------------------------------------------------------------------------
LEMMA InOrderFacts ==
  ASSUME NEW ch \in Seq(Span), NEW first \in Nat, NEW last \in Nat,
         InOrder(ch, first, last)
  PROVE  /\ \A i \in 1..Len(ch) : /\ ch[i].begin \in Nat /\ ch[i].end \in Nat
                                 /\ first <= ch[i].begin /\ ch[i].begin <= ch[i].end
                                 /\ ch[i].end <= last
         /\ \A i \in 1..Len(ch) : \A j \in 1..(i - 1) :
              j \in 1..Len(ch) /\ ch[j].end <= ch[i].begin
  <1>1. ASSUME NEW i \in 1..Len(ch) PROVE ch[i].begin \in Nat /\ ch[i].end \in Nat
    <2>1. ch[i] \in Span
      OBVIOUS
    <2> QED
      BY <2>1 DEF Span
  <1>2. \A i \in 1..Len(ch) : \A j \in 1..(i - 1) : j \in 1..Len(ch)
    OBVIOUS
  <1> QED
    BY <1>1, <1>2 DEF InOrder

(* A function that keeps some of its children, the first ones, and some of *)
(* its macros, the outermost ones.                                         *)
LEMMA KeptPlaced ==
  ASSUME NEW f \in Frame, Placed(f),
         NEW g \in Frame, g.start = f.start, Len(g.children) <= Len(f.children),
         \A i \in 1..Len(g.children) : g.children[i] = f.children[i],
         \A i \in 1..Len(g.children) : f.children[i].end <= g.curStart,
         Len(g.ctl) <= Len(f.ctl),
         \A i \in 1..Len(g.ctl) : /\ g.ctl[i].size = f.ctl[i].size
                                /\ g.ctl[i].pos = f.ctl[i].pos
                                /\ f.ctl[i].size \in Nat /\ f.ctl[i].size <= Len(g.children)
  PROVE  Placed(g)
  <1>1. /\ f.children \in Seq(Span) /\ g.children \in Seq(Span)
        /\ Len(f.ctl) \in Nat /\ Len(g.ctl) \in Nat
        /\ f.start \in Nat /\ f.curStart \in Nat
    BY DEF Frame
  <1>2. /\ \A i \in 1..Len(g.children) : i \in 1..Len(f.children)
        /\ \A i \in 1..Len(g.children) : \A j \in 1..(i - 1) : j \in 1..Len(g.children)
        /\ \A i \in 1..Len(g.ctl) : i \in 1..Len(f.ctl)
    BY <1>1
  <1>3. /\ \A i \in 1..Len(f.children) : /\ f.start <= f.children[i].begin
                                       /\ f.children[i].begin <= f.children[i].end
        /\ \A i \in 1..Len(f.children) : \A j \in 1..(i - 1) :
             f.children[j].end <= f.children[i].begin
    BY DEF Placed, InOrder
  <1>4. InOrder(g.children, g.start, g.curStart)
    <2>1. ASSUME NEW i \in 1..Len(g.children)
          PROVE  /\ g.start <= g.children[i].begin
                 /\ g.children[i].begin <= g.children[i].end
                 /\ g.children[i].end <= g.curStart
      BY <1>2, <1>3
    <2>2. ASSUME NEW i \in 1..Len(g.children), NEW j \in 1..(i - 1)
          PROVE  g.children[j].end <= g.children[i].begin
      BY <1>2, <1>3
    <2> QED
      BY <2>1, <2>2 DEF InOrder
  <1>5. ASSUME NEW i \in 1..Len(g.ctl), NEW j \in 1..g.ctl[i].size
        PROVE  g.children[j].end <= g.ctl[i].pos
    <2>1. i \in 1..Len(f.ctl) /\ j \in 1..f.ctl[i].size /\ j \in 1..Len(g.children)
      BY <1>1, <1>2
    <2> QED
      BY <2>1 DEF Placed
  <1> QED
    BY <1>4, <1>5 DEF Placed

(* A macro is entered. *)
LEMMA PushPlaced ==
  ASSUME NEW f \in Frame, Placed(f), NEW c \in Ctx,
         c.size = Len(f.children), c.pos = f.curStart
  PROVE  LET g == [f EXCEPT !.ctl = Append(@, c)]
         IN  /\ g \in Frame /\ Placed(g)
             /\ \A parts : Within(parts, f) /\ c.exp \in parts => Within(parts, g)
  <1> DEFINE d == Append(f.ctl, c)
             n == Len(f.ctl)
             g == [f EXCEPT !.ctl = d]
  <1>1. f.ctl \in Seq(Ctx) /\ n \in Nat
    BY DEF Frame
  <1>2. /\ d \in Seq(Ctx) /\ Len(d) = n + 1 /\ d[n + 1] = c
        /\ \A i \in 1..n : d[i] = f.ctl[i]
        /\ \A i \in 1..(n + 1) : i = n + 1 \/ i \in 1..n
    BY <1>1, AddLast
  <1> HIDE DEF d
  <1>3. /\ g \in Frame /\ g.ctl = d /\ g.start = f.start /\ g.children = f.children
        /\ g.curStart = f.curStart
    BY <1>2 DEF Frame
  <1> HIDE DEF g
  <1>4. \A j \in 1..Len(f.children) : f.children[j].end <= f.curStart
    BY DEF Placed, InOrder
  <1>5. Placed(g)
    <2>1. ASSUME NEW i \in 1..(n + 1), NEW j \in 1..d[i].size
          PROVE  f.children[j].end <= d[i].pos
      <3>1. CASE i = n + 1
        BY <1>2, <1>4, <3>1
      <3>2. CASE i \in 1..n
        BY <1>2, <3>2 DEF Placed
      <3> QED
        BY <1>2, <3>1, <3>2
    <2> QED
      BY <1>2, <1>3, <2>1 DEF Placed
  <1>6. ASSUME NEW parts, Within(parts, f), c.exp \in parts PROVE Within(parts, g)
    <2>1. ASSUME NEW i \in 1..(n + 1) PROVE d[i].exp \in parts
      BY <1>2, <1>6 DEF Within
    <2> QED
      BY <1>2, <1>3, <2>1 DEF Within
  <1> QED
    BY <1>3, <1>5, <1>6 DEF g, d

(* A node that begins at the cursor is added and the cursor moves behind. *)
LEMMA AddedPlaced ==
  ASSUME NEW f \in Frame, Placed(f), f.start <= f.curStart,
         \A i \in 1..Len(f.ctl) : f.ctl[i].size \in Nat /\ f.ctl[i].size <= Len(f.children),
         NEW node \in Span, node.begin = f.curStart, node.begin <= node.end
  PROVE  Placed(AddChild(f, node))
  <1> DEFINE n == Len(f.children)
             g == AddChild(f, node)
  <1>1. /\ f.children \in Seq(Span) /\ n \in Nat /\ f.start \in Nat /\ f.curStart \in Nat
        /\ node.end \in Nat
    BY DEF Frame, Span
  <1>2. /\ g \in Frame /\ g.start = f.start /\ g.ctl = f.ctl /\ g.curStart = node.end
        /\ Len(g.children) = n + 1 /\ g.children[n + 1] = node
        /\ \A i \in 1..n : g.children[i] = f.children[i]
    BY Added
  <1> HIDE DEF g
  <1>3. /\ \A i \in 1..n : /\ f.children[i].begin \in Nat /\ f.children[i].end \in Nat
                          /\ f.start <= f.children[i].begin
                          /\ f.children[i].begin <= f.children[i].end
                          /\ f.children[i].end <= f.curStart
        /\ \A i \in 1..n : \A j \in 1..(i - 1) :
             j \in 1..n /\ f.children[j].end <= f.children[i].begin
    BY <1>1, InOrderFacts DEF Placed
  <1>4. \A i \in 1..(n + 1) : i = n + 1 \/ i \in 1..n
    BY <1>1
  <1>5. \A j \in 1..((n + 1) - 1) : j \in 1..n
    BY <1>1
  <1>6. InOrder(g.children, g.start, g.curStart)
    <2>1. ASSUME NEW i \in 1..(n + 1)
          PROVE  /\ f.start <= g.children[i].begin
                 /\ g.children[i].begin <= g.children[i].end
                 /\ g.children[i].end <= node.end
      <3>1. CASE i = n + 1
        BY <1>1, <1>2, <3>1
      <3>2. CASE i \in 1..n
        <4>1. /\ f.start <= f.children[i].begin
              /\ f.children[i].begin <= f.children[i].end
              /\ f.children[i].end <= f.curStart /\ f.children[i].end \in Nat
          BY <1>3, <3>2
        <4>2. f.children[i].end <= node.end
          BY <1>1, <4>1
        <4> QED
          BY <1>2, <3>2, <4>1, <4>2
      <3> QED
        BY <1>4, <3>1, <3>2
    <2>2. ASSUME NEW i \in 1..(n + 1), NEW j \in 1..(i - 1)
          PROVE  g.children[j].end <= g.children[i].begin
      <3>1. CASE i = n + 1
        BY <1>2, <1>3, <1>5, <3>1
      <3>2. CASE i \in 1..n
        BY <1>2, <1>3, <3>2
      <3> QED
        BY <1>4, <3>1, <3>2
    <2> QED
      BY <1>2, <2>1, <2>2 DEF InOrder
  <1>7. ASSUME NEW i \in 1..Len(f.ctl), NEW j \in 1..f.ctl[i].size
        PROVE  g.children[j].end <= f.ctl[i].pos
    <2>1. j \in 1..n
      BY <1>1
    <2> QED
      BY <1>2, <2>1 DEF Placed
  <1> QED
    BY <1>2, <1>6, <1>7 DEF Placed, g

-----------------------------------------------------------------------------
(* What the invariant says of the running function and its last macro. *)
LEMMA NestFacts ==
  ASSUME BasicInv, Running, NEW parts, NestInv(parts)
  PROVE  /\ top \in Frame /\ Placed(top) /\ Within(parts, top)
         /\ top.children \in Seq(Span) /\ top.ctl \in Seq(Ctx)
         /\ top.start \in Nat /\ top.curStart \in Nat /\ top.curEnd \in Nat
         /\ top.start <= top.curStart /\ top.curStart <= top.curEnd
         /\ stack \in Seq(Frame) /\ stack # <<>> /\ top = stack[Len(stack)]
         /\ \A i \in 1..Len(top.children) : /\ top.children[i].end \in Nat
                                            /\ top.children[i].end <= top.curStart
         /\ \A i \in 1..Len(top.ctl) : /\ top.ctl[i].size \in Nat
                                       /\ top.ctl[i].size <= Len(top.children)
  <1>1. Good(top) /\ Len(stack) \in Nat \ {0} /\ stack \in Seq(Frame) /\ stack # <<>>
    BY TopGood DEF BasicInv, TypeOK
  <1>2. top \in Frame /\ PositionsOf(top) /\ Balanced(top) /\ Len(stack) \in 1..Len(stack)
    BY <1>1 DEF Good
  <1>3. Placed(top) /\ Within(parts, top)
    BY <1>2 DEF NestInv, top
  <1>4. /\ top.children \in Seq(Span) /\ top.ctl \in Seq(Ctx)
        /\ top.start \in Nat /\ top.curStart \in Nat /\ top.curEnd \in Nat
        /\ top.start <= top.curStart /\ top.curStart <= top.curEnd
    BY <1>2 DEF Frame, PositionsOf
  <1>5. \A i \in 1..Len(top.children) : /\ top.children[i].end \in Nat
                                        /\ top.children[i].end <= top.curStart
    BY <1>3, <1>4, InOrderFacts DEF Placed
  <1>6. \A i \in 1..Len(top.ctl) : /\ top.ctl[i].size \in Nat
                                   /\ top.ctl[i].size <= Len(top.children)
    <2>1. \A i \in 1..Len(top.ctl) : top.ctl[i] \in Ctx
      BY <1>4
    <2> QED
      BY <1>2, <2>1 DEF Ctx, Balanced
  <1> QED
    BY <1>1, <1>2, <1>3, <1>4, <1>5, <1>6 DEF top

LEMMA CtxNest ==
  ASSUME BasicInv, Running, NEW parts, NestInv(parts), Plain(parts), top.ctl # <<>>
  PROVE  /\ Len(top.ctl) \in 1..Len(top.ctl) /\ ctx = top.ctl[Len(top.ctl)]
         /\ LastCtx(top) = ctx /\ ctx.exp \in parts /\ ctx.exp.op # "AMP"
         /\ ctx.exp.op \in Macros => ctx.exp.A \in parts
         /\ ctx.exp.op \in Binary => ctx.exp.B \in parts
         /\ \A i \in 1..ctx.size : /\ i \in 1..Len(top.children)
                                   /\ top.children[i].end <= ctx.pos
  <1>1. Len(top.ctl) \in 1..Len(top.ctl) /\ ctx = top.ctl[Len(top.ctl)]
    BY NestFacts DEF ctx
  <1>2. LastCtx(top) = ctx
    BY DEF LastCtx, ctx
  <1>3. ctx.exp \in parts
    BY <1>1, NestFacts DEF Within
  <1>4. \A i \in 1..ctx.size : top.children[i].end <= ctx.pos
    BY <1>1, NestFacts DEF Placed
  <1>5. \A i \in 1..ctx.size : i \in 1..Len(top.children)
    <2>1. ctx.size \in Nat /\ ctx.size <= Len(top.children) /\ Len(top.children) \in Nat
      BY <1>1, NestFacts
    <2> QED
      BY <2>1
  <1> QED
    BY <1>1, <1>2, <1>3, <1>4, <1>5 DEF Plain, MadeOf

(* A step that changes nothing of the stack but the running function, and  *)
(* nothing of the memo map.                                                *)
LEMMA TopNest ==
  ASSUME BasicInv, Running, NEW parts, NestInv(parts),
         NEW f \in Frame, Placed(f), Within(parts, f),
         stack' = WithTop(f), UNCHANGED memo, pc' = "enter" => exp' \in parts
  PROVE  NestInv(parts)'
  <1>1. /\ Len(stack') = Len(stack) /\ stack'[Len(stack)] = f
        /\ \A k \in 1..Len(stack) : k # Len(stack) => stack'[k] = stack[k]
    BY NestFacts, ReplaceLast DEF WithTop
  <1>2. ASSUME NEW k \in 1..Len(stack) PROVE Placed(stack'[k]) /\ Within(parts, stack'[k])
    <2>1. CASE k = Len(stack)
      BY <1>1, <2>1
    <2>2. CASE k # Len(stack)
      BY <1>1, <2>2 DEF NestInv
    <2> QED
      BY <2>1, <2>2
  <1>3. TreesNested'
    BY DEF NestInv, TreesNested
  <1> QED
    BY <1>1, <1>2, <1>3 DEF NestInv

(* The two ways a macro leaves the running function, which is f then: with *)
(* all its children, no nearer to the start; or with those there were when *)
(* the macro was entered, no nearer than it was then.                      *)
Keeps(f) ==
  \/ f.children = top.children /\ top.curStart <= f.curStart
  \/ /\ Len(f.children) = ctx.size /\ ctx.pos <= f.curStart
     /\ \A i \in 1..ctx.size : f.children[i] = top.children[i]

LEMMA KeepsPlaced ==
  ASSUME BasicInv, Running, NEW parts, NestInv(parts), Plain(parts), top.ctl # <<>>,
         NEW g \in Frame, g.start = top.start, Keeps(g), Len(g.ctl) <= Len(top.ctl),
         \A i \in 1..Len(g.ctl) : /\ g.ctl[i].exp = top.ctl[i].exp
                                /\ g.ctl[i].size = top.ctl[i].size
                                /\ g.ctl[i].pos = top.ctl[i].pos
  PROVE  Placed(g) /\ Within(parts, g)
  <1>1. g.ctl \in Seq(Ctx) /\ g.children \in Seq(Span) /\ g.curStart \in Nat
    BY DEF Frame
  <1>2. \A i \in 1..Len(g.ctl) : i \in 1..Len(top.ctl)
    BY <1>1, NestFacts
  <1>3. /\ ctx.size \in Nat /\ ctx.size <= Len(top.children) /\ ctx.pos \in Nat
        /\ \A i \in 1..Len(top.ctl) : top.ctl[i].size <= ctx.size
    BY CtxFacts
  <1>4. /\ Len(g.children) <= Len(top.children)
        /\ \A i \in 1..Len(g.children) : g.children[i] = top.children[i]
        /\ \A i \in 1..Len(g.children) : top.children[i].end <= g.curStart
        /\ \A i \in 1..Len(top.ctl) : top.ctl[i].size <= Len(g.children)
    <2>1. CASE g.children = top.children /\ top.curStart <= g.curStart
      <3>1. ASSUME NEW i \in 1..Len(top.children) PROVE top.children[i].end <= g.curStart
        <4>1. top.children[i].end \in Nat /\ top.children[i].end <= top.curStart
          BY NestFacts
        <4>2. top.curStart \in Nat
          BY NestFacts
        <4> QED
          BY <1>1, <2>1, <4>1, <4>2
      <3>2. Len(g.children) <= Len(top.children)
        BY <1>1, <2>1
      <3> QED
        BY <2>1, <3>1, <3>2, NestFacts
    <2>2. CASE /\ Len(g.children) = ctx.size /\ ctx.pos <= g.curStart
               /\ \A i \in 1..ctx.size : g.children[i] = top.children[i]
      <3>1. ASSUME NEW i \in 1..ctx.size PROVE top.children[i].end <= g.curStart
        <4>1. i \in 1..Len(top.children) /\ top.children[i].end <= ctx.pos
          BY CtxNest
        <4>2. top.children[i].end \in Nat
          BY <4>1, NestFacts
        <4> QED
          BY <1>1, <1>3, <2>2, <4>1, <4>2
      <3> QED
        BY <1>3, <2>2, <3>1
    <2> QED
      BY <2>1, <2>2 DEF Keeps
  <1>5. Placed(g)
    <2>1. \A i \in 1..Len(g.ctl) : /\ top.ctl[i].size \in Nat
                                 /\ top.ctl[i].size <= Len(g.children)
      BY <1>2, <1>4, NestFacts
    <2>2. top \in Frame /\ Placed(top)
      BY NestFacts
    <2> QED
      BY <1>4, <2>1, <2>2, KeptPlaced
  <1>6. Within(parts, g)
    BY <1>2, NestFacts DEF Within
  <1> QED
    BY <1>5, <1>6

LEMMA ContinueNest ==
  ASSUME BasicInv, Running, NEW parts, NestInv(parts), Plain(parts), top.ctl # <<>>,
         NEW g \in Frame, g.start = top.start, Keeps(g), Len(g.ctl) = Len(top.ctl),
         \A i \in 1..Len(top.ctl) : i # Len(top.ctl) => g.ctl[i] = top.ctl[i],
         LastCtx(g).exp = ctx.exp, LastCtx(g).size = ctx.size, LastCtx(g).pos = ctx.pos,
         NEW e \in parts, Continue(g, e)
  PROVE  NestInv(parts)'
  <1>1. \A i \in 1..Len(g.ctl) : /\ g.ctl[i].exp = top.ctl[i].exp
                               /\ g.ctl[i].size = top.ctl[i].size
                               /\ g.ctl[i].pos = top.ctl[i].pos
    BY CtxNest DEF LastCtx
  <1>2. Len(g.ctl) <= Len(top.ctl)
    BY NestFacts
  <1>3. Placed(g) /\ Within(parts, g)
    BY <1>1, <1>2, KeepsPlaced
  <1>4. stack' = WithTop(g) /\ exp' = e /\ UNCHANGED memo
    BY DEF Continue, Enter
  <1> QED
    BY <1>3, <1>4, TopNest

LEMMA FinishNest ==
  ASSUME BasicInv, Running, NEW parts, NestInv(parts), Plain(parts), top.ctl # <<>>,
         NEW f \in Frame, f.start = top.start, f.ctl = top.ctl, Keeps(f),
         Finish(f, res')
  PROVE  NestInv(parts)'
  <1> DEFINE n == Len(f.ctl) - 1
             c == SubSeq(f.ctl, 1, n)
             g == [f EXCEPT !.ctl = c]
  <1>1. f.ctl \in Seq(Ctx) /\ f.ctl # <<>>
    BY DEF Frame
  <1>2. /\ n \in Nat /\ n <= Len(f.ctl) /\ c \in Seq(Ctx) /\ Len(c) = n
        /\ \A i \in 1..n : c[i] = f.ctl[i]
    <2>1. n \in Nat /\ n <= Len(f.ctl)
      BY <1>1
    <2> QED
      BY <1>1, <2>1, Prefix
  <1>3. PopCtl(f) = g
    BY DEF PopCtl
  <1> HIDE DEF c, n
  <1>4. /\ g \in Frame /\ g.start = f.start /\ g.ctl = c /\ g.children = f.children
        /\ g.curStart = f.curStart
    BY <1>2 DEF Frame
  <1> HIDE DEF g
  <1>5. Keeps(g)
    BY <1>4 DEF Keeps
  <1>6. Placed(g) /\ Within(parts, g)
    BY <1>2, <1>4, <1>5, KeepsPlaced
  <1>7. stack' = WithTop(g) /\ UNCHANGED memo /\ pc' = "leave"
    BY <1>3 DEF Finish, Leave
  <1> QED
    BY <1>4, <1>6, <1>7, TopNest

LEMMA EnterMacroNest ==
  ASSUME BasicInv, Running, NEW parts, NestInv(parts), Plain(parts), EnterMacro
  PROVE  NestInv(parts)'
  <1> DEFINE c == [exp |-> exp, second |-> FALSE, count |-> FALSE,
                   size |-> Len(top.children), pos |-> top.curStart,
                   errs |-> errors.num]
             g == [top EXCEPT !.ctl = Append(@, c)]
  <1>1. /\ pc = "enter" /\ exp.op \in Macros
        /\ stack' = WithTop(g) /\ exp' = exp.A /\ UNCHANGED memo
    BY DEF EnterMacro, Continue, Enter
  <1>2. c \in Ctx
    <2>1. /\ exp \in Exp /\ errors.num \in Nat /\ Len(top.children) \in Nat
          /\ top.curStart \in Nat
      BY NestFacts, ErrorsType DEF ErrorList
    <2> QED
      BY <2>1 DEF Ctx
  <1>3. c.exp = exp /\ c.size = Len(top.children) /\ c.pos = top.curStart
    OBVIOUS
  <1> HIDE DEF c
  <1>4. exp \in parts /\ exp.A \in parts
    BY <1>1 DEF NestInv, Plain, MadeOf
  <1>5. g \in Frame /\ Placed(g) /\ Within(parts, g)
    BY <1>2, <1>3, <1>4, NestFacts, PushPlaced
  <1> HIDE DEF g
  <1> QED
    BY <1>1, <1>4, <1>5, TopNest

(* The macros that run an operand more. *)
LEMMA AgainNest ==
  ASSUME BasicInv, TreeInv, Running, NEW parts, NestInv(parts), Plain(parts),
         SeqRight \/ DisjRight \/ StarAgain \/ PlusAgain
  PROVE  NestInv(parts)'
  <1>1. top.ctl # <<>> /\ pc = "leave"
    BY DEF SeqRight, DisjRight, StarAgain, PlusAgain, Leaving
  <1>2. /\ LastCtx(top) = ctx
        /\ ctx.exp.op \in Macros => ctx.exp.A \in parts
        /\ ctx.exp.op \in Binary => ctx.exp.B \in parts
    BY <1>1, CtxNest
  <1>3. /\ top \in Frame /\ top.curStart \in Nat /\ top.curEnd \in Nat
        /\ top.curStart <= top.curEnd /\ ctx.pos \in Nat /\ ctx.size \in Nat
    BY <1>1, NestFacts, CtxFacts
  <1>4. ASSUME NEW h \in {top, Advance(top), GoBack(top)}, Keeps(h),
               NEW g \in {h, AtSecond(h), Counted(h)}, NEW e \in parts, Continue(g, e)
        PROVE  NestInv(parts)'
    <2>1. /\ h \in Frame /\ h.start = top.start /\ h.ctl = top.ctl
      BY <1>3, Moved
    <2>2. LastCtx(h) = ctx
      BY <1>2, <2>1 DEF LastCtx
    <2>3. /\ g \in Frame /\ g.start = top.start /\ Len(g.ctl) = Len(top.ctl)
          /\ g.curStart = h.curStart /\ g.children = h.children
          /\ \A i \in 1..Len(top.ctl) : i # Len(top.ctl) => g.ctl[i] = top.ctl[i]
          /\ LastCtx(g).exp = ctx.exp /\ LastCtx(g).size = ctx.size
          /\ LastCtx(g).pos = ctx.pos
      BY <1>1, <2>1, <2>2, Marked
    <2>4. Keeps(g)
      BY <1>4, <2>3 DEF Keeps
    <2> QED
      BY <1>1, <1>4, <2>3, <2>4, ContinueNest
  <1>5. Keeps(top) /\ Keeps(Advance(top))
    <2>1. Advance(top).children = top.children /\ Advance(top).curStart = top.curEnd
      BY <1>3, Moved
    <2>2. top.curStart <= top.curStart
      BY <1>3
    <2> QED
      BY <1>3, <2>1, <2>2 DEF Keeps
  <1>6. ASSUME SeqRight PROVE NestInv(parts)'
    <2>1. ctx.exp.B \in parts /\ Continue(AtSecond(top), ctx.exp.B)
      BY <1>2, <1>6 DEF SeqRight, Leaving, Binary
    <2> QED
      BY <1>4, <1>5, <2>1
  <1>7. ASSUME DisjRight PROVE NestInv(parts)'
    <2> DEFINE h == GoBack(top)
    <2>1. /\ ctx.exp.op = "DISJ" /\ ~res /\ Continue(AtSecond(h), ctx.exp.B)
      BY <1>7 DEF DisjRight, Leaving
    <2>2. Len(top.children) = ctx.size
      BY <1>1, <1>2, <2>1, TopTidy DEF Settled, Repeating
    <2>3. h.children = top.children /\ h.curStart = ctx.pos
      BY <1>3, Moved
    <2> HIDE DEF h
    <2>4. Keeps(h)
      BY <1>3, <2>2, <2>3 DEF Keeps
    <2>5. ctx.exp.B \in parts
      BY <1>2, <2>1 DEF Binary
    <2> QED
      BY <1>4, <2>1, <2>4, <2>5 DEF h
  <1>8. ASSUME StarAgain PROVE NestInv(parts)'
    <2>1. ctx.exp.A \in parts /\ Continue(Advance(top), ctx.exp.A)
      BY <1>2, <1>8 DEF StarAgain, Leaving, Unary, Macros
    <2> QED
      BY <1>4, <1>5, <2>1
  <1>9. ASSUME PlusAgain PROVE NestInv(parts)'
    <2>1. ctx.exp.A \in parts /\ Continue(Counted(Advance(top)), ctx.exp.A)
      BY <1>2, <1>9 DEF PlusAgain, Leaving, Unary, Macros
    <2> QED
      BY <1>4, <1>5, <2>1
  <1> QED
    BY <1>6, <1>7, <1>8, <1>9

(* The macros that end. *)
LEMMA EndNest ==
  ASSUME BasicInv, TreeInv, Running, NEW parts, NestInv(parts), Plain(parts),
         \/ SeqEnd \/ DisjEnd \/ StarEnd \/ PlusEnd
         \/ QuesEnd \/ BangEnd \/ HideEnd \/ AmpEnd
  PROVE  NestInv(parts)'
  <1>1. top.ctl # <<>> /\ pc = "leave"
    BY DEF SeqEnd, DisjEnd, StarEnd, PlusEnd, QuesEnd, BangEnd, HideEnd, AmpEnd, Leaving
  <1>2. /\ top \in Frame /\ top.curStart \in Nat /\ top.curEnd \in Nat
        /\ top.curStart <= top.curEnd /\ ctx.pos \in Nat /\ ctx.size \in Nat
        /\ ctx.pos <= top.curStart /\ ctx.size <= Len(top.children)
    BY <1>1, NestFacts, CtxFacts
  <1> DEFINE Moves(f) == /\ f \in Frame /\ f.start = top.start /\ f.ctl = top.ctl
                         /\ Keeps(f)
  <1>3. Moves(top) /\ Moves(Advance(top))
    <2>1. /\ Advance(top) \in Frame /\ Advance(top).start = top.start
          /\ Advance(top).ctl = top.ctl
          /\ Advance(top).children = top.children /\ Advance(top).curStart = top.curEnd
      BY <1>2, Moved
    <2>2. top.curStart <= top.curStart
      BY <1>2
    <2> QED
      BY <1>2, <2>1, <2>2 DEF Keeps
  <1>4. Moves(DropChildren(top))
    BY <1>2, Dropped DEF Keeps
  <1>5. Moves(DropChildren(GoBackBoth(top)))
    <2> DEFINE h == GoBackBoth(top)
    <2>1. /\ h \in Frame /\ h.start = top.start /\ h.ctl = top.ctl
          /\ h.curStart = ctx.pos /\ h.children = top.children
      BY <1>2, Moved
    <2> HIDE DEF h
    <2>2. Moves(DropChildren(h))
      BY <1>2, <2>1, Dropped DEF Keeps
    <2> QED
      BY <2>2 DEF h
  <1>6. Moves(Advance(DropChildren(top)))
    <2> DEFINE h == DropChildren(top)
    <2>1. /\ h \in Frame /\ h.start = top.start /\ h.ctl = top.ctl
          /\ h.curEnd = top.curEnd /\ Len(h.children) = ctx.size
          /\ \A i \in 1..ctx.size : h.children[i] = top.children[i]
      BY <1>2, Dropped
    <2> HIDE DEF h
    <2>2. /\ Advance(h) \in Frame /\ Advance(h).start = top.start /\ Advance(h).ctl = top.ctl
          /\ Advance(h).children = h.children /\ Advance(h).curStart = top.curEnd
      BY <1>2, <2>1, Moved
    <2>3. ctx.pos <= top.curEnd
      BY <1>2
    <2>4. Moves(Advance(h))
      BY <2>1, <2>2, <2>3 DEF Keeps
    <2> QED
      BY <2>4 DEF h
  <1>7. ASSUME NEW f, Moves(f), Finish(f, res') PROVE NestInv(parts)'
    BY <1>1, <1>7, FinishNest
  <1> HIDE DEF Moves
  <1>8. ASSUME SeqEnd \/ DisjEnd PROVE NestInv(parts)'
    <2>1. Finish(IF res THEN Advance(top) ELSE DropChildren(top), res')
      BY <1>8 DEF SeqEnd, DisjEnd, Finish, EndOfPair
    <2> QED
      BY <1>3, <1>4, <1>7, <2>1
  <1>9. ASSUME StarEnd PROVE NestInv(parts)'
    <2>1. Finish(top, res')
      BY <1>9 DEF StarEnd, Finish
    <2> QED
      BY <1>3, <1>7, <2>1
  <1>10. ASSUME PlusEnd PROVE NestInv(parts)'
    <2>1. Finish(top, res') \/ Finish(DropChildren(top), res')
      BY <1>10 DEF PlusEnd, Finish
    <2> QED
      BY <1>3, <1>4, <1>7, <2>1
  <1>11. ASSUME QuesEnd PROVE NestInv(parts)'
    <2>1. Finish(IF res THEN Advance(top) ELSE top, res')
      BY <1>11 DEF QuesEnd, Finish
    <2> QED
      BY <1>3, <1>7, <2>1
  <1>12. ASSUME BangEnd PROVE NestInv(parts)'
    <2>1. Finish(DropChildren(GoBackBoth(top)), res')
      BY <1>12 DEF BangEnd, Finish
    <2> QED
      BY <1>5, <1>7, <2>1
  <1>13. ASSUME HideEnd PROVE NestInv(parts)'
    <2>1. Finish(Advance(DropChildren(top)), res')
      BY <1>13 DEF HideEnd, Finish
    <2> QED
      BY <1>6, <1>7, <2>1
  <1>14. ~AmpEnd
    BY <1>1, CtxNest DEF AmpEnd, Leaving
  <1> QED
    BY <1>8, <1>9, <1>10, <1>11, <1>12, <1>13, <1>14

LEMMA MatchNest ==
  ASSUME BasicInv, Running, NEW parts, NestInv(parts), Match
  PROVE  NestInv(parts)'
  <1>1. /\ top \in Frame /\ Placed(top) /\ Within(parts, top)
        /\ top.curStart \in Nat /\ stack = WithTop(top)
    BY NestFacts DEF WithTop
  <1>2. ASSUME NEW m, NEW n \in Nat, Terminal(m, n) PROVE NestInv(parts)'
    <2>1. pc' = "leave" /\ UNCHANGED memo
      BY <1>2 DEF Terminal, Leave
    <2>2. CASE m
      <3> DEFINE p == top.curStart + n
                 g == [top EXCEPT !.curStart = p, !.curEnd = p]
      <3>1. stack' = WithTop(g)
        BY <1>2, <2>2 DEF Terminal
      <3>2. p \in Nat /\ top.curStart <= p
        BY <1>1, <1>2
      <3> HIDE DEF p
      <3>3. /\ g \in Frame /\ g.start = top.start /\ g.ctl = top.ctl
            /\ g.curStart = p /\ g.children = top.children
        BY <1>1, <3>2 DEF Frame
      <3> HIDE DEF g
      <3>4. \A i \in 1..Len(g.children) : top.children[i].end <= g.curStart
        <4>1. ASSUME NEW i \in 1..Len(top.children) PROVE top.children[i].end <= p
          <5>1. top.children[i].end \in Nat /\ top.children[i].end <= top.curStart
            BY NestFacts
          <5> QED
            BY <1>1, <3>2, <5>1
        <4> QED
          BY <3>3, <4>1
      <3>5. /\ Len(g.children) <= Len(top.children) /\ Len(g.ctl) <= Len(top.ctl)
        BY <3>3, NestFacts
      <3>6. Placed(g)
        BY <1>1, <3>3, <3>4, <3>5, NestFacts, KeptPlaced
      <3>7. Within(parts, g)
        BY <1>1, <3>3 DEF Within
      <3> QED
        BY <2>1, <3>1, <3>3, <3>6, <3>7, TopNest
    <2>3. CASE ~m
      <3>1. stack' = WithTop(top)
        BY <1>1, <1>2, <2>3 DEF Terminal
      <3> QED
        BY <1>1, <2>1, <3>1, TopNest
    <2> QED
      BY <2>2, <2>3
  <1>3. ASSUME MatchString PROVE NestInv(parts)'
    <2>1. exp.str \in Seq(Char)
      BY <1>3, ErrorsType, Operands DEF MatchString, Entering
    <2>2. Len(exp.str) \in Nat
      BY <2>1
    <2> QED
      BY <1>2, <1>3, <2>2 DEF MatchString
  <1> QED
    BY <1>2, <1>3 DEF Match, MatchClass, MatchDot

LEMMA CallMemoizedNest ==
  ASSUME BasicInv, Running, NEW parts, NestInv(parts), CallMemoized
  PROVE  NestInv(parts)'
  <1> DEFINE func == exp.func
             rec  == MemoRecord(func, top.curStart)
             node == Node(func, rec.start, rec.end)
  <1>1. /\ top \in Frame /\ Placed(top) /\ Within(parts, top)
        /\ top.curStart \in Nat /\ top.start <= top.curStart
    BY NestFacts
  <1>2. func \in Rule /\ is_memoized(func, top.curStart) /\ TypeOK
    BY ErrorsType, Operands DEF CallMemoized, Entering, BasicInv
  <1>3. /\ stack' = WithTop(IF rec.ok THEN AddChild(top, node)
                            ELSE [top EXCEPT !.curEnd = rec.end])
        /\ pc' = "leave" /\ UNCHANGED memo
    BY DEF CallMemoized, Leave
  <1> HIDE DEF func
  <1>4. PICK i \in 1..Len(memo[func]) : rec = memo[func][i] /\ rec.start = top.curStart
    BY <1>1, <1>2, MemoRecordFound
  <1> HIDE DEF rec
  <1>5. rec \in Record /\ rec.start <= rec.end
    BY <1>2, <1>4 DEF TypeOK, BasicInv, MemoInText
  <1>6. rec.start \in Nat /\ rec.end \in Nat
    BY <1>5 DEF Record
  <1>7. CASE rec.ok
    <2>1. node \in Span /\ node.begin = top.curStart /\ node.begin <= node.end
      BY <1>2, <1>4, <1>5, <1>6 DEF Node, Span
    <2> HIDE DEF node
    <2> DEFINE g == AddChild(top, node)
    <2>2. g \in Frame /\ g.ctl = top.ctl
      BY <1>1, <2>1, Added
    <2>3. Placed(g)
      BY <1>1, <2>1, NestFacts, AddedPlaced
    <2>4. stack' = WithTop(g)
      BY <1>3, <1>7
    <2> HIDE DEF g
    <2> QED
      BY <1>1, <1>3, <2>2, <2>3, <2>4, TopNest DEF Within
  <1>8. CASE ~rec.ok
    <2> DEFINE g == [top EXCEPT !.curEnd = rec.end]
    <2>1. /\ g \in Frame /\ g.start = top.start /\ g.ctl = top.ctl
          /\ g.curStart = top.curStart /\ g.children = top.children
      BY <1>1, <1>6 DEF Frame
    <2>2. stack' = WithTop(g)
      BY <1>3, <1>8
    <2> HIDE DEF g
    <2> QED
      BY <1>1, <1>3, <2>1, <2>2, TopNest DEF Placed, Within
  <1> QED
    BY <1>7, <1>8

LEMMA CallFunctionNest ==
  ASSUME BasicInv, Running, NEW parts, NestInv(parts), Plain(parts), CallFunction
  PROVE  NestInv(parts)'
  <1> DEFINE f == Activation(exp.func, top.curStart)
             n == Len(stack)
  <1>1. stack \in Seq(Frame) /\ n \in Nat \ {0} /\ top.curStart \in Nat
    BY NestFacts
  <1>2. /\ exp.func \in Rule /\ stack' = Append(stack, f) /\ exp' = grammar.body[exp.func]
        /\ UNCHANGED memo
    BY ErrorsType, Operands DEF CallFunction, Entering, Enter
  <1>3. f \in Frame /\ f.ctl = <<>> /\ f.children = <<>>
    BY <1>1, <1>2 DEF Activation, Frame
  <1> HIDE DEF f
  <1>4. Placed(f) /\ Within(parts, f)
    BY <1>3 DEF Placed, Within, InOrder
  <1>5. /\ Len(stack') = n + 1 /\ stack'[n + 1] = f
        /\ \A k \in 1..n : stack'[k] = stack[k]
    BY <1>1, <1>2, <1>3, AddLast
  <1>6. \A k \in 1..(n + 1) : k = n + 1 \/ k \in 1..n
    BY <1>1
  <1>7. ASSUME NEW k \in 1..(n + 1) PROVE Placed(stack'[k]) /\ Within(parts, stack'[k])
    BY <1>4, <1>5, <1>6 DEF NestInv
  <1>8. TreesNested'
    BY <1>2 DEF NestInv, TreesNested
  <1>9. exp' \in parts
    BY <1>2 DEF Plain, MadeOf
  <1> QED
    BY <1>5, <1>7, <1>8, <1>9 DEF NestInv

-----------------------------------------------------------------------------
(* The record of the running function joins those of the memo map. *)
LEMMA RecordNest ==
  ASSUME BasicInv, Running, NEW parts, NestInv(parts),
         NEW rec \in Record, memo' = WithRecord(memo, top.rule, rec),
         rec.ok => InOrder(rec.children, rec.start, rec.end)
  PROVE  TreesNested'
  <1> DEFINE w == memo'
             type == top.rule
  <1>1. w = WithRecord(memo, type, rec) /\ type \in Rule /\ memo \in [Rule -> Seq(Record)]
    BY ReturnFacts DEF BasicInv, TypeOK
  <1> HIDE DEF w, type
  <1>2. ASSUME NEW t \in Rule, NEW i \in 1..Len(w[t])
        PROVE  w[t][i] = rec \/ (i \in 1..Len(memo[t]) /\ w[t][i] = memo[t][i])
    BY ONLY <1>1, rec \in Record, Recorded
  <1>3. ASSUME NEW t \in Rule, NEW i \in 1..Len(w[t]), w[t][i].ok
        PROVE  InOrder(w[t][i].children, w[t][i].start, w[t][i].end)
    BY <1>2, <1>3 DEF NestInv, TreesNested
  <1> QED
    BY <1>3 DEF TreesNested, w

(* A return to the caller, which is f now. *)
LEMMA ReturnNest ==
  ASSUME BasicInv, Running, NEW parts, NestInv(parts), Len(stack) > 1,
         NEW f \in Frame, Placed(f), Within(parts, f),
         stack' = ReturnTo(f), pc' = "leave", TreesNested'
  PROVE  NestInv(parts)'
  <1> DEFINE n == Len(stack) - 1
             below == SubSeq(stack, 1, n)
  <1>1. stack \in Seq(Frame)
    BY NestFacts
  <1>2. /\ n \in Nat \ {0} /\ n <= Len(stack) /\ Len(stack) = n + 1
        /\ below \in Seq(Frame) /\ Len(below) = n /\ below # <<>>
        /\ \A k \in 1..n : below[k] = stack[k]
    BY <1>1, AllButLast
  <1>3. stack' = [below EXCEPT ![Len(below)] = f]
    BY <1>2 DEF ReturnTo
  <1> HIDE DEF below
  <1>4. /\ Len(stack') = n /\ stack'[n] = f
        /\ \A k \in 1..n : k # n => stack'[k] = stack[k]
    <2> DEFINE t == [below EXCEPT ![Len(below)] = f]
    <2>1. below \in Seq(Frame) /\ below # <<>> /\ f \in Frame
      BY <1>2
    <2>2. /\ Len(t) = Len(below) /\ t[Len(below)] = f
          /\ \A k \in 1..Len(below) : k # Len(below) => t[k] = below[k]
      BY ONLY <2>1, ReplaceLast
    <2>3. stack' = t
      BY <1>3
    <2> HIDE DEF t
    <2> QED
      BY <1>2, <2>2, <2>3
  <1>5. \A k \in 1..n : k \in 1..Len(stack)
    BY <1>2
  <1> HIDE DEF n
  <1>6. ASSUME NEW k \in 1..n PROVE Placed(stack'[k]) /\ Within(parts, stack'[k])
    <2>1. CASE k = n
      BY <1>4, <2>1
    <2>2. CASE k # n
      BY <1>4, <1>5, <2>2 DEF NestInv
    <2> QED
      BY <2>1, <2>2
  <1> QED
    BY <1>4, <1>6 DEF NestInv

LEMMA CallerNest ==
  ASSUME BasicInv, Running, NEW parts, NestInv(parts), Len(stack) > 1
  PROVE  /\ caller \in Frame /\ Placed(caller) /\ Within(parts, caller)
         /\ caller.curStart = top.start /\ caller.start <= caller.curStart
         /\ \A i \in 1..Len(caller.ctl) : /\ caller.ctl[i].size \in Nat
                                         /\ caller.ctl[i].size <= Len(caller.children)
  <1>1. Len(stack) - 1 \in 1..Len(stack)
    BY NestFacts
  <1>2. Placed(caller) /\ Within(parts, caller)
    BY <1>1 DEF NestInv, caller
  <1>3. /\ caller \in Frame /\ Balanced(caller) /\ PositionsOf(caller)
        /\ caller.curStart = top.start
    BY ReturnFacts DEF Good
  <1>4. \A i \in 1..Len(caller.ctl) : caller.ctl[i].size \in Nat
    <2>1. caller.ctl \in Seq(Ctx)
      BY <1>3 DEF Frame
    <2>2. \A i \in 1..Len(caller.ctl) : caller.ctl[i] \in Ctx
      BY <2>1
    <2> QED
      BY <2>2 DEF Ctx
  <1> QED
    BY <1>2, <1>3, <1>4 DEF Balanced, PositionsOf

LEMMA SucceedNest ==
  ASSUME BasicInv, Running, NEW parts, NestInv(parts), Succeed
  PROVE  NestInv(parts)'
  <1> DEFINE node == Node(top.rule, top.start, top.curEnd)
             rec  == [start |-> top.start, end |-> top.curEnd, ok |-> TRUE,
                      children |-> top.children]
  <1>1. pc' = "leave" /\ memo' = WithRecord(memo, top.rule, rec)
    BY DEF Succeed, Returning, Leave, memoize, WithRecord
  <1>2. rec \in Record /\ rec.start = top.start /\ rec.end = top.curEnd
        /\ rec.children = top.children
    BY ReturnFacts DEF Record
  <1>3. /\ node \in Span /\ node.begin = top.start /\ node.end = top.curEnd
        /\ node.begin <= node.end
    BY ReturnFacts DEF Node, Span
  <1>4. InOrder(top.children, top.start, top.curEnd)
    <2>1. \A i \in 1..Len(top.children) : top.children[i].end <= top.curEnd
      <3>1. ASSUME NEW i \in 1..Len(top.children) PROVE top.children[i].end <= top.curEnd
        <4>1. top.children[i].end \in Nat /\ top.children[i].end <= top.curStart
          BY NestFacts
        <4>2. top.curStart \in Nat /\ top.curEnd \in Nat /\ top.curStart <= top.curEnd
          BY NestFacts
        <4> QED
          BY <4>1, <4>2
      <3> QED
        BY <3>1
    <2> QED
      BY <2>1, NestFacts DEF Placed, InOrder
  <1> HIDE DEF rec
  <1>5. TreesNested'
    BY <1>1, <1>2, <1>4, RecordNest
  <1>6. CASE Len(stack) > 1
    <2> DEFINE g == AddChild(caller, node)
    <2>1. stack' = ReturnTo(g)
      BY <1>6 DEF Succeed
    <2> HIDE DEF node
    <2>2. g \in Frame /\ g.ctl = caller.ctl
      BY <1>3, <1>6, CallerNest, Added
    <2>3. Placed(g)
      BY <1>3, <1>6, CallerNest, AddedPlaced
    <2> HIDE DEF g
    <2>4. Within(parts, g)
      BY <1>6, <2>2, CallerNest DEF Within
    <2> QED
      BY <1>1, <1>5, <1>6, <2>1, <2>2, <2>3, <2>4, ReturnNest
  <1>7. CASE ~(Len(stack) > 1)
    <2>1. stack' = <<>> /\ ~Running'
      BY <1>7 DEF Succeed, Running
    <2> QED
      BY <1>5, <2>1 DEF NestInv
  <1> QED
    BY <1>6, <1>7

LEMMA FailNest ==
  ASSUME BasicInv, Running, NEW parts, NestInv(parts), Fail
  PROVE  NestInv(parts)'
  <1> DEFINE rec == [start |-> top.start, end |-> top.start, ok |-> FALSE,
                     children |-> <<>>]
  <1>1. pc' = "leave" /\ memo' = WithRecord(memo, top.rule, rec)
    BY DEF Fail, Returning, Leave, memoize, WithRecord
  <1>2. rec \in Record /\ ~rec.ok
    BY ReturnFacts DEF Record
  <1> HIDE DEF rec
  <1>3. TreesNested'
    BY <1>1, <1>2, RecordNest
  <1>4. CASE Len(stack) > 1
    <2>1. stack' = ReturnTo(caller)
      BY <1>4 DEF Fail
    <2>2. caller \in Frame /\ Placed(caller) /\ Within(parts, caller)
      BY <1>4, CallerNest
    <2> QED
      BY <1>1, <1>3, <1>4, <2>1, <2>2, ReturnNest
  <1>5. CASE ~(Len(stack) > 1)
    <2>1. stack' = <<>> /\ ~Running'
      BY <1>5 DEF Fail, Running
    <2> QED
      BY <1>3, <2>1 DEF NestInv
  <1> QED
    BY <1>4, <1>5

-----------------------------------------------------------------------------
LEMMA NestInit ==
  ASSUME Init, NEW parts, Plain(parts)
  PROVE  NestInv(parts)
  <1> DEFINE f == Activation(grammar.start, 0)
  <1>1. /\ stack = <<f>> /\ exp = grammar.body[grammar.start] /\ grammar.start \in Rule
        /\ memo = [type \in Rule |-> <<>>]
    BY GrammarAssumption DEF Init
  <1>2. f.ctl = <<>> /\ f.children = <<>>
    BY DEF Activation
  <1> HIDE DEF f
  <1>3. Len(stack) = 1 /\ stack[1] = f
    BY <1>1
  <1>4. Placed(f) /\ Within(parts, f)
    BY <1>2 DEF Placed, Within, InOrder
  <1>5. TreesNested
    BY <1>1 DEF TreesNested
  <1>6. exp \in parts
    BY <1>1 DEF Plain, MadeOf
  <1> QED
    BY <1>3, <1>4, <1>5, <1>6 DEF NestInv

LEMMA NestNext ==
  ASSUME BasicInv, TreeInv, [Next]_vars, NEW parts, Plain(parts), NestInv(parts)
  PROVE  NestInv(parts)'
  <1>1. ASSUME UNCHANGED vars PROVE NestInv(parts)'
    BY <1>1 DEF vars, NestInv, TreesNested, Running
  <1>2. ASSUME Macro PROVE NestInv(parts)'
    <2>1. Running
      BY <1>2 DEF Macro, EnterMacro, SeqRight, SeqEnd, DisjRight, DisjEnd, StarAgain,
                  StarEnd, PlusAgain, PlusEnd, QuesEnd, BangEnd, HideEnd, AmpEnd, Leaving
    <2> QED
      BY <1>2, <2>1, EnterMacroNest, AgainNest, EndNest DEF Macro
  <1>3. ASSUME Match PROVE NestInv(parts)'
    <2>1. Running
      BY <1>3 DEF Match, MatchString, MatchClass, MatchDot, Entering
    <2> QED
      BY <1>3, <2>1, MatchNest
  <1>4. ASSUME Exhaust PROVE NestInv(parts)'
    <2>1. ~Running' /\ UNCHANGED <<stack, memo>>
      BY <1>4 DEF Exhaust, Running
    <2> QED
      BY <2>1 DEF NestInv, TreesNested
  <1>5. ASSUME CallMemoized \/ CallFunction \/ Succeed \/ Fail PROVE NestInv(parts)'
    <2>1. Running
      BY <1>5 DEF CallMemoized, CallFunction, Succeed, Fail, Entering, Returning
    <2> QED
      BY <1>5, <2>1, CallMemoizedNest, CallFunctionNest, SucceedNest, FailNest
  <1> QED
    BY <1>1, <1>2, <1>3, <1>4, <1>5 DEF Next, Step, Terminated, Function

(* WithoutAmp is the definition of a recursive function.  One that meets   *)
(* it exists: that of the union of all sets without AMP that are closed    *)
(* under operands.                                                         *)
LEMMA WithoutAmpFacts ==
  \A e \in Exp : WithoutAmp[e] <=> /\ e.op # "AMP"
                                   /\ e.op \in Macros => WithoutAmp[e.A]
                                   /\ e.op \in Binary => WithoutAmp[e.B]
  <1> DEFINE Closed(X) == \A e \in X : /\ e.op # "AMP"
                                       /\ e.op \in Macros => e.A \in X
                                       /\ e.op \in Binary => e.B \in X
             All == UNION {X \in SUBSET Exp : Closed(X)}
             Def(g) == [e \in Exp |-> /\ e.op # "AMP"
                                      /\ e.op \in Macros => g[e.A]
                                      /\ e.op \in Binary => g[e.B]]
             f == [e \in Exp |-> e \in All]
  <1>1. \A e \in Exp : /\ e.op \in Macros => e.A \in Exp
                       /\ e.op \in Binary => e.B \in Exp
    BY Operands
  <1>2. Closed(All)
    OBVIOUS
  <1>3. ASSUME NEW e \in Exp, e.op # "AMP",
               e.op \in Macros => e.A \in All, e.op \in Binary => e.B \in All
        PROVE  e \in All
    <2> DEFINE X == All \cup {e}
    <2>1. X \in SUBSET Exp
      OBVIOUS
    <2>2. Closed(X)
      BY <1>2, <1>3
    <2> QED
      BY <2>1, <2>2
  <1> HIDE DEF All
  <1>4. f = Def(f)
    <2>1. ASSUME NEW e \in Exp
          PROVE  e \in All <=> /\ e.op # "AMP"
                               /\ e.op \in Macros => f[e.A]
                               /\ e.op \in Binary => f[e.B]
      BY <1>1, <1>2, <1>3
    <2> DEFINE P(e) == /\ e.op # "AMP"
                       /\ e.op \in Macros => f[e.A]
                       /\ e.op \in Binary => f[e.B]
               InAll(e) == e \in All
    <2>2. ASSUME NEW e \in Exp PROVE InAll(e) = P(e)
      <3>1. InAll(e) \in BOOLEAN /\ P(e) \in BOOLEAN
        OBVIOUS
      <3>2. InAll(e) <=> P(e)
        BY <2>1
      <3> HIDE DEF InAll, P
      <3> QED
        BY <3>1, <3>2
    <2>3. f = [e \in Exp |-> InAll(e)] /\ Def(f) = [e \in Exp |-> P(e)]
      OBVIOUS
    <2> HIDE DEF f, Def, P, InAll
    <2> QED
      BY <2>2, <2>3
  <1>5. WithoutAmp = CHOOSE g : g = Def(g)
    BY DEF WithoutAmp
  <1>6. WithoutAmp = Def(WithoutAmp)
    <2> HIDE DEF f, Def
    <2> QED
      BY <1>4, <1>5
  <1> QED
    BY <1>6

(* In a grammar that does not use AMP the children of every node on record *)
(* lie inside it, one after another, whatever was tried and taken back     *)
(* before they came to stand there.                                        *)
THEOREM TreesNestedCorrect == Spec => []AmpFreeTreesNested
  <1> DEFINE Inv == \A parts : Plain(parts) => NestInv(parts)
  <1>1. Init => Inv
    BY NestInit
  <1>2. BasicInv /\ TreeInv /\ Inv /\ [Next]_vars => Inv'
    <2> SUFFICES ASSUME BasicInv, TreeInv, Inv, [Next]_vars, NEW parts, Plain(parts)'
                 PROVE  NestInv(parts)'
      OBVIOUS
    <2>1. grammar' = grammar
      BY DEF Next, Step, Terminated, vars, Macro, Match, Function, EnterMacro, SeqRight, SeqEnd,
             DisjRight, DisjEnd, StarAgain, StarEnd, PlusAgain, PlusEnd, QuesEnd, BangEnd,
             HideEnd, AmpEnd, Continue, Finish, MatchString, MatchClass, MatchDot, Terminal,
             CallMemoized, CallFunction, Exhaust, Succeed, Fail
    <2>2. Plain(parts)
      BY <2>1 DEF Plain
    <2>3. NestInv(parts)
      BY <2>2
    <2> QED
      BY <2>2, <2>3, NestNext
  <1>3. TypeOK /\ Inv => AmpFreeTreesNested
    <2> SUFFICES ASSUME TypeOK, Inv, NoAmp(grammar.body) PROVE TreesNested
      BY DEF AmpFreeTreesNested
    <2> DEFINE parts == {e \in Exp : WithoutAmp[e]}
    <2>1. grammar.body \in [Rule -> Exp]
      BY GrammarAssumption DEF TypeOK
    <2>2. Plain(parts)
      BY <2>1, WithoutAmpFacts, Operands DEF Plain, MadeOf, NoAmp
    <2> QED
      BY <2>2 DEF NestInv
  <1> QED
    BY <1>1, <1>2, <1>3, BasicCorrect, TreeCorrect, TypeCorrect, PTL DEF Spec
=============================================================================
