---------------------- MODULE OperatorPrecedenceProofs ----------------------
(***************************************************************************)
(* ParseBinOpRHS joins every operator with what stands on its two sides,   *)
(* and groups by precedence all expressions but the ones JoinsTooEarly     *)
(* describes, for all operators, precedences and lengths of an expression: *)
(* the deques keep to the text whichever of their ends an expression is    *)
(* built from, and what is on Ops tells which operators were joined before *)
(* their turn.                                                             *)
(***************************************************************************)
EXTENDS OperatorPrecedence, SequenceTheorems, WellFoundedInduction, TLAPS

Extent == [first : Nat, last : Nat]

(* The ASTs u cover the first n + 1 operands of the expression w, one      *)
(* after the other, none of them empty, and the operator between two of    *)
(* them is at the same place of o.                                         *)
Covers(u, o, w, n) ==
  /\ Len(u) = Len(o) + 1
  /\ \A i \in 1..Len(u) : u[i].first <= u[i].last /\ u[i].last <= n + 1
  /\ u[1].first = 1 /\ u[Len(u)].last = n + 1
  /\ \A i \in 1..Len(o) : u[i + 1].first = u[i].last + 1 /\ o[i] = w[u[i].last]

Types ==
  /\ ops \in Seq(Operator) /\ prec \in [Operator -> Nat]
  /\ idx \in 0..Len(ops)
  /\ Ops \in Seq(Operator) /\ Unis \in Seq(Extent)
  /\ built \subseteq [op : Operator, left : Extent, right : Extent]
  /\ pc \in {"take", "rise", "fold", "done"}

(* The loops end when all operators are taken.                             *)
AllTaken ==
  /\ idx = 0 => Ops = <<>>
  /\ pc \in {"fold", "done"} => idx = Len(ops)
  /\ pc = "done" => Ops = <<>>

Inv == /\ Types
       /\ Covers(Unis, Ops, ops, idx)
       /\ AllTaken
       /\ \A e \in built : InPlace(e)

-----------------------------------------------------------------------------
(* What is left of a sequence without its last element. *)
LEMMA ButLastProperties ==
  ASSUME NEW Q, NEW s \in Seq(Q), s # <<>>
  PROVE  /\ ButLast(s) \in Seq(Q)
         /\ Len(ButLast(s)) = Len(s) - 1
         /\ \A i \in 1..(Len(s) - 1) : ButLast(s)[i] = s[i]
<1>1. Len(s) - 1 \in Nat /\ \A i \in 1..(Len(s) - 1) : s[i] \in Q
  OBVIOUS
<1> DEFINE n == Len(s) - 1
<1> HIDE DEF n
<1>2. /\ SubSeq(s, 1, n) \in Seq(Q)
      /\ Len(SubSeq(s, 1, n)) = IF 1 <= n THEN n - 1 + 1 ELSE 0
      /\ \A i \in 1..(n - 1 + 1) : SubSeq(s, 1, n)[i] = s[1 + i - 1]
  BY <1>1, SubSeqProperties DEF n
<1>3. /\ SubSeq(s, 1, n) \in Seq(Q)
      /\ Len(SubSeq(s, 1, n)) = n
      /\ \A i \in 1..n : SubSeq(s, 1, n)[i] = s[i]
  <2>1. n \in Nat
    BY <1>1 DEF n
  <2>2. Len(SubSeq(s, 1, n)) = n
    BY <1>2, <2>1
  <2>3. ASSUME NEW i \in 1..n PROVE SubSeq(s, 1, n)[i] = s[i]
    <3>1. i \in 1..(n - 1 + 1) /\ 1 + i - 1 = i
      BY <2>1
    <3> QED BY <1>2, <3>1
  <2> QED BY <1>2, <2>2, <2>3
<1> QED BY <1>3 DEF n, ButLast

(* The next operator and operand go to the backs of the deques.            *)
LEMMA CoversPush ==
  ASSUME NEW w \in Seq(Operator), NEW n \in Nat, n < Len(w),
         NEW u \in Seq(Extent), NEW o \in Seq(Operator), Covers(u, o, w, n)
  PROVE  Covers(Append(u, Operand(n + 2)), Append(o, w[n + 1]), w, n + 1)
<1> DEFINE m == Len(o)
           v == Append(u, Operand(n + 2))
           p == Append(o, w[n + 1])
<1>1. m \in Nat /\ Len(u) = m + 1 /\ Len(p) = m + 1 /\ Len(v) = m + 2
  BY DEF Covers, Extent, Operand
<1>2. \A i \in 1..m : p[i] = o[i]
  OBVIOUS
<1>3. \A i \in 1..(m + 1) : v[i] = u[i] /\ v[i] \in Extent
  BY <1>1
<1>4. p[m + 1] = w[n + 1] /\ v[m + 2] = [first |-> n + 2, last |-> n + 2]
  BY <1>1 DEF Operand
<1> HIDE DEF m, v, p
<1>5. \A i \in 1..(m + 2) : v[i].first <= v[i].last /\ v[i].last <= n + 2
  <2>1. ASSUME NEW i \in 1..(m + 1)
        PROVE  v[i].first <= v[i].last /\ v[i].last <= n + 2
    <3>1. u[i].first <= u[i].last /\ u[i].last <= n + 1
      BY <1>1 DEF Covers
    <3>2. v[i] = u[i] /\ u[i].last \in Nat
      BY <1>3 DEF Extent
    <3> QED BY <3>1, <3>2
  <2> QED BY <1>1, <1>4, <2>1
<1>6. \A i \in 1..(m + 1) : v[i + 1].first = v[i].last + 1 /\ p[i] = w[v[i].last]
  <2>1. \A i \in 1..m : v[i + 1].first = v[i].last + 1 /\ p[i] = w[v[i].last]
    BY <1>1, <1>2, <1>3 DEF Covers, m
  <2>2. v[m + 1].last = n + 1
    BY <1>1, <1>3 DEF Covers
  <2>3. v[m + 2].first = n + 2 /\ p[m + 1] = w[n + 1]
    BY <1>4
  <2>4. v[m + 1 + 1].first = v[m + 1].last + 1 /\ p[m + 1] = w[v[m + 1].last]
    BY <1>1, <2>2, <2>3
  <2> QED BY <1>1, <2>1, <2>4
<1>7. v[1].first = 1 /\ v[m + 2].last = n + 2
  BY <1>1, <1>3, <1>4 DEF Covers
<1>8. Len(p) + 1 = m + 2 /\ p \in Seq(Operator)
  BY <1>1, <1>2, <1>4 DEF p
<1>9. Covers(v, p, w, n + 1)
  BY <1>1, <1>5, <1>6, <1>7 DEF Covers
<1> QED BY <1>9 DEF v, p

(* Two extents, one after the other, and neither empty. *)
LEMMA Between ==
  ASSUME NEW a \in Nat, NEW b \in Nat, NEW c \in Nat, NEW d \in Nat,
         a <= b, c = b + 1, c <= d
  PROVE  a <= d
OBVIOUS

(* The last two of m + 1 ASTs are joined at the last operator.             *)
JoinedBack(u, m) == Append(ButLast(ButLast(u)), Joined(u[m], u[m + 1]))

LEMMA JoinedBackProperties ==
  ASSUME NEW u \in Seq(Extent), NEW m \in Nat \ {0}, Len(u) = m + 1
  PROVE  /\ JoinedBack(u, m) \in Seq(Extent) /\ Len(JoinedBack(u, m)) = m
         /\ \A i \in 1..(m - 1) : JoinedBack(u, m)[i] = u[i]
         /\ JoinedBack(u, m)[m] = [first |-> u[m].first, last |-> u[m + 1].last]
<1> DEFINE v == JoinedBack(u, m)
<1>1. m \in Nat \ {0} /\ Len(u) = m + 1
  OBVIOUS
<1>3. ButLast(u) \in Seq(Extent) /\ Len(ButLast(u)) = m /\ \A i \in 1..m : ButLast(u)[i] = u[i]
  BY <1>1 DEF ButLast
<1>4. Joined(u[m], u[m + 1]) \in Extent
  <2>1. u[m] \in Extent /\ u[m + 1] \in Extent
    BY <1>1
  <2> QED BY <2>1 DEF Joined, Extent
<1>5. /\ v \in Seq(Extent) /\ Len(v) = m
      /\ \A i \in 1..(m - 1) : v[i] = u[i]
      /\ v[m] = [first |-> u[m].first, last |-> u[m + 1].last]
  <2>1. /\ ButLast(ButLast(u)) \in Seq(Extent) /\ Len(ButLast(ButLast(u))) = m - 1
        /\ \A i \in 1..(m - 1) : ButLast(ButLast(u))[i] = u[i]
    <3> DEFINE b == ButLast(u)
    <3>1. b \in Seq(Extent) /\ Len(b) = m /\ \A i \in 1..m : b[i] = u[i]
      BY <1>3
    <3> HIDE DEF b
    <3>2. /\ ButLast(b) \in Seq(Extent) /\ Len(ButLast(b)) = m - 1
          /\ \A i \in 1..(m - 1) : ButLast(b)[i] = b[i]
      BY <1>1, <3>1 DEF ButLast
    <3> QED BY <1>1, <3>1, <3>2 DEF b
  <2> QED BY <1>1, <1>4, <2>1 DEF Joined, JoinedBack
<1> QED BY <1>5

LEMMA CoversBack ==
  ASSUME NEW w, NEW n \in Nat,
         NEW u \in Seq(Extent), NEW o \in Seq(Operator), Covers(u, o, w, n), o # <<>>
  PROVE  LET m == Len(o)
             v == JoinedBack(u, m)
         IN  /\ LastOf(u) = u[m + 1] /\ LastOf(ButLast(u)) = u[m] /\ LastOf(o) = o[m]
             /\ ButLast(o) \in Seq(Operator) /\ v \in Seq(Extent)
             /\ Covers(v, ButLast(o), w, n)
<1> DEFINE m == Len(o)
           v == JoinedBack(u, m)
           p == ButLast(o)
<1>1. m \in Nat \ {0} /\ Len(u) = m + 1
  BY DEF Covers
<1>2. p \in Seq(Operator) /\ Len(p) = m - 1 /\ \A i \in 1..(m - 1) : p[i] = o[i]
  BY <1>1, ButLastProperties
<1>3. ButLast(u) \in Seq(Extent) /\ Len(ButLast(u)) = m /\ \A i \in 1..m : ButLast(u)[i] = u[i]
  BY <1>1 DEF ButLast
<1>5. /\ v \in Seq(Extent) /\ Len(v) = m
      /\ \A i \in 1..(m - 1) : v[i] = u[i]
      /\ v[m] = [first |-> u[m].first, last |-> u[m + 1].last]
  BY <1>1, JoinedBackProperties
<1>6. LastOf(u) = u[m + 1] /\ LastOf(ButLast(u)) = u[m] /\ LastOf(o) = o[m]
  BY <1>1, <1>3 DEF LastOf
<1>7. Covers(v, p, w, n)
  <2>1. \A i \in 1..(m + 1) : u[i] \in Extent /\ u[i].first <= u[i].last /\ u[i].last <= n + 1
    BY <1>1 DEF Covers
  <2>2. \A i \in 1..m : u[i + 1].first = u[i].last + 1 /\ o[i] = w[u[i].last]
    BY DEF Covers
  <2>3. u[1].first = 1 /\ u[m + 1].last = n + 1
    BY <1>1 DEF Covers
  <2> HIDE DEF m, v, p
  <2>4. \A i \in 1..m : v[i].first <= v[i].last /\ v[i].last <= n + 1
    <3>1. u[m].first <= u[m + 1].last
      <4>1. /\ u[m] \in Extent /\ u[m].first <= u[m].last
            /\ u[m + 1] \in Extent /\ u[m + 1].first <= u[m + 1].last
        BY <1>1, <2>1
      <4>2. u[m + 1].first = u[m].last + 1
        BY <1>1, <2>2
      <4>3. /\ u[m].first \in Nat /\ u[m].last \in Nat
            /\ u[m + 1].first \in Nat /\ u[m + 1].last \in Nat
        BY <4>1 DEF Extent
      <4> QED BY <4>1, <4>2, <4>3, Between
    <3> QED BY <1>1, <1>5, <2>1, <3>1
  <2>5. v[1].first = 1 /\ v[m].last = n + 1
    BY <1>1, <1>5, <2>3
  <2>6. \A i \in 1..(m - 1) : v[i + 1].first = v[i].last + 1 /\ p[i] = w[v[i].last]
    <3> SUFFICES ASSUME NEW i \in 1..(m - 1)
                 PROVE  v[i + 1].first = v[i].last + 1 /\ p[i] = w[v[i].last]
      OBVIOUS
    <3>1. v[i] = u[i] /\ p[i] = o[i] /\ i \in 1..m
      BY <1>1, <1>2, <1>5
    <3>2. v[i + 1].first = u[i + 1].first
      <4>1. CASE i + 1 = m
        BY <4>1, <1>5
      <4>2. CASE i + 1 \in 1..(m - 1)
        BY <4>2, <1>5
      <4> QED BY <1>1, <4>1, <4>2
    <3> QED BY <2>2, <3>1, <3>2
  <2> QED BY <1>1, <1>2, <1>5, <2>4, <2>5, <2>6 DEF Covers
<1> QED BY <1>2, <1>5, <1>6, <1>7

(* The first two ASTs are joined at the first operator.                    *)
JoinedFront(u) == <<Joined(u[1], u[2])>> \o Tail(Tail(u))

LEMMA JoinedFrontProperties ==
  ASSUME NEW u \in Seq(Extent), NEW m \in Nat \ {0}, Len(u) = m + 1
  PROVE  /\ JoinedFront(u) \in Seq(Extent) /\ Len(JoinedFront(u)) = m
         /\ \A i \in 2..m : JoinedFront(u)[i] = u[i + 1]
         /\ JoinedFront(u)[1] = [first |-> u[1].first, last |-> u[2].last]
<1> DEFINE v == JoinedFront(u)
<1>1. m \in Nat \ {0} /\ Len(u) = m + 1
  OBVIOUS
<1>3. Joined(u[1], u[2]) \in Extent
  <2>1. u[1] \in Extent /\ u[2] \in Extent
    BY <1>1
  <2> QED BY <2>1 DEF Joined, Extent
<1>4. /\ Tail(Tail(u)) \in Seq(Extent) /\ Len(Tail(Tail(u))) = m - 1
      /\ \A i \in 1..(m - 1) : Tail(Tail(u))[i] = u[i + 2]
  <2> DEFINE t == Tail(u)
  <2>1. t \in Seq(Extent) /\ Len(t) = m /\ \A i \in 1..m : t[i] = u[i + 1]
    BY <1>1, HeadTailProperties
  <2> HIDE DEF t
  <2>2. Tail(t) \in Seq(Extent) /\ Len(Tail(t)) = m - 1 /\ \A i \in 1..(m - 1) : Tail(t)[i] = t[i + 1]
    BY <1>1, <2>1, HeadTailProperties
  <2> QED BY <1>1, <2>1, <2>2 DEF t
<1>5. /\ v \in Seq(Extent) /\ Len(v) = m
      /\ \A i \in 2..m : v[i] = u[i + 1]
      /\ v[1] = [first |-> u[1].first, last |-> u[2].last]
  <2> DEFINE t == Tail(Tail(u))
             h == <<Joined(u[1], u[2])>>
  <2>1. h \in Seq(Extent) /\ Len(h) = 1 /\ h[1] = Joined(u[1], u[2])
    BY <1>3
  <2>2. t \in Seq(Extent) /\ Len(t) = m - 1 /\ \A i \in 1..(m - 1) : t[i] = u[i + 2]
    BY <1>4
  <2> HIDE DEF t, h
  <2>3. /\ h \o t \in Seq(Extent)
        /\ Len(h \o t) = Len(h) + Len(t)
        /\ \A i \in 1..(Len(h) + Len(t)) : (h \o t)[i] = IF i <= Len(h) THEN h[i] ELSE t[i - Len(h)]
    BY <2>1, <2>2, ConcatProperties
  <2>4. h \o t \in Seq(Extent) /\ Len(h \o t) = m /\ (h \o t)[1] = h[1]
    BY <1>1, <2>1, <2>2, <2>3
  <2>5. \A i \in 2..m : (h \o t)[i] = t[i - 1]
    <3> SUFFICES ASSUME NEW i \in 2..m PROVE (h \o t)[i] = t[i - 1]
      OBVIOUS
    <3>1. i \in 1..(Len(h) + Len(t)) /\ ~(i <= Len(h)) /\ i - Len(h) = i - 1
      BY <1>1, <2>1, <2>2
    <3> QED BY <2>3, <3>1
  <2>6. \A i \in 2..m : t[i - 1] = u[i + 1]
    BY <1>1, <2>2
  <2> QED BY <1>1, <2>1, <2>4, <2>5, <2>6 DEF h, t, Joined, JoinedFront
<1> QED BY <1>5

LEMMA CoversFront ==
  ASSUME NEW w, NEW n \in Nat,
         NEW u \in Seq(Extent), NEW o \in Seq(Operator), Covers(u, o, w, n), o # <<>>
  PROVE  LET v == JoinedFront(u)
         IN  /\ Tail(o) \in Seq(Operator) /\ v \in Seq(Extent)
             /\ Covers(v, Tail(o), w, n)
<1> DEFINE m == Len(o)
           v == JoinedFront(u)
           p == Tail(o)
<1>1. m \in Nat \ {0} /\ Len(u) = m + 1
  BY DEF Covers
<1>2. p \in Seq(Operator) /\ Len(p) = m - 1 /\ \A i \in 1..(m - 1) : p[i] = o[i + 1]
  BY <1>1
<1>5. /\ v \in Seq(Extent) /\ Len(v) = m
      /\ \A i \in 2..m : v[i] = u[i + 1]
      /\ v[1] = [first |-> u[1].first, last |-> u[2].last]
  BY <1>1, JoinedFrontProperties
<1>7. Covers(v, p, w, n)
  <2>1. \A i \in 1..(m + 1) : u[i] \in Extent /\ u[i].first <= u[i].last /\ u[i].last <= n + 1
    BY <1>1 DEF Covers
  <2>2. \A i \in 1..m : u[i + 1].first = u[i].last + 1 /\ o[i] = w[u[i].last]
    BY DEF Covers
  <2>3. u[1].first = 1 /\ u[m + 1].last = n + 1
    BY <1>1 DEF Covers
  <2> HIDE DEF m, v, p
  <2>4. \A i \in 1..m : v[i].first <= v[i].last /\ v[i].last <= n + 1
    <3>1. u[1].first <= u[2].last
      <4>1. /\ u[1] \in Extent /\ u[1].first <= u[1].last
            /\ u[2] \in Extent /\ u[2].first <= u[2].last
        BY <1>1, <2>1
      <4>2. u[2].first = u[1].last + 1
        BY <1>1, <2>2
      <4>3. /\ u[1].first \in Nat /\ u[1].last \in Nat
            /\ u[2].first \in Nat /\ u[2].last \in Nat
        BY <4>1 DEF Extent
      <4> QED BY <4>1, <4>2, <4>3, Between
    <3> QED BY <1>1, <1>5, <2>1, <3>1
  <2>5. v[1].first = 1 /\ v[m].last = n + 1
    BY <1>1, <1>5, <2>3
  <2>6. \A i \in 1..(m - 1) : v[i + 1].first = v[i].last + 1 /\ p[i] = w[v[i].last]
    <3> SUFFICES ASSUME NEW i \in 1..(m - 1)
                 PROVE  v[i + 1].first = v[i].last + 1 /\ p[i] = w[v[i].last]
      OBVIOUS
    <3>1. v[i + 1] = u[i + 2] /\ v[i].last = u[i + 1].last
      BY <1>1, <1>5
    <3>2. u[i + 2].first = u[i + 1].last + 1 /\ o[i + 1] = w[u[i + 1].last]
      BY <1>1, <2>2
    <3> QED BY <1>2, <3>1, <3>2
  <2> QED BY <1>1, <1>2, <1>5, <2>4, <2>5, <2>6 DEF Covers
<1> QED BY <1>2, <1>5, <1>7

-----------------------------------------------------------------------------
LEMMA InitInv == Init => Inv
<1> SUFFICES ASSUME Init PROVE Inv
  OBVIOUS
<1>1. Types
  BY ExpressionAssumption, PrecedenceAssumption DEF Init, Types, Extent, Operand
<1>2. Covers(Unis, Ops, ops, idx)
  BY DEF Init, Covers, Operand
<1> QED BY <1>1, <1>2 DEF Init, Inv, AllTaken

LEMMA PushInv ==
  ASSUME Inv, idx < Len(ops), Push, UNCHANGED <<ops, prec>>
  PROVE  Inv'
<1>1. Types'
  <2>1. /\ ops' \in Seq(Operator) /\ prec' \in [Operator -> Nat]
        /\ idx' \in 0..Len(ops') /\ pc' \in {"take", "rise", "fold", "done"}
        /\ built' \subseteq [op : Operator, left : Extent, right : Extent]
    BY DEF Inv, Types, Push
  <2>2. Operand(idx + 2) \in Extent
    BY DEF Inv, Types, Extent, Operand
  <2>3. ops[idx + 1] \in Operator
    BY DEF Inv, Types
  <2>4. Ops' \in Seq(Operator) /\ Unis' \in Seq(Extent)
    BY <2>2, <2>3 DEF Inv, Types, Push
  <2> QED BY <2>1, <2>4 DEF Types
<1>2. Covers(Unis', Ops', ops', idx')
  BY CoversPush DEF Inv, Types, Push
<1>3. AllTaken'
  BY DEF Inv, AllTaken, Types, Push
<1>4. ASSUME NEW e \in built' PROVE InPlace(e)'
  <2>1. e \in built /\ InPlace(e) /\ idx \in Nat /\ idx' = idx + 1
    BY <1>4 DEF Inv, Types, Push
  <2>2. e.right.last \in Nat
    BY <2>1 DEF Inv, Types, Extent
  <2> QED BY <2>1, <2>2 DEF InPlace
<1> QED BY <1>1, <1>2, <1>3, <1>4 DEF Inv

(* The expression that joins two neighbours is in its place. *)
LEMMA JoinedInPlace ==
  ASSUME Types, Covers(Unis, Ops, ops, idx), NEW k \in 1..Len(Ops)
  PROVE  LET e == BinaryExprAST(Ops[k], Unis[k], Unis[k + 1])
         IN  e \in [op : Operator, left : Extent, right : Extent] /\ InPlace(e)
<1>1. /\ Ops[k] \in Operator /\ Unis[k] \in Extent /\ Unis[k + 1] \in Extent
      /\ k \in 1..Len(Unis) /\ k + 1 \in 1..Len(Unis)
  BY DEF Types, Covers
<1>2. /\ Unis[k].first <= Unis[k].last
      /\ Unis[k + 1].first <= Unis[k + 1].last /\ Unis[k + 1].last <= idx + 1
      /\ Unis[k + 1].first = Unis[k].last + 1 /\ Ops[k] = ops[Unis[k].last]
  BY <1>1 DEF Covers
<1>3. 1 <= Unis[k].first
  <2>1. CASE k = 1
    BY <2>1 DEF Covers
  <2>2. CASE k # 1
    <3>1. k - 1 \in 1..Len(Ops) /\ k - 1 \in 1..Len(Unis) /\ k - 1 + 1 = k
      BY <2>2 DEF Types, Covers
    <3>2. Unis[k].first = Unis[k - 1].last + 1 /\ Unis[k - 1] \in Extent
      <4>1. Unis[k - 1 + 1].first = Unis[k - 1].last + 1
        BY <3>1 DEF Covers
      <4>2. Unis[k - 1] \in Extent
        BY <3>1 DEF Types
      <4> QED BY <3>1, <4>1, <4>2
    <3> QED BY <3>2 DEF Extent
  <2> QED BY <2>1, <2>2
<1> QED BY <1>1, <1>2, <1>3 DEF BinaryExprAST, InPlace

LEMMA StepInv == Inv /\ [Next]_vars => Inv'
<1> SUFFICES ASSUME Inv, [Next]_vars PROVE Inv'
  OBVIOUS
<1>1. ASSUME First PROVE Inv'
  <2>1. CASE ops = <<>>
    BY <1>1, <2>1 DEF First, Inv, Types, AllTaken, InPlace
  <2>2. CASE ops # <<>>
    <3>1. idx < Len(ops)
      BY <1>1, <2>2 DEF First, Inv, Types
    <3> QED BY <1>1, <2>2, <3>1, PushInv DEF First
  <2> QED BY <2>1, <2>2
<1>2. ASSUME Take PROVE Inv'
  <2>1. CASE ThisPrec >= NextPrec
    BY <1>2, <2>1 DEF Take, Inv, Types, AllTaken, InPlace
  <2>2. CASE ~(ThisPrec >= NextPrec)
    BY <1>2, <2>2, PushInv DEF Take
  <2> QED BY <2>1, <2>2
<1>3. ASSUME LastTerm PROVE Inv'
  BY <1>3 DEF LastTerm, Inv, Types, AllTaken, InPlace
<1>4. ASSUME Consolidate PROVE Inv'
  <2> DEFINE m == Len(Ops)
             e == BinaryExprAST(Ops[m], Unis[m], Unis[m + 1])
  <2>1. m \in 1..Len(Ops) /\ Ops # <<>> /\ idx \in Nat
    BY <1>4 DEF Consolidate, Rising, Inv, Types
  <2>2. /\ LastOf(Unis) = Unis[m + 1] /\ LastOf(ButLast(Unis)) = Unis[m] /\ LastOf(Ops) = Ops[m]
        /\ Ops' = ButLast(Ops) /\ Ops' \in Seq(Operator)
        /\ Unis' = JoinedBack(Unis, m)
        /\ Unis' \in Seq(Extent) /\ Covers(Unis', Ops', ops, idx)
    <3>1. Unis \in Seq(Extent) /\ Ops \in Seq(Operator) /\ Covers(Unis, Ops, ops, idx)
      BY DEF Inv, Types
    <3>2. /\ LastOf(Unis) = Unis[m + 1] /\ LastOf(ButLast(Unis)) = Unis[m] /\ LastOf(Ops) = Ops[m]
          /\ ButLast(Ops) \in Seq(Operator) /\ JoinedBack(Unis, m) \in Seq(Extent)
          /\ Covers(JoinedBack(Unis, m), ButLast(Ops), ops, idx)
      BY <2>1, <3>1, CoversBack
    <3>3. Unis' = JoinedBack(Unis, m)
      BY <1>4, <3>2 DEF Consolidate, JoinBack, JoinedBack
    <3> QED BY <1>4, <3>2, <3>3 DEF Consolidate
  <2>3. built' = built \cup {e}
    BY <1>4, <2>2 DEF Consolidate, JoinBack
  <2>4. e \in [op : Operator, left : Extent, right : Extent] /\ InPlace(e)
    BY <2>1, JoinedInPlace DEF Inv
  <2> HIDE DEF e
  <2>5. \A x \in built' : InPlace(x)'
    BY <1>4, <2>3, <2>4 DEF Consolidate, Inv, InPlace
  <2>6. Types'
    BY <1>4, <2>2, <2>3, <2>4 DEF Consolidate, Inv, Types
  <2>7. AllTaken'
    BY <1>4, <2>1 DEF Consolidate, Inv, AllTaken
  <2> QED BY <1>4, <2>2, <2>5, <2>6, <2>7 DEF Consolidate, Inv
<1>5. ASSUME EndOfRise PROVE Inv'
  <2>1. CASE idx < Len(ops)
    BY <1>5, <2>1, PushInv DEF EndOfRise
  <2>2. CASE ~(idx < Len(ops))
    BY <1>5, <2>2 DEF EndOfRise, Inv, Types, AllTaken, InPlace
  <2> QED BY <2>1, <2>2
<1>6. ASSUME Fold PROVE Inv'
  <2>1. CASE Ops = <<>>
    BY <1>6, <2>1 DEF Fold, Inv, Types, AllTaken, InPlace
  <2>2. CASE Ops # <<>>
    <3> DEFINE e == BinaryExprAST(Ops[1], Unis[1], Unis[2])
    <3>1. 1 \in 1..Len(Ops) /\ idx \in Nat
      BY <2>2 DEF Inv, Types
    <3>2. /\ built' = built \cup {e}
          /\ Unis' = JoinedFront(Unis)
          /\ Ops' = Tail(Ops) /\ pc' = pc
      BY <1>6, <2>2 DEF Fold, JoinedFront
    <3>3. /\ Ops' \in Seq(Operator) /\ Unis' \in Seq(Extent) /\ Covers(Unis', Ops', ops, idx)
      BY <2>2, <3>1, <3>2, CoversFront DEF Inv, Types
    <3>4. e \in [op : Operator, left : Extent, right : Extent] /\ InPlace(e)
      BY <3>1, JoinedInPlace DEF Inv
    <3> HIDE DEF e
    <3>5. \A x \in built' : InPlace(x)'
      BY <1>6, <3>2, <3>4 DEF Fold, Inv, InPlace
    <3>6. Types'
      BY <1>6, <3>2, <3>3, <3>4 DEF Fold, Inv, Types
    <3>7. AllTaken'
      BY <1>6, <2>2, <3>2 DEF Fold, Inv, AllTaken
    <3> QED BY <1>6, <3>3, <3>5, <3>6, <3>7 DEF Fold, Inv
  <2> QED BY <2>1, <2>2
<1>7. ASSUME UNCHANGED vars PROVE Inv'
  BY <1>7 DEF vars, Inv, Types, AllTaken, InPlace
<1> QED BY <1>1, <1>2, <1>3, <1>4, <1>5, <1>6, <1>7 DEF Next, Step, Terminated

LEMMA InvInPlace == Inv => OperatorsInPlace
<1> SUFFICES ASSUME Inv PROVE OperatorsInPlace
  OBVIOUS
<1>1. /\ Len(Unis) = Len(Ops) + 1
      /\ Unis[1].first = 1 /\ LastOf(Unis).last = idx + 1
      /\ \A i \in 1..Len(Ops) : Unis[i + 1].first = Unis[i].last + 1 /\ Ops[i] = ops[Unis[i].last]
  BY DEF Inv, Covers, LastOf
<1>2. ASSUME pc = "done" PROVE Unis = <<[first |-> 1, last |-> Len(ops) + 1]>>
  <2>1. Len(Unis) = 1 /\ Unis[1] \in Extent /\ Unis[1].first = 1 /\ Unis[1].last = Len(ops) + 1
    <3>1. Ops = <<>> /\ idx = Len(ops) /\ Unis \in Seq(Extent)
      BY <1>2 DEF Inv, Types, AllTaken
    <3>2. Len(Unis) = 1
      BY <1>1, <3>1
    <3>3. Unis[1].first = 1 /\ Unis[1].last = Len(ops) + 1
      BY <1>1, <3>1, <3>2 DEF LastOf
    <3>4. Unis[1] \in Extent
      BY <3>1, <3>2
    <3> QED BY <3>2, <3>3, <3>4
  <2>2. Unis[1] = [first |-> 1, last |-> Len(ops) + 1]
    BY <2>1 DEF Extent
  <2> QED BY <2>1, <2>2 DEF Inv, Types
<1> QED BY <1>1, <1>2 DEF Inv, OperatorsInPlace

(* OperatorsInPlace: neither deque runs short and every operator joins its *)
(* two sides.                                                              *)
THEOREM OperatorsInPlaceCorrect == Spec => []OperatorsInPlace
<1>1. Init => Inv
  BY InitInv
<1>2. Inv /\ [Next]_vars => Inv'
  BY StepInv
<1>3. Inv => OperatorsInPlace
  BY InvInPlace
<1> QED BY <1>1, <1>2, <1>3, PTL DEF Spec

-----------------------------------------------------------------------------
(* Which expressions are grouped by precedence.  In what follows q holds   *)
(* the precedences of the operators in the order written, p the places of  *)
(* the h operators on Ops with the place behind the n operators taken.     *)
Lowest(q, m)    == \A i \in 1..(m - 1) : q[m] <= q[i]
Above(q, m, n)  == \A i \in (m + 1)..(n - 1) : q[m] < q[i]
Passed(q, m, n) == \E j \in (m + 1)..(n - 1) : q[j] < q[n]

IsStack(p, h, n) ==
  /\ h \in Nat /\ n \in Nat
  /\ \A k \in 1..(h + 1) : p[k] \in Nat
  /\ \A k \in 1..h : 1 <= p[k] /\ p[k] <= n /\ p[k] < p[k + 1]
  /\ p[h + 1] = n + 1

ArePrecedences(q, n) == \A i \in 1..n : q[i] \in Int /\ -1 <= q[i]

(* Between an operator on the stack and the next one there are only such   *)
(* as bind more tightly.                                                   *)
RightsBind(q, p, h) == \A k \in 1..h : Above(q, p[k], p[k + 1])

(* The precedences on the stack do not rise as far as it holds operators   *)
(* that are lowest among those before them, and rise from there on.  What  *)
(* is joined to the left of one was joined because precedences fell.       *)
Stacked(q, p, h) ==
  /\ p[1] = 1
  /\ \A k \in 2..h : Lowest(q, p[k]) \/ q[p[k - 1]] < q[p[k]]
  /\ \A l \in 1..h : Lowest(q, p[l]) => \A k \in 1..l : Lowest(q, p[k])
  /\ \A k \in 2..h : p[k - 1] + 1 = p[k] \/ q[p[k]] <= q[p[k] - 1]

(* An operator behind three rising precedences, and whether it is still on *)
(* the stack, with one that binds less tightly joined to its left.         *)
Early(q, n, m) ==
  \E i, j \in 1..n :
    /\ i < j /\ j + 1 < m
    /\ q[i] < q[j]
    /\ \A k \in (j + 1)..(m - 1) : q[j] < q[k]
    /\ q[m] <= q[m - 1] /\ q[j] < q[m]

Caught(q, p, h, m) == \E k \in 2..h : p[k] = m /\ Passed(q, p[k - 1], m)

LEMMA LeastOf ==
  ASSUME NEW T, T \subseteq Nat, T # {}
  PROVE  \E x \in T : \A y \in T : x <= y
<1> DEFINE Below == {p \in Nat \X Nat : p[1] < p[2]}
<1>1. IsWellFoundedOn(Below, Nat)
  BY NatLessThanWellFounded DEF OpToRel
<1> HIDE DEF Below
<1>2. PICK x \in T : \A y \in T : <<y, x>> \notin Below
  BY <1>1, WFMin
<1>3. ASSUME NEW y \in T PROVE x <= y
  <2>1. x \in Nat /\ y \in Nat /\ <<y, x>> \notin Below
    BY <1>2
  <2>2. <<y, x>> \in Nat \X Nat /\ <<y, x>>[1] = y /\ <<y, x>>[2] = x
    BY <2>1
  <2>3. ~(y < x)
    BY <2>1, <2>2 DEF Below
  <2> QED
    BY <2>1, <2>3
<1> QED
  BY <1>3

(* The last of the lowest precedences in a stretch of operators. *)
LEMMA LastLowest ==
  ASSUME NEW q, NEW a \in Nat, NEW b \in Nat, a <= b,
         \A i \in a..b : q[i] \in Int /\ -1 <= q[i]
  PROVE  \E j \in a..b : /\ \A i \in a..b : q[j] <= q[i]
                         /\ \A i \in (j + 1)..b : q[j] < q[i]
<1> DEFINE V == {q[i] + 1 : i \in a..b}
<1>1. PICK v \in V : \A w \in V : v <= w
  <2>1. V \subseteq Nat
    OBVIOUS
  <2>2. a \in a..b
    OBVIOUS
  <2>3. V # {}
    BY <2>2
  <2> HIDE DEF V
  <2> QED
    BY <2>1, <2>3, LeastOf
<1> DEFINE T == {b - i : i \in {i \in a..b : q[i] + 1 = v}}
<1>2. PICK t \in T : \A u \in T : t <= u
  <2>1. T \subseteq Nat
    OBVIOUS
  <2>2. PICK i \in a..b : v = q[i] + 1
    OBVIOUS
  <2>3. T # {}
    BY <2>2
  <2> HIDE DEF T
  <2> QED
    BY <2>1, <2>3, LeastOf
<1>3. PICK j \in a..b : q[j] + 1 = v /\ t = b - j
  OBVIOUS
<1>4. ASSUME NEW i \in a..b PROVE q[j] <= q[i]
  <2>1. q[i] + 1 \in V
    OBVIOUS
  <2>2. v <= q[i] + 1
    BY <1>1, <2>1
  <2> HIDE DEF V, T
  <2> QED
    BY <1>3, <2>2
<1>5. ASSUME NEW i \in (j + 1)..b PROVE q[j] < q[i]
  <2>1. i \in a..b
    OBVIOUS
  <2>2. q[i] # q[j]
    <3> SUFFICES ASSUME q[i] = q[j] PROVE FALSE
      OBVIOUS
    <3>1. b - i \in T
      BY <1>3, <2>1
    <3>2. t <= b - i
      BY <1>2, <3>1
    <3> HIDE DEF V, T
    <3> QED
      BY <1>3, <3>2
  <2> HIDE DEF V, T
  <2> QED
    BY <1>4, <2>1, <2>2
<1> QED
  BY <1>4, <1>5

(* A while loop stops at an operator that is lowest.                       *)
LEMMA TopLowest ==
  ASSUME NEW q, NEW p, NEW h, NEW n, IsStack(p, h, n), ArePrecedences(q, n),
         Stacked(q, p, h), h >= 1,
         h > 1 => q[p[h]] <= q[p[h - 1]]
  PROVE  Lowest(q, p[h])
<1>1. CASE h = 1
  <2>1. p[h] - 1 = 0
    BY <1>1 DEF Stacked
  <2> QED
    BY <2>1 DEF Lowest
<1>2. CASE h > 1
  <2>1. h \in 2..h /\ h \in 1..h /\ h - 1 \in 1..h
    BY <1>2 DEF IsStack
  <2>2. p[h] \in 1..n /\ p[h - 1] \in 1..n
    BY <2>1 DEF IsStack
  <2>3. q[p[h]] \in Int /\ q[p[h - 1]] \in Int
    BY <2>2 DEF ArePrecedences
  <2> QED
    BY <1>2, <2>1, <2>3 DEF Stacked
<1> QED
  BY <1>1, <1>2 DEF IsStack

(* Nothing before it, and nothing behind it, is lower.                     *)
LEMMA LowestOfAll ==
  ASSUME NEW q, NEW p, NEW h, NEW n, IsStack(p, h, n), ArePrecedences(q, n),
         RightsBind(q, p, h), h >= 1, Lowest(q, p[h])
  PROVE  \A i \in 1..n : q[p[h]] <= q[i]
<1>1. h \in 1..h /\ h + 1 \in 1..(h + 1) /\ n \in Nat
  BY DEF IsStack
<1>2. p[h] \in 1..n /\ p[h + 1] = n + 1
  BY <1>1 DEF IsStack
<1>3. Above(q, p[h], n + 1)
  BY <1>1, <1>2 DEF RightsBind
<1>4. ASSUME NEW i \in 1..n PROVE q[p[h]] <= q[i]
  <2>1. q[i] \in Int /\ q[p[h]] \in Int
    BY <1>2 DEF ArePrecedences
  <2>2. CASE i < p[h]
    <3>1. i \in 1..(p[h] - 1)
      BY <1>1, <1>2, <2>2
    <3> QED
      BY <3>1 DEF Lowest
  <2>3. CASE i = p[h]
    BY <2>1, <2>3
  <2>4. CASE i > p[h]
    <3>1. i \in (p[h] + 1)..((n + 1) - 1)
      BY <1>1, <1>2, <2>4
    <3> QED
      BY <1>3, <2>1, <3>1 DEF Above
  <2> QED
    BY <1>2, <2>2, <2>3, <2>4
<1> QED
  BY <1>4

(* The next operator comes onto the stack, over the same places.           *)
Pushed(p, r, h, n) ==
  /\ IsStack(p, h, n) /\ IsStack(r, h + 1, n + 1)
  /\ \A k \in 1..(h + 1) : r[k] = p[k]

LEMMA PushBinds ==
  ASSUME NEW q, NEW p, NEW r, NEW h, NEW n, Pushed(p, r, h, n), RightsBind(q, p, h)
  PROVE  RightsBind(q, r, h + 1)
<1>1. h \in Nat /\ n \in Nat /\ p[h + 1] = n + 1 /\ r[h + 1 + 1] = n + 1 + 1
  BY DEF Pushed, IsStack
<1>2. ASSUME NEW k \in 1..h PROVE Above(q, r[k], r[k + 1])
  <2>1. k \in 1..(h + 1) /\ k + 1 \in 1..(h + 1)
    BY <1>1
  <2>2. r[k] = p[k] /\ r[k + 1] = p[k + 1]
    BY <2>1 DEF Pushed
  <2> QED
    BY <2>2 DEF RightsBind
<1>3. Above(q, r[h + 1], r[h + 1 + 1])
  <2>1. h + 1 \in 1..(h + 1)
    BY <1>1
  <2>2. r[h + 1] = n + 1
    BY <1>1, <2>1 DEF Pushed
  <2>3. \A i : i \notin ((n + 1) + 1)..((n + 1 + 1) - 1)
    BY <1>1
  <2> QED
    BY <1>1, <2>2, <2>3 DEF Above
<1>4. \A k \in 1..(h + 1) : k \in 1..h \/ k = h + 1
  BY <1>1
<1> QED
  BY <1>2, <1>3, <1>4 DEF RightsBind

(* It does so where precedences rise, or over an operator that is lowest,  *)
(* and then because they have fallen.                                      *)
LEMMA PushStacked ==
  ASSUME NEW q, NEW p, NEW r, NEW h, NEW n, Pushed(p, r, h, n),
         ArePrecedences(q, n + 1), RightsBind(q, p, h), Stacked(q, p, h),
         \/ h = 0
         \/ h >= 1 /\ p[h] = n /\ q[n] < q[n + 1]
         \/ h >= 1 /\ Lowest(q, p[h]) /\ q[n + 1] <= q[n]
  PROVE  Stacked(q, r, h + 1)
<1>1. /\ h \in Nat /\ n \in Nat /\ IsStack(p, h, n) /\ ArePrecedences(q, n)
      /\ p[h + 1] = n + 1
  BY DEF Pushed, IsStack, ArePrecedences
<1>2. \A k \in 1..(h + 1) : r[k] = p[k]
  BY DEF Pushed
<1>3. h + 1 \in 1..(h + 1) /\ 1 \in 1..(h + 1) /\ r[h + 1] = n + 1
  BY <1>1, <1>2
<1>4. r[1] = 1
  BY <1>2, <1>3 DEF Stacked
<1>5. \A k \in 1..h : k \in 1..(h + 1)
  BY <1>1
<1>6. \A k \in 1..(h + 1) : k \in 1..h \/ k = h + 1
  BY <1>1
<1>7. \A k \in 2..(h + 1) : /\ k - 1 \in 1..h /\ k - 1 \in 1..(h + 1) /\ k \in 1..(h + 1)
                            /\ k \in 2..h \/ (k = h + 1 /\ k - 1 = h /\ h >= 1)
  <2> TAKE k \in 2..(h + 1)
  <2>1. k - 1 \in 1..h /\ k - 1 \in 1..(h + 1) /\ k \in 1..(h + 1)
    BY <1>1
  <2>2. CASE k = h + 1
    BY <1>1, <2>1, <2>2
  <2>3. CASE k # h + 1
    BY <1>1, <2>1, <2>3
  <2> QED
    BY <2>1, <2>2, <2>3
<1>8. h >= 1 => \/ p[h] = n /\ q[n] < q[n + 1]
                \/ Lowest(q, p[h]) /\ q[n + 1] <= q[n]
  BY <1>1
<1>9. ASSUME h >= 1
      PROVE  p[h] \in 1..n /\ n \in 1..n /\ q[n] \in Int /\ q[n + 1] \in Int /\ q[p[h]] \in Int
  <2>1. h \in 1..h
    BY <1>1, <1>9
  <2>2. p[h] \in 1..n
    BY <1>1, <2>1 DEF IsStack
  <2>3. n \in 1..n /\ n + 1 \in 1..(n + 1)
    BY <1>1, <2>2
  <2> QED
    BY <1>1, <2>2, <2>3 DEF ArePrecedences
<1>10. ASSUME NEW k \in 2..(h + 1) PROVE Lowest(q, r[k]) \/ q[r[k - 1]] < q[r[k]]
  <2>1. CASE k \in 2..h
    BY <1>2, <1>7, <2>1 DEF Stacked
  <2>2. CASE k = h + 1 /\ k - 1 = h /\ h >= 1
    <3>1. r[k] = n + 1 /\ r[k - 1] = p[h]
      BY <1>2, <1>3, <1>5, <1>7, <2>2
    <3>2. CASE p[h] = n /\ q[n] < q[n + 1]
      BY <3>1, <3>2
    <3>3. CASE Lowest(q, p[h])
      <4>1. \A i \in 1..n : q[p[h]] <= q[i]
        BY <1>1, <2>2, <3>3, LowestOfAll
      <4>2. \A i \in 1..n : q[i] \in Int
        BY <1>1 DEF ArePrecedences
      <4>3. (n + 1) - 1 = n
        BY <1>1
      <4>4. CASE q[p[h]] < q[n + 1]
        BY <3>1, <4>4
      <4>5. CASE q[n + 1] <= q[p[h]]
        <5>1. \A i \in 1..n : q[n + 1] <= q[i]
          BY <1>9, <2>2, <4>1, <4>2, <4>5
        <5> QED
          BY <3>1, <4>3, <5>1 DEF Lowest
      <4> QED
        BY <1>9, <2>2, <4>4, <4>5
    <3> QED
      BY <1>8, <2>2, <3>2, <3>3
  <2> QED
    BY <1>7, <2>1, <2>2
<1>11. ASSUME NEW l \in 1..(h + 1), Lowest(q, r[l]), NEW k \in 1..l PROVE Lowest(q, r[k])
  <2>1. CASE l \in 1..h
    <3>1. k \in 1..h
      BY <1>1, <2>1
    <3> QED
      BY <1>2, <1>5, <1>11, <2>1, <3>1 DEF Stacked
  <2>2. CASE l = h + 1 /\ k = h + 1
    BY <1>11, <2>2
  <2>3. CASE l = h + 1 /\ k \in 1..h
    <3>1. h >= 1 /\ h \in 1..h
      BY <1>1, <2>3
    <3>2. Lowest(q, p[h])
      <4>1. CASE p[h] = n /\ q[n] < q[n + 1]
        <5>1. n \in 1..((n + 1) - 1)
          BY <1>1, <1>9, <3>1
        <5>2. q[n + 1] <= q[n]
          BY <1>3, <1>11, <2>3, <5>1 DEF Lowest
        <5> QED
          BY <1>9, <3>1, <4>1, <5>2
      <4> QED
        BY <1>8, <3>1, <4>1
    <3>3. Lowest(q, p[k])
      BY <2>3, <3>1, <3>2 DEF Stacked
    <3> QED
      BY <1>2, <1>5, <2>3, <3>3
  <2> QED
    BY <1>1, <1>6, <2>1, <2>2, <2>3
<1>12. ASSUME NEW k \in 2..(h + 1) PROVE r[k - 1] + 1 = r[k] \/ q[r[k]] <= q[r[k] - 1]
  <2>1. CASE k \in 2..h
    BY <1>2, <1>7, <2>1 DEF Stacked
  <2>2. CASE k = h + 1 /\ k - 1 = h /\ h >= 1
    <3>1. r[k] = n + 1 /\ r[k - 1] = p[h] /\ (n + 1) - 1 = n
      BY <1>1, <1>2, <1>3, <1>5, <1>7, <2>2
    <3> QED
      BY <1>8, <2>2, <3>1
  <2> QED
    BY <1>7, <2>1, <2>2
<1> QED
  BY <1>4, <1>10, <1>11, <1>12 DEF Stacked

(* Every operator behind three rising ones that has been taken is still on *)
(* the stack.                                                              *)
Late(q, p, h, n, N) == \A m \in 1..n : Early(q, N, m) => Caught(q, p, h, m)

LEMMA PushLate ==
  ASSUME NEW q, NEW p, NEW r, NEW h, NEW n, NEW N \in Nat, Pushed(p, r, h, n), n + 1 <= N,
         ArePrecedences(q, N), RightsBind(q, p, h), Late(q, p, h, n, N),
         \/ n = 0
         \/ h >= 1 /\ p[h] = n /\ q[n] < q[n + 1]
         \/ h >= 1 /\ Lowest(q, p[h]) /\ q[n + 1] <= q[n]
  PROVE  Late(q, r, h + 1, n + 1, N)
<1>1. /\ h \in Nat /\ n \in Nat /\ IsStack(p, h, n) /\ ArePrecedences(q, n)
      /\ p[h + 1] = n + 1
  BY DEF Pushed, IsStack, ArePrecedences
<1>2. \A k \in 1..(h + 1) : r[k] = p[k]
  BY DEF Pushed
<1>3. ASSUME NEW m \in 1..n, Early(q, N, m) PROVE Caught(q, r, h + 1, m)
  <2>1. PICK k \in 2..h : p[k] = m /\ Passed(q, p[k - 1], m)
    BY <1>3 DEF Late, Caught
  <2>2. k \in 2..(h + 1) /\ k \in 1..(h + 1) /\ k - 1 \in 1..(h + 1)
    BY <1>1
  <2>3. r[k] = m /\ r[k - 1] = p[k - 1]
    BY <1>2, <2>1, <2>2
  <2> QED
    BY <2>1, <2>2, <2>3 DEF Caught
<1>4. ASSUME Early(q, N, n + 1) PROVE Caught(q, r, h + 1, n + 1)
  <2>1. PICK i \in 1..N, j \in 1..N :
          /\ i < j /\ j + 1 < n + 1 /\ q[i] < q[j]
          /\ \A k \in (j + 1)..((n + 1) - 1) : q[j] < q[k]
          /\ q[n + 1] <= q[(n + 1) - 1] /\ q[j] < q[n + 1]
    BY <1>4 DEF Early
  <2>2. i \in 1..n /\ j \in 1..n /\ (n + 1) - 1 = n /\ n \in 1..n /\ n # 0
    BY <1>1, <2>1
  <2>3. q[n] \in Int /\ q[n + 1] \in Int /\ q[i] \in Int /\ q[j] \in Int
    BY <1>1, <2>2 DEF ArePrecedences
  <2>4. h >= 1 /\ Lowest(q, p[h])
    BY <2>1, <2>2, <2>3
  <2>5. \A l \in 1..n : q[p[h]] <= q[l]
    BY <1>1, <2>4, LowestOfAll
  <2>6. h \in 1..h /\ h \in 1..(h + 1) /\ h + 1 \in 2..(h + 1) /\ h + 1 \in 1..(h + 1)
        /\ (h + 1) - 1 = h
    BY <1>1, <2>4
  <2>7. p[h] \in 1..n /\ q[p[h]] \in Int /\ q[p[h]] < q[j]
    <3>1. p[h] \in 1..n
      BY <1>1, <2>6 DEF IsStack
    <3>2. q[p[h]] \in Int /\ q[p[h]] <= q[i]
      BY <1>1, <2>2, <2>5, <3>1 DEF ArePrecedences
    <3> QED
      BY <2>1, <2>3, <3>1, <3>2
  <2>8. p[h] < j
    <3>1. p[h] # j
      BY <2>3, <2>7
    <3>2. ~(p[h] \in (j + 1)..((n + 1) - 1))
      BY <2>1, <2>3, <2>7
    <3> QED
      BY <1>1, <2>2, <2>7, <3>1, <3>2
  <2>9. j \in (p[h] + 1)..((n + 1) - 1)
    BY <1>1, <2>2, <2>7, <2>8
  <2>10. Passed(q, p[h], n + 1)
    BY <2>1, <2>9 DEF Passed
  <2>11. r[h + 1] = n + 1 /\ r[(h + 1) - 1] = p[h]
    BY <1>1, <1>2, <2>6
  <2> QED
    BY <2>6, <2>10, <2>11 DEF Caught
<1>5. \A m \in 1..(n + 1) : m \in 1..n \/ m = n + 1
  BY <1>1
<1> QED
  BY <1>3, <1>4, <1>5 DEF Late

(* The last two ASTs are joined, and the first two.                        *)
Back(p, r, h, n) ==
  /\ IsStack(p, h, n) /\ IsStack(r, h - 1, n) /\ h > 1
  /\ \A k \in 1..(h - 1) : r[k] = p[k]

Front(p, r, h, n) ==
  /\ IsStack(p, h, n) /\ IsStack(r, h - 1, n) /\ h >= 1
  /\ \A k \in 1..h : r[k] = p[k + 1]

LEMMA BackBinds ==
  ASSUME NEW q, NEW p, NEW r, NEW h, NEW n, Back(p, r, h, n), ArePrecedences(q, n),
         RightsBind(q, p, h), q[p[h - 1]] < q[p[h]]
  PROVE  RightsBind(q, r, h - 1)
<1>1. /\ h \in Nat /\ n \in Nat /\ h > 1 /\ IsStack(p, h, n) /\ IsStack(r, h - 1, n)
      /\ p[h + 1] = n + 1 /\ r[h] = n + 1 /\ (h - 1) + 1 = h
  BY DEF Back, IsStack
<1>2. \A k \in 1..(h - 1) : r[k] = p[k]
  BY DEF Back
<1>3. h \in 1..h /\ h - 1 \in 1..h /\ h - 1 \in 1..(h - 1)
  BY <1>1
<1>4. /\ p[h] \in 1..n /\ p[h - 1] \in 1..n
      /\ q[p[h]] \in Int /\ q[p[h - 1]] \in Int
  BY <1>1, <1>3 DEF IsStack, ArePrecedences
<1>5. Above(q, p[h - 1], p[h]) /\ Above(q, p[h], n + 1)
  BY <1>1, <1>3 DEF RightsBind
<1>6. Above(q, p[h - 1], n + 1)
  <2> SUFFICES ASSUME NEW i \in (p[h - 1] + 1)..((n + 1) - 1)
               PROVE  q[p[h - 1]] < q[i]
    BY DEF Above
  <2>1. i \in 1..n /\ q[i] \in Int
    <3>1. i \in 1..n
      BY <1>1, <1>4
    <3> QED
      BY <3>1 DEF ArePrecedences
  <2>2. CASE i < p[h]
    <3>1. i \in (p[h - 1] + 1)..(p[h] - 1)
      BY <1>4, <2>1, <2>2
    <3> QED
      BY <1>5, <3>1 DEF Above
  <2>3. CASE i = p[h]
    BY <2>3
  <2>4. CASE i > p[h]
    <3>1. i \in (p[h] + 1)..((n + 1) - 1)
      BY <1>1, <1>4, <2>1, <2>4
    <3>2. q[p[h]] < q[i]
      BY <1>5, <3>1 DEF Above
    <3> QED
      BY <1>4, <2>1, <3>2
  <2> QED
    BY <1>4, <2>1, <2>2, <2>3, <2>4
<1>7. ASSUME NEW k \in 1..(h - 1) PROVE Above(q, r[k], r[k + 1])
  <2>1. CASE k = h - 1
    BY <1>1, <1>2, <1>3, <1>6, <2>1
  <2>2. CASE k # h - 1
    <3>1. k \in 1..h /\ k + 1 \in 1..(h - 1)
      BY <1>1, <2>2
    <3> QED
      BY <1>2, <3>1 DEF RightsBind
  <2> QED
    BY <2>1, <2>2
<1> QED
  BY <1>7 DEF RightsBind

LEMMA BackStacked ==
  ASSUME NEW q, NEW p, NEW r, NEW h, NEW n, Back(p, r, h, n), Stacked(q, p, h)
  PROVE  Stacked(q, r, h - 1)
<1>1. h \in Nat /\ h > 1 /\ \A k \in 1..(h - 1) : r[k] = p[k]
  BY DEF Back, IsStack
<1>2. 1 \in 1..(h - 1) /\ \A k \in 1..(h - 1) : k \in 1..h
  BY <1>1
<1>3. \A k \in 2..(h - 1) : k \in 2..h /\ k \in 1..(h - 1) /\ k - 1 \in 1..(h - 1)
  BY <1>1
<1>4. \A l \in 1..(h - 1) : \A k \in 1..l : k \in 1..(h - 1)
  BY <1>1
<1>5. r[1] = 1
  BY <1>1, <1>2 DEF Stacked
<1>6. \A k \in 2..(h - 1) : Lowest(q, r[k]) \/ q[r[k - 1]] < q[r[k]]
  BY <1>1, <1>3 DEF Stacked
<1>7. \A l \in 1..(h - 1) : Lowest(q, r[l]) => \A k \in 1..l : Lowest(q, r[k])
  BY <1>1, <1>2, <1>4 DEF Stacked
<1>8. \A k \in 2..(h - 1) : r[k - 1] + 1 = r[k] \/ q[r[k]] <= q[r[k] - 1]
  BY <1>1, <1>3 DEF Stacked
<1> QED
  BY <1>5, <1>6, <1>7, <1>8 DEF Stacked

(* The operator of the join is the only one that leaves the stack.         *)
LEMMA BackLate ==
  ASSUME NEW q, NEW p, NEW r, NEW h, NEW n, NEW N, Back(p, r, h, n),
         Late(q, p, h, n, N), ~Passed(q, p[h - 1], p[h])
  PROVE  Late(q, r, h - 1, n, N)
<1>1. h \in Nat /\ h > 1 /\ \A k \in 1..(h - 1) : r[k] = p[k]
  BY DEF Back, IsStack
<1>2. ASSUME NEW m \in 1..n, Early(q, N, m) PROVE Caught(q, r, h - 1, m)
  <2>1. PICK k \in 2..h : p[k] = m /\ Passed(q, p[k - 1], m)
    BY <1>2 DEF Late, Caught
  <2>2. k # h
    BY <2>1
  <2>3. k \in 2..(h - 1) /\ k \in 1..(h - 1) /\ k - 1 \in 1..(h - 1)
    BY <1>1, <2>2
  <2>4. r[k] = m /\ r[k - 1] = p[k - 1]
    BY <1>1, <2>1, <2>3
  <2> QED
    BY <2>1, <2>3, <2>4 DEF Caught
<1> QED
  BY <1>2 DEF Late

(* Whatever is joined too early is so because of three rising precedences. *)
LEMMA PassedIsEarly ==
  ASSUME NEW q, NEW p, NEW h, NEW n, NEW N \in Nat, IsStack(p, h, n), n <= N,
         ArePrecedences(q, N), RightsBind(q, p, h), Stacked(q, p, h),
         NEW k \in 2..h, Passed(q, p[k - 1], p[k])
  PROVE  p[k] \in 1..n /\ Early(q, N, p[k])
<1> DEFINE m == p[k]
           i == p[k - 1]
<1>1. h \in Nat /\ n \in Nat /\ k \in 1..h /\ k - 1 \in 1..h /\ (k - 1) + 1 = k
  BY DEF IsStack
<1>2. m \in 1..n /\ i \in 1..n /\ i < m
  BY <1>1 DEF IsStack
<1>3. Above(q, i, m)
  BY <1>1 DEF RightsBind
<1>4. i + 1 = m \/ q[m] <= q[m - 1]
  BY DEF Stacked
<1>5. PICK x \in (i + 1)..(m - 1) : q[x] < q[m]
  BY DEF Passed
<1> HIDE DEF m, i
<1>6. /\ i + 1 \in Nat /\ m - 1 \in Nat /\ i + 1 <= m - 1 /\ i + 1 # m
      /\ \A l \in (i + 1)..(m - 1) : l \in 1..N
  BY <1>1, <1>2, <1>5
<1>7. \A l \in 1..N : q[l] \in Int /\ -1 <= q[l]
  BY DEF ArePrecedences
<1>8. \A l \in (i + 1)..(m - 1) : q[l] \in Int /\ -1 <= q[l]
  BY <1>6, <1>7
<1>9. PICK j \in (i + 1)..(m - 1) :
        /\ \A l \in (i + 1)..(m - 1) : q[j] <= q[l]
        /\ \A l \in (j + 1)..(m - 1) : q[j] < q[l]
  BY <1>6, <1>8, LastLowest
<1>10. m \in 1..N /\ q[m] \in Int /\ q[j] \in Int /\ q[x] \in Int /\ q[m - 1] \in Int
  <2>1. m \in 1..N /\ m - 1 \in 1..N
    BY <1>1, <1>2, <1>6
  <2> QED
    BY <1>7, <1>8, <2>1
<1>11. q[j] < q[m] /\ q[m] <= q[m - 1]
  BY <1>4, <1>5, <1>6, <1>9, <1>10
<1>12. j # m - 1
  BY <1>10, <1>11
<1>13. i < j /\ j + 1 < m /\ i \in 1..N /\ j \in 1..N
  BY <1>1, <1>2, <1>6, <1>12
<1>14. q[i] < q[j]
  BY <1>3, <1>9 DEF Above
<1>15. Early(q, N, m)
  BY <1>9, <1>11, <1>13, <1>14 DEF Early
<1> QED
  BY <1>2, <1>15 DEF m

(* Where no precedence on the stack rises, none of it is joined too early. *)
LEMMA NoneCaught ==
  ASSUME NEW q, NEW p, NEW h, NEW n, IsStack(p, h, n), ArePrecedences(q, n),
         \A k \in 1..h : Lowest(q, p[k]), NEW m
  PROVE  ~Caught(q, p, h, m)
<1> SUFFICES ASSUME NEW k \in 2..h, Passed(q, p[k - 1], p[k]) PROVE FALSE
  BY DEF Caught
<1>1. h \in Nat /\ n \in Nat /\ k \in 1..h /\ k - 1 \in 1..h
  BY DEF IsStack
<1>2. p[k] \in 1..n /\ p[k - 1] \in 1..n
  BY <1>1 DEF IsStack
<1>3. PICK j \in (p[k - 1] + 1)..(p[k] - 1) : q[j] < q[p[k]]
  BY DEF Passed
<1>4. j \in 1..(p[k] - 1) /\ j \in 1..n
  BY <1>1, <1>2
<1>5. q[p[k]] <= q[j]
  BY <1>1, <1>4 DEF Lowest
<1>6. q[p[k]] \in Int /\ q[j] \in Int
  BY <1>2, <1>4 DEF ArePrecedences
<1> QED
  BY <1>3, <1>5, <1>6

LEMMA FrontKeeps ==
  ASSUME NEW q, NEW p, NEW r, NEW h, NEW n, Front(p, r, h, n), RightsBind(q, p, h),
         \A k \in 1..h : Lowest(q, p[k])
  PROVE  RightsBind(q, r, h - 1) /\ \A k \in 1..(h - 1) : Lowest(q, r[k])
<1>1. h \in Nat /\ h >= 1 /\ \A k \in 1..h : r[k] = p[k + 1]
  BY DEF Front, IsStack
<1>2. \A k \in 1..(h - 1) : k \in 1..h /\ k + 1 \in 1..h
  BY <1>1
<1> QED
  BY <1>1, <1>2 DEF RightsBind

-----------------------------------------------------------------------------
(* The stack of ParseBinOpRHS, and the expressions it makes. *)
Q      == [i \in 1..Len(ops) |-> GetTokPrecedence(ops[i])]
PlacesOf(u) == [k \in 1..Len(u) |-> u[k].last]
Places == PlacesOf(Unis)

GroupedAt(q, e) ==
  /\ \A i \in e.left.first..(e.left.last - 1) : q[e.left.last] <= q[i]
  /\ Above(q, e.left.last, e.right.last)

Bad      == \E e \in built : ~GroupedAt(Q, e)
TooEarly == \E m \in 1..Len(ops) : Early(Q, Len(ops), m)

LEMMA PlacesOfCover ==
  ASSUME NEW w, NEW n \in Nat, NEW u \in Seq(Extent), NEW o \in Seq(Operator),
         Covers(u, o, w, n)
  PROVE  /\ IsStack(PlacesOf(u), Len(o), n)
         /\ Len(o) \in Nat /\ Len(u) = Len(o) + 1
         /\ \A k \in 1..(Len(o) + 1) : PlacesOf(u)[k] = u[k].last
         /\ \A k \in 1..Len(o) : u[k + 1].first = PlacesOf(u)[k] + 1
         /\ u[1].first = 1
<1> DEFINE h == Len(o)
           p == PlacesOf(u)
<1>1. /\ h \in Nat /\ Len(u) = h + 1 /\ \A k \in 1..(h + 1) : u[k] \in Extent
  BY DEF Covers
<1>2. /\ \A i \in 1..(h + 1) : u[i].first <= u[i].last /\ u[i].last <= n + 1
      /\ u[1].first = 1 /\ u[h + 1].last = n + 1
      /\ \A i \in 1..h : u[i + 1].first = u[i].last + 1
  BY <1>1 DEF Covers
<1>3. \A k \in 1..(h + 1) : p[k] = u[k].last /\ u[k].first \in Nat /\ u[k].last \in Nat
  BY <1>1 DEF Extent, PlacesOf
<1> HIDE DEF h, p
<1>4. ASSUME NEW k \in 1..h
      PROVE  1 <= p[k] /\ p[k] <= n /\ p[k] < p[k + 1]
  <2>1. k \in 1..(h + 1) /\ k + 1 \in 1..(h + 1)
    BY <1>1
  <2>2. /\ u[k].first <= u[k].last /\ u[k + 1].first = u[k].last + 1
        /\ u[k + 1].first <= u[k + 1].last /\ u[k + 1].last <= n + 1
    BY <1>2, <2>1
  <2>3. /\ p[k] = u[k].last /\ p[k + 1] = u[k + 1].last
        /\ u[k].first \in Nat /\ u[k].last \in Nat
        /\ u[k + 1].first \in Nat /\ u[k + 1].last \in Nat
    BY <1>3, <2>1
  <2>4. 1 <= u[k].last
    <3>1. CASE k = 1
      BY <1>2, <2>2, <2>3, <3>1
    <3>2. CASE k # 1
      <4>1. k - 1 \in 1..h /\ k - 1 \in 1..(h + 1) /\ (k - 1) + 1 = k
        BY <1>1, <3>2
      <4>2. u[k].first = u[k - 1].last + 1 /\ u[k - 1].last \in Nat
        BY <1>2, <1>3, <4>1
      <4>3. ASSUME NEW x \in Nat, NEW y \in Nat, NEW z \in Nat, y = x + 1, y <= z
            PROVE  1 <= z
        BY <4>3
      <4> QED
        BY <2>2, <2>3, <4>2, <4>3
    <3> QED
      BY <3>1, <3>2
  <2> QED
    BY <2>2, <2>3, <2>4
<1>5. h + 1 \in 1..(h + 1) /\ \A k \in 1..h : k \in 1..(h + 1)
  BY <1>1
<1>6. IsStack(p, h, n)
  BY <1>1, <1>2, <1>3, <1>4, <1>5 DEF IsStack
<1> QED
  BY <1>1, <1>2, <1>3, <1>5, <1>6 DEF h, p

LEMMA StackOfOperators ==
  ASSUME Inv
  PROVE  /\ IsStack(Places, Len(Ops), idx) /\ ArePrecedences(Q, Len(ops)) /\ ArePrecedences(Q, idx)
         /\ Len(Ops) \in Nat /\ Len(ops) \in Nat /\ idx \in Nat /\ idx <= Len(ops)
         /\ Len(Unis) = Len(Ops) + 1
         /\ \A k \in 1..(Len(Ops) + 1) : Places[k] = Unis[k].last
         /\ \A k \in 1..Len(Ops) : Unis[k + 1].first = Places[k] + 1
         /\ Unis[1].first = 1
<1>1. /\ Len(ops) \in Nat /\ idx \in Nat /\ idx <= Len(ops)
      /\ Unis \in Seq(Extent) /\ Ops \in Seq(Operator) /\ Covers(Unis, Ops, ops, idx)
  BY DEF Inv, Types
<1>2. ArePrecedences(Q, Len(ops))
  <2> SUFFICES ASSUME NEW i \in 1..Len(ops) PROVE Q[i] \in Int /\ -1 <= Q[i]
    BY DEF ArePrecedences
  <2>1. ops[i] \in Operator
    BY DEF Inv, Types
  <2>2. prec[ops[i]] \in Nat
    BY <2>1 DEF Inv, Types
  <2> QED
    BY <2>2 DEF Q, GetTokPrecedence
<1>3. ArePrecedences(Q, idx)
  BY <1>1, <1>2 DEF ArePrecedences
<1>4. /\ IsStack(Places, Len(Ops), idx)
      /\ Len(Ops) \in Nat /\ Len(Unis) = Len(Ops) + 1
      /\ \A k \in 1..(Len(Ops) + 1) : Places[k] = Unis[k].last
      /\ \A k \in 1..Len(Ops) : Unis[k + 1].first = Places[k] + 1
      /\ Unis[1].first = 1
  BY <1>1, PlacesOfCover DEF Places
<1> QED
  BY <1>1, <1>2, <1>3, <1>4

LEMMA StackAfter ==
  ASSUME Inv'
  PROVE  /\ IsStack(Places', Len(Ops'), idx')
         /\ \A k \in 1..(Len(Ops') + 1) : Places'[k] = Unis'[k].last
<1>1. /\ idx' \in Nat /\ Unis' \in Seq(Extent) /\ Ops' \in Seq(Operator)
      /\ Covers(Unis', Ops', ops', idx')
  BY DEF Inv, Types
<1> QED
  BY <1>1, PlacesOfCover DEF Places

(* The same in the words of the property. *)
LEMMA GroupingMeans ==
  ASSUME Inv
  PROVE  (GroupsByPrecedence <=> ~Bad) /\ (JoinsTooEarly <=> TooEarly)
<1>1. /\ Len(ops) \in Nat /\ idx \in Nat /\ idx <= Len(ops)
      /\ ArePrecedences(Q, Len(ops))
  BY StackOfOperators
<1>2. \A i \in 1..Len(ops) : Q[i] = GetTokPrecedence(ops[i]) /\ Q[i] \in Int
  BY <1>1 DEF Q, ArePrecedences
<1>3. ASSUME NEW e \in built PROVE Grouped(e) <=> GroupedAt(Q, e)
  <2>1. /\ e.left.first \in Nat /\ e.left.last \in Nat
        /\ e.right.first \in Nat /\ e.right.last \in Nat
    BY DEF Inv, Types, Extent
  <2>2. /\ 1 <= e.left.first /\ e.left.first <= e.left.last
        /\ e.right.first = e.left.last + 1
        /\ e.right.first <= e.right.last /\ e.right.last <= idx + 1
        /\ e.op = ops[e.left.last]
    BY DEF Inv, InPlace
  <2>3. /\ e.left.last \in 1..Len(ops)
        /\ \A i \in e.left.first..(e.left.last - 1) : i \in 1..Len(ops)
        /\ \A i \in (e.left.last + 1)..(e.right.last - 1) : i \in 1..Len(ops)
    <3>1. e.left.last \in 1..Len(ops)
      BY <1>1, <2>1, <2>2
    <3>2. ASSUME NEW i \in e.left.first..(e.left.last - 1) PROVE i \in 1..Len(ops)
      BY <1>1, <2>1, <2>2, <3>1
    <3>3. ASSUME NEW i \in (e.left.last + 1)..(e.right.last - 1) PROVE i \in 1..Len(ops)
      BY <1>1, <2>1, <2>2, <3>1
    <3> QED
      BY <3>1, <3>2, <3>3
  <2>4. GetTokPrecedence(e.op) = Q[e.left.last] /\ Q[e.left.last] \in Int
    BY <1>2, <2>2, <2>3
  <2>5. (\A i \in e.left.first..(e.left.last - 1) :
           GetTokPrecedence(ops[i]) >= GetTokPrecedence(e.op))
        <=> \A i \in e.left.first..(e.left.last - 1) : Q[e.left.last] <= Q[i]
    BY <1>2, <2>3, <2>4
  <2>6. (\A i \in e.right.first..(e.right.last - 1) :
           GetTokPrecedence(ops[i]) > GetTokPrecedence(e.op))
        <=> Above(Q, e.left.last, e.right.last)
    BY <1>2, <2>2, <2>3, <2>4 DEF Above
  <2> QED
    BY <2>5, <2>6 DEF Grouped, GroupedAt
<1>4. GroupsByPrecedence <=> ~Bad
  BY <1>3 DEF GroupsByPrecedence, Bad
<1>5. ASSUME NEW i \in 1..Len(ops), NEW j \in 1..Len(ops), NEW m \in 1..Len(ops),
             i < j, j + 1 < m
      PROVE  GetTokPrecedence(ops[i]) < GetTokPrecedence(ops[j]) /\ Falls(j, m)
             <=> /\ Q[i] < Q[j]
                 /\ \A k \in (j + 1)..(m - 1) : Q[j] < Q[k]
                 /\ Q[m] <= Q[m - 1] /\ Q[j] < Q[m]
  <2>1. m - 1 \in 1..Len(ops) /\ \A k \in (j + 1)..(m - 1) : k \in 1..Len(ops)
    BY <1>1, <1>5
  <2>2. /\ Q[i] = GetTokPrecedence(ops[i]) /\ Q[j] = GetTokPrecedence(ops[j])
        /\ Q[m] = GetTokPrecedence(ops[m]) /\ Q[m - 1] = GetTokPrecedence(ops[m - 1])
        /\ Q[i] \in Int /\ Q[j] \in Int /\ Q[m] \in Int /\ Q[m - 1] \in Int
    BY <1>2, <2>1
  <2>3. (\A k \in (j + 1)..(m - 1) : GetTokPrecedence(ops[k]) > GetTokPrecedence(ops[j]))
        <=> \A k \in (j + 1)..(m - 1) : Q[j] < Q[k]
    BY <1>2, <2>1, <2>2
  <2> QED
    BY <2>2, <2>3 DEF Falls
<1>6. JoinsTooEarly <=> TooEarly
  BY <1>5 DEF JoinsTooEarly, TooEarly, Early
<1> QED
  BY <1>4, <1>6

GroupInv ==
  /\ RightsBind(Q, Places, Len(Ops))
  /\ Bad => TooEarly
  /\ pc \in {"take", "rise"} =>
       /\ Stacked(Q, Places, Len(Ops))
       /\ Bad \/ Late(Q, Places, Len(Ops), idx, Len(ops))
  /\ pc = "take" => idx = 0 \/ (Len(Ops) >= 1 /\ Places[Len(Ops)] = idx)
  /\ pc = "rise" => Len(Ops) >= 1 /\ (idx < Len(ops) => Q[idx + 1] <= Q[idx])
  /\ pc = "fold" => \A k \in 1..Len(Ops) : Lowest(Q, Places[k])
  /\ pc \in {"fold", "done"} => (TooEarly => Bad)

LEMMA PrecedencesFixed ==
  ASSUME UNCHANGED <<ops, prec>>
  PROVE  Q' = Q /\ TooEarly' = TooEarly
BY DEF Q, TooEarly, GetTokPrecedence

LEMMA PushGroups ==
  ASSUME Inv, GroupInv, idx < Len(ops), Push, UNCHANGED <<ops, prec>>, pc \in {"take", "rise"},
         \/ idx = 0
         \/ Len(Ops) >= 1 /\ Places[Len(Ops)] = idx /\ Q[idx] < Q[idx + 1]
         \/ Len(Ops) >= 1 /\ Lowest(Q, Places[Len(Ops)]) /\ Q[idx + 1] <= Q[idx]
  PROVE  GroupInv'
<1> DEFINE h == Len(Ops)
           p == Places
           r == Places'
           n == idx
           N == Len(ops)
<1>1. Inv'
  BY PushInv
<1>2. /\ Q' = Q /\ TooEarly' = TooEarly /\ N' = N /\ Bad' = Bad
  BY PrecedencesFixed DEF Push, Bad
<1>3. /\ IsStack(p, h, n) /\ ArePrecedences(Q, N) /\ h \in Nat /\ n \in Nat /\ N \in Nat
      /\ Len(Unis) = h + 1 /\ \A k \in 1..(h + 1) : p[k] = Unis[k].last
  BY StackOfOperators
<1>4. /\ Len(Ops') = h + 1 /\ idx' = n + 1 /\ pc' = "take" /\ Len(Unis') = h + 2
      /\ \A k \in 1..(h + 1) : Unis'[k] = Unis[k]
  BY <1>3 DEF Push, Inv, Types
<1>5. /\ IsStack(r, h + 1, n + 1) /\ \A k \in 1..((h + 1) + 1) : r[k] = Unis'[k].last
  <2>1. Len(Ops') + 1 = (h + 1) + 1
    BY <1>4
  <2> QED
    BY <1>1, <1>4, <2>1, StackAfter
<1>6. Pushed(p, r, h, n)
  <2>1. ASSUME NEW k \in 1..(h + 1) PROVE r[k] = p[k]
    <3>1. k \in 1..((h + 1) + 1)
      BY <1>3
    <3> QED
      BY <1>3, <1>4, <1>5, <3>1
  <2> QED
    BY <1>3, <1>5, <2>1 DEF Pushed
<1>7. n + 1 <= N /\ ArePrecedences(Q, n + 1)
  BY <1>3 DEF ArePrecedences
<1>8. n = 0 => h = 0
  BY DEF Inv, AllTaken
<1>9. RightsBind(Q, p, h) /\ Stacked(Q, p, h) /\ (Bad \/ Late(Q, p, h, n, N)) /\ (Bad => TooEarly)
  BY DEF GroupInv
<1>10. r[h + 1] = n + 1 /\ h + 1 >= 1
  <2>1. h + 1 \in 1..(h + 1)
    BY <1>3
  <2> QED
    BY <1>3, <1>6, <2>1 DEF Pushed, IsStack
<1> HIDE DEF h, p, r, n, N
<1>11. RightsBind(Q, r, h + 1)
  BY <1>6, <1>9, PushBinds
<1>12. Stacked(Q, r, h + 1)
  <2>1. \/ h = 0
        \/ h >= 1 /\ p[h] = n /\ Q[n] < Q[n + 1]
        \/ h >= 1 /\ Lowest(Q, p[h]) /\ Q[n + 1] <= Q[n]
    BY <1>8 DEF h, p, n
  <2> QED
    BY <1>6, <1>7, <1>9, <2>1, PushStacked
<1>13. Bad \/ Late(Q, r, h + 1, n + 1, N)
  <2>1. \/ n = 0
        \/ h >= 1 /\ p[h] = n /\ Q[n] < Q[n + 1]
        \/ h >= 1 /\ Lowest(Q, p[h]) /\ Q[n + 1] <= Q[n]
    BY DEF h, p, n
  <2> QED
    BY <1>3, <1>6, <1>7, <1>9, <2>1, PushLate
<1> QED
  BY <1>2, <1>4, <1>9, <1>10, <1>11, <1>12, <1>13 DEF GroupInv, r, N

(* What the while loops compare, the operator taken last and those before. *)
LEMMA PrecedencesOfStack ==
  ASSUME Inv
  PROVE  /\ \A k \in 1..Len(Ops) : /\ GetTokPrecedence(Ops[k]) = Q[Places[k]]
                                   /\ Places[k] \in 1..idx /\ Q[Places[k]] \in Int
         /\ Ops # <<>> => LastOf(Ops) = Ops[Len(Ops)]
         /\ Rising <=> /\ Len(Ops) > 1
                       /\ Q[Places[Len(Ops) - 1]] < Q[Places[Len(Ops)]]
<1> DEFINE h == Len(Ops)
<1>1. /\ IsStack(Places, h, idx) /\ ArePrecedences(Q, idx) /\ h \in Nat /\ idx \in Nat
      /\ \A k \in 1..(h + 1) : Places[k] = Unis[k].last
      /\ Len(ops) \in Nat /\ idx <= Len(ops)
  BY StackOfOperators
<1>2. \A k \in 1..h : Ops[k] = ops[Unis[k].last]
  BY DEF Inv, Covers
<1>3. ASSUME NEW k \in 1..h
      PROVE  /\ GetTokPrecedence(Ops[k]) = Q[Places[k]]
             /\ Places[k] \in 1..idx /\ Q[Places[k]] \in Int
  <2>1. Places[k] \in 1..idx /\ k \in 1..(h + 1)
    BY <1>1 DEF IsStack
  <2>2. Places[k] \in 1..Len(ops)
    BY <1>1, <2>1
  <2>3. Ops[k] = ops[Places[k]]
    BY <1>1, <1>2, <2>1
  <2>4. Q[Places[k]] = GetTokPrecedence(ops[Places[k]])
    BY <2>2 DEF Q
  <2> QED
    BY <1>1, <2>1, <2>3, <2>4 DEF ArePrecedences
<1>4. LastOf(Ops) = Ops[h]
  BY DEF LastOf
<1>5. ASSUME h > 1 PROVE LastOf(ButLast(Ops)) = Ops[h - 1]
  <2>1. Ops \in Seq(Operator) /\ Ops # <<>>
    BY <1>5 DEF Inv, Types
  <2>2. Len(ButLast(Ops)) = h - 1 /\ \A i \in 1..(h - 1) : ButLast(Ops)[i] = Ops[i]
    BY <2>1, ButLastProperties
  <2>3. h - 1 \in 1..(h - 1)
    BY <1>1, <1>5
  <2> QED
    BY <2>2, <2>3 DEF LastOf
<1>6. Rising <=> h > 1 /\ Q[Places[h - 1]] < Q[Places[h]]
  <2>1. CASE h > 1
    <3>1. h \in 1..h /\ h - 1 \in 1..h
      BY <1>1, <2>1
    <3>2. /\ GetTokPrecedence(LastOf(Ops)) = Q[Places[h]] /\ Q[Places[h]] \in Int
          /\ GetTokPrecedence(LastOf(ButLast(Ops))) = Q[Places[h - 1]] /\ Q[Places[h - 1]] \in Int
      BY <1>3, <1>4, <1>5, <2>1, <3>1
    <3> QED
      BY <2>1, <3>2 DEF Rising
  <2>2. CASE ~(h > 1)
    BY <2>2 DEF Rising
  <2> QED
    BY <2>1, <2>2
<1> QED
  BY <1>3, <1>4, <1>6

(* When the expression that a loop makes is grouped as it should be, and   *)
(* that every one joined from the left is.                                 *)
LEMMA BackGrouped ==
  ASSUME NEW q, NEW p, NEW h, NEW n, IsStack(p, h, n), ArePrecedences(q, n),
         RightsBind(q, p, h), h > 1, NEW e,
         e.left.first = p[h - 1] + 1, e.left.last = p[h], e.right.last = p[h + 1]
  PROVE  GroupedAt(q, e) <=> ~Passed(q, p[h - 1], p[h])
<1>1. h \in Nat /\ n \in Nat /\ h \in 1..h /\ h - 1 \in 1..h
  BY DEF IsStack
<1>2. p[h] \in 1..n /\ p[h - 1] \in 1..n
  BY <1>1 DEF IsStack
<1>3. Above(q, e.left.last, e.right.last)
  BY <1>1 DEF RightsBind
<1>4. q[p[h]] \in Int /\ \A i \in (p[h - 1] + 1)..(p[h] - 1) : q[i] \in Int
  <2>1. \A i \in (p[h - 1] + 1)..(p[h] - 1) : i \in 1..n
    BY <1>1, <1>2
  <2> QED
    BY <1>2, <2>1 DEF ArePrecedences
<1>5. Passed(q, p[h - 1], p[h]) <=> ~ \A i \in (p[h - 1] + 1)..(p[h] - 1) : q[p[h]] <= q[i]
  BY <1>4 DEF Passed
<1> QED
  BY <1>3, <1>5 DEF GroupedAt

LEMMA FrontGrouped ==
  ASSUME NEW q, NEW p, NEW h, NEW n, IsStack(p, h, n),
         RightsBind(q, p, h), h >= 1, Lowest(q, p[1]), NEW e,
         e.left.first = 1, e.left.last = p[1], e.right.last = p[2]
  PROVE  GroupedAt(q, e)
<1>1. 1 \in 1..h /\ 1 + 1 = 2
  BY DEF IsStack
<1>2. Above(q, p[1], p[2])
  BY <1>1 DEF RightsBind
<1> QED
  BY <1>2 DEF GroupedAt, Lowest

LEMMA BackGroups ==
  ASSUME Inv, GroupInv, Consolidate
  PROVE  GroupInv'
<1> DEFINE h == Len(Ops)
           p == Places
           r == Places'
           n == idx
           N == Len(ops)
           e == BinaryExprAST(Ops[h], Unis[h], Unis[h + 1])
<1>1. Inv' /\ UNCHANGED <<ops, prec, idx, pc>>
  BY StepInv DEF Consolidate, Next, Step
<1>2. /\ IsStack(p, h, n) /\ ArePrecedences(Q, N) /\ ArePrecedences(Q, n)
      /\ h \in Nat /\ n \in Nat /\ N \in Nat /\ n <= N /\ Len(Unis) = h + 1
      /\ \A k \in 1..(h + 1) : p[k] = Unis[k].last
      /\ \A k \in 1..h : Unis[k + 1].first = p[k] + 1
  BY StackOfOperators
<1>3. h > 1 /\ Q[p[h - 1]] < Q[p[h]]
  BY PrecedencesOfStack DEF Consolidate
<1>4. /\ built' = built \cup {e} /\ Len(Ops') = h - 1
      /\ \A k \in 1..(h - 1) : Unis'[k].last = Unis[k].last
  <2>1. /\ Unis \in Seq(Extent) /\ Ops \in Seq(Operator) /\ idx \in Nat
        /\ Covers(Unis, Ops, ops, idx) /\ Ops # <<>>
    BY <1>2, <1>3 DEF Inv, Types
  <2>2. /\ LastOf(Unis) = Unis[h + 1] /\ LastOf(ButLast(Unis)) = Unis[h] /\ LastOf(Ops) = Ops[h]
    <3> HIDE DEF e, p, r, n, N
    <3>1. /\ LastOf(Unis) = Unis[h + 1] /\ LastOf(ButLast(Unis)) = Unis[h] /\ LastOf(Ops) = Ops[h]
          /\ ButLast(Ops) \in Seq(Operator) /\ JoinedBack(Unis, h) \in Seq(Extent)
          /\ Covers(JoinedBack(Unis, h), ButLast(Ops), ops, idx)
      BY <2>1, CoversBack
    <3> QED BY <3>1
  <2>3. Unis' = JoinedBack(Unis, h) /\ built' = built \cup {e} /\ Ops' = ButLast(Ops)
    BY <2>2 DEF Consolidate, JoinBack, JoinedBack
  <2>4. Len(ButLast(Ops)) = h - 1
    BY <2>1, ButLastProperties
  <2>5. h \in Nat \ {0} /\ Len(Unis) = h + 1
    BY <1>2, <1>3
  <2>6. \A k \in 1..(h - 1) : JoinedBack(Unis, h)[k] = Unis[k]
    <3> HIDE DEF h
    <3> QED BY <2>1, <2>5, JoinedBackProperties
  <2> QED
    BY <2>3, <2>4, <2>6
<1>5. Back(p, r, h, n)
  <2>1. IsStack(r, h - 1, n) /\ \A k \in 1..((h - 1) + 1) : r[k] = Unis'[k].last
    BY <1>1, <1>4, StackAfter
  <2>2. \A k \in 1..(h - 1) : k \in 1..((h - 1) + 1) /\ k \in 1..(h + 1)
    BY <1>2
  <2>3. \A k \in 1..(h - 1) : r[k] = p[k]
    BY <1>2, <1>4, <2>1, <2>2
  <2> QED
    BY <1>2, <1>3, <2>1, <2>3 DEF Back
<1>6. /\ e.left.first = p[h - 1] + 1 /\ e.left.last = p[h] /\ e.right.last = p[h + 1]
  <2>1. h - 1 \in 1..h /\ (h - 1) + 1 = h /\ h \in 1..(h + 1) /\ h + 1 \in 1..(h + 1)
    BY <1>2, <1>3
  <2>2. Unis[h].first = p[h - 1] + 1 /\ p[h] = Unis[h].last /\ p[h + 1] = Unis[h + 1].last
    BY <1>2, <2>1
  <2> QED
    BY <2>2 DEF BinaryExprAST
<1>7. Q' = Q /\ TooEarly' = TooEarly
  BY <1>1, PrecedencesFixed
<1>8. /\ RightsBind(Q, p, h) /\ Stacked(Q, p, h)
      /\ Bad \/ Late(Q, p, h, n, N)
      /\ Bad => TooEarly
  BY DEF GroupInv, Consolidate
<1>9. Bad' <=> Bad \/ ~GroupedAt(Q, e)
  BY <1>4, <1>7 DEF Bad
<1> HIDE DEF h, p, r, n, N, e
<1>10. RightsBind(Q, r, h - 1)
  BY <1>2, <1>3, <1>5, <1>8, BackBinds
<1>11. Stacked(Q, r, h - 1)
  BY <1>5, <1>8, BackStacked
<1>12. GroupedAt(Q, e) <=> ~Passed(Q, p[h - 1], p[h])
  BY <1>2, <1>3, <1>6, <1>8, BackGrouped
<1>13. Passed(Q, p[h - 1], p[h]) => TooEarly
  <2> SUFFICES ASSUME Passed(Q, p[h - 1], p[h]) PROVE TooEarly
    OBVIOUS
  <2>1. h \in 2..h
    BY <1>2, <1>3
  <2>2. p[h] \in 1..n /\ Early(Q, N, p[h])
    BY <1>2, <1>8, <2>1, PassedIsEarly
  <2>3. p[h] \in 1..N
    BY <1>2, <2>2
  <2> QED
    BY <2>2, <2>3 DEF TooEarly, N
<1>14. Bad' => TooEarly'
  BY <1>7, <1>8, <1>9, <1>12, <1>13
<1>15. Bad' \/ Late(Q, r, h - 1, n, N)
  <2>1. CASE GroupedAt(Q, e) /\ Late(Q, p, h, n, N)
    BY <1>5, <1>12, <2>1, BackLate
  <2> QED
    BY <1>8, <1>9, <2>1
<1>16. h - 1 >= 1
  BY <1>2, <1>3
<1>17. pc = "rise" /\ (idx < Len(ops) => Q[idx + 1] <= Q[idx])
  BY DEF GroupInv, Consolidate
<1>18. /\ Len(Ops') = h - 1 /\ idx' = idx /\ ops' = ops /\ pc' = "rise"
  BY <1>1, <1>4, <1>17
<1> QED
  BY <1>7, <1>10, <1>11, <1>14, <1>15, <1>16, <1>17, <1>18 DEF GroupInv, r, n, N

LEMMA FoldGroups ==
  ASSUME Inv, GroupInv, Fold, Ops # <<>>
  PROVE  GroupInv'
<1> DEFINE h == Len(Ops)
           p == Places
           r == Places'
           n == idx
           e == BinaryExprAST(Ops[1], Unis[1], Unis[2])
<1>1. Inv' /\ UNCHANGED <<ops, prec, idx, pc>>
  BY StepInv DEF Fold, Next, Step
<1>2. /\ IsStack(p, h, n) /\ h \in Nat /\ n \in Nat /\ Len(Unis) = h + 1
      /\ \A k \in 1..(h + 1) : p[k] = Unis[k].last
      /\ Unis[1].first = 1
  BY StackOfOperators
<1>3. h >= 1 /\ Ops \in Seq(Operator) /\ Unis \in Seq(Extent)
  BY DEF Inv, Types
<1>4. /\ built' = built \cup {e} /\ Ops' = Tail(Ops) /\ Unis' = JoinedFront(Unis)
  BY DEF Fold, JoinedFront
<1>5. Len(Ops') = h - 1
  BY <1>3, <1>4
<1>6. \A k \in 1..h : Unis'[k].last = Unis[k + 1].last
  <2>1. h \in Nat \ {0} /\ \A k \in 1..h : k = 1 \/ k \in 2..h
    BY <1>2, <1>3
  <2> HIDE DEF h
  <2>2. /\ \A k \in 2..h : JoinedFront(Unis)[k] = Unis[k + 1]
        /\ JoinedFront(Unis)[1] = [first |-> Unis[1].first, last |-> Unis[2].last]
    BY <1>2, <1>3, <2>1, JoinedFrontProperties
  <2>3. JoinedFront(Unis)[1].last = Unis[1 + 1].last
    BY <2>2
  <2> QED
    BY <1>4, <2>1, <2>2, <2>3
<1>7. Front(p, r, h, n)
  <2>1. IsStack(r, h - 1, n) /\ \A k \in 1..((h - 1) + 1) : r[k] = Unis'[k].last
    BY <1>1, <1>5, StackAfter
  <2>2. \A k \in 1..h : k \in 1..((h - 1) + 1) /\ k + 1 \in 1..(h + 1)
    BY <1>2
  <2>3. \A k \in 1..h : r[k] = p[k + 1]
    BY <1>2, <1>6, <2>1, <2>2
  <2> QED
    BY <1>2, <1>3, <2>1, <2>3 DEF Front
<1>8. e.left.first = 1 /\ e.left.last = p[1] /\ e.right.last = p[2]
  <2>1. 1 \in 1..(h + 1) /\ 2 \in 1..(h + 1)
    BY <1>2, <1>3
  <2>2. Unis[1].first = 1 /\ p[1] = Unis[1].last /\ p[2] = Unis[2].last
    BY <1>2, <2>1
  <2> QED
    BY <2>2 DEF BinaryExprAST
<1>9. Q' = Q /\ TooEarly' = TooEarly
  BY <1>1, PrecedencesFixed
<1>10. /\ RightsBind(Q, p, h) /\ \A k \in 1..h : Lowest(Q, p[k])
       /\ Bad => TooEarly
       /\ TooEarly => Bad
  BY DEF GroupInv, Fold
<1>11. Bad' <=> Bad \/ ~GroupedAt(Q, e)
  BY <1>4, <1>9 DEF Bad
<1>12. pc' = "fold"
  BY <1>1 DEF Fold
<1> HIDE DEF h, p, r, n, e
<1>13. GroupedAt(Q, e)
  <2>1. 1 \in 1..h
    BY <1>2, <1>3
  <2>2. Lowest(Q, p[1])
    BY <1>10, <2>1
  <2> QED
    BY <1>2, <1>3, <1>8, <1>10, <2>2, FrontGrouped
<1>14. RightsBind(Q, r, h - 1) /\ \A k \in 1..(h - 1) : Lowest(Q, r[k])
  BY <1>7, <1>10, FrontKeeps
<1>15. Bad' <=> Bad
  BY <1>11, <1>13
<1> QED
  BY <1>5, <1>9, <1>10, <1>12, <1>14, <1>15 DEF GroupInv, r

(* The while loops are left with the lowest precedence on top.             *)
LEMMA RiseGroups ==
  ASSUME Inv, GroupInv, EndOfRise
  PROVE  GroupInv'
<1> DEFINE h == Len(Ops)
           p == Places
           n == idx
           N == Len(ops)
<1>1. /\ IsStack(p, h, n) /\ ArePrecedences(Q, N) /\ ArePrecedences(Q, n)
      /\ h \in Nat /\ n \in Nat /\ N \in Nat /\ n <= N
  BY StackOfOperators
<1>2. /\ RightsBind(Q, p, h) /\ Stacked(Q, p, h) /\ h >= 1
      /\ n < N => Q[n + 1] <= Q[n]
      /\ Bad \/ Late(Q, p, h, n, N)
      /\ Bad => TooEarly
  BY DEF GroupInv, EndOfRise
<1>3. h > 1 => Q[p[h]] <= Q[p[h - 1]]
  <2> SUFFICES ASSUME h > 1 PROVE Q[p[h]] <= Q[p[h - 1]]
    OBVIOUS
  <2>1. ~(Q[p[h - 1]] < Q[p[h]])
    BY PrecedencesOfStack DEF EndOfRise
  <2>2. h \in 1..h /\ h - 1 \in 1..h
    BY <1>1
  <2>3. Q[p[h]] \in Int /\ Q[p[h - 1]] \in Int
    BY <2>2, PrecedencesOfStack
  <2> QED
    BY <2>1, <2>3
<1>4. Lowest(Q, p[h])
  <2> HIDE DEF h, p, n, N
  <2> QED
    BY <1>1, <1>2, <1>3, TopLowest
<1>5. ASSUME n < N PROVE GroupInv'
  <2>1. Push /\ UNCHANGED <<ops, prec>> /\ pc \in {"take", "rise"}
    BY <1>5 DEF EndOfRise
  <2> QED
    BY <1>2, <1>4, <1>5, <2>1, PushGroups
<1>6. ASSUME ~(n < N) PROVE GroupInv'
  <2>1. n = N
    BY <1>1, <1>6
  <2>2. pc' = "fold" /\ UNCHANGED <<ops, prec, idx, Ops, Unis, built>>
    BY <1>6 DEF EndOfRise
  <2>3. Q' = Q /\ TooEarly' = TooEarly /\ Bad' = Bad /\ Places' = Places
    BY <2>2, PrecedencesFixed DEF Bad, Places
  <2>4. \A k \in 1..h : Lowest(Q, p[k])
    <3>1. h \in 1..h
      BY <1>1, <1>2
    <3> HIDE DEF h, p
    <3> QED
      BY <1>2, <1>4, <3>1 DEF Stacked
  <2>5. TooEarly => Bad
    <3> SUFFICES ASSUME TooEarly, ~Bad PROVE FALSE
      OBVIOUS
    <3>1. PICK m \in 1..N : Early(Q, N, m)
      BY DEF TooEarly
    <3>2. m \in 1..n /\ Late(Q, p, h, n, N)
      BY <1>2, <2>1
    <3>3. Caught(Q, p, h, m)
      BY <3>1, <3>2 DEF Late
    <3> HIDE DEF h, p, n, N
    <3> QED
      BY <1>1, <2>4, <3>3, NoneCaught
  <2> QED
    BY <1>2, <2>2, <2>3, <2>4, <2>5 DEF GroupInv
<1> QED
  BY <1>5, <1>6

LEMMA InitGroups == Init => GroupInv
<1> SUFFICES ASSUME Init PROVE GroupInv
  OBVIOUS
<1>1. Ops = <<>> /\ idx = 0 /\ pc = "take" /\ built = {} /\ Unis = <<Operand(1)>>
  BY DEF Init
<1>2. Len(Ops) = 0 /\ \A k : k \notin 1..Len(Ops)
  BY <1>1
<1>3. RightsBind(Q, Places, Len(Ops))
  BY <1>2 DEF RightsBind
<1>4. ~Bad
  BY <1>1 DEF Bad
<1>5. Stacked(Q, Places, Len(Ops))
  <2>1. Places[1] = 1
    BY <1>1 DEF Places, PlacesOf, Operand
  <2>2. \A k : k \notin 2..Len(Ops)
    BY <1>2
  <2> QED
    BY <1>2, <2>1, <2>2 DEF Stacked
<1>6. Late(Q, Places, Len(Ops), idx, Len(ops))
  <2>1. \A m : m \notin 1..idx
    BY <1>1
  <2> QED
    BY <2>1 DEF Late
<1> QED
  BY <1>1, <1>3, <1>4, <1>5, <1>6 DEF GroupInv

(* What a step compares that may take the next operator at once.           *)
LEMMA TakenAfter ==
  ASSUME Inv, GroupInv, Take
  PROVE  /\ Len(Ops) >= 1 /\ Places[Len(Ops)] = idx
         /\ ThisPrec >= NextPrec => Q[idx + 1] <= Q[idx]
         /\ ~(ThisPrec >= NextPrec) => Q[idx] < Q[idx + 1]
<1> DEFINE h == Len(Ops)
<1>1. h >= 1 /\ Places[h] = idx
  <2>1. idx # 0
    BY DEF Take, Inv, Types
  <2> QED
    BY <2>1 DEF GroupInv, Take
<1>2. /\ h \in Nat /\ idx \in Nat /\ Len(ops) \in Nat /\ ArePrecedences(Q, Len(ops))
  BY StackOfOperators
<1>3. h \in 1..h /\ Ops # <<>> /\ idx + 1 \in 1..Len(ops) /\ idx \in 1..Len(ops)
  BY <1>1, <1>2 DEF Take
<1>4. ThisPrec = Q[idx]
  BY <1>1, <1>3, PrecedencesOfStack DEF ThisPrec
<1>5. NextPrec = Q[idx + 1]
  BY <1>3 DEF NextPrec, Q
<1>6. Q[idx] \in Int /\ Q[idx + 1] \in Int
  BY <1>2, <1>3 DEF ArePrecedences
<1> QED
  BY <1>1, <1>4, <1>5, <1>6

LEMMA StepGroups == Inv /\ GroupInv /\ [Next]_vars => GroupInv'
<1> SUFFICES ASSUME Inv, GroupInv, [Next]_vars PROVE GroupInv'
  OBVIOUS
<1>1. ASSUME UNCHANGED <<ops, prec, idx, Ops, Unis, built>>
      PROVE  /\ Q' = Q /\ TooEarly' = TooEarly /\ Bad' = Bad /\ Places' = Places
             /\ Len(Ops') = Len(Ops) /\ idx' = idx /\ Len(ops') = Len(ops)
  BY <1>1, PrecedencesFixed DEF Bad, Places
<1>2. ASSUME First PROVE GroupInv'
  <2>1. CASE ops = <<>>
    <3>1. pc' = "done" /\ UNCHANGED <<ops, prec, idx, Ops, Unis, built>>
      BY <1>2, <2>1 DEF First
    <3>2. ~TooEarly
      <4>1. \A m : m \notin 1..Len(ops)
        BY <2>1
      <4> QED
        BY <4>1 DEF TooEarly
    <3> QED
      BY <1>1, <3>1, <3>2 DEF GroupInv
  <2>2. CASE ops # <<>>
    <3>1. idx < Len(ops)
      BY <1>2, <2>2 DEF First, Inv, Types
    <3>2. Push /\ UNCHANGED <<ops, prec>> /\ pc \in {"take", "rise"} /\ idx = 0
      BY <1>2, <2>2 DEF First
    <3> QED
      BY <3>1, <3>2, PushGroups
  <2> QED
    BY <2>1, <2>2
<1>3. ASSUME Take PROVE GroupInv'
  <2>1. CASE ThisPrec >= NextPrec
    <3>1. pc' = "rise" /\ UNCHANGED <<ops, prec, idx, Ops, Unis, built>>
      BY <1>3, <2>1 DEF Take
    <3>2. Len(Ops) >= 1 /\ Q[idx + 1] <= Q[idx]
      BY <1>3, <2>1, TakenAfter
    <3>3. /\ RightsBind(Q, Places, Len(Ops)) /\ Stacked(Q, Places, Len(Ops))
          /\ Bad \/ Late(Q, Places, Len(Ops), idx, Len(ops))
          /\ Bad => TooEarly
      BY <1>3 DEF GroupInv, Take
    <3> QED
      BY <1>1, <3>1, <3>2, <3>3 DEF GroupInv
  <2>2. CASE ~(ThisPrec >= NextPrec)
    <3>1. Push /\ UNCHANGED <<ops, prec>> /\ pc \in {"take", "rise"} /\ idx < Len(ops)
      BY <1>3, <2>2 DEF Take
    <3>2. Len(Ops) >= 1 /\ Places[Len(Ops)] = idx /\ Q[idx] < Q[idx + 1]
      BY <1>3, <2>2, TakenAfter
    <3> QED
      BY <3>1, <3>2, PushGroups
  <2> QED
    BY <2>1, <2>2
<1>4. ASSUME LastTerm PROVE GroupInv'
  <2>1. pc' = "rise" /\ UNCHANGED <<ops, prec, idx, Ops, Unis, built>>
    BY <1>4 DEF LastTerm
  <2>2. Len(Ops) >= 1 /\ ~(idx < Len(ops))
    <3>1. idx # 0 /\ ~(idx < Len(ops))
      BY <1>4 DEF LastTerm, Inv, Types
    <3> QED
      BY <1>4, <3>1 DEF LastTerm, GroupInv
  <2>3. /\ RightsBind(Q, Places, Len(Ops)) /\ Stacked(Q, Places, Len(Ops))
        /\ Bad \/ Late(Q, Places, Len(Ops), idx, Len(ops))
        /\ Bad => TooEarly
    BY <1>4 DEF GroupInv, LastTerm
  <2> QED
    BY <1>1, <2>1, <2>2, <2>3 DEF GroupInv
<1>5. ASSUME Consolidate PROVE GroupInv'
  BY <1>5, BackGroups
<1>6. ASSUME EndOfRise PROVE GroupInv'
  BY <1>6, RiseGroups
<1>7. ASSUME Fold PROVE GroupInv'
  <2>1. CASE Ops = <<>>
    <3>1. pc' = "done" /\ UNCHANGED <<ops, prec, idx, Ops, Unis, built>>
      BY <1>7, <2>1 DEF Fold
    <3>2. /\ RightsBind(Q, Places, Len(Ops))
          /\ Bad => TooEarly
          /\ TooEarly => Bad
      BY <1>7 DEF GroupInv, Fold
    <3> QED
      BY <1>1, <3>1, <3>2 DEF GroupInv
  <2>2. CASE Ops # <<>>
    BY <1>7, <2>2, FoldGroups
  <2> QED
    BY <2>1, <2>2
<1>8. ASSUME UNCHANGED vars PROVE GroupInv'
  <2>1. UNCHANGED <<ops, prec, idx, Ops, Unis, built>> /\ pc' = pc
    BY <1>8 DEF vars
  <2> QED
    BY <1>1, <2>1 DEF GroupInv
<1> QED
  BY <1>2, <1>3, <1>4, <1>5, <1>6, <1>7, <1>8 DEF Next, Step, Terminated

(* GroupsUnlessJoinedTooEarly: an expression is grouped as the comments at *)
(* 1272-1277 of kaleidoscope.cpp say, by precedence and from the left      *)
(* among equals, unless three precedences rise in it and an operator       *)
(* behind them binds more tightly than the second of the three; and then   *)
(* it never is.                                                            *)
THEOREM GroupsUnlessJoinedTooEarlyCorrect == Spec => []GroupsUnlessJoinedTooEarly
<1>1. Init => Inv /\ GroupInv
  BY InitInv, InitGroups
<1>2. Inv /\ GroupInv /\ [Next]_vars => (Inv /\ GroupInv)'
  BY StepInv, StepGroups
<1>3. Inv /\ GroupInv => GroupsUnlessJoinedTooEarly
  <2> SUFFICES ASSUME Inv, GroupInv, pc = "done"
               PROVE  GroupsByPrecedence <=> ~JoinsTooEarly
    BY DEF GroupsUnlessJoinedTooEarly
  <2>1. Bad <=> TooEarly
    BY DEF GroupInv
  <2> QED
    BY <2>1, GroupingMeans
<1> QED
  BY <1>1, <1>2, <1>3, PTL DEF Spec
=============================================================================
