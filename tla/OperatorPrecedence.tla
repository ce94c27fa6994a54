------------------------- MODULE OperatorPrecedence -------------------------
(***************************************************************************)
(* ParseBinOpRHS of src/kaleidoscope/kaleidoscope.cpp: how the operands    *)
(* and operators of one expression, which the generated parser leaves in   *)
(* one flat list, become BinaryExprASTs.  The function keeps two deques,   *)
(* Ops and Unis, takes one operator with its right operand at a time, and  *)
(* builds an expression from the backs of the deques, or at the end from   *)
(* their fronts.                                                           *)
(*                                                                         *)
(* An AST is known by its extent: operand i is [first |-> i, last |-> i],  *)
(* and operator i stands between operands i and i + 1.  `built' holds the  *)
(* BinaryExprASTs made so far.                                             *)
(***************************************************************************)
EXTENDS Integers, Sequences

CONSTANTS
  Operator,      \* the characters of OPERATOR_STR
  Expressions,   \* the operators of an expression, in the order written
  Precedences    \* contents of BinopPrecedence, 0 for what it does not hold

ASSUME ExpressionAssumption == Expressions \subseteq Seq(Operator)
ASSUME PrecedenceAssumption == Precedences \subseteq [Operator -> Nat]

VARIABLES
  ops,           \* the operators under the BINOPRHS node, fixed
  prec,          \* BinopPrecedence, fixed while an expression is parsed
  idx,           \* operators taken from ops
  Ops,           \* operators taken and not used yet
  Unis,          \* the extents of the ASTs still to be joined
  built,         \* the BinaryExprASTs made
  pc             \* "take", "rise" in a while loop, "fold" or "done"

vars == <<ops, prec, idx, Ops, Unis, built, pc>>

Operand(i)  == [first |-> i, last |-> i]
LastOf(s)   == s[Len(s)]
ButLast(s)  == SubSeq(s, 1, Len(s) - 1)

(* A precedence that is not positive counts for none. *)
GetTokPrecedence(op) == IF prec[op] = 0 THEN -1 ELSE prec[op]

BinaryExprAST(op, left, right) == [op |-> op, left |-> left, right |-> right]
Joined(left, right)            == [first |-> left.first, last |-> right.last]

-----------------------------------------------------------------------------
(* Take the next operator and the operand after it. *)
Push ==
  /\ Ops'  = Append(Ops, ops[idx + 1])
  /\ Unis' = Append(Unis, Operand(idx + 2))
  /\ idx'  = idx + 1
  /\ pc'   = "take"
  /\ UNCHANGED built

(* An expression of one operand has no loop; else the first operator is    *)
(* taken before the loop.                                                  *)
First ==
  /\ pc = "take" /\ idx = 0
  /\ IF ops = <<>> THEN pc' = "done" /\ UNCHANGED <<idx, Ops, Unis, built>>
                   ELSE Push
  /\ UNCHANGED <<ops, prec>>

(* ThisPrec is that of the operator taken last. *)
ThisPrec == GetTokPrecedence(LastOf(Ops))
NextPrec == GetTokPrecedence(ops[idx + 1])

Take ==
  /\ pc = "take" /\ 0 < idx /\ idx < Len(ops)
  /\ IF ThisPrec >= NextPrec THEN pc' = "rise" /\ UNCHANGED <<idx, Ops, Unis, built>>
                             ELSE Push
  /\ UNCHANGED <<ops, prec>>

LastTerm ==
  /\ pc = "take" /\ 0 < idx /\ idx = Len(ops)
  /\ pc' = "rise"
  /\ UNCHANGED <<ops, prec, idx, Ops, Unis, built>>

Rising_OrEqual ==
  /\ Len(Ops) > 1
  /\ GetTokPrecedence(LastOf(Ops)) >= GetTokPrecedence(LastOf(ButLast(Ops)))

(* The while loops.  ThisOp is still at the back of Ops here. *)
Rising == /\ Len(Ops) > 1
          /\ GetTokPrecedence(LastOf(Ops)) > GetTokPrecedence(LastOf(ButLast(Ops)))

JoinBack_Swapped ==
  LET left == LastOf(Unis)  right == LastOf(ButLast(Unis))
  IN  /\ built' = built \cup {BinaryExprAST(LastOf(Ops), left, right)}
      /\ Unis'  = Append(ButLast(ButLast(Unis)), Joined(left, right))

JoinBack ==
  LET right == LastOf(Unis)  left == LastOf(ButLast(Unis))
  IN  /\ built' = built \cup {BinaryExprAST(LastOf(Ops), left, right)}
      /\ Unis'  = Append(ButLast(ButLast(Unis)), Joined(left, right))

Consolidate ==
  /\ pc = "rise" /\ Rising
  /\ JoinBack
  /\ Ops' = ButLast(Ops)
  /\ UNCHANGED <<ops, prec, idx, pc>>

EndOfRise ==
  /\ pc = "rise" /\ ~Rising
  /\ IF idx < Len(ops) THEN Push
     ELSE pc' = "fold" /\ UNCHANGED <<idx, Ops, Unis, built>>
  /\ UNCHANGED <<ops, prec>>

(* What is left is joined from the left. *)
Fold ==
  /\ pc = "fold"
  /\ IF Ops = <<>>
     THEN pc' = "done" /\ UNCHANGED <<Ops, Unis, built>>
     ELSE LET left == Unis[1]  right == Unis[2]
          IN  /\ built' = built \cup {BinaryExprAST(Ops[1], left, right)}
              /\ Unis'  = <<Joined(left, right)>> \o Tail(Tail(Unis))
              /\ Ops'   = Tail(Ops)
              /\ UNCHANGED pc
  /\ UNCHANGED <<ops, prec, idx>>

-----------------------------------------------------------------------------
Init ==
  /\ ops \in Expressions
  /\ prec \in Precedences
  /\ idx = 0
  /\ Ops = <<>>
  /\ Unis = <<Operand(1)>>
  /\ built = {}
  /\ pc = "take"

Step       == First \/ Take \/ LastTerm \/ Consolidate \/ EndOfRise \/ Fold
Terminated == pc = "done" /\ UNCHANGED vars
Next       == Step \/ Terminated
Spec       == Init /\ [][Next]_vars

-----------------------------------------------------------------------------
(* Properties *)

(* Nothing is lost, doubled or moved: an expression joins what was written *)
(* to the left of its operator with what was written to the right of it,   *)
(* and what remains to be joined covers the operands taken, in order.  The *)
(* two deques are emptied from both ends, and at no moment does either run *)
(* short.                                                                  *)
InPlace(e) ==
  /\ 1 <= e.left.first /\ e.left.first <= e.left.last
  /\ e.right.first = e.left.last + 1
  /\ e.right.first <= e.right.last /\ e.right.last <= idx + 1
  /\ e.op = ops[e.left.last]

OperatorsInPlace ==
  /\ \A e \in built : InPlace(e)
  /\ Len(Unis) = Len(Ops) + 1
  /\ Unis[1].first = 1 /\ LastOf(Unis).last = idx + 1
  /\ \A i \in 1..Len(Ops) : /\ Unis[i + 1].first = Unis[i].last + 1
                            /\ Ops[i] = ops[Unis[i].last]
  /\ pc = "done" => Unis = <<[first |-> 1, last |-> Len(ops) + 1]>>

(* The grouping that precedence asks for (the comments at 1272-1277: from  *)
(* 1, the lowest, to the highest): an operator to the left of the one that *)
(* joins two parts binds at least as tightly, one to its right more        *)
(* tightly.                                                                *)
Grouped(e) ==
  /\ \A i \in e.left.first..(e.left.last - 1) :
       GetTokPrecedence(ops[i]) >= GetTokPrecedence(e.op)
  /\ \A i \in e.right.first..(e.right.last - 1) :
       GetTokPrecedence(ops[i]) > GetTokPrecedence(e.op)

GroupsByPrecedence == \A e \in built : Grouped(e)

(* Three precedences rise one over the other, and an operator that binds   *)
(* more tightly than the second follows the third.  The loop in front of   *)
(* that operator then joins at the second as well, since it looks at the   *)
(* operators before it alone.                                              *)
Falls(j, m) ==
  /\ \A k \in (j + 1)..(m - 1) : GetTokPrecedence(ops[k]) > GetTokPrecedence(ops[j])
  /\ GetTokPrecedence(ops[m - 1]) >= GetTokPrecedence(ops[m])
  /\ GetTokPrecedence(ops[m]) > GetTokPrecedence(ops[j])

JoinsTooEarly ==
  \E i, j, m \in 1..Len(ops) :
    /\ i < j /\ j + 1 < m
    /\ GetTokPrecedence(ops[i]) < GetTokPrecedence(ops[j])
    /\ Falls(j, m)

(* Those are the only expressions that do not group by precedence, and     *)
(* operators of the same precedence from the left.                         *)
GroupsUnlessJoinedTooEarly == pc = "done" => (GroupsByPrecedence <=> ~JoinsTooEarly)
=============================================================================
