------------------------- MODULE MCPackratGrammars -------------------------
(***************************************************************************)
(* Every grammar of a small family, on every short input: the rules "A"    *)
(* (called first) and "B", with bodies of a bounded depth.                 *)
(***************************************************************************)
EXTENDS MCGrammarConditions, PegSemantics

MCRule == {"A", "B"}

UnaryOf(E)     == UNION {{STAR(e), PLUS(e), QUES(e), BANG(e), AMP(e), HIDE_(e)} : e \in E}
BinaryOf(E, F) == UNION {{SEQ(p[1], p[2]), DISJ(p[1], p[2])} : p \in E \X F}

Atom  == {S(<<"a">>), C({"a", "b"}), T("B")}
Flat  == Atom \cup UnaryOf(Atom) \cup BinaryOf(Atom, Atom)
Mixed == {SEQ(T("B"), S(<<"a">>)), DISJ(T("B"), S(<<"a">>)), QUES(T("B")), BANG(T("B"))}
BodyA == UNION {Flat, UnaryOf(Flat), BinaryOf(Flat, Atom \cup Mixed), BinaryOf(Atom, Flat)}
BodyB == {S(<<"b">>), QUES(S(<<"a">>)), STAR(C({"a", "b"})),
          SEQ(S(<<"a">>), S(<<"b">>)), SEQ(S(<<"b">>), T("A")),
          DISJ(S(<<"b">>), T("A")), BANG(DOT)}

RECURSIVE Operands(_)
Operands(e) == {e} \cup (IF e.op \in Macros THEN Operands(e.A) ELSE {})
                   \cup (IF e.op \in Binary THEN Operands(e.B) ELSE {})

MCInputs == UNION {[1..n -> {"a", "b"}] : n \in 0..3}

Grammar(a, b) == [start |-> "A", body |-> [r \in MCRule |-> IF r = "A" THEN a ELSE b]]
AllGrammars   == {Grammar(p[1], p[2]) : p \in BodyA \X BodyB}

-----------------------------------------------------------------------------
(* Ford's conditions: no rule calls itself before it has consumed anything *)
(* and what is repeated consumes.  Nullable may say yes too often.         *)
RECURSIVE Nullable(_, _)
Nullable(e, N) ==
  CASE e.op = "SEQ"  -> Nullable(e.A, N) /\ Nullable(e.B, N)
    [] e.op = "DISJ" -> Nullable(e.A, N) \/ Nullable(e.B, N)
    [] e.op \in {"STAR", "QUES", "BANG", "AMP"} -> TRUE
    [] e.op \in {"PLUS", "HIDE"} -> Nullable(e.A, N)
    [] e.op = "T" -> e.func \in N
    [] OTHER -> FALSE

NullableRules(body) ==
  LET N1 == {r \in MCRule : Nullable(body[r], {})}
  IN  {r \in MCRule : Nullable(body[r], N1)}

RECURSIVE LeftCalls(_, _)
LeftCalls(e, N) ==
  CASE e.op = "T" -> {e.func}
    [] e.op = "SEQ" -> LeftCalls(e.A, N) \cup
                       (IF Nullable(e.A, N) THEN LeftCalls(e.B, N) ELSE {})
    [] e.op = "DISJ" -> LeftCalls(e.A, N) \cup LeftCalls(e.B, N)
    [] e.op \in Unary -> LeftCalls(e.A, N)
    [] OTHER -> {}

LeftRecursive(body) ==
  LET N == NullableRules(body)
      L == [r \in MCRule |-> LeftCalls(body[r], N)]
  IN  \E r \in MCRule : r \in L[r] \cup UNION {L[q] : q \in L[r]}

ConsumingLoops(body) ==
  \A r \in MCRule : \A e \in Operands(body[r]) :
    e.op \in {"STAR", "PLUS"} => ~Nullable(e.A, NullableRules(body))

WellFormed == {g \in AllGrammars : ~LeftRecursive(g.body) /\ ConsumingLoops(g.body)}

(* The theorem about EvaluatedOnce applies to these. *)
ASSUME WellFormedGrammars == \A g \in WellFormed : HasNoLeftRecursion(g.body)

(* A few grammars with everything in them, the ill-formed ones too: the    *)
(* loop of src/NOTES, a left recursion, every macro.                       *)
Handful ==
  {Grammar(PLUS(T("B")), STAR(C({"a"}))),
   Grammar(SEQ(T("A"), S(<<"a">>)), DOT),
   Grammar(STAR(DISJ(SEQ(T("B"), S(<<"a">>)), T("B"))), C({"a", "b"})),
   Grammar(SEQ(AMP(T("B")), SEQ(HIDE_(T("B")), QUES(T("A")))), DISJ(S(<<"a">>), S(<<"b">>))),
   Grammar(SEQ(PLUS(SEQ(BANG(S(<<"b">>)), T("B"))), S(<<"b">>)), SEQ(S(<<"a">>), QUES(T("A"))))}

Family == {g : g \in WellFormed \cup Handful}
MCExp      == UNION {Operands(e) : e \in BodyA \cup BodyB \cup {g.body[r] : g \in Handful, r \in MCRule}}

IllFormed  == {g \in Handful : LeftRecursive(g.body) \/ ~ConsumingLoops(g.body)}

-----------------------------------------------------------------------------
(* What the macros need to agree with Ford.  Restores(e): a failing e      *)
(* leaves both positions as it found them.  SetsEnd(e): e sets cur_end_pos *)
(* before anything copies it to cur_start_pos.                             *)
RECURSIVE Restores(_)
Restores(e) ==
  CASE e.op = "SEQ"  -> e.A.op \in {"BANG", "AMP"} /\ Restores(e.B)
    [] e.op = "DISJ" -> Restores(e.A) /\ Restores(e.B)
    [] e.op \in {"PLUS", "HIDE"} -> Restores(e.A)
    [] OTHER -> TRUE

RECURSIVE SetsEnd(_)
SetsEnd(e) ==
  CASE e.op = "DISJ" -> SetsEnd(e.A) /\ SetsEnd(e.B)
    [] e.op \in {"SEQ", "PLUS", "HIDE", "BANG", "AMP"} -> SetsEnd(e.A)
    [] e.op \in {"STAR", "QUES"} -> FALSE
    [] OTHER -> TRUE

Backtracks(e) ==
  /\ e.op \in {"STAR", "PLUS", "QUES", "HIDE"} => Restores(e.A)
  /\ e.op = "DISJ" => Restores(e.A) \/ SetsEnd(e.B)

Backtracking ==
  {g \in WellFormed : \A r \in MCRule : \A e \in Operands(g.body[r]) : Backtracks(e)}

-----------------------------------------------------------------------------
(* A finished parse gives what Ford's definition gives: a tree for the     *)
(* text the start rule consumes, or no tree.  (README of parsergen, line   *)
(* 3: the format is that of Ford's parsing expression grammars.)           *)
AgreesWithFord ==
  status = "done" =>
    LET end == Meaning(grammar.body, input, T(grammar.start), 0)
    IN  root = IF end = Fails THEN NoNode ELSE Node(grammar.start, 0, end)

(* It does whenever no macro goes on after an operand that failed halfway. *)
BacktrackingAgreesWithFord == grammar \in Backtracking => AgreesWithFord

(* The parse of a grammar that meets Ford's conditions ends, with an       *)
(* answer; the ones that do not meet them run out of stack or memory.      *)
WellFormedTerminates == grammar \in IllFormed \/ Terminates
=============================================================================
