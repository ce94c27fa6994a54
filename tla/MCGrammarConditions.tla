------------------------ MODULE MCGrammarConditions ------------------------
(***************************************************************************)
(* The condition under which EvaluatedOnce is proved, decided for a given  *)
(* grammar: the sets and the levels that NoLeftRecursion asks for are      *)
(* computed here, so that TLC can tell that the theorem applies to the     *)
(* grammars it runs.                                                       *)
(***************************************************************************)
EXTENDS PackratParser, FiniteSets, TLC

(* The expressions E and their operands. *)
RECURSIVE PartsOf(_)
PartsOf(E) ==
  LET more == E \cup {e.A : e \in {e \in E : e.op \in Macros}}
                \cup {e.B : e \in {e \in E : e.op \in Binary}}
  IN  IF more = E THEN E ELSE PartsOf(more)

GrammarParts(body) == PartsOf({body[r] : r \in Rule})

(* Those of parts that may succeed without consuming. *)
RECURSIVE EmptyOf(_, _, _)
EmptyOf(body, parts, E) ==
  LET more == {e \in parts : Skips(body, E, e)}
  IN  IF more = E THEN E ELSE EmptyOf(body, parts, more)

(* Levels, from the expressions that run nothing first upwards. *)
RECURSIVE LevelOf(_, _, _, _)
LevelOf(body, parts, empty, level) ==
  LET placed == DOMAIN level
      ready  == {e \in parts \ placed :
                   \A a \in parts : RunsFirst(body, empty, e, a) => a \in placed}
      here   == Cardinality(placed)
  IN  IF ready = {} THEN level
      ELSE LevelOf(body, parts, empty, level @@ [e \in ready |-> here])

HasNoLeftRecursion(body) ==
  LET parts == GrammarParts(body)
      empty == EmptyOf(body, parts, {})
      level == LevelOf(body, parts, empty, <<>>)
  IN  level \in [parts -> Nat] /\ Descends(body, parts, empty, level)
=============================================================================
