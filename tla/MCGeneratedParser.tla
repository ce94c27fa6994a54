------------------------- MODULE MCGeneratedParser -------------------------
(***************************************************************************)
(* Generated parsers: those of the handful of grammars in                  *)
(* MCPackratGrammars, and of grammars whose rule "A" calls "B" at two      *)
(* places.                                                                 *)
(***************************************************************************)
EXTENDS GeneratedParser, MCPackratGrammars

CallsB  == {T("B"), HIDE_(T("B")), AMP(T("B")), PLUS(T("B"))} \cup Mixed
BodiesB == {S(<<"b">>), QUES(S(<<"a">>)), SEQ(S(<<"a">>), S(<<"b">>)), SEQ(S(<<"b">>), T("A")),
            BANG(DOT)}
Twice   == {Grammar(p[1], p[2]) : p \in BinaryOf(CallsB, CallsB) \X BodiesB}

MCGrammars == Handful \cup Twice

Below(E)       == {e.A : e \in {e \in E : e.op \in Macros}} \cup {e.B : e \in {e \in E : e.op \in Binary}}
Bodies         == {g.body[r] : g \in MCGrammars, r \in MCRule}
MCGeneratedExp == UNION {Bodies, Below(Bodies), Below(Below(Bodies)), Below(Below(Below(Bodies)))}
=============================================================================
