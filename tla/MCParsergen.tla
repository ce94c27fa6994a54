---------------------------- MODULE MCParsergen ----------------------------
(***************************************************************************)
(* Grammars of one and two rules whose names differ, differ in case or do  *)
(* not differ, or are named null, and whose bodies have every macro, calls *)
(* of rules that are there and that are not, and the characters that       *)
(* print_escape and fprintf treat apart.  Descriptions have these escaped  *)
(* and not.  The buffer is scaled down to 24.                              *)
(***************************************************************************)
EXTENDS CGenerator

MCWord == {"expr", "term", "null"}

Named(word)   == [word |-> word, upper |-> FALSE]
Shouted(word) == [word |-> word, upper |-> TRUE]

Call  == T(Named("expr"))
Plain == S(<<"x">>)
Texts == {S(<<"x", "quote">>), S(<<"newline">>), S(<<"wide">>), S(<<"x", "question", "x">>),
          S(<<"quote", "quote", "quote", "quote", "quote", "quote", "quote", "quote">>),
          S(<<"quote", "quote", "quote", "quote", "quote", "quote", "quote", "quote", "x">>),
          C(<<"x", "backslash">>), C(<<"wide", "x">>)}
Atoms == Texts \cup {Plain, DOT, Call, T(Shouted("expr")), T(Named("term"))}
Bodies ==
  UNION {Atoms,
         {SEQ(Plain, e) : e \in {Plain, Call, DOT}},
         {DISJ(e, DOT) : e \in {Plain, Call}},
         {[op |-> op, A |-> e] : op \in Unary, e \in {Plain, Call}},
         {STAR(SEQ(QUES(DOT), DOT)), AMP(HIDE_(Call)), AMP(AMP(HIDE_(Plain)))}}

RECURSIVE CallsOf(_)
CallsOf(e) ==
  CASE e.op \in Binary -> CallsOf(e.A) \o CallsOf(e.B)
    [] e.op \in Unary  -> CallsOf(e.A)
    [] e.op = "T"      -> <<e.func>>
    [] OTHER           -> <<>>

Rule(name, desc, e) == [name |-> name, desc |-> desc, exp |-> e, calls |-> CallsOf(e)]

None    == <<>>
Letter  == Char("x", FALSE)
Quote   == Char("quote", FALSE)
Escaped == Char("quote", TRUE)
Return  == Char("return", FALSE)
AsWide  == Char("wide", FALSE)

Descriptions ==
  UNION {[1..n -> {Letter, Quote, Escaped}] : n \in 1..4} \cup
  {<<Char("backslash", TRUE)>>, <<Letter, Return>>, <<Char("return", TRUE)>>,
   <<Char("question", FALSE)>>, <<AsWide>>, <<Quote, AsWide, Quote>>, <<Letter, AsWide>>}

MCSpecs ==
  {<<Rule(n, None, e)>> : n \in RuleName, e \in Bodies} \cup
  {<<Rule(Named("expr"), d, e)>> :
     d \in Descriptions, e \in {Plain, Call, S(<<"x", "quote">>), S(<<"wide">>)}} \cup
  {<<Rule(n, None, d), Rule(m, None, e)>> :
     n \in RuleName, m \in RuleName, d \in Bodies, e \in {Plain, Call, S(<<"wide">>)}} \cup
  {<<Rule(Named("expr"), d, Plain), Rule(m, e, Call)>> :
     m \in {Named("expr"), Named("term")},
     d \in {None, <<Quote>>, <<Quote, Quote>>, <<AsWide>>},
     e \in {None, <<Letter>>, <<Escaped>>, <<Quote>>, <<Quote, Quote>>, <<Return>>, <<AsWide>>}}

MCLengths == {0, 1, 125, 126, 1015, 1016}
=============================================================================
