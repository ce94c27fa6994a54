--------------------------- MODULE KscopeGrammar ---------------------------
(***************************************************************************)
(* The generated parser of kaleidoscope programs: the PEG_PARSE lines of   *)
(* src/kaleidoscope/kscope.c, which parsergen made of kscope.peg, with     *)
(* T("RULE") for T(parse_kscope_rule).  Letters and digits are those the   *)
(* keywords and a few names and numbers need.                              *)
(***************************************************************************)
EXTENDS PegExpression, SequencesExt

KsLetter   == {"a", "b", "d", "e", "f", "h", "i", "l", "n", "o", "r", "s", "t", "u", "v", "x", "y"}
KsDigit    == {"1", "2"}
KsOperator == {"-", "+", "=", "*", "/", ":", "<", ">"}
KsBlank    == {" ", ";", "\t", "\n"}
KsChar     == UNION {KsLetter, KsDigit, KsOperator, KsBlank, {"#", ",", "(", ")", "."}}

(* A sequence or an alternative of several, nested to the right. *)
Sequence(es) == FoldRight(SEQ, Front(es), Last(es))
Choice(es)   == FoldRight(DISJ, Front(es), Last(es))

(* Blanks, the statements, and the rest of the text. *)
FileRest == SEQ(STAR(SEQ(T("STATEMENT"), T("__"))), T("UNKNOWN"))
FileBody == SEQ(T("__"), FileRest)

StatementBodies ==
  [STATEMENT |-> Choice(<<T("DEFN"), T("EXTERN"), T("EXPR")>>),
   DEFN      |-> Sequence(<<T("DEF_KW"), T("PROTO"), T("EXPR")>>),
   EXTERN    |-> SEQ(T("EXTERN_KW"), T("PROTO")),
   PROTO     |-> Choice(<<T("IDPROTO"), T("BINPROTO"), T("UNIPROTO")>>),
   EXPR      |-> SEQ(T("UNARY"), T("BINOPRHS")),
   BINOPRHS  |-> STAR(SEQ(T("OPERATOR"), T("UNARY"))),
   UNARY     |-> DISJ(T("PRIMARY"), SEQ(T("OPERATOR"), T("UNARY"))),
   PRIMARY   |-> Choice(<<T("VAREXPR"), T("FOREXPR"), T("IFEXPR"), T("PAREN"), T("IDEXPR"),
                          T("NUMBER")>>)]

Variable   == SEQ(T("IDENTIFIER"), QUES(T("EQEXPR")))

ExpressionBodies ==
  [VAREXPR   |-> Sequence(<<T("VAR"), T("IDENTIFIER"), QUES(T("EQEXPR")),
                            STAR(SEQ(T("SEP"), Variable)), T("IN"), T("EXPR")>>),
   FOREXPR   |-> Sequence(<<T("FOR"), T("IDENTIFIER"), T("EQEXPR"), T("SEP"), T("EXPR"),
                            QUES(SEQ(T("SEP"), T("EXPR"))), T("IN"), T("EXPR")>>),
   IFEXPR    |-> Sequence(<<T("IF"), T("EXPR"), T("THEN"), T("EXPR"), T("ELSE"), T("EXPR")>>),
   PAREN     |-> Sequence(<<T("OP"), T("EXPR"), T("CP")>>),
   IDEXPR    |-> DISJ(SEQ(T("IDENTIFIER"), T("CALL")), T("IDENTIFIER")),
   CALL      |-> Sequence(<<T("OP"), T("EXPR"), STAR(SEQ(T("SEP"), T("EXPR"))), T("CP")>>),
   EQEXPR    |-> SEQ(T("OPEQL"), T("EXPR"))]

PrototypeBodies ==
  [IDPROTO   |-> Sequence(<<T("IDENTIFIER"), T("OP"), T("PROTOARG"), STAR(T("PROTOARG")),
                            T("CP")>>),
   BINPROTO  |-> Sequence(<<T("BINARY_KW"), T("OPERATOR"), QUES(T("NUMBER")), T("OP"),
                            T("PROTOARG"), T("PROTOARG"), T("CP")>>),
   UNIPROTO  |-> Sequence(<<T("UNARY_KW"), T("OPERATOR"), T("OP"), T("PROTOARG"), T("CP")>>),
   PROTOARG  |-> T("IDENTIFIER")]

NumberBody  == DISJ(SEQ(PLUS(C(KsDigit)), QUES(SEQ(S(<<".">>), STAR(C(KsDigit))))),
                    SEQ(S(<<".">>), PLUS(C(KsDigit))))

UnknownBody_Nothing == T("EOF")

(* Whatever no statement can be made of is one node. *)
UnknownBody == SEQ(STAR(DOT), T("EOF"))

WordBodies ==
  [OPERATOR       |-> SEQ(T("OPERATOR_STR"), T("__")),
   OPERATOR_STR   |-> C(KsOperator),
   IDENTIFIER     |-> SEQ(T("IDENTIFIER_STR"), HIDE_(T("__"))),
   IDENTIFIER_STR |-> SEQ(C(KsLetter), STAR(C(KsLetter \cup KsDigit))),
   NUMBER         |-> SEQ(T("NUMBER_STR"), T("__")),
   NUMBER_STR     |-> NumberBody]

Word(str) == SEQ(S(str), T("__"))

TokenBodies ==
  [SEP       |-> Word(<<",">>),
   OPEQL     |-> Word(<<"=">>),
   OP        |-> Word(<<"(">>),
   CP        |-> Word(<<")">>),
   DEF_KW    |-> Word(<<"d", "e", "f">>),
   EXTERN_KW |-> Word(<<"e", "x", "t", "e", "r", "n">>),
   FOR       |-> Word(<<"f", "o", "r">>),
   BINARY_KW |-> Word(<<"b", "i", "n", "a", "r", "y">>),
   UNARY_KW  |-> Word(<<"u", "n", "a", "r", "y">>),
   VAR       |-> Word(<<"v", "a", "r">>)]
  @@ "IF"   :> Word(<<"i", "f">>)           @@ "THEN" :> Word(<<"t", "h", "e", "n">>)
  @@ "ELSE" :> Word(<<"e", "l", "s", "e">>) @@ "IN"   :> Word(<<"i", "n">>)

SpaceBodies ==
  [WS         |-> DISJ(T("WHITESPACE"), T("COMMENT")),
   COMMENT    |-> Sequence(<<S(<<"#">>), STAR(SEQ(BANG(S(<<"\n">>)), DOT)), S(<<"\n">>)>>),
   WHITESPACE |-> C(KsBlank)]

StatementRules == StatementBodies @@ ExpressionBodies @@ PrototypeBodies
                  @@ WordBodies @@ TokenBodies @@ SpaceBodies

KscopeBody == [rule \in {"FILE", "__", "UNKNOWN", "EOF"} \cup DOMAIN StatementRules |->
                 CASE rule = "FILE"    -> FileBody
                   [] rule = "__"      -> STAR(T("WS"))
                   [] rule = "UNKNOWN" -> UnknownBody
                   [] rule = "EOF"     -> BANG(DOT)
                   [] OTHER -> StatementRules[rule]]

Kscope == [start |-> "FILE", body |-> KscopeBody]
=============================================================================
