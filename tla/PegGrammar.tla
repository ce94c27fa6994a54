----------------------------- MODULE PegGrammar -----------------------------
(***************************************************************************)
(* The hand-written parser of .peg files: the PEG_PARSE lines of           *)
(* src/parsergen/peg_parser.c, with T("rule") for T(parse_peg_rule).  The  *)
(* characters are one-character strings.  Two letters stand for all of     *)
(* them, "a", which is also an escape code (\a), and "z", which is not;    *)
(* "0", "7" and "9" stand for the digits.                                  *)
(***************************************************************************)
EXTENDS PegExpression

Letter  == {"a", "z"}
Digit   == {"0", "7", "9"}
Octal   == {"0", "7"}
Octal2  == {"0"}                                   \* C(L"012")
Escape  == {"'", "\"", "?", "\\", "a"}             \* C(L"\'\"?\\abfnrtv")
Punct   == {"-", "<", "/", "&", "!", "~", "*", "+", "(", ")", ".", "[", "]", "#"}
Blank   == {" ", "\t", "\n", "\r"}

PegChar == Letter \cup Digit \cup Escape \cup Punct \cup Blank

Token(str)      == SEQ(S(str), T("spacing"))
Quoted(quote)   == SEQ(C({quote}),
                       SEQ(PLUS(SEQ(BANG(C({quote, "\n"})), T("char"))),
                           SEQ(C({quote}), T("spacing"))))
RangeEnd        == DISJ(T("char"), DISJ(S(<<"\\", "[">>), S(<<"\\", "]">>)))

GrammarBody     == SEQ(T("spacing"), SEQ(PLUS(T("rule")), T("eof")))
RuleBody        == SEQ(T("identifier"),
                       SEQ(QUES(T("literal")), SEQ(T("left_arrow"), T("disjunction"))))
DisjunctionBody == SEQ(T("conjunction"), STAR(SEQ(T("slash"), T("conjunction"))))
ConjunctionBody == PLUS(T("prefix_exp"))
PrefixBody      == SEQ(QUES(DISJ(T("and"), DISJ(T("not"), T("hide")))), T("suffix_exp"))
SuffixBody      == SEQ(T("term"), QUES(DISJ(DISJ(T("question"), T("star")), T("plus"))))
TermBody        == DISJ(SEQ(T("identifier"), BANG(SEQ(QUES(T("literal")), T("left_arrow")))),
                   DISJ(SEQ(T("open"), SEQ(T("disjunction"), T("close"))),
                   DISJ(T("literal"), DISJ(T("class"), T("dot")))))

IdentifierBody  == SEQ(SEQ(C(Letter), STAR(DISJ(C(Letter), C(Digit)))), T("spacing"))
LiteralBody     == DISJ(Quoted("'"), Quoted("\""))
ClassBody       == SEQ(S(<<"[">>),
                       SEQ(PLUS(SEQ(BANG(C({"]", "\n"})), T("range"))), Token(<<"]">>)))
RangeBody       == DISJ(SEQ(RangeEnd, SEQ(S(<<"-">>), RangeEnd)), RangeEnd)
CharBody        == DISJ(SEQ(S(<<"\\">>), C(Escape)),
                   DISJ(SEQ(S(<<"\\">>), SEQ(C(Octal2), SEQ(C(Octal), C(Octal)))),
                   DISJ(SEQ(S(<<"\\">>), SEQ(C(Octal), QUES(C(Octal)))),
                        SEQ(BANG(S(<<"\\">>)), DOT))))
SpacingBody     == STAR(DISJ(T("space"), T("comment")))
CommentBody     == SEQ(S(<<"#">>), SEQ(STAR(SEQ(BANG(T("eol")), DOT)), T("eol")))
SpaceBody       == DISJ(S(<<" ">>), DISJ(S(<<"\t">>), T("eol")))
EolBody         == DISJ(S(<<"\r", "\n">>), DISJ(S(<<"\n">>), S(<<"\r">>)))
EofBody         == BANG(DOT)

PegTokens ==
  [left_arrow |-> <<"<", "-">>, slash |-> <<"/">>, and |-> <<"&">>, not |-> <<"!">>,
   question |-> <<"?">>, star |-> <<"*">>, plus |-> <<"+">>, open |-> <<"(">>,
   close |-> <<")">>, dot |-> <<".">>, hide |-> <<"~">>]

PegLexicon ==
  [identifier |-> IdentifierBody, literal |-> LiteralBody, class |-> ClassBody,
   range |-> RangeBody, char |-> CharBody, spacing |-> SpacingBody,
   comment |-> CommentBody, space |-> SpaceBody, eol |-> EolBody, eof |-> EofBody]

PegSyntax ==
  [grammar |-> GrammarBody, rule |-> RuleBody, disjunction |-> DisjunctionBody,
   conjunction |-> ConjunctionBody, prefix_exp |-> PrefixBody,
   suffix_exp |-> SuffixBody, term |-> TermBody]

PegRule == DOMAIN PegSyntax \cup DOMAIN PegLexicon \cup DOMAIN PegTokens

PegBody ==
  [r \in PegRule |-> IF r \in DOMAIN PegSyntax THEN PegSyntax[r]
                     ELSE IF r \in DOMAIN PegLexicon THEN PegLexicon[r]
                     ELSE Token(PegTokens[r])]

Peg == [start |-> "grammar", body |-> PegBody]
=============================================================================
