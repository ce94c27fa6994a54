-------------------------- MODULE MCGrammarReader --------------------------
(***************************************************************************)
(* parsergen on .peg texts: the hand-written parser with its own grammar,  *)
(* and what internal.c reads off the tree.                                 *)
(***************************************************************************)
EXTENDS GrammarReader, PegSemantics, MCGrammarConditions

RECURSIVE Operands(_)
Operands(e) == {e} \cup (IF e.op \in Macros THEN Operands(e.A) ELSE {})
                   \cup (IF e.op \in Binary THEN Operands(e.B) ELSE {})

MCExp      == UNION {Operands(PegBody[r]) : r \in PegRule}
MCGrammars == {Peg}

(* Every node type is evaluated once per position, and trees nest: the     *)
(* grammar of .peg files meets the conditions of the theorems.             *)
ASSUME PegGrammarConditions == HasNoLeftRecursion(PegBody) /\ NoAmp(PegBody)

Texts(words, n) == {FlattenSeq(w) : w \in UNION {[1..k -> words] : k \in 0..n}}

(* Syntax: "a<-" and up to three tokens, or four of the kinds that matter  *)
(* most for where a rule ends.                                             *)
Few         == {<<"a">>, <<"/">>, <<"!">>, <<"(">>, <<")">>}
Words       == Few \cup {<<"<", "-">>, <<"*">>, <<".">>}
SyntaxTexts == {<<"a", "<", "-">> \o t : t \in Texts(Words, 3) \cup Texts(Few, 4)}

(* Lexicon: one literal or class and what may be inside it, up to three    *)
(* characters or an escape of up to three digits and one thing more.       *)
Chars   == {<<"\\">>, <<"0">>, <<"7">>, <<"a">>, <<"-">>, <<"]">>, <<"'">>, <<" ">>}
Octals  == {<<"\\">> \o t : t \in Texts({<<"0">>, <<"7">>, <<"9">>}, 3)}
Insides == UNION {Texts(Chars, 2), Texts(Chars \ {<<"0">>, <<" ">>}, 3),
                  {o \o t : o \in Octals, t \in Texts({<<"-", "a">>, <<"9">>}, 1)}}
LexicalTexts == {<<"a", "<", "-", "'">> \o t \o <<"'">> : t \in Insides}
           \cup {<<"a", "<", "-", "[">> \o t \o <<"]">> : t \in Insides}

-----------------------------------------------------------------------------
(* The text of a rule whose expression is e, with the parentheses it needs *)
(* and a blank after every token.                                          *)
Unit(e)   == e.op \in {"T", "S", "C", "DOT"}
Parens(t) == <<"(", " ">> \o t \o <<")", " ">>

RECURSIVE Show(_)
Show(e) ==
  LET Wrap(f, bare) == IF bare THEN Show(f) ELSE Parens(Show(f))
      tail          == Unit(e.A) \/ e.A.op \in {"STAR", "PLUS", "QUES"}
  IN
  CASE e.op = "DISJ" -> Wrap(e.A, e.A.op # "DISJ") \o <<"/", " ">> \o Show(e.B)
    [] e.op = "SEQ"  -> Wrap(e.A, e.A.op \notin {"DISJ", "SEQ"}) \o Wrap(e.B, e.B.op # "DISJ")
    [] e.op = "STAR" -> Wrap(e.A, Unit(e.A)) \o <<"*", " ">>
    [] e.op = "PLUS" -> Wrap(e.A, Unit(e.A)) \o <<"+", " ">>
    [] e.op = "QUES" -> Wrap(e.A, Unit(e.A)) \o <<"?", " ">>
    [] e.op = "BANG" -> <<"!", " ">> \o Wrap(e.A, tail)
    [] e.op = "AMP"  -> <<"&", " ">> \o Wrap(e.A, tail)
    [] e.op = "HIDE" -> <<"~", " ">> \o Wrap(e.A, tail)
    [] e.op = "T"    -> e.func \o <<" ">>
    [] e.op = "S"    -> <<"'", "z", "'", " ">>
    [] e.op = "C"    -> <<"[", "0", "-", "7", "]", " ">>
    [] e.op = "DOT"  -> <<".", " ">>

UnaryOf(E)     == UNION {{STAR(e), PLUS(e), QUES(e), BANG(e), AMP(e), HIDE_(e)} : e \in E}
BinaryOf(E, F) == UNION {{SEQ(p[1], p[2]), DISJ(p[1], p[2])} : p \in E \X F}

Units   == {T(<<"a">>), T(<<"z", "0">>), S(<<122>>), C(48..55), DOT}
Flat    == Units \cup UnaryOf({T(<<"a">>)}) \cup BinaryOf({T(<<"a">>)}, Units)
Sources == Flat \cup UnaryOf(Flat) \cup BinaryOf(Flat, {DOT, SEQ(DOT, DOT), DISJ(DOT, DOT)})
                \cup BinaryOf({DOT}, Flat)

ShowRule(e)  == <<"a", " ", "'", "z", "'", " ", "<", "-", " ">> \o Show(e)
Shown        == [e \in Sources |-> ShowRule(e)]
SourceTexts  == {Shown[e] : e \in Sources}
GrammarTexts == UNION {SyntaxTexts, SourceTexts, LexicalTexts}

-----------------------------------------------------------------------------
Accepted == status = "done" /\ root # NoNode

(* The parser accepts what Ford's reading of the rules `body' accepts. *)
AcceptsAs(body) ==
  status = "done" =>
    LET end == Meaning(body, input, T("grammar"), 0)
    IN  root = IF end = Fails THEN NoNode ELSE Node("grammar", 0, end)

(* A slash may end a disjunction: the STAR in parse_peg_disjunction does   *)
(* not go back over a slash that no conjunction follows.                   *)
SlashMayEnd == [PegBody EXCEPT !["disjunction"] =
                  SEQ(T("conjunction"),
                      SEQ(STAR(SEQ(T("slash"), T("conjunction"))), QUES(T("slash"))))]

(* But for that slash, which the grammar quoted at peg_parser.h:50 has no  *)
(* place for, the parser accepts just what its rules say: no other macro   *)
(* of its grammar leaves the cursor where the next one must not find it.   *)
AcceptsWithTrailingSlash == AcceptsAs(SlashMayEnd)

-----------------------------------------------------------------------------
(* The assertions that internal.c comments "can't happen" do not: every    *)
(* tree the parser builds has the children the collect_ functions expect.  *)
RECURSIVE Asserts(_)
Asserts(e) == \/ e.op = "assert"
              \/ e.op \in Macros /\ Asserts(e.A)
              \/ e.op \in Binary /\ Asserts(e.B)

ReaderNeverAsserts ==
  Accepted => \A i \in 1..Len(rule_records) : ~Asserts(rule_records[i].rule_spec)

(* Reading what an expression was written as gives the expression back,    *)
(* with its rule's name and description, and the rules it calls that are   *)
(* nowhere defined are reported.                                           *)
ReadsBack ==
  status = "done" /\ input \in SourceTexts =>
    /\ root # NoNode
    /\ \A e \in Sources : Shown[e] = input =>
         /\ rule_records = <<[rule_name |-> <<"a">>, rule_desc |-> <<"z">>, rule_spec |-> e]>>
         /\ unknown_rules = Calls(e) \ {<<"a">>}

-----------------------------------------------------------------------------
(* get_escaped_char divides a literal or class into characters a second    *)
(* time, by the text alone.  What it should find is what the grammar's     *)
(* char nodes say.                                                         *)
TextOf(node) == SubSeq(input, node.begin + 1, node.end)

CharCode(text) ==
  LET digit(k) == Code[text[k]] - Code["0"]
  IN  CASE Len(text) = 1 -> Code[text[1]]
        [] text[2] \in Octal /\ Len(text) = 2 -> digit(2)
        [] text[2] \in Octal /\ Len(text) = 3 -> 8 * digit(2) + digit(3)
        [] text[2] \in Octal /\ Len(text) = 4 -> 64 * digit(2) + 8 * digit(3) + digit(4)
        [] text[2] \in {"[", "]"} -> Code[text[2]]
        [] OTHER -> EscapeCode(text[2])

(* The nodes of type `type' below the only rule. *)
RECURSIVE Descendants(_, _)
Descendants(node, type) ==
  IF node.type = type THEN {node}
  ELSE UNION {Descendants(ChildrenOf(node)[i], type) : i \in 1..Len(ChildrenOf(node))}

LiteralAsWritten(node) ==
  LET chars == ChildrenOfType(node, "char")
  IN  collect_string_exp(node).str = [i \in 1..Len(chars) |-> CharCode(TextOf(chars[i]))]

(* The ends of a range: its chars, or the \[ or \] that are no char. *)
RangeAsWritten(node) ==
  LET chars == ChildrenOf(node)
      first == CharCode(TextOf(chars[1]))
      last  == CharCode(TextOf(chars[Len(chars)]))
  IN  IF chars = <<>> THEN {CharCode(TextOf(node))}
      ELSE IF first <= last THEN first..last ELSE {first, last}

ClassAsWritten(node) ==
  collect_class_exp(node).class
    = UNION {RangeAsWritten(r) : r \in ToSet(ChildrenOfType(node, "range"))}

(* A text get_escaped_char can read: every octal escape has three digits,  *)
(* none stands for zero, which would end the C string, and no bracket is   *)
(* escaped.                                                                *)
Plain(node) ==
  \A i \in node.begin..(node.end - 2) : input[i + 1] = "\\" =>
    \/ input[i + 2] \in Escape
    \/ /\ input[i + 2] = "0" /\ input[i + 3] \in Octal /\ input[i + 4] \in Octal
       /\ {input[i + 3], input[i + 4]} # {"0"}

Literals == Descendants(root, "literal")
Classes  == Descendants(root, "class")

(* Literals and classes that are plain mean what they were parsed as: the  *)
(* two divisions into characters, ranges and escapes agree.                *)
PlainTextsDecoded ==
  Accepted => /\ \A n \in Literals : Plain(n) => LiteralAsWritten(n)
              /\ \A n \in Classes : Plain(n) => ClassAsWritten(n)
=============================================================================
