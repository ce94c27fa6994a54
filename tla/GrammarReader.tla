--------------------------- MODULE GrammarReader ---------------------------
(***************************************************************************)
(* src/parsergen/internal.c: the rules a parsed .peg file defines, read    *)
(* off the syntax tree that PackratParser built with PegGrammar.  The      *)
(* result of a rule is an expression of PegExpression again, for           *)
(* c_generator.c prints each rule_exp_t as the macro of the same name.     *)
(***************************************************************************)
EXTENDS PackratParser, PegGrammar, SequencesExt

(* The children a node was built with. *)
ChildrenOf(node) == MemoRecord(node.type, node.begin).children

(* find_first_spacing_node: the first one in preorder. *)
RECURSIVE SpacingNodes(_)
SpacingNodes(node) ==
  IF node.type = "spacing" THEN <<node>>
  ELSE FlattenSeq([i \in 1..Len(ChildrenOf(node)) |-> SpacingNodes(ChildrenOf(node)[i])])

(* wcs_trim; a text of blanks only is left alone. *)
wcs_trim(str) ==
  LET solid == {i \in 1..Len(str) : str[i] \notin Blank}
  IN  IF solid = {} THEN str
      ELSE SubSeq(str, CHOOSE i \in solid : \A j \in solid : i <= j,
                       CHOOSE i \in solid : \A j \in solid : j <= i)

get_string_without_spacing(node) ==
  LET spacing == SpacingNodes(node)
      end     == IF spacing = <<>> THEN node.end ELSE spacing[1].begin
  IN  wcs_trim(SubSeq(input, node.begin + 1, end))

get_unquoted(str) ==
  IF str = <<>> \/ str[1] \notin {"'", "\""} THEN str
  ELSE SubSeq(str, 2, IF Len(str) > 1 /\ str[Len(str)] = str[1]
                      THEN Len(str) - 1 ELSE Len(str))

-----------------------------------------------------------------------------
(* Characters of literals and classes, as code points. *)
Code ==
  [c \in PegChar |->
     CASE c = "\t" -> 9   [] c = "\n" -> 10  [] c = "\r" -> 13  [] c = " " -> 32
       [] c = "!" -> 33   [] c = "\"" -> 34  [] c = "#" -> 35   [] c = "&" -> 38
       [] c = "'" -> 39   [] c = "(" -> 40   [] c = ")" -> 41   [] c = "*" -> 42
       [] c = "+" -> 43   [] c = "-" -> 45   [] c = "." -> 46   [] c = "/" -> 47
       [] c = "0" -> 48   [] c = "7" -> 55   [] c = "9" -> 57   [] c = "<" -> 60
       [] c = "?" -> 63   [] c = "[" -> 91   [] c = "\\" -> 92  [] c = "]" -> 93
       [] c = "a" -> 97   [] c = "z" -> 122  [] c = "~" -> 126]

EscapeCode(c) == IF c = "a" THEN 7 ELSE IF c \in Escape THEN Code[c] ELSE Code["\\"]

get_escaped_char_ShortSpan(str, i) ==
  IF str[i] # "\\" THEN [code |-> Code[str[i]], span |-> 1]
  ELSE IF i + 3 <= Len(str) /\ str[i + 1] \in Digit /\ str[i + 2] \in Digit
  THEN [code |-> 8 * (Code[str[i + 1]] - 48) + Code[str[i + 2]] - 48, span |-> 3]
  ELSE IF i < Len(str) THEN [code |-> EscapeCode(str[i + 1]), span |-> 2]
  ELSE [code |-> Code["\\"], span |-> 1]

(* get_escaped_char at position i: the code, and the characters it spans.  *)
(* Octal digits are looked at only when three characters follow the        *)
(* backslash, and iswdigit lets a 9 pass for one.                          *)
get_escaped_char(str, i) ==
  LET digit(k) == Code[str[i + k]] - Code["0"]
  IN  IF str[i] # "\\" THEN [code |-> Code[str[i]], span |-> 1]
      ELSE IF i + 3 <= Len(str) /\ str[i + 1] \in Digit /\ str[i + 2] \in Digit
      THEN IF str[i + 3] \in Digit
           THEN [code |-> 64 * digit(1) + 8 * digit(2) + digit(3), span |-> 4]
           ELSE [code |-> 8 * digit(1) + digit(2), span |-> 3]
      ELSE IF i < Len(str) THEN [code |-> EscapeCode(str[i + 1]), span |-> 2]
      ELSE [code |-> Code["\\"], span |-> 1]

RECURSIVE StringCodes(_, _)
StringCodes(str, i) ==
  IF i > Len(str) THEN <<>>
  ELSE LET ch == get_escaped_char(str, i) IN <<ch.code>> \o StringCodes(str, i + ch.span)

(* The members of a class, ranges written out; a range the wrong way round *)
(* is its two ends.                                                        *)
RECURSIVE ClassCodes(_, _)
ClassCodes(str, i) ==
  IF i > Len(str) THEN <<>>
  ELSE LET first == get_escaped_char(str, i)
           dash  == i + first.span
           last  == get_escaped_char(str, dash + 1)
       IN  IF dash < Len(str) /\ str[dash] = "-"
           THEN (IF first.code <= last.code
                 THEN [k \in 1..(last.code - first.code + 1) |-> first.code + k - 1]
                 ELSE <<first.code, last.code>>)
                \o ClassCodes(str, dash + 1 + last.span)
           ELSE <<first.code>> \o ClassCodes(str, dash)

(* wcsdup stops at the first zero. *)
wcsdup(codes) ==
  LET zeros == {i \in 1..Len(codes) : codes[i] = 0}
  IN  IF zeros = {} THEN codes
      ELSE SubSeq(codes, 1, (CHOOSE i \in zeros : \A j \in zeros : i <= j) - 1)

collect_string_exp(node) ==
  S(wcsdup(StringCodes(get_unquoted(get_string_without_spacing(node)), 1)))

collect_class_exp(node) ==
  LET str == get_string_without_spacing(node)
  IN  C(ToSet(wcsdup(ClassCodes(SubSeq(str, 2, Len(str) - 1), 1))))

-----------------------------------------------------------------------------
(* Expressions.  Each function ends in an assertion that cannot happen. *)
AssertFails == [op |-> "assert"]

PrefixMacro(type, e) == CASE type = "and"  -> AMP(e)
                          [] type = "not"  -> BANG(e)
                          [] type = "hide" -> HIDE_(e)
                          [] OTHER -> AssertFails

SuffixMacro(type, e) == CASE type = "question" -> QUES(e)
                          [] type = "star"     -> STAR(e)
                          [] type = "plus"     -> PLUS(e)
                          [] OTHER -> AssertFails

PairMacro(op, A, B) == IF op = "DISJ" THEN DISJ(A, B) ELSE SEQ(A, B)

RECURSIVE collect_rule_exp(_)

collect_rule_children_KeepsSlashes(children, op) ==
  FoldRight(LAMBDA child, e : PairMacro(op, collect_rule_exp(child), e),
            Front(children), collect_rule_exp(Last(children)))

(* collect_rule_children: a list becomes nested pairs, the last child the  *)
(* innermost; slashes before the last child are passed over.               *)
collect_rule_children(children, op) ==
  LET others == SelectSeq(Front(children), LAMBDA child : child.type # "slash")
  IN  FoldRight(LAMBDA child, e : PairMacro(op, collect_rule_exp(child), e),
                others, collect_rule_exp(Last(children)))

collect_prefix_exp(children) ==
  CASE Len(children) = 2 -> PrefixMacro(children[1].type, collect_rule_exp(children[2]))
    [] Len(children) = 1 -> collect_rule_exp(children[1])
    [] OTHER -> AssertFails

collect_suffix_exp_SkipsOperator(children) ==
  IF Len(children) \in {1, 2} THEN collect_rule_exp(children[1]) ELSE AssertFails

collect_suffix_exp(children) ==
  CASE Len(children) = 2 -> SuffixMacro(children[2].type, collect_rule_exp(children[1]))
    [] Len(children) = 1 -> collect_rule_exp(children[1])
    [] OTHER -> AssertFails

(* The first child that is not a parenthesis decides. *)
collect_term_exp(children) ==
  LET operands == SelectSeq(children, LAMBDA child : child.type \notin {"open", "close"})
      node     == operands[1]
  IN  IF operands = <<>> THEN AssertFails
      ELSE CASE node.type = "identifier"  -> T(get_string_without_spacing(node))
             [] node.type = "literal"     -> collect_string_exp(node)
             [] node.type = "class"       -> collect_class_exp(node)
             [] node.type = "dot"         -> DOT
             [] node.type = "disjunction" -> collect_rule_exp(node)
             [] OTHER -> AssertFails

collect_rule_exp(node) ==
  LET children == ChildrenOf(node)
  IN  CASE node.type = "disjunction" -> collect_rule_children(children, "DISJ")
        [] node.type = "conjunction" -> collect_rule_children(children, "SEQ")
        [] node.type = "prefix_exp"  -> collect_prefix_exp(children)
        [] node.type = "suffix_exp"  -> collect_suffix_exp(children)
        [] node.type = "term"        -> collect_term_exp(children)
        [] OTHER -> AssertFails

-----------------------------------------------------------------------------
(* Rules.  The traversal of the tree stops at each rule it meets. *)
ChildrenOfType(node, type) == SelectSeq(ChildrenOf(node), LAMBDA child : child.type = type)

collect_rule_data(node) ==
  LET literal == ChildrenOfType(node, "literal")
  IN  [rule_name |-> get_string_without_spacing(ChildrenOf(node)[1]),
       rule_desc |-> IF literal = <<>> THEN <<>>
                     ELSE get_unquoted(get_string_without_spacing(literal[1])),
       rule_spec |-> collect_rule_exp(ChildrenOfType(node, "disjunction")[1])]

rule_records == LET rules == ChildrenOfType(root, "rule")
                IN  [i \in 1..Len(rules) |-> collect_rule_data(rules[i])]

RECURSIVE Calls(_)
Calls(e) == CASE e.op = "T" -> {e.func}
              [] e.op \in Binary -> Calls(e.A) \cup Calls(e.B)
              [] e.op \in Unary -> Calls(e.A)
              [] OTHER -> {}

(* resolve_rule_calls: the names that an error is recorded for. *)
unknown_rules ==
  UNION {Calls(r.rule_spec) : r \in ToSet(rule_records)}
    \ {r.rule_name : r \in ToSet(rule_records)}
=============================================================================
