----------------------------- MODULE CGenerator -----------------------------
(***************************************************************************)
(* What c_generator.c prints for the rules of a grammar: the names it      *)
(* makes of the rule names, the enum of the header and the bodies of the   *)
(* parsing functions, as text in tokens, and how a C compiler reads that   *)
(* text.  The runtime printed around the bodies is GeneratedParser.        *)
(***************************************************************************)
EXTENDS Parsergen, PegExpression

CONSTANTS
  BUF_LEN,      \* the wchar_t of the buffer a body is put together in
  NameLength,   \* the length of a function name
  Special,      \* the characters print_escape has a case for
  Breaking,     \* those of them a C literal cannot hold as they are
  Wide          \* the characters fprintf cannot convert: bytes above 0x7F

ASSUME CharAssumption == Breaking \subseteq Special /\ Wide \cap Special = {}

Token(t)         == [tok |-> t]
Char(c, escaped) == [tok |-> "char", ch |-> c, escaped |-> escaped]
Name(n)          == [tok |-> "name", name |-> n]

(* to_upper and to_lower forget the case of a name, and nothing else of an *)
(* identifier; what they make of it is its word.                           *)
to_lower(name) == name.word

(* get_node_type_labels: the null node comes first. *)
get_node_type_labels(rs) == <<"null">> \o [i \in 1..Len(rs) |-> to_lower(rs[i].name)]

get_node_function_names(rs) == [i \in 1..Len(rs) |-> to_lower(rs[i].name)]

-----------------------------------------------------------------------------
print_escape_Quotes(str) ==
  [i \in 1..Len(str) |-> Char(str[i], str[i] \in Special \cap {"quote"})]

print_escape(str) == [i \in 1..Len(str) |-> Char(str[i], str[i] \in Special)]

(* The function of every rule of that name is printed. *)
CalledFunctions(rs, name) ==
  LET f[i \in 0..Len(rs)] ==
        IF i = 0 THEN <<>>
        ELSE IF rs[i].name = name
             THEN Append(f[i - 1], Name(get_node_function_names(rs)[i])) ELSE f[i - 1]
  IN  f[Len(rs)]

MacroToken(op) == Token(op \o "(")

RECURSIVE print_rule_exp(_, _)
print_rule_exp(exp, rs) ==
  CASE exp.op \in Binary ->
         <<MacroToken(exp.op)>> \o print_rule_exp(exp.A, rs) \o <<Token(", ")>>
           \o print_rule_exp(exp.B, rs) \o <<Token(")")>>
    [] exp.op \in Unary ->
         <<MacroToken(exp.op)>> \o print_rule_exp(exp.A, rs) \o <<Token(")")>>
    [] exp.op = "T"   -> <<Token("T(")>> \o CalledFunctions(rs, exp.func) \o <<Token(")")>>
    [] exp.op = "S"   -> <<Token("S(")>> \o print_escape(exp.str) \o <<Token("end")>>
    [] exp.op = "C"   -> <<Token("C(")>> \o print_escape(exp.class) \o <<Token("end")>>
    [] exp.op = "DOT" -> <<Token("DOT")>>

(* wcsncat's bound is on what is appended; nothing bounds the whole.       *)
TokenWidth(t) ==
  CASE t.tok = "char" -> IF t.escaped THEN 2 ELSE 1
    [] t.tok = "name" -> NameLength
    [] t.tok \in {", ", "T(", "end"} -> 2
    [] t.tok = ")"    -> 1
    [] t.tok = "DOT"  -> 3
    [] t.tok \in {"SEQ(", "AMP(", "S(", "C("} -> 4
    [] OTHER          -> 5

TextWidth(text) ==
  LET f[i \in 0..Len(text)] == IF i = 0 THEN 0 ELSE f[i - 1] + TokenWidth(text[i])
  IN  f[Len(text)]

OverrunsBuffer(rs) ==
  \E i \in 1..Len(rs) : TextWidth(print_rule_exp(rs[i].exp, rs)) >= BUF_LEN

Inconvertible(text) == \E i \in 1..Len(text) : text[i].tok = "char" /\ text[i].ch \in Wide

(* fprintf stops at the first %ls with a character it cannot convert: that *)
(* text and those after it are not printed.                                *)
Fprintf(texts) ==
  [i \in 1..Len(texts) |-> IF \E j \in 1..i : Inconvertible(texts[j]) THEN <<>> ELSE texts[i]]

(* The description of a rule is printed as the grammar file has it, its    *)
(* escapes unresolved and nothing escaped; without one, the function name. *)
Description(rs, i) ==
  (IF rs[i].desc = <<>> THEN <<Name(get_node_function_names(rs)[i])>> ELSE rs[i].desc)
    \o <<Token("end")>>

(* One PEG_PARSE per rule, in one fprintf.                                 *)
print_function_bodies(rs) ==
  [i \in 1..Len(rs) |->
     LET printed == Fprintf(<<Description(rs, i), print_rule_exp(rs[i].exp, rs)>>)
     IN  [func |-> get_node_function_names(rs)[i], label |-> get_node_type_labels(rs)[i + 1],
          desc |-> printed[1], body |-> printed[2]]]

(* The enum, and the length that memo_map_t, the node names and dispatch[] *)
(* are declared with.                                                      *)
generate_header(rs) ==
  [labels |-> get_node_type_labels(rs), num_node_types |-> Len(get_node_type_labels(rs))]

generate_source(rs) ==
  [functions |-> print_function_bodies(rs), start |-> get_node_function_names(rs)[1]]

-----------------------------------------------------------------------------
(* How a C compiler reads a body: a macro call with its operands, a        *)
(* literal up to its end, one identifier as the function of T.  Literals   *)
(* that stand side by side are one, so two quotes in a row change nothing. *)
Unreadable == [exp |-> [op |-> "none"], rest |-> <<>>]

Raw(t, chars) == t.tok = "char" /\ t.ch \in chars /\ ~t.escaped

RawQuote(t) == Raw(t, {"quote"})

RECURSIVE ReadLiteral(_)
ReadLiteral(text) ==
  IF text = <<>> THEN [ok |-> FALSE, str |-> <<>>, rest |-> <<>>]
  ELSE IF text[1].tok = "end" THEN [ok |-> TRUE, str |-> <<>>, rest |-> Tail(text)]
  ELSE IF Len(text) > 1 /\ RawQuote(text[1]) /\ RawQuote(text[2])
       THEN ReadLiteral(SubSeq(text, 3, Len(text)))
  ELSE LET more == ReadLiteral(Tail(text))
       IN  [ok   |-> text[1].tok \in {"char", "name"} /\ more.ok /\ ~Raw(text[1], Breaking),
            str  |-> <<text[1]>> \o more.str,
            rest |-> more.rest]

StartsWith(text, t) == text # <<>> /\ text[1].tok = t

RECURSIVE ReadBody(_)
ReadBody(text) ==
  LET Literal(op) ==
        LET lit == ReadLiteral(Tail(text))
            str == [i \in 1..Len(lit.str) |-> lit.str[i].ch]
        IN  IF ~lit.ok THEN Unreadable
            ELSE [exp |-> IF op = "S" THEN S(str) ELSE C(str), rest |-> lit.rest]
      Operation(op) ==
        LET a == ReadBody(Tail(text))
            b == ReadBody(Tail(a.rest))
        IN  IF op \in Binary
            THEN IF StartsWith(a.rest, ", ") /\ StartsWith(b.rest, ")")
                 THEN [exp |-> [op |-> op, A |-> a.exp, B |-> b.exp], rest |-> Tail(b.rest)]
                 ELSE Unreadable
            ELSE IF StartsWith(a.rest, ")")
                 THEN [exp |-> [op |-> op, A |-> a.exp], rest |-> Tail(a.rest)]
                 ELSE Unreadable
  IN  IF text = <<>> THEN Unreadable
      ELSE IF \E op \in Macros : text[1] = MacroToken(op)
           THEN Operation(CHOOSE op \in Macros : text[1] = MacroToken(op))
      ELSE IF text[1].tok = "S(" THEN Literal("S")
      ELSE IF text[1].tok = "C(" THEN Literal("C")
      ELSE IF text[1].tok = "DOT" THEN [exp |-> DOT, rest |-> Tail(text)]
      ELSE IF /\ text[1].tok = "T(" /\ Len(text) >= 3
              /\ text[2].tok = "name" /\ text[3].tok = ")"
           THEN [exp |-> T(text[2].name), rest |-> SubSeq(text, 4, Len(text))]
      ELSE Unreadable

Injective(s) == \A i, j \in 1..Len(s) : s[i] = s[j] => i = j

RECURSIVE Readable(_)
Readable(exp) ==
  /\ exp.op # "none"
  /\ exp.op \in Macros => Readable(exp.A)
  /\ exp.op \in Binary => Readable(exp.B)

(* No enumerator and no function is defined twice, and every description   *)
(* and every body is C.                                                    *)
Compiles(header, source) ==
  /\ Injective(header.labels)
  /\ Injective([i \in DOMAIN source.functions |-> source.functions[i].func])
  /\ \A i \in DOMAIN source.functions :
       LET desc == ReadLiteral(source.functions[i].desc)
           body == ReadBody(source.functions[i].body)
       IN  /\ desc.ok /\ desc.rest = <<>>
           /\ Readable(body.exp) /\ body.rest = <<>>

-----------------------------------------------------------------------------
(* Properties *)

RECURSIVE Lowered(_), BodyWidth(_), HasWide(_)
Lowered(exp) ==
  CASE exp.op \in Binary -> [op |-> exp.op, A |-> Lowered(exp.A), B |-> Lowered(exp.B)]
    [] exp.op \in Unary  -> [op |-> exp.op, A |-> Lowered(exp.A)]
    [] exp.op = "T"      -> T(to_lower(exp.func))
    [] OTHER             -> exp

(* The room a rule needs: seven or eight characters around two operands,   *)
(* five or six around one, what is in quotes and six more.                 *)
BodyWidth(exp) ==
  CASE exp.op = "SEQ"  -> 7 + BodyWidth(exp.A) + BodyWidth(exp.B)
    [] exp.op = "DISJ" -> 8 + BodyWidth(exp.A) + BodyWidth(exp.B)
    [] exp.op = "AMP"  -> 5 + BodyWidth(exp.A)
    [] exp.op \in Unary -> 6 + BodyWidth(exp.A)
    [] exp.op = "T"    -> 3 + NameLength
    [] exp.op = "DOT"  -> 3
    [] OTHER -> LET str == IF exp.op = "S" THEN exp.str ELSE exp.class
                IN  6 + Len(str) + Cardinality({i \in 1..Len(str) : str[i] \in Special})

HasWide(exp) ==
  \/ exp.op \in Macros /\ HasWide(exp.A)
  \/ exp.op \in Binary /\ HasWide(exp.B)
  \/ exp.op = "S" /\ \E i \in 1..Len(exp.str) : exp.str[i] \in Wide
  \/ exp.op = "C" /\ \E i \in 1..Len(exp.class) : exp.class[i] \in Wide

TooLong(rs) == \E i \in 1..Len(rs) : BodyWidth(rs[i].exp) >= BUF_LEN

(* Every unbroken series of raw quotes in the description is an even one.  *)
QuotesInPairs(desc) ==
  \A i, j \in 1..Len(desc) :
    /\ i <= j /\ \A k \in i..j : RawQuote(desc[k])
    /\ i > 1 => ~RawQuote(desc[i - 1])
    /\ j < Len(desc) => ~RawQuote(desc[j + 1])
    => (j - i) % 2 = 1

FitDescription(desc) ==
  /\ QuotesInPairs(desc)
  /\ \A i \in 1..Len(desc) : desc[i].ch \notin Wide /\ ~Raw(desc[i], Breaking \ {"quote"})

Fit(rs) ==
  /\ \A i, j \in 1..Len(rs) : rs[i].name.word = rs[j].name.word => i = j
  /\ \A i \in 1..Len(rs) : /\ rs[i].name.word # "null"
                           /\ ~HasWide(rs[i].exp)
                           /\ FitDescription(rs[i].desc)

(* When parsergen ends with code 0 its output compiles exactly if no two   *)
(* rules are named alike but for case, none is named null in any case, no  *)
(* literal and no description has a byte above 0x7F, and no description    *)
(* has a carriage return or a quote that is not escaped, but for quotes in *)
(* pairs (parsergen reports none of these); and then each parsing function *)
(* has the expression of its rule, with every call resolved, and a label   *)
(* and a slot of dispatch[] of its own.  The file name is taken to begin   *)
(* with a letter, and what a description has between two of its raw quotes *)
(* to be no C.                                                             *)
(*   It is stopped by the buffer a body is put together in only if a rule  *)
(* needs BUF_LEN characters or more, or if two rules of one name are       *)
(* called, and both functions printed for it.                              *)
OutputMeansGrammar ==
  /\ pc = "exit" /\ res = 0 /\ HeaderName # SourceName /\ ~TooLong(spec) =>
       LET rs == disk[SourceName].rules
           h  == generate_header(disk[HeaderName].rules)
           s  == generate_source(rs)
       IN  /\ Compiles(h, s) <=> Fit(spec)
           /\ Compiles(h, s) =>
                /\ s.start = to_lower(spec[1].name)
                /\ \A i \in 1..Len(spec) :
                     /\ s.functions[i].func = to_lower(spec[i].name)
                     /\ ReadBody(s.functions[i].body).exp = Lowered(spec[i].exp)
                     /\ s.functions[i].label = h.labels[i + 1]
                     /\ i + 1 <= h.num_node_types
  /\ pc = "crashed" =>
       \/ TooLong(spec)
       \/ \E i, j \in 1..Len(spec) : i # j /\ spec[i].name = spec[j].name
=============================================================================
