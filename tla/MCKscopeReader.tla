-------------------------- MODULE MCKscopeReader --------------------------
(***************************************************************************)
(* Kaleidoscope programs through the generated parser and the Parse        *)
(* functions: programs written from every AST of a family, two statements  *)
(* after one another, and short texts of any tokens.                       *)
(***************************************************************************)
EXTENDS KscopeReader, MCGrammarConditions

(* The bodies of the rules and their operands, as deep as they go. *)
Below(E)   == {e.A : e \in {e \in E : e.op \in Macros}} \cup {e.B : e \in {e \in E : e.op \in Binary}}
MCRule     == DOMAIN KscopeBody
MCExp      == FoldLeft(LAMBDA E, n : E \cup Below(E), {KscopeBody[r] : r \in MCRule},
                       [n \in 1..12 |-> n])
MCGrammars == {Kscope}

(* The Kaleidoscope grammar meets the conditions of the theorems about     *)
(* EvaluatedOnce and TreesNested.                                          *)
ASSUME KscopeGrammarConditions == HasNoLeftRecursion(KscopeBody) /\ NoAmp(KscopeBody)

-----------------------------------------------------------------------------
(* ASTs. *)
X == <<"x">>
Y == <<"y", "1">>
F == <<"f">>

Var(x)          == [op |-> "var", name |-> x]
Num(text)       == [op |-> "num", val |-> text]
Call(f, args)   == [op |-> "call", callee |-> f, args |-> args]
If(c, t, e)     == [op |-> "if", parts |-> <<c, t, e>>]
For(x, parts)   == [op |-> "for", name |-> x, parts |-> parts]
Let(bs, body)    == [op |-> "varin", vars |-> bs, body |-> body]
Bound(x, init)  == [name |-> x, init |-> init]
Minus(e)        == [op |-> "unary", opcode |-> "-", operand |-> e]
Pair(d, o, e)   == [op |-> "binary", first |-> d, rest |-> <<[opcode |-> o, operand |-> e]>>]
Triple(d, e, f) == [op |-> "binary", first |-> d,
                    rest |-> <<[opcode |-> "=", operand |-> e], [opcode |-> "<", operand |-> f]>>]

Leaf == {Var(X), Var(Y), Num(<<"1">>), Num(<<"2", ".", "1">>), Num(<<".", "2">>), Num(<<"1", ".">>)}

(* Every form with d and e in it. *)
Forms(d, e) ==
  {Call(F, <<d>>), Call(F, <<d, e, d>>), If(d, e, d), If(e, d, e), For(X, <<d, e, d>>),
   For(Y, <<d, e, d, e>>), Let(<<Bound(X, <<>>)>>, d), Let(<<Bound(Y, <<d>>)>>, e),
   Let(<<Bound(X, <<>>), Bound(Y, <<d>>), Bound(X, <<>>)>>, e),
   Let(<<Bound(X, <<d>>), Bound(Y, <<e>>)>>, d),
   Minus(d), Minus(Minus(d)), Pair(d, "+", e), Pair(e, "*", d), Triple(d, e, d), Triple(e, d, e)}

Flat   == Forms(Var(X), Num(<<"1">>))
Nested == Leaf \cup Flat \cup UNION {Forms(e, Var(Y)) : e \in Flat \cup Leaf}

Proto(fn, args, prec) == [op |-> "proto", fn |-> fn, args |-> args, prec |-> prec]
Id(args)              == Proto(<<"", F>>, args, 30)
Def(proto, e)         == [op |-> "def", proto |-> proto, body |-> e]
Extern(proto)         == [op |-> "extern", proto |-> proto, body |-> [op |-> "none"]]

Protos == {Id(<<X>>), Id(<<X, Y, X>>), Proto(<<"unary", <<"-">>>>, <<X>>, 30),
           Proto(<<"binary", <<":">>>>, <<X, Y>>, 30), Proto(<<"binary", <<"<">>>>, <<X, Y>>, 12)}

Few      == {Var(X), Num(<<"1">>), Pair(Var(X), "+", Var(Y)), If(Var(X), Var(Y), Num(<<"2">>)),
             Let(<<Bound(X, <<>>)>>, Var(X)), Minus(Var(X)), Call(F, <<Var(X)>>)}
Sentence == {Def(NoName, e) : e \in Few} \cup {Def(p, Var(X)) : p \in Protos}
            \cup {Extern(p) : p \in Protos}

Singles == {<<Def(NoName, e)>> : e \in Nested} \cup {<<Def(Id(<<X>>), e)>> : e \in Flat}
Pairs   == {<<s, t>> : s \in Sentence, t \in Sentence}

-----------------------------------------------------------------------------
(* Their texts. *)
Commas(texts) == FlattenSeq([i \in 1..Len(texts) |-> IF i = 1 THEN texts[i] ELSE <<",">> \o texts[i]])
Paren(text)   == <<"(">> \o text \o <<")">>
Alone(e)      == e.op \in {"var", "num", "call", "unary"}

For1 == <<"f", "o", "r", " ">>
In   == <<" ", "i", "n", " ">>

RECURSIVE Show(_)
ShowOperand(e) == IF Alone(e) THEN Show(e) ELSE Paren(Show(e))
ShowAll(es)    == Commas([i \in 1..Len(es) |-> Show(es[i])])

(* Nothing but the last operand may be an if, a for or a var, whose own    *)
(* last expression takes in all that follows.                              *)
ShowRest(rest) ==
  FlattenSeq([i \in 1..Len(rest) |->
    <<rest[i].opcode>> \o (IF i = Len(rest) /\ rest[i].operand.op # "binary"
                           THEN Show(rest[i].operand) ELSE ShowOperand(rest[i].operand))])

Show(e) ==
  CASE e.op = "var"    -> e.name
    [] e.op = "num"    -> e.val
    [] e.op = "call"   -> e.callee \o Paren(ShowAll(e.args))
    [] e.op = "if"     -> <<"i", "f", " ">> \o Show(e.parts[1])
                            \o <<" ", "t", "h", "e", "n", "\n">> \o Show(e.parts[2])
                            \o <<"\n", "e", "l", "s", "e", " ">> \o Show(e.parts[3])
    [] e.op = "for"    -> For1 \o e.name \o <<"=">> \o ShowAll(Front(e.parts)) \o In
                            \o Show(Last(e.parts))
    [] e.op = "varin"  -> <<"v", "a", "r", " ">>
                            \o Commas([i \in 1..Len(e.vars) |->
                                 e.vars[i].name \o (IF e.vars[i].init = <<>> THEN <<>>
                                                    ELSE <<"=">> \o Show(e.vars[i].init[1]))])
                            \o In \o Show(e.body)
    [] e.op = "unary"  -> <<e.opcode>> \o ShowOperand(e.operand)
    [] e.op = "binary" -> ShowOperand(e.first) \o ShowRest(e.rest)

Digits(n)   == <<"1", "2">>          \* the only precedence that is written
ShowArgs(a) == Paren(FlattenSeq([i \in 1..Len(a) |-> a[i] \o <<" ">>]))

ShowProto(p) ==
  CASE p.fn[1] = ""       -> p.fn[2] \o ShowArgs(p.args)
    [] p.fn[1] = "unary"  -> <<"u", "n", "a", "r", "y">> \o p.fn[2] \o ShowArgs(p.args)
    [] p.fn[1] = "binary" -> <<"b", "i", "n", "a", "r", "y", " ">> \o p.fn[2]
                               \o (IF p.prec = 30 THEN <<>> ELSE Digits(p.prec))
                               \o ShowArgs(p.args)

ShowStatement(s) ==
  CASE s.op = "extern"    -> <<"e", "x", "t", "e", "r", "n", " ">> \o ShowProto(s.proto)
    [] s.proto = NoName   -> Show(s.body)
    [] OTHER -> <<"d", "e", "f", " ">> \o ShowProto(s.proto) \o <<"\n">> \o Show(s.body)

(* A comment or a semicolon between two statements. *)
ShowProgram(p) == IF Len(p) = 1 THEN ShowStatement(p[1]) \o <<"#", "x", "\n">>
                  ELSE ShowStatement(p[1]) \o <<";", "\n">> \o ShowStatement(p[2])

ShownProgram == [p \in Singles \cup Pairs |-> ShowProgram(p)]
ProgramTexts == {ShownProgram[p] : p \in Singles \cup Pairs}

Texts(words, n) == {FlattenSeq(w) : w \in UNION {[1..k -> words] : k \in 0..n}}
Words == {<<"d", "e", "f">>, <<"v", "a", "r">>, <<"x">>, <<"1">>, <<"(">>, <<")">>, <<",">>,
          <<"=">>, <<" ", "i", "n", " ">>, <<"#">>}
MCInputs == ProgramTexts \cup Texts(Words, 3)

-----------------------------------------------------------------------------
(* The Parse functions find every child they read, by number and with      *)
(* little checking, on every tree the grammar makes, of right and of wrong *)
(* programs: no child[] is read beyond its end, no name is empty and the   *)
(* functions' own errors never happen.                                     *)
RECURSIVE WellBuilt(_)
AllWellBuilt(asts) == \A i \in 1..Len(asts) : WellBuilt(asts[i])
IsName(str)        == str # <<>> /\ str[1] \in KsLetter /\ ToSet(str) \subseteq KsLetter \cup KsDigit

WellBuilt(e) ==
  CASE e.op = "var"    -> IsName(e.name)
    [] e.op = "num"    -> e.val # <<>> /\ ToSet(e.val) \subseteq KsDigit \cup {"."}
    [] e.op = "call"   -> IsName(e.callee) /\ e.args # <<>> /\ AllWellBuilt(e.args)
    [] e.op = "if"     -> AllWellBuilt(e.parts)
    [] e.op = "for"    -> IsName(e.name) /\ AllWellBuilt(e.parts)
    [] e.op = "varin"  -> /\ \A i \in 1..Len(e.vars) :
                               IsName(e.vars[i].name) /\ AllWellBuilt(e.vars[i].init)
                          /\ WellBuilt(e.body)
    [] e.op = "unary"  -> e.opcode \in KsOperator /\ WellBuilt(e.operand)
    [] e.op = "binary" -> /\ WellBuilt(e.first)
                          /\ \A i \in 1..Len(e.rest) :
                               e.rest[i].opcode \in KsOperator /\ WellBuilt(e.rest[i].operand)
    [] e.op = "proto"  -> \A i \in 1..Len(e.args) : IsName(e.args[i])
    [] e.op = "def"    -> WellBuilt(e.proto) /\ WellBuilt(e.body)
    [] e.op = "extern" -> WellBuilt(e.proto)
    [] OTHER -> FALSE

ChildrenAlwaysThere == status = "done" => AllWellBuilt(MainLoop)

(* Reading what a program was written as gives the program back.  Of two   *)
(* statements the second must not begin with an operator, nor with a       *)
(* parenthesis: a semicolon is white space to the grammar, although        *)
(* kaleidoscope.cpp:1139 has it for a statement of its own, and x; -y is   *)
(* one subtraction.                                                        *)
Joins(p) == Len(p) = 2 /\ ShowStatement(p[2])[1] \in KsOperator \cup {"("}
            /\ p[1].op # "extern"

ProgramsReadBack ==
  status = "done" =>
    \A p \in Singles \cup Pairs : ShownProgram[p] = input /\ ~Joins(p) => MainLoop = p
=============================================================================
