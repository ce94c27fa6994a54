----------------------------- MODULE MCToyLisp -----------------------------
(***************************************************************************)
(* Instance of ToyLisp: programs of up to three forms, written out with a  *)
(* blank between any two tokens of a list, and all short texts.            *)
(***************************************************************************)
EXTENDS ToyLisp, ToyLispParser, TLC

MCLetters == {"f", "g", "x", "y", "if", "def", "foreign"}
MCDigits  == {"1"}

A(piece) == Atom(<<piece>>)
L(items) == List(items)
Def(proto, body) == L(<<A("def"), proto, body>>)
Foreign(proto)   == L(<<A("foreign"), proto>>)
If(c, t, e)      == L(<<A("if"), c, t, e>>)

gx == L(<<A("g"), A("x")>>)
fx == L(<<A("f"), A("x")>>)

(* Forms that repl must answer. *)
PlainForms == {
  A("1"), A("x"), A("-"),
  L(<<A("f"), A("1")>>),
  L(<<A("g"), L(<<A("f"), A("1")>>), A("1")>>),
  If(A("1"), L(<<A("g"), A("1")>>), A("y")),
  Foreign(gx), Foreign(L(<<A("g"), gx>>)), Foreign(L(<<A("f")>>)),
  Def(gx, A("x")), Def(gx, A("y")), Def(gx, A("-")), Def(gx, If(A("x"), gx, fx)),
  Def(L(<<A("g"), A("x"), A("y")>>), A("y")),
  Def(fx, gx), Def(L(<<A("f"), A("x"), A("x")>>), A("x"))}

(* Forms with a definition or a declaration inside of an expression. *)
NestedForms == {
  L(<<A("f"), Def(gx, A("x"))>>),
  Def(fx, Def(gx, A("x"))),
  Def(fx, If(Def(gx, A("x")), A("y"), A("x"))),
  Def(fx, If(A("x"), Foreign(L(<<A("g"), A("y")>>)), A("y"))),
  Def(fx, If(Def(gx, fx), A("y"), A("x"))),
  Def(fx, L(<<A("f"), Def(gx, A("x"))>>))}

(* Forms that are too short or have no name at their head. *)
BrokenForms == {L(<<>>), L(<<L(<<A("f")>>), A("1")>>), L(<<A("if"), A("1")>>),
                L(<<A("if"), A("-"), A("x")>>),
                L(<<A("def"), fx>>), L(<<A("def"), A("f"), A("x")>>), L(<<A("foreign")>>)}

Forms == PlainForms \cup NestedForms \cup BrokenForms

Sequences(forms, n) == UNION {[1 .. k -> forms] : k \in 1 .. n}
Plain    == Sequences(PlainForms, 3)
Nested   == Sequences(PlainForms \cup NestedForms, 2) \cup {<<n, p, q>> : n \in NestedForms, p, q \in PlainForms}
Programs == Plain \cup Nested \cup Sequences(PlainForms \cup BrokenForms, 2)

RECURSIVE Write(_)
Write(e) == IF e.type = "ATOM" THEN e.atom
            ELSE <<"(">> \o FlattenSeq([i \in DOMAIN e.list |->
                               IF i = 1 THEN Write(e.list[i]) ELSE <<" ">> \o Write(e.list[i])])
                 \o <<")">>

RECURSIVE Within(_)
Within(e) == {e} \cup UNION {Within(e.list[i]) : i \in DOMAIN e.list}

MCAsts == {ast \in {parseExpression(e) : e \in UNION {Within(form) : form \in Forms}} : ~Failed(ast)}
MCNames == {<<piece>> : piece \in MCLetters \cup MCDigits \cup {"-"}}

WriteAll(program) == FlattenSeq([i \in DOMAIN program |-> Write(program[i]) \o <<" ">>])

Short   == UNION {[1 .. n -> {"(", ")", " ", "quote", "f", "1"}] : n \in 0 .. 5}
            \cup {<<a, b, c, d>> : a, b, c, d \in {"(", ")", "f", "NUL", "EOF"}}
MCTexts == Seq({"(", ")", " ", "quote", "NUL", "EOF", "-"} \cup MCLetters \cup MCDigits)

-----------------------------------------------------------------------------
VARIABLE program     \* the program text was written from, <<>> for a short text

MCInit == /\ \/ program \in Programs /\ text = WriteAll(program)
             \/ program = <<>> /\ text \in Short
          /\ Init

(* Of a short text only the reader's first answer is of interest.          *)
MCNext == Next /\ UNCHANGED program /\ (pc = "eval" => program # <<>>)

MCSpec == MCInit /\ [][MCNext]_<<vars, program>>

Tokens(pieces) == SelectSeq(pieces, LAMBDA p : p \notin {" ", "(", ")"})

RECURSIVE Leaves(_)
Leaves(e) == IF e.type = "ATOM" THEN e.atom
             ELSE FlattenSeq([i \in DOMAIN e.list |-> Leaves(e.list[i])])

(* What was written with blanks between its tokens is read back form by    *)
(* form, whatever answers and errors the forms before it gave              *)
(* (readExpression, toylisp.cpp:60: stack and token begin empty each time  *)
(* and the rest of the input stays where it is).                           *)
(*   Of any other text the reader may move a token into the list that      *)
(* begins after it, since ( does not end a token (toylisp.cpp:86), but it  *)
(* loses none and keeps their order.  NUL and the end of the input do lose *)
(* what is pending; a blank inside of a string is part of an atom.         *)
SourceRead ==
  pc = "eval" =>
    IF program # <<>>
    THEN exp = IF Len(said) < Len(program) THEN program[Len(said) + 1] ELSE List(<<>>)
    ELSE ToSet(text) \cap {"NUL", "EOF"} = {} /\ at <= Len(text) + 1 =>
           Tokens(Leaves(exp)) = Tokens(SubSeq(text, 1, at - 1))

(* repl answers each form of a program in which no form is broken or holds *)
(* a definition inside of an expression, and goes on, also after errors;   *)
(* only compiled code that calls functions may end it earlier.  After the  *)
(* last one it ends in the assertion of parseCallExpr, the end of the      *)
(* input being read as an empty list (toylisp.cpp:71, 241).                *)
AnswersEveryForm ==
  /\ pc = "stopped" /\ program \in Plain /\ why # "running" =>
       /\ why = "assert"
       /\ Len(said) = Len(program)
  /\ pc = "eval" /\ ~Failed(parse(exp)) => parse(exp) \in Asts \/ program = <<>>

=============================================================================
