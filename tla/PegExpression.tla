--------------------------- MODULE PegExpression ---------------------------
(***************************************************************************)
(* The parsing macros of src/parsergen/peg_parser.c as constructors of     *)
(* expressions.  A rule body such as                                       *)
(*     SEQ(T(parse_peg_conjunction), STAR(SEQ(...)))                       *)
(* is code once the preprocessor has expanded it; here the same text is a  *)
(* value, and PackratParser interprets it.  The generated parsers of       *)
(* c_generator.c are written with the same macros.  HIDE is a keyword of   *)
(* TLA+, hence HIDE_.                                                      *)
(***************************************************************************)

SEQ(A, B)  == [op |-> "SEQ",  A |-> A, B |-> B]
DISJ(A, B) == [op |-> "DISJ", A |-> A, B |-> B]
STAR(A)    == [op |-> "STAR", A |-> A]
PLUS(A)    == [op |-> "PLUS", A |-> A]
QUES(A)    == [op |-> "QUES", A |-> A]
BANG(A)    == [op |-> "BANG", A |-> A]
HIDE_(A)   == [op |-> "HIDE", A |-> A]
AMP(A)     == [op |-> "AMP",  A |-> A]
T(func)    == [op |-> "T", func |-> func]
S(str)     == [op |-> "S", str |-> str]
C(class)   == [op |-> "C", class |-> class]
DOT        == [op |-> "DOT"]

Binary   == {"SEQ", "DISJ"}
Unary    == {"STAR", "PLUS", "QUES", "BANG", "HIDE", "AMP"}
Macros   == Binary \cup Unary      \* the macros that run an operand
=============================================================================
