---------------------------- MODULE PegSemantics ----------------------------
(***************************************************************************)
(* What a parsing expression means, after Ford's "Parsing Expression       *)
(* Grammars: A Recognition-Based Syntactic Foundation", which              *)
(* src/parsergen/peg_parser.h:40 and src/parsergen/README:3 name as the    *)
(* format parsergen implements.  An expression applied at a position       *)
(* either fails or succeeds at a position after what it consumed; there is *)
(* no memo, no stored position and no error list.                          *)
(***************************************************************************)
EXTENDS Integers, Sequences, PegExpression

Fails == -1

RECURSIVE Meaning(_, _, _, _)
Meaning(body, text, e, p) ==
  LET M(f, q) == Meaning(body, text, f, q)
      first   == M(e.A, p)
  IN
  CASE e.op = "SEQ"  -> IF first = Fails THEN Fails ELSE M(e.B, first)
    [] e.op = "DISJ" -> IF first = Fails THEN M(e.B, p) ELSE first
    [] e.op = "STAR" -> IF first = Fails THEN p ELSE M(e, first)
    [] e.op = "PLUS" -> IF first = Fails THEN Fails ELSE M(STAR(e.A), first)
    [] e.op = "QUES" -> IF first = Fails THEN p ELSE first
    [] e.op = "BANG" -> IF first = Fails THEN p ELSE Fails
    [] e.op = "AMP"  -> IF first = Fails THEN Fails ELSE p
    [] e.op = "HIDE" -> first
    [] e.op = "T"    -> M(body[e.func], p)
    [] e.op = "S"    -> IF /\ p + Len(e.str) <= Len(text)
                           /\ SubSeq(text, p + 1, p + Len(e.str)) = e.str
                        THEN p + Len(e.str) ELSE Fails
    [] e.op = "C"    -> IF p < Len(text) /\ text[p + 1] \in e.class THEN p + 1 ELSE Fails
    [] e.op = "DOT"  -> IF p < Len(text) THEN p + 1 ELSE Fails
=============================================================================
