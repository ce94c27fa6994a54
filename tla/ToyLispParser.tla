--------------------------- MODULE ToyLispParser ---------------------------
(***************************************************************************)
(* parseExpression of src/toylisp/toylisp.cpp: from the expression that    *)
(* readExpression read to the AST that is compiled.                        *)
(***************************************************************************)
EXTENDS Naturals, Sequences

CONSTANTS Letters, Digits    \* the pieces that begin with a letter, with a digit

(* The parser.  An AST that could not be built is a record whose kind says *)
(* why: a SyntaxError, an assertion, or a list read beyond its end.        *)

Failure(kind) == [kind |-> kind]

(* name and args are those of a prototype, or the name that is called or   *)
(* read; parts is what is inside: operands, the branches of an if, a body. *)
Ast(kind, name, args, foreign, parts) ==
  [kind |-> kind, name |-> name, args |-> args, foreign |-> foreign, parts |-> parts]

Failed(ast)   == ast.kind \in {"thrown", "assert", "undefined"}

head(e) == IF e.type = "LIST" /\ e.list # <<>> /\ e.list[1].type = "ATOM"
           THEN e.list[1].atom ELSE <<>>

(* The parts of an expression are parsed from the left. *)
Built(parts, ast) == IF \E i \in DOMAIN parts : Failed(parts[i])
                     THEN parts[CHOOSE i \in DOMAIN parts :
                                  Failed(parts[i]) /\ \A j \in 1 .. i - 1 : ~Failed(parts[j])]
                     ELSE ast

ParsePrototype(foreign, e) ==
  LET args == Tail(e.list)
  IN  IF head(e) = <<>> THEN Failure("assert")
      ELSE IF \E i \in DOMAIN args : args[i].type = "LIST" THEN Failure("thrown")
      ELSE Ast("prototype", head(e), [i \in DOMAIN args |-> args[i].atom], foreign, <<>>)

RECURSIVE parseExpression(_)

Part(e, i) == IF i \in DOMAIN e.list THEN parseExpression(e.list[i])
              ELSE Failure("undefined")

PrototypePart(foreign, e) == IF 2 \in DOMAIN e.list THEN ParsePrototype(foreign, e.list[2])
                             ELSE Failure("undefined")

parseIfExpr(e) == LET parts == [i \in 1 .. 3 |-> Part(e, i + 1)]
                  IN  Built(parts, Ast("if", <<>>, <<>>, FALSE, parts))

parseDefinition(e) ==
  LET parts == <<PrototypePart(FALSE, e), Part(e, 3)>>
  IN  Built(parts, Ast("function", parts[1].name, parts[1].args, FALSE, <<parts[2]>>))

parseForeign(e) == PrototypePart(TRUE, e)

parseCallExpr(e) ==
  LET parts == [i \in 1 .. Len(e.list) - 1 |-> Part(e, i + 1)]
  IN  IF head(e) = <<>> THEN Failure("assert")
      ELSE Built(parts, Ast("call", head(e), <<>>, FALSE, parts))

parseAtom(atom) ==
  CASE atom # <<>> /\ atom[1] \in Letters -> Ast("variable", atom, <<>>, FALSE, <<>>)
    [] atom # <<>> /\ atom[1] \in Digits  -> Ast("number", <<>>, <<>>, FALSE, <<>>)
    [] OTHER -> Failure("thrown")

parseExpression(e) ==
  IF e.type = "ATOM" THEN parseAtom(e.atom)
  ELSE CASE head(e) = <<"if">>      -> parseIfExpr(e)
         [] head(e) = <<"def">>     -> parseDefinition(e)
         [] head(e) = <<"foreign">> -> parseForeign(e)
         [] OTHER                   -> parseCallExpr(e)

=============================================================================
