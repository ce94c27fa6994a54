---------------------------- MODULE KscopeReader ----------------------------
(***************************************************************************)
(* src/kaleidoscope/kaleidoscope.cpp from the syntax tree to the ASTs: the *)
(* Parse functions, which take the children of a node by their numbers and *)
(* test the type of few of them, and MainLoop.  The tree is the one that   *)
(* PackratParser built with KscopeGrammar.                                 *)
(*                                                                         *)
(* An AST is a record.  The operands and operators of one BINOPRHS stay a  *)
(* list; OperatorPrecedence says how they are grouped, KaleidoscopeCodegen *)
(* what becomes of the ASTs.                                               *)
(***************************************************************************)
EXTENDS KscopeParser

(* A child that is not there: child[] is read beyond its end. *)
Missing == Node("missing", 0, 0)
Null    == [op |-> "null"]         \* 0, the answer of a Parse function that fails
Misread == [op |-> "misread"]      \* what is made of a missing child

ChildrenOf(node) == IF node = Missing THEN <<>> ELSE MemoRecord(node.type, node.begin).children
Child(node, i)   == IF i < Len(ChildrenOf(node)) THEN ChildrenOf(node)[i + 1] ELSE Missing

kscope_get_str(node) == SubSeq(input, node.begin + 1, node.end)

FirstChar(str) == IF str = <<>> THEN "" ELSE str[1]

(* A Parse function fails when one of the operands it parsed did. *)
Unless(operands, ast) == IF Null \in ToSet(operands) THEN Null ELSE ast

RECURSIVE ParseExpression(_), ParseUnary(_), Arguments(_, _), Variables(_, _)

-----------------------------------------------------------------------------
(* The loop over a call's children, from number idx on.  An empty list of  *)
(* arguments is looked for and never there.                                *)
Arguments_NoSeparator(call, idx) ==
  LET arg == <<ParseExpression(Child(call, idx))>>
  IN  IF Child(call, idx + 1).type \in {"CP", "missing"} THEN arg
      ELSE arg \o Arguments(call, idx + 1)

Arguments(call, idx) ==
  LET arg == <<ParseExpression(Child(call, idx))>>
  IN  IF Child(call, idx + 1).type \in {"CP", "missing"} THEN arg
      ELSE arg \o Arguments(call, idx + 2)

ParseIdentifierExpr(node) ==
  LET name == kscope_get_str(Child(Child(node, 0), 0))
      call == Child(node, 1)
      args == IF Child(call, 1).type = "CP" THEN <<>> ELSE Arguments(call, 1)
  IN  IF Len(ChildrenOf(node)) = 1 THEN [op |-> "var", name |-> name]
      ELSE Unless(args, [op |-> "call", callee |-> name, args |-> args])

ParseNumberExpr(node) == [op |-> "num", val |-> kscope_get_str(Child(node, 0))]

ParseParenExpr(node) == ParseExpression(Child(node, 1))

ParseIfExpr(node) ==
  LET parts == [i \in 1..3 |-> ParseExpression(Child(node, 2 * i - 1))]
  IN  Unless(parts, [op |-> "if", parts |-> parts])

ParseForExpr_StepAlways(node) ==
  LET parts == <<ParseExpression(Child(Child(node, 2), 1)), ParseExpression(Child(node, 4)),
                 ParseExpression(Child(node, 6)), ParseExpression(Child(node, 8))>>
  IN  Unless(parts, [op |-> "for", name |-> kscope_get_str(Child(Child(node, 1), 0)),
                     parts |-> parts])

(* The step and its SEP may be left out; then there are three parts. *)
ParseForExpr(node) ==
  LET start == <<ParseExpression(Child(Child(node, 2), 1)), ParseExpression(Child(node, 4))>>
      rest  == IF Child(node, 5).type = "SEP"
               THEN <<ParseExpression(Child(node, 6)), ParseExpression(Child(node, 8))>>
               ELSE <<ParseExpression(Child(node, 6))>>
  IN  Unless(start \o rest, [op |-> "for", name |-> kscope_get_str(Child(Child(node, 1), 0)),
                             parts |-> start \o rest])

(* The loop over the variables, from child number idx on: their names with *)
(* an initial value or none, and the body after the last.                  *)
Variables(node, idx) ==
  LET name == kscope_get_str(Child(Child(node, idx), 0))
      init == IF Child(node, idx + 1).type = "EQEXPR"
              THEN <<ParseExpression(Child(Child(node, idx + 1), 1))>> ELSE <<>>
      last == idx + Len(init)
      here == <<[name |-> name, init |-> init]>>
      rest == Variables(node, last + 2)
  IN  IF Child(node, last + 1).type # "SEP"
      THEN [vars |-> here, body |-> ParseExpression(Child(node, last + 2))]
      ELSE [vars |-> here \o rest.vars, body |-> rest.body]

ParseVarExpr(node) ==
  LET all   == Variables(node, 1)
      inits == FlattenSeq([i \in 1..Len(all.vars) |-> all.vars[i].init])
  IN  Unless(Append(inits, all.body), [op |-> "varin", vars |-> all.vars, body |-> all.body])

ParsePrimary(node) ==
  LET child == Child(node, 0)
  IN  CASE child.type = "IDEXPR"  -> ParseIdentifierExpr(child)
        [] child.type = "NUMBER"  -> ParseNumberExpr(child)
        [] child.type = "PAREN"   -> ParseParenExpr(child)
        [] child.type = "IFEXPR"  -> ParseIfExpr(child)
        [] child.type = "FOREXPR" -> ParseForExpr(child)
        [] child.type = "VAREXPR" -> ParseVarExpr(child)
        [] child.type = "missing" -> Misread
        [] OTHER -> Null

(* The first character of the OPERATOR at child number i. *)
OperatorAt(node, i) == FirstChar(kscope_get_str(Child(Child(node, i), 0)))

ParseUnary(node) ==
  LET operand == ParseUnary(Child(node, 1))
  IN  IF node = Missing THEN Misread
      ELSE IF Child(node, 0).type = "PRIMARY" THEN ParsePrimary(Child(node, 0))
      ELSE Unless(<<operand>>, [op |-> "unary", opcode |-> OperatorAt(node, 0),
                                operand |-> operand])

(* Operands after the first are not tested. *)
ParseBinOpRHS(LHS, node) ==
  IF ChildrenOf(node) = <<>> THEN LHS
  ELSE [op |-> "binary", first |-> LHS,
        rest |-> [k \in 1..((Len(ChildrenOf(node)) + 1) \div 2) |->
                    [opcode  |-> OperatorAt(node, 2 * k - 2),
                     operand |-> ParseUnary(Child(node, 2 * k - 1))]]]

ParseExpression(node) ==
  LET LHS == ParseUnary(Child(node, 0))
  IN  Unless(<<LHS>>, ParseBinOpRHS(LHS, Child(node, 1)))

-----------------------------------------------------------------------------
(* (unsigned) strtod: the digits before the point. *)
DigitsOf(str) == [k \in 1..Len(str) |-> IF str[k] = "1" THEN 1 ELSE 2]
IntegerPart(str) ==
  LET whole == SelectInSeq(str, LAMBDA c : c = ".")
  IN  FoldLeft(LAMBDA n, d : 10 * n + d, 0,
               DigitsOf(IF whole = 0 THEN str ELSE SubSeq(str, 1, whole - 1)))

ArgNames(node) ==
  LET args == SelectSeq(ChildrenOf(node), LAMBDA child : child.type = "PROTOARG")
  IN  [i \in 1..Len(args) |-> kscope_get_str(Child(Child(args[i], 0), 0))]

FnNameOf(node) ==
  CASE node.type = "IDPROTO"  -> <<"", kscope_get_str(Child(Child(node, 0), 0))>>
    [] node.type = "UNIPROTO" -> <<"unary", kscope_get_str(Child(Child(node, 1), 0))>>
    [] node.type = "BINPROTO" -> <<"binary", kscope_get_str(Child(Child(node, 1), 0))>>

OperandsOf(kind) == CASE kind = "unary" -> 1 [] kind = "binary" -> 2

ParsePrototype(proto) ==
  LET node == Child(proto, 0)
      fn   == FnNameOf(node)
      prec == IF node.type = "BINPROTO" /\ Child(node, 2).type = "NUMBER"
              THEN IntegerPart(kscope_get_str(Child(Child(node, 2), 0))) ELSE 30
  IN  IF \/ node.type \notin {"IDPROTO", "UNIPROTO", "BINPROTO"}
         \/ fn[1] # "" /\ Len(ArgNames(node)) # OperandsOf(fn[1])
      THEN Null
      ELSE [op |-> "proto", fn |-> fn, args |-> ArgNames(node), prec |-> prec]

NoName == [op |-> "proto", fn |-> <<"", <<>>>>, args |-> <<>>, prec |-> 0]

Built(kind, proto, body) ==
  Unless(<<proto, body>>, [op |-> kind, proto |-> proto, body |-> body])

ParseDefinition(node) ==
  Built("def", ParsePrototype(Child(node, 1)), ParseExpression(Child(node, 2)))

ParseTopLevelExpr(node) == Built("def", NoName, ParseExpression(node))

ParseExtern(node) == Built("extern", ParsePrototype(Child(node, 1)), [op |-> "none"])

(* MainLoop passes over what is no statement; a statement that its Parse   *)
(* function fails on is reported and left out.                             *)
Handled(node) ==
  LET child == Child(node, 0)
  IN  CASE child.type = "DEFN"   -> <<ParseDefinition(child)>>
        [] child.type = "EXTERN" -> <<ParseExtern(child)>>
        [] child.type = "EXPR"   -> <<ParseTopLevelExpr(child)>>
        [] OTHER -> <<>>

MainLoop == FlattenSeq([i \in 1..Len(ChildrenOf(root)) |-> Handled(ChildrenOf(root)[i])])
=============================================================================
