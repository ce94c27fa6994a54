------------------------ MODULE MCOperatorPrecedence ------------------------
(* Every expression of up to six operators, with the operators main        *)
(* installs and one that a program may define, below, between or above     *)
(* them, or not at all.                                                    *)
EXTENDS OperatorPrecedence

MCOperator    == {"=", "<", "+", "*", ":"}
MCExpressions == UNION {[1..n -> MCOperator] : n \in 0..6}

Installed(p)  == [o \in MCOperator |->
                    CASE o = "=" -> 2 [] o = "<" -> 10 [] o = "+" -> 20
                      [] o = "*" -> 40 [] o = ":" -> p]
MCPrecedences == {Installed(p) : p \in {0, 1, 30}}
=============================================================================
