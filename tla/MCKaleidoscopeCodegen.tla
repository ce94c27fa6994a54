----------------------- MODULE MCKaleidoscopeCodegen -----------------------
(***************************************************************************)
(* Programs for KaleidoscopeCodegen: one definition with any of a family   *)
(* of bodies that bind, shadow, assign and fail at every place, and up to  *)
(* three statements that declare, define and fail to define the same few   *)
(* functions and operators.                                                *)
(***************************************************************************)
EXTENDS KaleidoscopeCodegen

MCName     == {"a", "b", "f"}
MCOperator == {"+", "=", "/"}
MCFnName   == {Anonymous, <<"", "f">>} \cup {"unary", "binary"} \X MCOperator

Num             == [op |-> "num", sub |-> <<>>]
Var(x)          == [op |-> "var", sub |-> <<>>, name |-> x]
Unary(o, e)     == [op |-> "unary", sub |-> <<e>>, opcode |-> o]
Binary(o, d, e) == [op |-> "binary", sub |-> <<d, e>>, opcode |-> o]
Assign(d, e)    == [op |-> "assign", sub |-> <<e>>, lhs |-> d]
Call(args)      == [op |-> "call", sub |-> args, callee |-> <<"", "f">>]
If(c, d, e)     == [op |-> "if", sub |-> <<c, d, e>>]
For(x, s)       == [op |-> "for", sub |-> s, name |-> x]
VarIn(xs, s)    == [op |-> "varin", sub |-> s, names |-> xs]

Leaf == {Num, Var("a"), Var("b")}
Flat == Leaf \cup {Binary("+", Var("a"), Var("b")), Assign(Var("a"), Var("b")), Call(<<Var("a")>>)}

(* Binders around e, with d as what is compiled outside of the scope. *)
Scopes(d, e) ==
  {VarIn(<<"a">>, <<d, e>>), VarIn(<<"b", "a">>, <<Num, d, e>>), VarIn(<<"a", "b">>, <<d, Var("a"), e>>),
   For("a", <<d, e, Num, Var("a")>>), For("b", <<Num, e, d, Var("b")>>)}
Inner  == UNION {Scopes(d, e) : d \in {Num, Var("a")}, e \in Flat}
Around == UNION {Scopes(Var("b"), Binary("+", e, Var("a"))) : e \in Inner}
Beside == {Binary("+", e, Var("a")) : e \in Inner} \cup {If(Num, e, Var("b")) : e \in Inner}
Others == {Assign(d, Num) : d \in {Num, Call(<<Num>>), For("a", <<Num, Num, Num, Num>>)}}
          \cup {Unary("/", Num), Binary("/", Num, Num)}
Bodies == Flat \cup Inner \cup Around \cup Beside \cup Others

Define(fn, args, e) == [kind |-> "def", fn |-> fn, args |-> args, prec |-> 30, body |-> e]
Extern(fn, args)    == [kind |-> "extern", fn |-> fn, args |-> args, prec |-> 30, body |-> Num]

F  == <<"", "f">>
BinOp(o) == <<"binary", o>>

Few == {Define(Anonymous, <<>>, e) : e \in {Num, Var("a"), Call(<<Num>>), Binary("/", Num, Num),
                                            Unary("/", Call(<<Num>>)), Assign(Num, Num)}}
  \cup {Define(F, <<"a">>, e) : e \in {Var("a"), Var("b"), Call(<<Var("a")>>)}}
  \cup {Define(BinOp(o), <<"a", "b">>, e) : o \in {"+", "/"}, e \in {Binary("/", Var("a"), Num), Unary("/", Num)}}
  \cup {Define(<<"unary", "/">>, <<"b">>, Var("b")), Extern(F, <<"a">>), Extern(F, <<"a", "b">>),
        Extern(BinOp("/"), <<"a", "b">>)}

MCPrograms ==
  {p : p \in UNION {[1..n -> Few] : n \in 1..3}
       \cup {<<Define(F, <<"a">>, e)>> : e \in Bodies}
       \cup {<<Define(F, <<"f">>, e)>> : e \in Others}
       \cup {<<Define(F, <<"a", "a">>, e), Define(Anonymous, <<>>, Var("a"))>> : e \in Flat}}

(* The expressions with their operands, five deep. *)
Below(E) == UNION {{e.sub[i] : i \in 1..Len(e.sub)} : e \in E}
            \cup {e.lhs : e \in {e \in E : e.op = "assign"}}
Exp0  == Bodies \cup {s.body : s \in Few}
Exp1  == Below(Exp0)
Exp2  == Below(Exp1)
Exp3  == Below(Exp2)
Exp4  == Below(Exp3)
MCExp == {e : e \in UNION {Exp0, Exp1, Exp2, Exp3, Exp4, Leaf}}
=============================================================================
