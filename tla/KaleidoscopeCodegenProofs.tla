---------------------- MODULE KaleidoscopeCodegenProofs ----------------------
(***************************************************************************)
(* The code generator of kaleidoscope for all programs and expressions:    *)
(* types, the variables a function can see, the operators that have a      *)
(* precedence, the functions that are compiled, and the scope of each name *)
(* in programs in which no var binds a name twice.                         *)
(*                                                                         *)
(* The inductive invariant says how Codegen's activations lie on each      *)
(* other: the function at the bottom, above it expressions, and each of    *)
(* them but the running one at an operand it has not finished.             *)
(***************************************************************************)
EXTENDS KaleidoscopeCodegen, WellFoundedInduction, TLAPS

Values == [stmt : Nat, number : Nat]
Bodies == {[op |-> "function", sub |-> <<e>>] : e \in Exp}
Record == [exp : Exp \cup Bodies, i : Nat, bound : Seq(Binding), failed : BOOLEAN]

Types ==
  /\ program \in Seq(Statement) /\ next \in Nat
  /\ Running => next \in 1..Len(program)
  /\ functions \in [FnName -> [args : Nat, body : BOOLEAN] \cup {NoFunction}]
  /\ BinopPrecedence \in [Operator -> Nat]
  /\ NamedValues \in [Name -> Values]
  /\ allocas \in Nat /\ exp \in Exp /\ val \in BOOLEAN
  /\ pc \in {"top", "enter", "operands", "leave"}
  /\ status \in {"running", "done", "assert", "crash"}

(* The activations and the operands they are at. *)
Stack ==
  /\ frames \in Seq(Record)
  /\ pc = "top" <=> frames = <<>>
  /\ \A k \in 1..Len(frames) : frames[k].exp.op = "function" <=> k = 1
  /\ \A k \in 1..Len(frames) : frames[k].i <= Len(frames[k].exp.sub)
  /\ \A k \in 1..Len(frames) : k < Len(frames) \/ pc \in {"enter", "leave"}
                                 => frames[k].i < Len(frames[k].exp.sub)

(* What is in scope, and what can come back into it. *)
Own(v) == v.stmt \in {0, next}
OwnSaved == \A k \in 1..Len(frames) : \A j \in 1..Len(frames[k].bound) :
              Own(frames[k].bound[j].old)
Scopes == pc # "top" => OwnSaved /\ \A x \in Name : Own(NamedValues[x])

Inv == Types /\ Stack /\ Scopes /\ OperatorsInstalled

-----------------------------------------------------------------------------
(* The largest of some indices, from the well-founded order of Nat. *)
Below == {p \in Nat \X Nat : p[1] < p[2]}

LEMMA Least == ASSUME NEW T, T \subseteq Nat, T # {}
               PROVE  \E x \in T : \A y \in T : x <= y
<1>1. IsWellFoundedOn(Below, Nat)
  BY NatLessThanWellFounded DEF OpToRel, Below
<1>2. PICK x \in T : \A y \in T : ~ (<<y, x>> \in Below)
  BY <1>1, WFMin
<1>3. ASSUME NEW y \in T PROVE x <= y
  <2>1. x \in Nat /\ y \in Nat
    OBVIOUS
  <2>2. ~(<<y, x>> \in Below)
    BY <1>2
  <2>3. ~(y < x)
    BY <2>1, <2>2 DEF Below
  <2> QED
    BY <2>1, <2>3
<1> QED
  BY <1>3

LEMMA LastIndex == ASSUME NEW n \in Nat, NEW T, T \subseteq 1..n, T # {}
                   PROVE  \E x \in T : \A y \in T : y <= x
<1> DEFINE U == {n - y : y \in T}
<1>1. U \subseteq Nat /\ U # {}
  <2>1. \A y \in T : n - y \in Nat
    OBVIOUS
  <2> QED
    BY <2>1
<1>2. PICK u \in U : \A v \in U : u <= v
  BY <1>1, Least
<1>3. PICK x \in T : u = n - x
  OBVIOUS
<1>4. ASSUME NEW y \in T PROVE y <= x
  <2>1. n - x <= n - y
    BY <1>2, <1>3
  <2> QED
    BY <2>1
<1> QED
  BY <1>4

(* Bind gives every name its old value or one of the new ones. *)
LEMMA BindValues ==
  ASSUME NEW values \in [Name -> Values], NEW bound, Len(bound) \in Nat,
         \A i \in 1..Len(bound) : bound[i].alloca \in Values
  PROVE  /\ Bind(values, bound) \in [Name -> Values]
         /\ \A x \in Name : \/ Bind(values, bound)[x] = values[x]
                            \/ \E i \in 1..Len(bound) : Bind(values, bound)[x] = bound[i].alloca
<1>1. ASSUME NEW x \in Name
      PROVE  \/ Bind(values, bound)[x] = values[x]
             \/ \E i \in 1..Len(bound) : Bind(values, bound)[x] = bound[i].alloca
  <2> DEFINE P(i) == i \in 1..Len(bound) /\ bound[i].name = x
                       /\ \A j \in (i + 1)..Len(bound) : bound[j].name # x
             c == CHOOSE i \in 1..Len(bound) :
                    bound[i].name = x /\ \A j \in (i + 1)..Len(bound) : bound[j].name # x
  <2>1. CASE \A i \in 1..Len(bound) : bound[i].name # x
    <3>1. Bind(values, bound)[x] = values[x]
      BY <2>1 DEF Bind
    <3> QED
      BY <3>1
  <2>2. CASE \E i \in 1..Len(bound) : bound[i].name = x
    <3> DEFINE T == {i \in 1..Len(bound) : bound[i].name = x}
    <3>1. PICK m \in T : \A y \in T : y <= m
      <4>1. T \subseteq 1..Len(bound) /\ T # {}
        BY <2>2
      <4> HIDE DEF T
      <4> QED
        BY <4>1, LastIndex
    <3>2. m \in 1..Len(bound) /\ bound[m].name = x
      OBVIOUS
    <3>3. \A j \in (m + 1)..Len(bound) : bound[j].name # x
      <4> SUFFICES ASSUME NEW j \in (m + 1)..Len(bound), bound[j].name = x PROVE FALSE
        OBVIOUS
      <4>1. j \in T
        BY <3>2
      <4>2. j <= m
        BY <4>1, <3>1
      <4> QED
        BY <4>2, <3>2
    <3>4. c \in 1..Len(bound)
      BY <3>2, <3>3
    <3>5. Bind(values, bound)[x] = bound[c].alloca
      BY <2>2 DEF Bind
    <3> QED
      BY <3>4, <3>5
  <2> QED
    BY <2>1, <2>2
<1>2. Bind(values, bound) = [x \in Name |-> Bind(values, bound)[x]]
  BY DEF Bind
<1>3. \A x \in Name : Bind(values, bound)[x] \in Values
  BY <1>1
<1> QED
  BY <1>1, <1>2, <1>3

(* Expressions are no functions, and their operands are expressions. *)
LEMMA Operands ==
  /\ \A e \in Exp : e.op # "function"
  /\ \A e \in Exp \cup Bodies : e.sub \in Seq(Exp)
<1>1. \A e \in Exp : e.op # "function" /\ e.sub \in Seq(Exp)
  BY ExpAssumption DEF IsExp
<1>2. ASSUME NEW b \in Bodies PROVE b.sub \in Seq(Exp)
  <2>1. PICK e \in Exp : b = [op |-> "function", sub |-> <<e>>]
    BY DEF Bodies
  <2>2. <<e>> \in Seq(Exp)
    OBVIOUS
  <2> QED
    BY <2>1, <2>2
<1> QED
  BY <1>1, <1>2

(* The running activation. *)
LEMMA TopRecord ==
  ASSUME Inv, pc # "top"
  PROVE  /\ Len(frames) \in Nat \ {0} /\ top \in Record /\ top.exp.sub \in Seq(Exp)
         /\ top = frames[Len(frames)] /\ Len(frames) \in 1..Len(frames)
         /\ top.i <= Len(top.exp.sub)
         /\ pc \in {"enter", "leave"} => top.i < Len(top.exp.sub)
         /\ top.exp.op # "function" => top.exp \in Exp /\ Len(frames) > 1
<1>1. frames \in Seq(Record) /\ frames # <<>>
  BY DEF Inv, Stack
<1>2. Len(frames) \in Nat \ {0} /\ Len(frames) \in 1..Len(frames)
  BY <1>1
<1>3. top \in Record /\ top = frames[Len(frames)]
  BY <1>1, <1>2 DEF top
<1>4. top.exp \in Exp \cup Bodies
  BY <1>3 DEF Record
<1>5. top.exp \in Bodies => top.exp.op = "function"
  BY DEF Bodies
<1> HIDE DEF top
<1> QED
  BY <1>2, <1>3, <1>4, <1>5, Operands DEF Inv, Stack

(* What is left when the running activation returns. *)
LEMMA PopStack ==
  ASSUME Inv, pc # "top", top.exp.op # "function"
  PROVE  /\ Pop \in Seq(Record) /\ Pop # <<>> /\ Len(Pop) = Len(frames) - 1
         /\ Len(frames) \in Nat
         /\ \A k \in 1..Len(Pop) : Pop[k] = frames[k]
<1>1. Len(frames) \in Nat /\ Len(frames) > 1 /\ frames \in Seq(Record)
  BY TopRecord DEF Inv, Stack
<1>2. Len(Pop) = Len(frames) - 1 /\ \A k \in 1..Len(Pop) : Pop[k] = frames[k]
  BY <1>1 DEF Pop
<1>3. Pop \in Seq(Record)
  BY <1>1 DEF Pop
<1>4. Pop # <<>>
  BY <1>1, <1>2
<1> QED
  BY <1>1, <1>2, <1>3, <1>4

(* Returning leaves the one below at the operand that was compiled. *)
LEMMA ReturnedStack ==
  ASSUME Inv, pc # "top", top.exp.op # "function",
         frames' = Pop, pc' = "leave", next' = next
  PROVE  Stack' /\ OwnSaved'
<1>1. /\ Pop \in Seq(Record) /\ Pop # <<>> /\ Len(Pop) = Len(frames) - 1
      /\ Len(frames) \in Nat
      /\ \A k \in 1..Len(Pop) : Pop[k] = frames[k]
  BY PopStack
<1>2. \A k \in 1..Len(Pop) : k \in 1..Len(frames) /\ k < Len(frames)
  BY <1>1
<1> HIDE DEF Pop
<1>3. Stack'
  BY <1>1, <1>2 DEF Inv, Stack
<1>4. OwnSaved'
  BY <1>1, <1>2 DEF Inv, Scopes, OwnSaved, Own
<1> QED
  BY <1>3, <1>4

(* The stack with another record of the same expression on top. *)
LEMMA ReplacedStack ==
  ASSUME Inv, pc # "top", NEW f \in Record, f.exp = top.exp, f.i <= Len(top.exp.sub),
         frames' = WithTop(f), pc' = "operands"
  PROVE  /\ Stack'
         /\ Len(frames') = Len(frames)
         /\ \A k \in 1..Len(frames) : frames'[k] = IF k = Len(frames) THEN f ELSE frames[k]
<1>1. /\ Len(frames) \in Nat \ {0} /\ top = frames[Len(frames)] /\ frames \in Seq(Record)
      /\ Len(frames) \in 1..Len(frames)
  BY TopRecord DEF Inv, Stack
<1>2. /\ frames' \in Seq(Record) /\ Len(frames') = Len(frames)
      /\ \A k \in 1..Len(frames) : frames'[k] = IF k = Len(frames) THEN f ELSE frames[k]
  BY <1>1 DEF WithTop
<1>3. \A k \in 1..Len(frames) : frames'[k].exp = frames[k].exp
  BY <1>1, <1>2
<1>4. frames' # <<>>
  BY <1>1, <1>2
<1>5. \A k \in 1..Len(frames') : frames'[k].exp.op = "function" <=> k = 1
  BY <1>2, <1>3 DEF Inv, Stack
<1>6. \A k \in 1..Len(frames') : frames'[k].i <= Len(frames'[k].exp.sub)
  BY <1>1, <1>2 DEF Inv, Stack
<1>7. \A k \in 1..Len(frames') : k < Len(frames') => frames'[k].i < Len(frames'[k].exp.sub)
  BY <1>1, <1>2 DEF Inv, Stack
<1> QED
  BY <1>2, <1>4, <1>5, <1>6, <1>7 DEF Stack

LEMMA StatementTypes ==
  ASSUME Inv, Running
  PROVE  /\ stmt \in Statement /\ Len(stmt.args) \in Nat
         /\ next \in 1..Len(program) /\ Len(program) \in Nat
<1>1. program \in Seq(Statement) /\ next \in 1..Len(program)
  BY DEF Inv, Types
<1>2. stmt \in Statement
  BY <1>1 DEF stmt
<1>3. stmt.args \in Seq(Name)
  BY <1>2 DEF Statement
<1> QED
  BY <1>1, <1>2, <1>3

(* Records with new values in some of their fields. *)
LEMMA NewRecord ==
  ASSUME NEW e \in Exp \cup Bodies, NEW b \in Seq(Binding)
  PROVE  LET f == [Activation(e) EXCEPT !.bound = b]
         IN  f \in Record /\ f.exp = e /\ f.i = 0 /\ f.bound = b
<1>1. Activation(e) \in Record /\ Activation(e).exp = e /\ Activation(e).i = 0
  BY DEF Activation, Record
<1> QED
  BY <1>1 DEF Record

LEMMA NextOperandRecord ==
  ASSUME NEW r \in Record, NEW failed \in BOOLEAN
  PROVE  LET f == [r EXCEPT !.i = r.i + 1, !.failed = failed]
         IN  f \in Record /\ f.exp = r.exp /\ f.i = r.i + 1 /\ f.bound = r.bound
<1> DEFINE f == [r EXCEPT !.i = r.i + 1, !.failed = failed]
<1>1. r.i + 1 \in Nat
  BY DEF Record
<1>2. f \in Record
  BY <1>1 DEF Record
<1>3. f.exp = r.exp /\ f.bound = r.bound
  BY DEF Record
<1>4. f.i = r.i + 1
  BY <1>1 DEF Record
<1> QED
  BY <1>2, <1>3, <1>4

LEMMA NextStatementTypes ==
  ASSUME Inv, Running, NextStatement, program' = program
  PROVE  /\ next' \in Nat /\ (Running' => next' \in 1..Len(program'))
         /\ pc' = "top" /\ status' \in {"running", "done", "assert", "crash"}
BY StatementTypes DEF NextStatement, Running, Inv, Types

(* The module and the precedences at the ends of a definition. *)
LEMMA DeclaredTypes ==
  ASSUME Inv, Running, NEW body \in BOOLEAN
  PROVE  /\ Declared(body) \in [FnName -> [args : Nat, body : BOOLEAN] \cup {NoFunction}]
         /\ \A fn \in FnName : fn # stmt.fn => Declared(body)[fn] = functions[fn]
         /\ \A fn \in FnName : Exists(fn) => Declared(body)[fn] # NoFunction
         /\ stmt.fn # Anonymous => Declared(body)[stmt.fn] # NoFunction
<1>1. stmt.fn \in FnName /\ Len(stmt.args) \in Nat
  BY StatementTypes DEF Statement
<1>2. [args |-> Len(stmt.args), body |-> body] # NoFunction
  BY <1>1 DEF NoFunction
<1> QED
  BY <1>1, <1>2 DEF Declared, Exists, Inv, Types

LEMMA Start ==
  ASSUME Inv, Running, StartFunction
  PROVE  /\ functions' \in [FnName -> [args : Nat, body : BOOLEAN] \cup {NoFunction}]
         /\ BinopPrecedence' \in [Operator -> Nat]
         /\ OperatorsInstalled'
<1>1. functions' \in [FnName -> [args : Nat, body : BOOLEAN] \cup {NoFunction}]
  BY DeclaredTypes DEF StartFunction
<1>2. BinopPrecedence' \in [Operator -> Nat]
  BY StatementTypes DEF StartFunction, Statement, Inv, Types
<1>3. ASSUME NEW op \in Operator \ DOMAIN Standard, BinopPrecedence'[op] > 0
      PROVE  Exists(<<"binary", op>>)'
  <2>1. <<"binary", op>> \in FnName
    BY FnNameAssumption
  <2>2. CASE stmt.fn = <<"binary", op>>
    <3>1. stmt.fn # Anonymous
      BY <2>2 DEF Anonymous
    <3> QED
      BY <2>2, <3>1, DeclaredTypes DEF StartFunction, Exists
  <2>3. CASE stmt.fn # <<"binary", op>>
    <3>1. stmt.fn = <<stmt.fn[1], stmt.fn[2]>>
      BY StatementTypes, FnNameAssumption DEF Statement
    <3>2. BinopPrecedence'[op] = BinopPrecedence[op]
      BY <2>3, <3>1 DEF StartFunction, Inv, Types
    <3>3. Exists(<<"binary", op>>)
      BY <1>3, <3>2 DEF Inv, OperatorsInstalled
    <3> QED
      BY <2>1, <3>3, DeclaredTypes DEF StartFunction, Exists
  <2> QED
    BY <2>2, <2>3
<1> QED
  BY <1>1, <1>2, <1>3 DEF OperatorsInstalled

LEMMA Removed ==
  ASSUME Inv, Running, RemoveFunction
  PROVE  /\ functions' \in [FnName -> [args : Nat, body : BOOLEAN] \cup {NoFunction}]
         /\ BinopPrecedence' \in [Operator -> Nat]
         /\ OperatorsInstalled'
<1>1. functions' \in [FnName -> [args : Nat, body : BOOLEAN] \cup {NoFunction}]
  BY DEF RemoveFunction, Inv, Types
<1>2. BinopPrecedence' \in [Operator -> Nat]
  BY DEF RemoveFunction, Inv, Types
<1>3. ASSUME NEW op \in Operator \ DOMAIN Standard, BinopPrecedence'[op] > 0
      PROVE  Exists(<<"binary", op>>)'
  <2>1. <<"binary", op>> \in FnName
    BY FnNameAssumption
  <2>2. stmt.fn # <<"binary", op>>
    BY <1>3 DEF RemoveFunction, Inv, Types
  <2>3. stmt.fn = <<stmt.fn[1], stmt.fn[2]>>
    BY StatementTypes, FnNameAssumption DEF Statement
  <2>4. BinopPrecedence'[op] = BinopPrecedence[op]
    BY <2>2, <2>3 DEF RemoveFunction, Inv, Types
  <2>5. functions'[<<"binary", op>>] = functions[<<"binary", op>>]
    BY <2>1, <2>2 DEF RemoveFunction, Inv, Types
  <2> QED
    BY <1>3, <2>4, <2>5 DEF Inv, OperatorsInstalled, Exists
<1> QED
  BY <1>1, <1>2, <1>3 DEF OperatorsInstalled

LEMMA ArgumentsBound ==
  ASSUME Inv, Running
  PROVE  /\ Arguments \in Seq(Binding) /\ Len(Arguments) = Len(stmt.args)
         /\ \A i \in 1..Len(Arguments) : /\ Arguments[i].alloca \in Values
                                         /\ Own(Arguments[i].alloca) /\ Own(Arguments[i].old)
<1>1. stmt.args \in Seq(Name) /\ Len(stmt.args) \in Nat /\ next \in Nat
  BY StatementTypes DEF Statement, Inv, Types
<1>2. ASSUME NEW i \in 1..Len(stmt.args)
      PROVE  [name |-> stmt.args[i], alloca |-> Alloca(i), old |-> NoAlloca] \in Binding
  BY <1>1 DEF Binding, Alloca, NoAlloca
<1>3. Arguments \in [1..Len(stmt.args) -> Binding]
  BY <1>2 DEF Arguments
<1>4. Arguments \in Seq(Binding) /\ Len(Arguments) = Len(stmt.args)
  BY <1>1, <1>3
<1>5. \A i \in 1..Len(stmt.args) : Arguments[i].alloca = Alloca(i) /\ Arguments[i].old = NoAlloca
  BY DEF Arguments
<1>6. \A i \in 1..Len(stmt.args) : Alloca(i) \in Values /\ Own(Alloca(i))
  BY <1>1 DEF Alloca, Values, Own
<1> QED
  BY <1>4, <1>5, <1>6 DEF Own, NoAlloca

LEMMA ClearedValues == Cleared \in [Name -> Values] /\ \A x \in Name : Cleared[x] = NoAlloca
BY DEF Cleared, NoAlloca, Values
-----------------------------------------------------------------------------
LEMMA InvInit == Init => Inv
<1> SUFFICES ASSUME Init PROVE Inv
  OBVIOUS
<1> USE DEF Init
<1>1. program \in Seq(Statement) /\ program # <<>>
  BY ProgramAssumption
<1>2. 1 \in 1..Len(program) /\ program[1] \in Statement
  BY <1>1
<1>3. NamedValues \in [Name -> Values]
  BY ClearedValues
<1>4. functions \in [FnName -> [args : Nat, body : BOOLEAN] \cup {NoFunction}]
  OBVIOUS
<1>5. BinopPrecedence \in [Operator -> Nat]
  <2>1. \A op \in DOMAIN Standard : Standard[op] \in Nat
    BY DEF Standard
  <2> QED
    BY <2>1
<1>6. Types
  BY <1>1, <1>2, <1>3, <1>4, <1>5 DEF Types, Running, Statement
<1>7. Stack
  BY DEF Stack
<1>8. Scopes
  BY DEF Scopes, OwnSaved
<1>9. OperatorsInstalled
  BY DEF OperatorsInstalled
<1> QED
  BY <1>6, <1>7, <1>8, <1>9 DEF Inv

(* A statement that leaves no activation. *)
LEMMA BetweenStatements ==
  ASSUME Inv, frames' = <<>>, pc' = "top"
  PROVE  Stack' /\ Scopes'
BY DEF Stack, Scopes, OwnSaved

LEMMA ExternKeeps == Inv /\ HandleExtern => Inv'
<1> SUFFICES ASSUME Inv, HandleExtern PROVE Inv'
  OBVIOUS
<1> USE DEF HandleExtern
<1>1. functions' \in [FnName -> [args : Nat, body : BOOLEAN] \cup {NoFunction}]
  BY DeclaredTypes DEF Inv, Types
<1>2. Types'
  BY <1>1, NextStatementTypes DEF Inv, Types
<1>3. Stack' /\ Scopes'
  BY NextStatementTypes, BetweenStatements DEF Inv, Stack
<1>4. \A fn \in FnName : Exists(fn) => Exists(fn)'
  BY DeclaredTypes DEF Exists
<1>5. OperatorsInstalled'
  BY <1>4, FnNameAssumption DEF Inv, OperatorsInstalled
<1> QED
  BY <1>2, <1>3, <1>5 DEF Inv

LEMMA DefinitionKeeps == Inv /\ HandleDefinition => Inv'
<1> SUFFICES ASSUME Inv, HandleDefinition PROVE Inv'
  OBVIOUS
<1> USE DEF HandleDefinition
<1> DEFINE f == [Activation(Body) EXCEPT !.bound = Arguments]
<1>1. f \in Record /\ f.exp = Body /\ f.i = 0 /\ f.bound = Arguments
  <2>1. Body \in Bodies
    BY StatementTypes DEF Body, Bodies, Statement
  <2> QED
    BY <2>1, ArgumentsBound, NewRecord
<1>2. /\ frames' = <<f>> /\ frames' \in Seq(Record) /\ Len(frames') = 1
      /\ \A k \in 1..Len(frames') : k = 1 /\ frames'[k] = f
  BY <1>1
<1> HIDE DEF f
<1>3. /\ NamedValues' \in [Name -> Values]
      /\ \A x \in Name : Own(NamedValues'[x])
  <2>1. NamedValues' = Bind(Cleared, Arguments)
    BY DEF StartFunction
  <2>2. /\ Bind(Cleared, Arguments) \in [Name -> Values]
        /\ \A x \in Name : \/ Bind(Cleared, Arguments)[x] = Cleared[x]
                           \/ \E i \in 1..Len(Arguments) :
                                Bind(Cleared, Arguments)[x] = Arguments[i].alloca
    <3>1. Len(Arguments) \in Nat
      BY ArgumentsBound, StatementTypes
    <3>2. \A i \in 1..Len(Arguments) : Arguments[i].alloca \in Values
      BY ArgumentsBound
    <3> QED
      BY <3>1, <3>2, ClearedValues, BindValues
  <2>3. Own(NoAlloca)
    BY DEF Own, NoAlloca
  <2> QED
    BY <2>1, <2>2, <2>3, ClearedValues, ArgumentsBound
<1>4. Types'
  <2>1. Len(stmt.args) \in Nat
    BY StatementTypes
  <2> QED
    BY <1>3, <2>1, Start DEF Inv, Types, Running
<1>5. Stack'
  <2>1. Body.op = "function" /\ Len(Body.sub) = 1
    BY DEF Body
  <2> QED
    BY <1>1, <1>2, <2>1 DEF Stack
<1>6. Scopes'
  <2>1. OwnSaved'
    BY <1>1, <1>2, ArgumentsBound DEF OwnSaved, Own
  <2> QED
    BY <1>3, <2>1 DEF Scopes, OwnSaved, Own
<1> QED
  BY <1>4, <1>5, <1>6, Start DEF Inv

LEMMA RefuseKeeps == Inv /\ RefuseDefinition => Inv'
<1> SUFFICES ASSUME Inv, RefuseDefinition PROVE Inv'
  OBVIOUS
<1> USE DEF RefuseDefinition
<1>1. Types'
  BY NextStatementTypes, ClearedValues DEF Inv, Types
<1>2. Stack' /\ Scopes'
  BY NextStatementTypes, BetweenStatements DEF Inv, Stack
<1>3. OperatorsInstalled'
  BY DEF Inv, OperatorsInstalled, Exists
<1> QED
  BY <1>1, <1>2, <1>3 DEF Inv

LEMMA KeepKeeps == Inv /\ KeepFunction => Inv'
<1> SUFFICES ASSUME Inv, KeepFunction PROVE Inv'
  OBVIOUS
<1> USE DEF KeepFunction
<1>1. Types'
  BY NextStatementTypes DEF Inv, Types
<1>2. Stack' /\ Scopes'
  BY NextStatementTypes, BetweenStatements
<1>3. OperatorsInstalled'
  BY DEF Inv, OperatorsInstalled, Exists
<1> QED
  BY <1>1, <1>2, <1>3 DEF Inv

LEMMA FailKeeps == Inv /\ FailDefinition => Inv'
<1> SUFFICES ASSUME Inv, FailDefinition PROVE Inv'
  OBVIOUS
<1> USE DEF FailDefinition
<1>1. Types'
  BY NextStatementTypes, Removed DEF Inv, Types
<1>2. Stack' /\ Scopes'
  BY NextStatementTypes, BetweenStatements
<1> QED
  BY <1>1, <1>2, Removed DEF Inv

LEMMA LeafKeeps == Inv /\ CodegenLeaf => Inv'
<1> SUFFICES ASSUME Inv, CodegenLeaf PROVE Inv'
  OBVIOUS
<1> USE DEF CodegenLeaf, Return
<1>1. Types'
  BY DEF Inv, Types, Running
<1>2. Stack'
  BY DEF Inv, Stack
<1>3. Scopes'
  BY DEF Inv, Scopes, OwnSaved, Own
<1>4. OperatorsInstalled'
  BY DEF Inv, OperatorsInstalled, Exists
<1> QED
  BY <1>1, <1>2, <1>3, <1>4 DEF Inv

LEMMA NodeKeeps == Inv /\ CodegenNode => Inv'
<1> SUFFICES ASSUME Inv, CodegenNode PROVE Inv'
  OBVIOUS
<1> USE DEF CodegenNode
<1>1. Types'
  BY DEF Inv, Types, Running
<1> DEFINE f == Activation(exp)
           n == Len(frames)
<1>2. exp \in Exp /\ exp.op # "function" /\ exp.sub \in Seq(Exp)
  BY Operands DEF Inv, Types
<1>3. f \in Record /\ f.exp = exp /\ f.i = 0 /\ f.bound = <<>>
  BY <1>2 DEF Activation, Record
<1>4. frames \in Seq(Record) /\ n \in Nat \ {0}
  BY TopRecord DEF Inv, Stack
<1> HIDE DEF f
<1>5. /\ frames' \in Seq(Record) /\ Len(frames') = n + 1
      /\ \A k \in 1..n : frames'[k] = frames[k]
      /\ frames'[n + 1] = f
  BY <1>3, <1>4 DEF f
<1>6. \A k \in 1..(n + 1) : k \in 1..n \/ k = n + 1
  BY <1>4
<1>7. Stack'
  <2>1. frames' # <<>>
    BY <1>4, <1>5
  <2>2. \A k \in 1..Len(frames') : frames'[k].exp.op = "function" <=> k = 1
    BY <1>2, <1>3, <1>4, <1>5, <1>6 DEF Inv, Stack
  <2>3. Len(exp.sub) \in Nat
    BY <1>2
  <2>4. \A k \in 1..Len(frames') : frames'[k].i <= Len(frames'[k].exp.sub)
    BY <1>3, <1>5, <1>6, <2>3 DEF Inv, Stack
  <2>5. \A k \in 1..Len(frames') : k < Len(frames') => frames'[k].i < Len(frames'[k].exp.sub)
    <3> SUFFICES ASSUME NEW k \in 1..Len(frames'), k < Len(frames')
                 PROVE  frames'[k].i < Len(frames'[k].exp.sub)
      OBVIOUS
    <3>1. k \in 1..n
      BY <1>4, <1>5
    <3> QED
      BY <3>1, <1>5 DEF Inv, Stack
  <2> QED
    BY <1>5, <2>1, <2>2, <2>4, <2>5 DEF Stack
<1>8. Scopes'
  <2>1. \A k \in 1..Len(frames') : \A j \in 1..Len(frames'[k].bound) :
          Own(frames'[k].bound[j].old)
    BY <1>3, <1>4, <1>5, <1>6 DEF Inv, Scopes, OwnSaved
  <2> QED
    BY <2>1 DEF Inv, Scopes, OwnSaved, Own
<1>9. OperatorsInstalled'
  BY DEF Inv, OperatorsInstalled, Exists
<1> QED
  BY <1>1, <1>7, <1>8, <1>9 DEF Inv

LEMMA OperandKeeps == Inv /\ NextOperand => Inv'
<1> SUFFICES ASSUME Inv, NextOperand PROVE Inv'
  OBVIOUS
<1> USE DEF NextOperand
<1>1. exp' \in Exp
  <2>1. top \in Record /\ top.exp.sub \in Seq(Exp)
    BY TopRecord
  <2>2. top.i \in Nat /\ top.i + 1 \in 1..Len(top.exp.sub)
    BY <2>1 DEF Record
  <2> QED
    BY <2>1, <2>2
<1>2. Types'
  BY <1>1 DEF Inv, Types, Running
<1>3. Stack'
  <2>1. top = frames[Len(frames)] /\ Len(frames) \in Nat
    BY TopRecord
  <2>2. \A k \in 1..Len(frames) : frames[k].i < Len(frames[k].exp.sub)
    BY <2>1 DEF Inv, Stack
  <2> QED
    BY <2>2 DEF Inv, Stack
<1>4. Scopes'
  BY DEF Inv, Scopes, OwnSaved, Own
<1>5. OperatorsInstalled'
  BY DEF Inv, OperatorsInstalled, Exists
<1> QED
  BY <1>2, <1>3, <1>4, <1>5 DEF Inv

LEMMA ReturnedKeeps == Inv /\ OperandReturned => Inv'
<1> SUFFICES ASSUME Inv, OperandReturned PROVE Inv'
  OBVIOUS
<1> USE DEF OperandReturned
<1> DEFINE i == top.i + 1
           x == BoundName(top.exp, i)
           f == [top EXCEPT !.i = i, !.failed = @ \/ ~val]
           b == [name |-> x, alloca |-> Alloca(allocas + 1), old |-> NamedValues[x]]
           g == [f EXCEPT !.bound = Append(@, b)]
<1>1. /\ top \in Record /\ top.i + 1 <= Len(top.exp.sub) /\ top.exp.sub \in Seq(Exp)
      /\ Len(frames) \in Nat \ {0} /\ top = frames[Len(frames)] /\ Len(frames) \in 1..Len(frames)
  BY TopRecord DEF Record
<1>2. f \in Record /\ f.exp = top.exp /\ f.i = i /\ f.bound = top.bound
  <2>1. top \in Record /\ (top.failed \/ ~val) \in BOOLEAN
    BY <1>1
  <2> QED
    BY <2>1, NextOperandRecord
<1>3. \A j \in 1..Len(top.bound) : Own(top.bound[j].old)
  BY <1>1 DEF Inv, Scopes, OwnSaved
<1>4. CASE Binds(top.exp, i)
  <2>1. x \in Name
    <3>1. top.exp \in Exp
      BY <1>1, <1>4 DEF Record, Bodies, Binds
    <3>2. IsExp(top.exp)
      BY <3>1, ExpAssumption
    <3> QED
      BY <1>1, <1>4, <3>2 DEF Record, Binds, BoundName, IsExp
  <2>2. Alloca(allocas + 1) \in Values /\ Own(Alloca(allocas + 1))
    BY DEF Alloca, Values, Own, Inv, Types
  <2>3. b \in Binding /\ b.old = NamedValues[x]
    BY <2>1, <2>2 DEF Binding, Values, Inv, Types
  <2> HIDE DEF b
  <2>4. top.bound \in Seq(Binding)
    BY <1>1 DEF Record
  <2>5. g = [f EXCEPT !.bound = Append(top.bound, b)]
    BY <1>2
  <2>6. Append(top.bound, b) \in Seq(Binding)
    BY <2>3, <2>4
  <2>7. g \in Record /\ g.exp = top.exp /\ g.i = i /\ g.bound = Append(top.bound, b)
    BY <1>2, <2>5, <2>6 DEF Record
  <2>8. frames' = WithTop(g) /\ NamedValues' = [NamedValues EXCEPT ![x] = Alloca(allocas + 1)]
        /\ allocas' = allocas + 1
    BY <1>4 DEF b
  <2> HIDE DEF g, f
  <2>9. /\ Stack' /\ Len(frames') = Len(frames)
        /\ \A k \in 1..Len(frames) : frames'[k] = IF k = Len(frames) THEN g ELSE frames[k]
    BY <1>1, <2>7, <2>8, ReplacedStack
  <2>10. Types'
    BY <2>1, <2>2, <2>8 DEF Inv, Types, Running
  <2>11. \A y \in Name : Own(NamedValues'[y])
    BY <2>1, <2>2, <2>8 DEF Inv, Scopes, OwnSaved, Types
  <2>12. \A j \in 1..Len(g.bound) : Own(g.bound[j].old)
    <3> SUFFICES ASSUME NEW j \in 1..Len(g.bound) PROVE Own(g.bound[j].old)
      OBVIOUS
    <3>1. CASE j \in 1..Len(top.bound)
      BY <3>1, <2>4, <2>7, <1>3
    <3>2. CASE j = Len(top.bound) + 1
      <4>1. g.bound[j] = b
        BY <3>2, <2>4, <2>7
      <4> QED
        BY <4>1, <2>1, <2>3 DEF Inv, Scopes, OwnSaved
    <3> QED
      BY <3>1, <3>2, <2>4, <2>7
  <2>13. \A k \in 1..Len(frames') : \A j \in 1..Len(frames'[k].bound) :
           Own(frames'[k].bound[j].old)
    BY <2>9, <2>12 DEF Inv, Scopes, OwnSaved
  <2>14. Scopes'
    BY <2>11, <2>13 DEF Scopes, OwnSaved, Own
  <2>15. OperatorsInstalled'
    BY DEF Inv, OperatorsInstalled, Exists
  <2> QED
    BY <2>9, <2>10, <2>14, <2>15 DEF Inv
<1>5. CASE ~Binds(top.exp, i)
  <2>1. frames' = WithTop(f) /\ UNCHANGED <<allocas, NamedValues>>
    BY <1>5
  <2> HIDE DEF f
  <2>2. /\ Stack' /\ Len(frames') = Len(frames)
        /\ \A k \in 1..Len(frames) : frames'[k] = IF k = Len(frames) THEN f ELSE frames[k]
    BY <1>1, <1>2, <2>1, ReplacedStack
  <2>3. Types'
    BY <2>1 DEF Inv, Types, Running
  <2>4. \A k \in 1..Len(frames') : \A j \in 1..Len(frames'[k].bound) :
           Own(frames'[k].bound[j].old)
    BY <2>2, <1>2, <1>3 DEF Inv, Scopes, OwnSaved
  <2>5. Scopes'
    BY <2>1, <2>4 DEF Inv, Scopes, OwnSaved, Own
  <2>6. OperatorsInstalled'
    BY DEF Inv, OperatorsInstalled, Exists
  <2> QED
    BY <2>2, <2>3, <2>5, <2>6 DEF Inv
<1> QED
  BY <1>4, <1>5

(* The ways in which an activation ends: with NamedValues as it is, or     *)
(* with what was shadowed put back.                                        *)
LEMMA ReturnKeeps ==
  ASSUME Inv, Running, pc # "top", top.exp.op # "function", frames' = Pop,
         pc' = "leave", val' \in BOOLEAN, NamedValues' \in [Name -> Values],
         \A x \in Name : Own(NamedValues'[x]),
         UNCHANGED <<program, next, functions, BinopPrecedence, allocas, exp, status>>
  PROVE  Inv'
<1>1. Types'
  BY DEF Inv, Types, Running
<1>2. Stack'
  BY ReturnedStack
<1>3. Scopes'
  BY ReturnedStack DEF Scopes, OwnSaved, Own
<1>4. OperatorsInstalled'
  BY DEF Inv, OperatorsInstalled, Exists
<1> QED
  BY <1>1, <1>2, <1>3, <1>4 DEF Inv

LEMMA FailedKeeps == Inv /\ OperandFailed => Inv'
<1> SUFFICES ASSUME Inv, OperandFailed PROVE Inv'
  OBVIOUS
<1>1. NamedValues' \in [Name -> Values] /\ \A x \in Name : Own(NamedValues'[x])
  BY DEF OperandFailed, Inv, Types, Scopes, OwnSaved
<1> QED
  BY <1>1, ReturnKeeps DEF OperandFailed, Return

LEMMA ScopeKeeps == Inv /\ EndScope => Inv'
<1> SUFFICES ASSUME Inv, EndScope PROVE Inv'
  OBVIOUS
<1> USE DEF EndScope
<1> DEFINE n   == Len(top.bound)
           old == [i \in 1..n |-> [top.bound[i] EXCEPT !.alloca = top.bound[i].old]]
<1>1. Running /\ pc # "top" /\ top.exp.op # "function"
  BY DEF Compiled
<1>2. top.bound \in Seq(Binding) /\ n \in Nat
  BY <1>1, TopRecord DEF Record
<1>3. ASSUME NEW i \in 1..n
      PROVE  old[i].alloca = top.bound[i].old /\ top.bound[i].old \in Values
  <2>1. top.bound[i] \in Binding
    BY <1>2
  <2>2. old[i] = [top.bound[i] EXCEPT !.alloca = top.bound[i].old]
    OBVIOUS
  <2> QED
    BY <2>1, <2>2 DEF Binding, Values
<1>4. Len(old) = n
  BY <1>2
<1>5. \A i \in 1..n : Own(top.bound[i].old)
  BY <1>1, TopRecord DEF Inv, Scopes, OwnSaved
<1>6. NamedValues' = Bind(NamedValues, old)
  BY DEF Restored
<1> HIDE DEF old
<1>7. /\ Bind(NamedValues, old) \in [Name -> Values]
      /\ \A x \in Name : \/ Bind(NamedValues, old)[x] = NamedValues[x]
                         \/ \E i \in 1..Len(old) : Bind(NamedValues, old)[x] = old[i].alloca
  <2>1. NamedValues \in [Name -> Values]
    BY DEF Inv, Types
  <2> QED
    BY <1>2, <1>3, <1>4, <2>1, BindValues
<1>8. \A x \in Name : Own(NamedValues'[x])
  BY <1>1, <1>3, <1>4, <1>5, <1>6, <1>7 DEF Inv, Scopes, OwnSaved
<1> QED
  BY <1>1, <1>6, <1>7, <1>8, ReturnKeeps DEF Return

LEMMA PlainKeeps == Inv /\ EndPlain => Inv'
<1> SUFFICES ASSUME Inv, EndPlain PROVE Inv'
  OBVIOUS
<1>1. Running /\ pc # "top" /\ top.exp.op # "function"
  BY DEF EndPlain, Compiled
<1>2. NamedValues' \in [Name -> Values] /\ \A x \in Name : Own(NamedValues'[x])
  BY <1>1 DEF EndPlain, Inv, Types, Scopes, OwnSaved
<1> QED
  BY <1>1, <1>2, ReturnKeeps DEF EndPlain, Return

(* The program ends where it is. *)
LEMMA EndedKeeps ==
  ASSUME Inv, status' \in {"assert", "crash"},
         UNCHANGED <<program, next, functions, BinopPrecedence, NamedValues, allocas, frames,
                     exp, val, pc>>
  PROVE  Inv'
<1>1. Types'
  BY DEF Inv, Types, Running
<1>2. Stack' /\ Scopes'
  BY DEF Inv, Stack, Scopes, OwnSaved, Own
<1>3. OperatorsInstalled'
  BY DEF Inv, OperatorsInstalled, Exists
<1> QED
  BY <1>1, <1>2, <1>3 DEF Inv

LEMMA BinaryKeeps == Inv /\ EndBinary => Inv'
<1> SUFFICES ASSUME Inv, EndBinary PROVE Inv'
  OBVIOUS
<1>1. Running /\ pc # "top" /\ top.exp.op # "function"
  BY DEF EndBinary, Compiled
<1>2. NamedValues' \in [Name -> Values] /\ \A x \in Name : Own(NamedValues'[x])
  BY <1>1 DEF EndBinary, Inv, Types, Scopes, OwnSaved
<1>3. CASE frames' = Pop /\ Return(~top.failed) /\ UNCHANGED status
  BY <1>1, <1>2, <1>3, ReturnKeeps DEF EndBinary, Return
<1>4. CASE status' = "assert" /\ UNCHANGED <<frames, pc, val>>
  BY <1>4, EndedKeeps DEF EndBinary
<1> QED
  BY <1>3, <1>4 DEF EndBinary

LEMMA AssignmentKeeps == Inv /\ EndAssignment => Inv'
<1> SUFFICES ASSUME Inv, EndAssignment PROVE Inv'
  OBVIOUS
<1>1. Running /\ pc # "top" /\ top.exp.op # "function"
  BY DEF EndAssignment, Compiled
<1>2. NamedValues' \in [Name -> Values] /\ \A x \in Name : Own(NamedValues'[x])
  BY <1>1 DEF EndAssignment, Inv, Types, Scopes, OwnSaved
<1>3. CASE frames' = Pop /\ UNCHANGED status
           /\ Return(top.exp.lhs.op \in Named /\ Target \in Name /\ NamedValues[Target] # NoAlloca)
  BY <1>1, <1>2, <1>3, ReturnKeeps DEF EndAssignment, Return
<1>4. CASE status' = "crash" /\ UNCHANGED <<frames, pc, val>>
  BY <1>4, EndedKeeps DEF EndAssignment
<1> QED
  BY <1>3, <1>4 DEF EndAssignment

LEMMA InvNext == Inv /\ [Next]_vars => Inv'
<1> SUFFICES ASSUME Inv, [Next]_vars PROVE Inv'
  OBVIOUS
<1>1. CASE Statements
  BY <1>1, ExternKeeps, DefinitionKeeps, RefuseKeeps, KeepKeeps, FailKeeps DEF Statements
<1>2. CASE Expressions
  BY <1>2, LeafKeeps, NodeKeeps, OperandKeeps, ReturnedKeeps, FailedKeeps, ScopeKeeps,
     PlainKeeps, BinaryKeeps, AssignmentKeeps DEF Expressions
<1>3. CASE UNCHANGED vars
  <2>1. Types'
    BY <1>3 DEF vars, Inv, Types, Running
  <2>2. Stack' /\ Scopes'
    BY <1>3 DEF vars, Inv, Stack, Scopes, OwnSaved, Own
  <2>3. OperatorsInstalled'
    BY <1>3 DEF vars, Inv, OperatorsInstalled, Exists
  <2> QED
    BY <2>1, <2>2, <2>3 DEF Inv
<1> QED
  BY <1>1, <1>2, <1>3 DEF Next, Terminated

LEMMA InvAlways == Spec => []Inv
BY InvInit, InvNext, PTL DEF Spec

-----------------------------------------------------------------------------
(* Whatever the programs, every variable keeps its type; Codegen is active *)
(* inside of a definition and only there, and no activation is past its    *)
(* last operand.                                                           *)
THEOREM CodegenTypesCorrect == Spec => []TypeOK
<1>1. Inv => TypeOK
  <2> SUFFICES ASSUME Inv PROVE TypeOK
    OBVIOUS
  <2>1. \A k \in 1..Len(frames) : /\ frames[k] \in Record
                                 /\ frames[k].i <= Len(frames[k].exp.sub)
                                 /\ frames[k].exp.sub \in Seq(Exp)
    <3> SUFFICES ASSUME NEW k \in 1..Len(frames)
                 PROVE  /\ frames[k] \in Record
                        /\ frames[k].i <= Len(frames[k].exp.sub)
                        /\ frames[k].exp.sub \in Seq(Exp)
      OBVIOUS
    <3>1. frames[k] \in Record /\ frames[k].i <= Len(frames[k].exp.sub)
      BY DEF Inv, Stack
    <3>2. frames[k].exp \in Exp \cup Bodies
      BY <3>1 DEF Record
    <3> QED
      BY <3>1, <3>2, Operands
  <2>2. \A k \in 1..Len(frames) : /\ frames[k].i \in 0..Len(frames[k].exp.sub)
                                 /\ frames[k].bound \in Seq(Binding)
                                 /\ frames[k].failed \in BOOLEAN
    BY <2>1 DEF Record
  <2> QED
    BY <2>2 DEF Inv, Types, Stack, TypeOK, Values
<1> QED
  BY <1>1, InvAlways, PTL

(* No function finds the variables of another one (K:962), whatever its    *)
(* expressions are and wherever they fail.                                 *)
THEOREM OwnVariablesCorrect == Spec => []OwnVariables
<1>1. Inv => OwnVariables
  BY DEF Inv, Scopes, OwnSaved, Own, OwnVariables
<1> QED
  BY <1>1, InvAlways, PTL

(* After any definitions, refused, failed or compiled, an operator that    *)
(* was given a precedence has a function (K:1087).                         *)
THEOREM OperatorsInstalledCorrect == Spec => []OperatorsInstalled
<1>1. Inv => OperatorsInstalled
  BY DEF Inv
<1> QED
  BY <1>1, InvAlways, PTL

(* A compiled function stays as it is, whatever is declared, defined or    *)
(* fails after it (K:1003).                                                *)
THEOREM FunctionsKeptCorrect == Spec => FunctionsKept
<1> DEFINE Kept == \A fn \in FnName :
             functions[fn].body /\ (pc = "top" \/ fn # stmt.fn) => functions'[fn] = functions[fn]
<1>1. ASSUME Inv, Next PROVE Kept
  <2> SUFFICES ASSUME NEW fn \in FnName, functions[fn].body, pc = "top" \/ fn # stmt.fn
               PROVE  functions'[fn] = functions[fn]
    OBVIOUS
  <2>1. Exists(fn)
    BY DEF Exists, NoFunction
  <2>2. CASE HandleExtern \/ HandleDefinition
    <3>1. CASE Refused
      BY <2>2, <3>1 DEF HandleExtern, HandleDefinition
    <3>2. CASE ~Refused
      <4>1. functions' = Declared(FALSE) \/ functions' = Declared(TRUE)
        BY <2>2, <3>2 DEF HandleExtern, HandleDefinition, StartFunction
      <4>2. fn # stmt.fn \/ stmt.fn = Anonymous
        BY <2>1, <3>2 DEF Refused
      <4>3. CASE stmt.fn = Anonymous
        BY <4>1, <4>3 DEF Declared
      <4>4. CASE fn # stmt.fn
        <5>1. Running
          BY <2>2 DEF HandleExtern, HandleDefinition
        <5>2. \A b \in BOOLEAN : Declared(b)[fn] = functions[fn]
          BY <4>4, <5>1, <1>1, DeclaredTypes
        <5> QED
          BY <4>1, <5>2
      <4> QED
        BY <4>2, <4>3, <4>4
    <3> QED
      BY <3>1, <3>2
  <2>3. CASE FailDefinition
    BY <2>3 DEF FailDefinition, RemoveFunction, Inv, Types
  <2>4. CASE RefuseDefinition \/ KeepFunction \/ Expressions \/ Terminated
    BY <2>4 DEF RefuseDefinition, KeepFunction, Expressions, CodegenLeaf, CodegenNode, NextOperand,
       OperandReturned, OperandFailed, EndScope, EndPlain, EndBinary, EndAssignment, Terminated, vars
  <2> QED
    BY <1>1, <2>2, <2>3, <2>4 DEF Next, Statements
<1>2. Inv /\ [Next]_vars => [Kept]_vars
  BY <1>1
<1> QED
  BY <1>2, InvAlways, PTL DEF Spec, FunctionsKept

-----------------------------------------------------------------------------
(* Scopes.  NamedValues is one map that every for and every var overwrites *)
(* and puts back.  The inductive invariant says what it holds now, and     *)
(* what each binding that will be undone puts back: the alloca that the    *)
(* name had in the activations below.                                      *)

(* The bindings of x among those of one activation, and the last of them.  *)
Unbound(bound, x) == \A j \in 1..Len(bound) : bound[j].name # x
LastOf(bound, x, j) ==
  bound[j].name = x /\ \A m \in 1..Len(bound) : m > j => bound[m].name # x

(* v is what x means inside of the n outermost activations. *)
Means(stack, n, x, v) ==
  \/ v = NoAlloca /\ \A k \in 1..n : Unbound(stack[k].bound, x)
  \/ \E k \in 1..n : \E j \in 1..Len(stack[k].bound) :
       /\ LastOf(stack[k].bound, x, j) /\ v = stack[k].bound[j].alloca
       /\ \A l \in 1..n : l > k => Unbound(stack[l].bound, x)

(* A for or var has bound what its operands so far are for, in order. *)
InStep(f) ==
  /\ Len(f.bound) <= f.i
  /\ \A j \in 1..f.i : Binds(f.exp, j) => j <= Len(f.bound)
  /\ \A j \in 1..Len(f.bound) : Binds(f.exp, j) /\ f.bound[j].name = BoundName(f.exp, j)

BindingsInStep == \A k \in 2..Len(frames) : InStep(frames[k])

OnlyBinaryFailed == \A k \in 1..Len(frames) : frames[k].failed => frames[k].exp.op = "binary"

Resolved == \A x \in Name : Means(frames, Len(frames), x, NamedValues[x])

Shadowed ==
  \A k \in 2..Len(frames) : \A j \in 1..Len(frames[k].bound) :
    Means(frames, k - 1, frames[k].bound[j].name, frames[k].bound[j].old)

LexInv == pc # "top" => /\ BindingsInStep /\ OnlyBinaryFailed
                        /\ NoFailure => Resolved /\ Shadowed

-----------------------------------------------------------------------------
(* What a name means when activations come and go. *)
LEMMA MeansSame ==
  ASSUME NEW s, NEW t, NEW n, \A k \in 1..n : t[k].bound = s[k].bound,
         NEW x, NEW v, Means(s, n, x, v)
  PROVE  Means(t, n, x, v)
BY DEF Means

LEMMA MeansMore ==
  ASSUME NEW s, NEW n \in Nat, NEW x, NEW v, Means(s, n, x, v), Unbound(s[n + 1].bound, x)
  PROVE  Means(s, n + 1, x, v)
<1>1. \A k \in 1..(n + 1) : k \in 1..n \/ k = n + 1
  OBVIOUS
<1>2. \A k \in 1..n : k \in 1..(n + 1)
  OBVIOUS
<1> QED
  BY <1>1, <1>2 DEF Means

LEMMA MeansLess ==
  ASSUME NEW s, NEW n \in Nat, NEW x, NEW v, Means(s, n + 1, x, v), Unbound(s[n + 1].bound, x)
  PROVE  Means(s, n, x, v)
<1>1. \A k \in 1..(n + 1) : k \in 1..n \/ k = n + 1
  OBVIOUS
<1>2. \A k \in 1..n : k \in 1..(n + 1)
  OBVIOUS
<1>3. CASE v = NoAlloca /\ \A k \in 1..(n + 1) : Unbound(s[k].bound, x)
  BY <1>2, <1>3 DEF Means
<1>4. CASE \E k \in 1..(n + 1) : \E j \in 1..Len(s[k].bound) :
             /\ LastOf(s[k].bound, x, j) /\ v = s[k].bound[j].alloca
             /\ \A l \in 1..(n + 1) : l > k => Unbound(s[l].bound, x)
  <2>1. PICK k \in 1..(n + 1) : \E j \in 1..Len(s[k].bound) :
             /\ LastOf(s[k].bound, x, j) /\ v = s[k].bound[j].alloca
             /\ \A l \in 1..(n + 1) : l > k => Unbound(s[l].bound, x)
    BY <1>4
  <2>2. k # n + 1
    BY <2>1 DEF LastOf, Unbound
  <2>3. k \in 1..n
    BY <1>1, <2>2
  <2> QED
    BY <1>2, <2>1, <2>3 DEF Means
<1> QED
  BY <1>3, <1>4 DEF Means

LEMMA MeansNew ==
  ASSUME NEW s, NEW n \in Nat \ {0}, NEW x, NEW j \in 1..Len(s[n].bound),
         LastOf(s[n].bound, x, j)
  PROVE  Means(s, n, x, s[n].bound[j].alloca)
<1>1. n \in 1..n /\ \A l \in 1..n : ~(l > n)
  OBVIOUS
<1> QED
  BY <1>1 DEF Means

(* One more binding in the innermost activation, of another name. *)
LEMMA MeansOther ==
  ASSUME NEW s, NEW t, NEW n \in Nat \ {0},
         \A k \in 1..n : k # n => t[k].bound = s[k].bound,
         s[n].bound \in Seq(Binding), NEW b \in Binding, t[n].bound = Append(s[n].bound, b),
         NEW x, b.name # x, NEW v, Means(s, n, x, v)
  PROVE  Means(t, n, x, v)
<1> DEFINE m == Len(s[n].bound)
<1>1. /\ m \in Nat /\ Len(t[n].bound) = m + 1 /\ t[n].bound[m + 1] = b
      /\ \A j \in 1..m : t[n].bound[j] = s[n].bound[j]
      /\ \A j \in 1..(m + 1) : j \in 1..m \/ j = m + 1
      /\ \A j \in 1..m : j \in 1..(m + 1)
  OBVIOUS
<1> HIDE DEF m
<1>2. \A k \in 1..n : Unbound(s[k].bound, x) => Unbound(t[k].bound, x)
  BY <1>1 DEF Unbound, m
<1>3. \A k \in 1..n : \A j \in 1..Len(s[k].bound) :
         LastOf(s[k].bound, x, j) => /\ j \in 1..Len(t[k].bound)
                                     /\ LastOf(t[k].bound, x, j)
                                     /\ t[k].bound[j] = s[k].bound[j]
  <2> SUFFICES ASSUME NEW k \in 1..n, NEW j \in 1..Len(s[k].bound), LastOf(s[k].bound, x, j)
               PROVE  /\ j \in 1..Len(t[k].bound)
                      /\ LastOf(t[k].bound, x, j)
                      /\ t[k].bound[j] = s[k].bound[j]
    OBVIOUS
  <2>1. CASE k # n
    BY <2>1
  <2>2. CASE k = n
    BY <1>1, <2>2 DEF LastOf, m
  <2> QED
    BY <2>1, <2>2
<1>4. CASE v = NoAlloca /\ \A k \in 1..n : Unbound(s[k].bound, x)
  BY <1>2, <1>4 DEF Means
<1>5. CASE \E k \in 1..n : \E j \in 1..Len(s[k].bound) :
             /\ LastOf(s[k].bound, x, j) /\ v = s[k].bound[j].alloca
             /\ \A l \in 1..n : l > k => Unbound(s[l].bound, x)
  <2>1. PICK k \in 1..n : \E j \in 1..Len(s[k].bound) :
             /\ LastOf(s[k].bound, x, j) /\ v = s[k].bound[j].alloca
             /\ \A l \in 1..n : l > k => Unbound(s[l].bound, x)
    BY <1>5
  <2>2. PICK j \in 1..Len(s[k].bound) :
             /\ LastOf(s[k].bound, x, j) /\ v = s[k].bound[j].alloca
             /\ \A l \in 1..n : l > k => Unbound(s[l].bound, x)
    BY <2>1
  <2>3. /\ j \in 1..Len(t[k].bound) /\ LastOf(t[k].bound, x, j)
        /\ v = t[k].bound[j].alloca
    BY <1>3, <2>2
  <2> QED
    BY <1>2, <2>2, <2>3 DEF Means
<1> QED
  BY <1>4, <1>5 DEF Means

(* Bind takes the last binding of a name. *)
LEMMA SomeLast ==
  ASSUME NEW bound, Len(bound) \in Nat, NEW x
  PROVE  Unbound(bound, x) \/ \E j \in 1..Len(bound) : LastOf(bound, x, j)
<1> DEFINE T == {j \in 1..Len(bound) : bound[j].name = x}
<1>1. CASE T = {}
  BY <1>1 DEF Unbound
<1>2. CASE T # {}
  <2>1. PICK m \in T : \A y \in T : y <= m
    <3>1. T \subseteq 1..Len(bound)
      OBVIOUS
    <3> HIDE DEF T
    <3> QED
      BY <1>2, <3>1, LastIndex
  <2>2. \A j \in 1..Len(bound) : j > m => bound[j].name # x
    <3> SUFFICES ASSUME NEW j \in 1..Len(bound), j > m, bound[j].name = x PROVE FALSE
      OBVIOUS
    <3>1. j <= m /\ j \in Nat /\ m \in Nat
      BY <2>1
    <3> QED
      BY <3>1
  <2> QED
    BY <2>1, <2>2 DEF LastOf
<1> QED
  BY <1>1, <1>2

LEMMA BindLast ==
  ASSUME NEW values, NEW bound, Len(bound) \in Nat, NEW x \in Name
  PROVE  /\ Unbound(bound, x) => Bind(values, bound)[x] = values[x]
         /\ \A j \in 1..Len(bound) :
              LastOf(bound, x, j) => Bind(values, bound)[x] = bound[j].alloca
<1>1. ASSUME Unbound(bound, x) PROVE Bind(values, bound)[x] = values[x]
  BY <1>1 DEF Bind, Unbound
<1>2. ASSUME NEW j \in 1..Len(bound), LastOf(bound, x, j)
      PROVE  Bind(values, bound)[x] = bound[j].alloca
  <2> DEFINE P(i) == bound[i].name = x /\ \A m \in (i + 1)..Len(bound) : bound[m].name # x
             c == CHOOSE i \in 1..Len(bound) : P(i)
  <2>1. P(j)
    <3>1. \A m \in (j + 1)..Len(bound) : m \in 1..Len(bound) /\ m > j
      OBVIOUS
    <3> QED
      BY <1>2, <3>1 DEF LastOf
  <2>2. Bind(values, bound)[x] = bound[c].alloca
    BY <1>2 DEF Bind, LastOf
  <2>3. c \in 1..Len(bound) /\ P(c)
    <3> HIDE DEF P
    <3> QED
      BY <2>1
  <2> HIDE DEF c
  <2>4. ~(c > j)
    BY <1>2, <2>3 DEF LastOf
  <2>5. ~(j > c)
    <3> SUFFICES ASSUME j > c PROVE FALSE
      OBVIOUS
    <3>1. j \in (c + 1)..Len(bound)
      BY <2>3
    <3> QED
      BY <2>1, <2>3, <3>1
  <2>6. c = j
    BY <2>3, <2>4, <2>5
  <2> QED
    BY <2>2, <2>6
<1> QED
  BY <1>1, <1>2

-----------------------------------------------------------------------------
(* The steps that change neither the stack nor NamedValues. *)
LEMMA LexSame ==
  ASSUME LexInv, pc' # "top" => pc # "top", frames' = frames, NamedValues' = NamedValues,
         NoFailure' => NoFailure
  PROVE  LexInv'
BY DEF LexInv, BindingsInStep, OnlyBinaryFailed, Resolved, Shadowed, Means, InStep

(* A definition starts with its arguments. *)
LEMMA LexStart == Inv /\ HandleDefinition => LexInv'
<1> SUFFICES ASSUME Inv, HandleDefinition PROVE LexInv'
  OBVIOUS
<1> DEFINE f == [Activation(Body) EXCEPT !.bound = Arguments]
<1>1. frames' = <<f>> /\ NamedValues' = Bind(Cleared, Arguments)
  BY DEF HandleDefinition, StartFunction
<1>2. f.bound = Arguments /\ f.failed = FALSE
  BY DEF Activation
<1> HIDE DEF f
<1>3. /\ Len(frames') = 1 /\ frames'[1] = f
      /\ \A k \in 1..Len(frames') : k = 1
      /\ \A k \in 2..Len(frames') : FALSE
  BY <1>1
<1>4. Len(Arguments) \in Nat
  BY ArgumentsBound, StatementTypes DEF HandleDefinition
<1>5. ASSUME NEW x \in Name PROVE Means(frames', 1, x, Bind(Cleared, Arguments)[x])
  <2>1. CASE Unbound(Arguments, x)
    <3>1. Bind(Cleared, Arguments)[x] = NoAlloca
      BY <1>4, <2>1, BindLast, ClearedValues
    <3>2. \A k \in 1..1 : Unbound(frames'[k].bound, x)
      BY <1>2, <1>3, <2>1
    <3> QED
      BY <3>1, <3>2 DEF Means
  <2>2. ASSUME NEW j \in 1..Len(Arguments), LastOf(Arguments, x, j)
        PROVE  Means(frames', 1, x, Bind(Cleared, Arguments)[x])
    <3>1. Bind(Cleared, Arguments)[x] = Arguments[j].alloca
      BY <1>4, <2>2, BindLast
    <3>2. frames'[1].bound = Arguments
      BY <1>2, <1>3
    <3> QED
      BY <2>2, <3>1, <3>2 DEF Means
  <2> QED
    BY <1>4, <2>1, <2>2, SomeLast
<1>6. Resolved'
  BY <1>1, <1>3, <1>5 DEF Resolved, Means
<1> QED
  BY <1>2, <1>3, <1>6 DEF LexInv, BindingsInStep, OnlyBinaryFailed, Shadowed

(* A new activation binds nothing yet. *)
LEMMA LexEnter == Inv /\ LexInv /\ CodegenNode => LexInv'
<1> SUFFICES ASSUME Inv, LexInv, CodegenNode PROVE LexInv'
  OBVIOUS
<1> DEFINE n == Len(frames)
           f == Activation(exp)
<1>1. frames' = Append(frames, f) /\ NamedValues' = NamedValues /\ pc = "enter"
      /\ pc' = "operands"
  BY DEF CodegenNode
<1>2. f.bound = <<>> /\ f.failed = FALSE /\ f.i = 0
  BY DEF Activation
<1>3. n \in Nat \ {0} /\ frames \in Seq(Record)
  BY <1>1, TopRecord DEF Inv, Stack
<1> HIDE DEF f
<1>4. /\ Len(frames') = n + 1 /\ frames'[n + 1] = f
      /\ \A k \in 1..n : frames'[k] = frames[k]
  BY <1>1, <1>3
<1>5. /\ \A k \in 1..(n + 1) : k \in 1..n \/ k = n + 1
      /\ \A k \in 2..(n + 1) : k \in 2..n \/ k = n + 1
      /\ \A k \in 2..n : k \in 1..n /\ \A l \in 1..(k - 1) : l \in 1..n
      /\ \A k \in 1..n : k \in 1..(n + 1)
  BY <1>3
<1>6. \A x : Unbound(f.bound, x)
  BY <1>2 DEF Unbound
<1>7. InStep(f)
  BY <1>2 DEF InStep
<1> HIDE DEF n
<1>8. BindingsInStep'
  BY <1>1, <1>4, <1>5, <1>7 DEF LexInv, BindingsInStep, InStep, n
<1>9. OnlyBinaryFailed'
  BY <1>1, <1>2, <1>4, <1>5 DEF LexInv, OnlyBinaryFailed, n
<1>10. NoFailure' => NoFailure
  BY <1>1, <1>4, <1>5 DEF NoFailure, n
<1>11. ASSUME Resolved PROVE Resolved'
  <2> SUFFICES ASSUME NEW x \in Name PROVE Means(frames', n + 1, x, NamedValues[x])
    BY <1>1, <1>4 DEF Resolved, Means
  <2>1. Means(frames, n, x, NamedValues[x])
    BY <1>11 DEF Resolved, n
  <2>2. Means(frames', n, x, NamedValues[x])
    BY <1>4, <2>1, MeansSame
  <2> QED
    BY <1>3, <1>4, <1>6, <2>2, MeansMore
<1>12. ASSUME Shadowed PROVE Shadowed'
  <2> SUFFICES ASSUME NEW k \in 2..(n + 1), NEW j \in 1..Len(frames'[k].bound)
               PROVE  Means(frames', k - 1, frames'[k].bound[j].name, frames'[k].bound[j].old)
    BY <1>4 DEF Shadowed, Means
  <2>1. k \in 2..n
    BY <1>2, <1>4, <1>5
  <2>2. Means(frames, k - 1, frames[k].bound[j].name, frames[k].bound[j].old)
    BY <1>4, <1>5, <1>12, <2>1 DEF Shadowed, n
  <2>3. \A l \in 1..(k - 1) : frames'[l].bound = frames[l].bound
    BY <1>4, <1>5, <2>1
  <2> QED
    BY <1>4, <1>5, <2>1, <2>2, <2>3, MeansSame
<1> QED
  BY <1>1, <1>8, <1>9, <1>10, <1>11, <1>12 DEF LexInv

(* An activation returns: every name means again what it did outside of it. *)
LEMMA LexReturn ==
  ASSUME Inv, LexInv, pc # "top", top.exp.op # "function", frames' = Pop, pc' = "leave",
         val' => pc # "leave" /\ ~top.failed,
         NoFailure /\ Resolved /\ Shadowed =>
           \A x \in Name : Means(frames, Len(frames) - 1, x, NamedValues'[x])
  PROVE  LexInv'
<1> DEFINE n == Len(Pop)
<1>1. /\ n \in Nat /\ Len(frames) = n + 1 /\ top = frames[n + 1]
      /\ \A k \in 1..n : Pop[k] = frames[k]
  BY PopStack, TopRecord
<1>2. /\ \A k \in 1..(n + 1) : k \in 1..n \/ k = n + 1
      /\ \A k \in 2..n : k \in 1..n /\ k \in 2..(n + 1) /\ \A l \in 1..(k - 1) : l \in 1..n
      /\ \A k \in 1..n : k \in 1..(n + 1)
      /\ Len(frames) - 1 = n
  BY <1>1
<1>3. Len(frames') = n /\ \A k \in 1..n : frames'[k] = frames[k]
  BY <1>1
<1> HIDE DEF n, top, Pop
<1>4. BindingsInStep'
  BY <1>1, <1>2, <1>3 DEF LexInv, BindingsInStep, InStep
<1>5. OnlyBinaryFailed'
  BY <1>1, <1>2, <1>3 DEF LexInv, OnlyBinaryFailed
<1>6. ASSUME NoFailure' PROVE NoFailure
  <2>1. val' /\ \A k \in 1..n : ~frames[k].failed
    BY <1>3, <1>6 DEF NoFailure
  <2> QED
    BY <1>1, <1>2, <2>1 DEF NoFailure
<1>7. ASSUME NoFailure' PROVE Resolved' /\ Shadowed'
  <2>1. Resolved /\ Shadowed
    BY <1>6, <1>7 DEF LexInv
  <2>2. ASSUME NEW x \in Name PROVE Means(frames', n, x, NamedValues'[x])
    <3>1. Means(frames, n, x, NamedValues'[x])
      BY <1>2, <1>6, <1>7, <2>1
    <3> QED
      BY <1>3, <3>1, MeansSame
  <2>3. ASSUME NEW k \in 2..n, NEW j \in 1..Len(frames'[k].bound)
        PROVE  Means(frames', k - 1, frames'[k].bound[j].name, frames'[k].bound[j].old)
    <3>1. Means(frames, k - 1, frames[k].bound[j].name, frames[k].bound[j].old)
      BY <1>1, <1>2, <1>3, <2>1 DEF Shadowed
    <3>2. \A l \in 1..(k - 1) : frames'[l].bound = frames[l].bound
      BY <1>2, <1>3
    <3> QED
      BY <1>2, <1>3, <3>1, <3>2, MeansSame
  <2>4. Resolved'
    BY <1>3, <2>2 DEF Resolved
  <2>5. Shadowed'
    BY <1>3, <2>3 DEF Shadowed
  <2> QED
    BY <2>4, <2>5
<1> QED
  BY <1>4, <1>5, <1>7 DEF LexInv

(* What binds nothing leaves NamedValues as it is. *)
LEMMA TopBindings ==
  ASSUME Inv, LexInv, pc # "top", top.exp.op # "function"
  PROVE  /\ top.bound \in Seq(Binding) /\ Len(top.bound) \in Nat /\ InStep(top)
         /\ top.failed => top.exp.op = "binary"
         /\ top.exp.op \notin {"for", "varin"} => \A x : Unbound(top.bound, x)
<1>1. /\ Len(frames) \in Nat /\ Len(frames) > 1 /\ top \in Record /\ top = frames[Len(frames)]
  BY TopRecord
<1>2. Len(frames) \in 2..Len(frames) /\ Len(frames) \in 1..Len(frames)
  BY <1>1
<1> HIDE DEF top
<1>3. top.bound \in Seq(Binding) /\ Len(top.bound) \in Nat
  BY <1>1 DEF Record
<1>4. InStep(top)
  BY <1>1, <1>2 DEF LexInv, BindingsInStep
<1>5. top.failed => top.exp.op = "binary"
  BY <1>1, <1>2 DEF LexInv, OnlyBinaryFailed
<1>6. top.exp.op \notin {"for", "varin"} => \A x : Unbound(top.bound, x)
  BY <1>4 DEF InStep, Binds, Unbound
<1> QED
  BY <1>3, <1>4, <1>5, <1>6

LEMMA LexUnbound ==
  ASSUME Inv, LexInv, pc # "top", top.exp.op \notin {"function", "for", "varin"},
         frames' = Pop, pc' = "leave", NamedValues' = NamedValues,
         val' => pc # "leave" /\ ~top.failed
  PROVE  LexInv'
<1>1. /\ Len(frames) \in Nat /\ Len(frames) > 1 /\ top = frames[Len(frames)]
  BY TopRecord
<1>2. \A x : Unbound(top.bound, x)
  BY TopBindings
<1> DEFINE n == Len(frames) - 1
<1>3. n \in Nat /\ Len(frames) = n + 1
  BY <1>1
<1> HIDE DEF n, top
<1>4. ASSUME NEW x \in Name, Resolved PROVE Means(frames, n, x, NamedValues'[x])
  <2>1. Means(frames, n + 1, x, NamedValues[x])
    BY <1>3, <1>4 DEF Resolved
  <2>2. Unbound(frames[n + 1].bound, x)
    BY <1>1, <1>2, <1>3
  <2> QED
    BY <1>3, <2>1, <2>2, MeansLess
<1> QED
  BY <1>4, LexReturn DEF n

(* A for or var puts back what it has shadowed. *)
LEMMA LexScope == Inv /\ LexInv /\ EndScope => LexInv'
<1> SUFFICES ASSUME Inv, LexInv, EndScope PROVE LexInv'
  OBVIOUS
<1> DEFINE m   == Len(top.bound)
           old == [i \in 1..m |-> [top.bound[i] EXCEPT !.alloca = top.bound[i].old]]
           n   == Len(frames) - 1
<1>1. /\ pc = "operands" /\ top.exp.op \in {"for", "varin"} /\ frames' = Pop /\ pc' = "leave"
      /\ NamedValues' = Bind(NamedValues, old)
  BY DEF EndScope, Compiled, Return, Restored
<1>2. /\ Len(frames) \in Nat /\ Len(frames) > 1 /\ top = frames[Len(frames)]
  BY <1>1, TopRecord
<1>3. n \in Nat /\ Len(frames) = n + 1 /\ Len(frames) \in 2..Len(frames)
  BY <1>2
<1>4. top.bound \in Seq(Binding) /\ m \in Nat /\ ~top.failed
  BY <1>1, TopBindings
<1> HIDE DEF n, top
<1>5. ASSUME NEW i \in 1..m
      PROVE  old[i].alloca = top.bound[i].old /\ old[i].name = top.bound[i].name
  <2>1. top.bound[i] \in Binding
    BY <1>4
  <2>2. old[i] = [top.bound[i] EXCEPT !.alloca = top.bound[i].old]
    OBVIOUS
  <2> QED
    BY <2>1, <2>2 DEF Binding
<1>6. Len(old) = m
  BY <1>4
<1> HIDE DEF old
<1>7. ASSUME NEW x \in Name, Resolved, Shadowed PROVE Means(frames, n, x, NamedValues'[x])
  <2>1. CASE Unbound(old, x)
    <3>1. NamedValues'[x] = NamedValues[x]
      BY <1>1, <1>4, <1>6, <2>1, BindLast
    <3>2. Means(frames, n + 1, x, NamedValues[x])
      BY <1>3, <1>7 DEF Resolved
    <3>3. Unbound(frames[n + 1].bound, x)
      BY <1>2, <1>3, <1>5, <1>6, <2>1 DEF Unbound
    <3>4. Means(frames, n, x, NamedValues[x])
      BY <1>3, <3>2, <3>3, MeansLess
    <3> QED
      BY <3>1, <3>4
  <2>2. ASSUME NEW j \in 1..Len(old), LastOf(old, x, j)
        PROVE  Means(frames, n, x, NamedValues'[x])
    <3>1. NamedValues'[x] = top.bound[j].old /\ top.bound[j].name = x
      BY <1>1, <1>4, <1>5, <1>6, <2>2, BindLast DEF LastOf
    <3>2. Means(frames, Len(frames) - 1, top.bound[j].name, top.bound[j].old)
      BY <1>2, <1>3, <1>6, <1>7 DEF Shadowed
    <3> QED
      BY <3>1, <3>2 DEF n
  <2> QED
    BY <1>4, <1>6, <2>1, <2>2, SomeLast
<1> QED
  BY <1>1, <1>4, <1>7, LexReturn DEF n

(* A call that fails, and one that ends without a scope of its own. *)
LEMMA LexFailed ==
  ASSUME Inv, LexInv, pc # "top", top.exp.op # "function", frames' = Pop, pc' = "leave", ~val'
  PROVE  LexInv'
<1> DEFINE n == Len(Pop)
<1>1. /\ n \in Nat /\ Len(frames) = n + 1 /\ \A k \in 1..n : Pop[k] = frames[k]
  BY PopStack
<1>2. /\ \A k \in 2..n : k \in 2..(n + 1)
      /\ \A k \in 1..n : k \in 1..(n + 1)
  BY <1>1
<1>3. Len(frames') = n /\ \A k \in 1..n : frames'[k] = frames[k]
  BY <1>1
<1> HIDE DEF n, top, Pop
<1>4. BindingsInStep'
  <2>1. \A k \in 2..n : k \in 1..n
    BY <1>1
  <2> QED
    BY <1>1, <1>2, <1>3, <2>1 DEF LexInv, BindingsInStep, InStep
<1>5. OnlyBinaryFailed'
  BY <1>1, <1>2, <1>3 DEF LexInv, OnlyBinaryFailed
<1> QED
  BY <1>4, <1>5 DEF LexInv, NoFailure

LEMMA LexEnds ==
  Inv /\ LexInv /\ (OperandFailed \/ EndPlain \/ EndBinary \/ EndAssignment) => LexInv'
<1> SUFFICES ASSUME Inv, LexInv, OperandFailed \/ EndPlain \/ EndBinary \/ EndAssignment
             PROVE  LexInv'
  OBVIOUS
<1>1. CASE OperandFailed
  <2>1. pc = "leave" /\ top.exp.op # "function" /\ frames' = Pop /\ pc' = "leave" /\ ~val'
    BY <1>1 DEF OperandFailed, Return
  <2> QED
    BY <2>1, LexFailed
<1>2. CASE EndPlain
  <2>1. /\ pc = "operands" /\ top.exp.op \in {"if", "call", "unary"}
        /\ frames' = Pop /\ pc' = "leave" /\ NamedValues' = NamedValues
    BY <1>2 DEF EndPlain, Compiled, Return
  <2>2. ~top.failed
    BY <2>1, TopBindings
  <2> QED
    BY <2>1, <2>2, LexUnbound
<1>3. CASE EndBinary
  <2>1. pc = "operands" /\ top.exp.op = "binary" /\ NamedValues' = NamedValues
    BY <1>3 DEF EndBinary, Compiled
  <2>2. CASE frames' = Pop /\ Return(~top.failed)
    BY <2>1, <2>2, LexUnbound DEF Return
  <2>3. CASE UNCHANGED <<frames, pc, val>>
    BY <2>1, <2>3, LexSame DEF NoFailure
  <2> QED
    BY <1>3, <2>2, <2>3 DEF EndBinary
<1>4. CASE EndAssignment
  <2>1. pc = "operands" /\ top.exp.op = "assign" /\ NamedValues' = NamedValues
    BY <1>4 DEF EndAssignment, Compiled
  <2>2. ~top.failed
    BY <2>1, TopBindings
  <2>3. CASE frames' = Pop /\ pc' = "leave"
    BY <2>1, <2>2, <2>3, LexUnbound
  <2>4. CASE UNCHANGED <<frames, pc, val>>
    BY <2>1, <2>4, LexSame DEF NoFailure
  <2> QED
    BY <1>4, <2>3, <2>4 DEF EndAssignment, Return
<1> QED
  BY <1>1, <1>2, <1>3, <1>4

(* The running activation goes on to its next operand, with another record *)
(* on top of the stack.                                                    *)
LEMMA LexReplaced ==
  ASSUME Inv, LexInv, pc = "leave", Continues,
         NEW f, f.exp = top.exp, f.failed = (top.failed \/ ~val),
         top.exp.op # "function" => InStep(f),
         Len(frames') = Len(frames), pc' = "operands",
         \A k \in 1..Len(frames) : frames'[k] = IF k = Len(frames) THEN f ELSE frames[k],
         val /\ Resolved /\ Shadowed =>
           /\ \A x \in Name : Means(frames', Len(frames), x, NamedValues'[x])
           /\ top.exp.op # "function" =>
                \A j \in 1..Len(f.bound) : Means(frames, Len(frames) - 1, f.bound[j].name, f.bound[j].old)
  PROVE  LexInv'
<1>1. /\ Len(frames) \in Nat \ {0} /\ top = frames[Len(frames)] /\ Len(frames) \in 1..Len(frames)
  BY TopRecord
<1>2. \A k \in 2..Len(frames) : /\ k \in 1..Len(frames)
                                /\ \A l \in 1..(k - 1) : l \in 1..Len(frames) /\ l # Len(frames)
  BY <1>1
<1> HIDE DEF top
<1>3. frames'[Len(frames)] = f
  BY <1>1
<1>4. BindingsInStep'
  <2>1. ASSUME NEW k \in 2..Len(frames) PROVE InStep(frames'[k])
    <3>1. CASE k # Len(frames)
      BY <1>2, <3>1 DEF LexInv, BindingsInStep
    <3>2. CASE k = Len(frames)
      <4>1. top.exp.op # "function"
        BY <1>1, <1>2, <3>2 DEF Inv, Stack
      <4> QED
        BY <1>3, <3>2, <4>1
    <3> QED
      BY <3>1, <3>2
  <2> QED
    BY <2>1 DEF BindingsInStep, InStep
<1>5. OnlyBinaryFailed'
  <2>1. ASSUME NEW k \in 1..Len(frames), frames'[k].failed PROVE frames'[k].exp.op = "binary"
    <3>1. CASE k # Len(frames)
      BY <2>1, <3>1 DEF LexInv, OnlyBinaryFailed
    <3>2. CASE k = Len(frames)
      <4>1. top.failed => top.exp.op = "binary"
        BY <1>1 DEF LexInv, OnlyBinaryFailed
      <4> QED
        BY <1>3, <2>1, <3>2, <4>1 DEF Continues
    <3> QED
      BY <3>1, <3>2
  <2> QED
    BY <2>1 DEF OnlyBinaryFailed
<1>6. ASSUME NoFailure' PROVE val /\ NoFailure
  <2>1. \A k \in 1..Len(frames) : ~frames'[k].failed
    BY <1>6 DEF NoFailure
  <2>2. ~f.failed
    BY <1>1, <1>3, <2>1
  <2>3. val /\ ~frames[Len(frames)].failed
    BY <1>1, <2>2
  <2>4. \A k \in 1..Len(frames) : ~frames[k].failed
    BY <2>1, <2>3
  <2> QED
    BY <2>3, <2>4 DEF NoFailure
<1>7. ASSUME NoFailure' PROVE Resolved' /\ Shadowed'
  <2>1. val /\ Resolved /\ Shadowed
    BY <1>6, <1>7 DEF LexInv
  <2>2. Resolved'
    BY <2>1 DEF Resolved
  <2>3. ASSUME NEW k \in 2..Len(frames), NEW j \in 1..Len(frames'[k].bound)
        PROVE  Means(frames', k - 1, frames'[k].bound[j].name, frames'[k].bound[j].old)
    <3>1. Means(frames, k - 1, frames'[k].bound[j].name, frames'[k].bound[j].old)
      <4>1. CASE k # Len(frames)
        <5>1. frames'[k] = frames[k]
          BY <1>2, <4>1
        <5> QED
          BY <2>1, <5>1 DEF Shadowed
      <4>2. CASE k = Len(frames)
        <5>1. top.exp.op # "function"
          BY <1>1, <1>2, <4>2 DEF Inv, Stack
        <5> QED
          BY <1>3, <2>1, <4>2, <5>1
      <4> QED
        BY <4>1, <4>2
    <3>2. \A l \in 1..(k - 1) : frames'[l].bound = frames[l].bound
      BY <1>2
    <3> QED
      BY <3>1, <3>2, MeansSame
  <2>4. Shadowed'
    BY <2>3 DEF Shadowed
  <2> QED
    BY <2>2, <2>4
<1> QED
  BY <1>4, <1>5, <1>7 DEF LexInv

(* An operand that binds nothing. *)
LEMMA LexOperand ==
  Inv /\ LexInv /\ OperandReturned /\ ~Binds(top.exp, top.i + 1) => LexInv'
<1> SUFFICES ASSUME Inv, LexInv, OperandReturned, ~Binds(top.exp, top.i + 1) PROVE LexInv'
  OBVIOUS
<1> DEFINE f == [top EXCEPT !.i = top.i + 1, !.failed = top.failed \/ ~val]
<1>1. /\ pc = "leave" /\ Continues /\ pc' = "operands" /\ frames' = WithTop(f)
      /\ NamedValues' = NamedValues
  BY DEF OperandReturned
<1>2. /\ top \in Record /\ Len(frames) \in Nat \ {0} /\ top = frames[Len(frames)]
      /\ Len(frames) \in 1..Len(frames) /\ top.i < Len(top.exp.sub) /\ top.exp.sub \in Seq(Exp)
  BY <1>1, TopRecord
<1>3. top.i \in Nat /\ top.bound \in Seq(Binding)
  BY <1>2 DEF Record
<1>4. f \in Record /\ f.exp = top.exp /\ f.i = top.i + 1 /\ f.bound = top.bound
  <2>1. (top.failed \/ ~val) \in BOOLEAN
    OBVIOUS
  <2> QED
    BY <1>2, <2>1, NextOperandRecord
<1>5. f.failed = (top.failed \/ ~val)
  BY <1>2 DEF Record
<1>6. f.i <= Len(top.exp.sub)
  BY <1>2, <1>3, <1>4
<1> HIDE DEF f, top
<1>7. /\ Len(frames') = Len(frames)
      /\ \A k \in 1..Len(frames) : frames'[k] = IF k = Len(frames) THEN f ELSE frames[k]
  BY <1>1, <1>4, <1>6, ReplacedStack
<1>8. top.exp.op # "function" => InStep(f)
  <2> SUFFICES ASSUME top.exp.op # "function" PROVE InStep(f)
    OBVIOUS
  <2>1. InStep(top) /\ Len(top.bound) \in Nat
    BY <1>1, TopBindings
  <2>2. Len(f.bound) <= f.i
    BY <1>3, <1>4, <2>1 DEF InStep
  <2>3. ASSUME NEW j \in 1..f.i, Binds(f.exp, j) PROVE j <= Len(f.bound)
    <3>1. j \in 1..top.i
      BY <1>3, <1>4, <2>3
    <3> QED
      BY <1>4, <2>1, <2>3, <3>1 DEF InStep
  <2>4. \A j \in 1..Len(f.bound) : Binds(f.exp, j) /\ f.bound[j].name = BoundName(f.exp, j)
    BY <1>4, <2>1 DEF InStep
  <2> QED
    BY <2>2, <2>3, <2>4 DEF InStep
<1>9. ASSUME NEW x \in Name, Resolved PROVE Means(frames', Len(frames), x, NamedValues'[x])
  <2>1. \A k \in 1..Len(frames) : frames'[k].bound = frames[k].bound
    BY <1>2, <1>4, <1>7
  <2>2. Means(frames, Len(frames), x, NamedValues'[x])
    BY <1>1, <1>9 DEF Resolved
  <2> QED
    BY <2>1, <2>2, MeansSame
<1>10. ASSUME top.exp.op # "function", Shadowed, NEW j \in 1..Len(f.bound)
       PROVE  Means(frames, Len(frames) - 1, f.bound[j].name, f.bound[j].old)
  <2>1. Len(frames) > 1
    BY <1>1, <1>10, TopRecord
  <2>2. Len(frames) \in 2..Len(frames)
    BY <1>2, <2>1
  <2> QED
    BY <1>2, <1>4, <1>10, <2>2 DEF Shadowed
<1> QED
  BY <1>1, <1>4, <1>5, <1>7, <1>8, <1>9, <1>10, LexReplaced

(* An operand that binds a name: it has not been bound in this activation. *)
LEMMA LexBinding ==
  Inv /\ LexInv /\ NamesOnce /\ OperandReturned /\ Binds(top.exp, top.i + 1) => LexInv'
<1> SUFFICES ASSUME Inv, LexInv, NamesOnce, OperandReturned, Binds(top.exp, top.i + 1)
             PROVE  LexInv'
  OBVIOUS
<1> DEFINE i == top.i + 1
           x == BoundName(top.exp, i)
           a == Alloca(allocas + 1)
           b == [name |-> x, alloca |-> a, old |-> NamedValues[x]]
           f == [top EXCEPT !.i = i, !.failed = top.failed \/ ~val]
           g == [f EXCEPT !.bound = Append(top.bound, b)]
           n == Len(frames) - 1
<1>1. pc = "leave" /\ Continues /\ pc' = "operands" /\ top.exp.op \in {"for", "varin"}
  BY DEF OperandReturned, Binds
<1>2. /\ top \in Record /\ Len(frames) \in Nat \ {0} /\ top = frames[Len(frames)]
      /\ Len(frames) \in 1..Len(frames) /\ top.i < Len(top.exp.sub) /\ top.exp.sub \in Seq(Exp)
      /\ Len(frames) > 1 /\ top.exp \in Exp
  BY <1>1, TopRecord
<1>3. /\ top.i \in Nat /\ top.bound \in Seq(Binding) /\ Len(top.bound) \in Nat /\ InStep(top)
  BY <1>1, <1>2, TopBindings DEF Record
<1>4. n \in Nat \ {0} /\ Len(frames) = n + 1 /\ Len(frames) \in 2..Len(frames)
  BY <1>2
<1>5. f \in Record /\ f.exp = top.exp /\ f.i = i /\ f.bound = top.bound
  <2>1. (top.failed \/ ~val) \in BOOLEAN
    OBVIOUS
  <2> QED
    BY <1>2, <2>1, NextOperandRecord
<1>6. f.failed = (top.failed \/ ~val)
  BY <1>2 DEF Record
<1>7. x \in Name
  <2>1. IsExp(top.exp)
    BY <1>2, ExpAssumption
  <2>2. CASE top.exp.op = "for"
    BY <2>1, <2>2 DEF IsExp, BoundName
  <2>3. CASE top.exp.op = "varin"
    <3>1. top.exp.names \in Seq(Name) /\ i <= Len(top.exp.names)
      BY <2>1, <2>3 DEF IsExp, Binds
    <3>2. i \in 1..Len(top.exp.names)
      BY <1>3, <3>1
    <3>3. top.exp.names[i] \in Name
      BY <3>1, <3>2
    <3> QED
      BY <2>3, <3>3 DEF BoundName
  <2> QED
    BY <1>1, <2>2, <2>3
<1>8. a \in Values /\ NamedValues[x] \in Values
  BY <1>7 DEF Alloca, Values, Inv, Types
<1>9. b \in Binding /\ b.name = x /\ b.alloca = a /\ b.old = NamedValues[x]
  BY <1>7, <1>8 DEF Binding, Values
<1>10. frames' = WithTop(g) /\ NamedValues' = [NamedValues EXCEPT ![x] = a]
  <2>1. g = [f EXCEPT !.bound = Append(@, b)]
    BY <1>5
  <2> QED
    BY <2>1 DEF OperandReturned
<1> HIDE DEF b, a, x, n, top
<1>11. Append(top.bound, b) \in Seq(Binding)
  BY <1>3, <1>9
<1>12. /\ g \in Record /\ g.exp = top.exp /\ g.i = i /\ g.bound = Append(top.bound, b)
       /\ g.failed = (top.failed \/ ~val)
  BY <1>5, <1>6, <1>11 DEF Record
<1>13. g.i <= Len(top.exp.sub)
  BY <1>2, <1>3, <1>12
<1> HIDE DEF f, g
<1>14. /\ Len(frames') = Len(frames)
       /\ \A k \in 1..Len(frames) : frames'[k] = IF k = Len(frames) THEN g ELSE frames[k]
  BY <1>1, <1>10, <1>12, <1>13, ReplacedStack
(* Every operand before it was bound as well. *)
<1>15. Len(top.bound) = top.i
  <2>1. CASE top.i = 0
    BY <1>3, <2>1 DEF InStep
  <2>2. CASE top.i # 0
    <3>1. top.i \in 1..top.i
      BY <1>3, <2>2
    <3>2. Binds(top.exp, top.i)
      <4>1. top.exp.op = "varin" /\ top.i + 1 <= Len(top.exp.names)
        BY <1>3, <2>2 DEF Binds
      <4>2. Len(top.exp.names) \in Nat
        BY <1>2, <4>1, ExpAssumption DEF IsExp
      <4> QED
        BY <1>3, <4>1, <4>2 DEF Binds
    <3>3. top.i <= Len(top.bound) /\ Len(top.bound) <= top.i
      BY <1>3, <3>1, <3>2 DEF InStep
    <3> QED
      BY <1>3, <3>3
  <2> QED
    BY <2>1, <2>2
<1>16. /\ Len(g.bound) = top.i + 1 /\ g.bound[i] = b
       /\ \A j \in 1..top.i : g.bound[j] = top.bound[j]
       /\ \A j \in 1..(top.i + 1) : j \in 1..top.i \/ j = top.i + 1
  BY <1>3, <1>12, <1>15
<1>17. InStep(g)
  <2>1. ASSUME NEW j \in 1..Len(g.bound)
        PROVE  Binds(g.exp, j) /\ g.bound[j].name = BoundName(g.exp, j)
    <3>1. CASE j \in 1..top.i
      BY <1>3, <1>12, <1>15, <1>16, <3>1 DEF InStep
    <3>2. CASE j = top.i + 1
      BY <1>9, <1>12, <1>16, <3>2 DEF x
    <3> QED
      BY <1>16, <2>1, <3>1, <3>2
  <2> QED
    BY <1>3, <1>12, <1>16, <2>1 DEF InStep
<1>18. Unbound(top.bound, x)
  <2> SUFFICES ASSUME NEW j \in 1..Len(top.bound), top.bound[j].name = x PROVE FALSE
    BY DEF Unbound
  <2>1. /\ j \in 1..top.i /\ BoundName(top.exp, j) = BoundName(top.exp, i)
    BY <1>3, <1>15 DEF InStep, x
  <2>2. top.exp.op = "varin" /\ i <= Len(top.exp.names)
    BY <1>1, <1>3, <2>1 DEF Binds
  <2>3. top.exp.names \in Seq(Name) /\ Len(top.exp.names) \in Nat
    BY <1>2, <2>2, ExpAssumption DEF IsExp
  <2>4. i \in 1..Len(top.exp.names) /\ j \in 1..Len(top.exp.names) /\ j # i
    BY <1>3, <2>1, <2>2, <2>3
  <2>5. top.exp.names[j] = top.exp.names[i]
    BY <2>1, <2>2 DEF BoundName
  <2> QED
    BY <1>2, <2>2, <2>4, <2>5 DEF NamesOnce
<1>19. ASSUME Resolved PROVE Means(frames, n, x, NamedValues[x])
  <2>1. Means(frames, n + 1, x, NamedValues[x])
    BY <1>4, <1>7, <1>19 DEF Resolved
  <2>2. Unbound(frames[n + 1].bound, x)
    BY <1>2, <1>4, <1>18
  <2> QED
    BY <1>4, <2>1, <2>2, MeansLess
<1>20. ASSUME NEW y \in Name, Resolved PROVE Means(frames', Len(frames), y, NamedValues'[y])
  <2>1. frames'[Len(frames)].bound = g.bound
    BY <1>2, <1>14
  <2>2. CASE y = x
    <3>1. i \in 1..Len(g.bound) /\ LastOf(g.bound, x, i)
      BY <1>3, <1>9, <1>16 DEF LastOf
    <3>2. NamedValues'[x] = g.bound[i].alloca
      BY <1>7, <1>9, <1>10, <1>16 DEF Inv, Types
    <3>3. Means(frames', Len(frames), x, frames'[Len(frames)].bound[i].alloca)
      BY <1>2, <2>1, <3>1, MeansNew
    <3> QED
      BY <2>1, <2>2, <3>2, <3>3
  <2>3. CASE y # x
    <3>1. NamedValues'[y] = NamedValues[y]
      BY <1>10, <2>3 DEF Inv, Types
    <3>2. Means(frames, Len(frames), y, NamedValues[y])
      BY <1>20 DEF Resolved
    <3>3. /\ \A k \in 1..Len(frames) : k # Len(frames) => frames'[k].bound = frames[k].bound
          /\ frames[Len(frames)].bound \in Seq(Binding)
          /\ frames'[Len(frames)].bound = Append(frames[Len(frames)].bound, b)
      BY <1>2, <1>3, <1>12, <1>14, <2>1
    <3>4. Means(frames', Len(frames), y, NamedValues[y])
      BY <1>2, <1>9, <2>3, <3>2, <3>3, MeansOther
    <3> QED
      BY <3>1, <3>4
  <2> QED
    BY <2>2, <2>3
<1>21. ASSUME Resolved, Shadowed, NEW j \in 1..Len(g.bound)
       PROVE  Means(frames, Len(frames) - 1, g.bound[j].name, g.bound[j].old)
  <2>1. CASE j = i
    BY <1>9, <1>16, <1>19, <1>21, <2>1 DEF n
  <2>2. CASE j \in 1..top.i
    BY <1>2, <1>4, <1>15, <1>16, <1>21, <2>2 DEF Shadowed
  <2> QED
    BY <1>16, <2>1, <2>2
<1> QED
  BY <1>1, <1>12, <1>14, <1>17, <1>20, <1>21, LexReplaced

LEMMA LexInit == Init => LexInv
BY DEF Init, LexInv

LEMMA LexNext == Inv /\ LexInv /\ NamesOnce /\ [Next]_vars => LexInv'
<1> SUFFICES ASSUME Inv, LexInv, NamesOnce, [Next]_vars PROVE LexInv'
  OBVIOUS
<1>1. CASE Statements
  <2>1. CASE HandleDefinition
    BY <2>1, LexStart
  <2>2. CASE HandleExtern \/ RefuseDefinition \/ KeepFunction \/ FailDefinition
    BY <2>2 DEF HandleExtern, RefuseDefinition, KeepFunction, FailDefinition, NextStatement, LexInv
  <2> QED
    BY <1>1, <2>1, <2>2 DEF Statements
<1>2. CASE CodegenLeaf \/ NextOperand
  <2>1. pc # "top" /\ pc # "leave" /\ frames' = frames /\ NamedValues' = NamedValues
    BY <1>2 DEF CodegenLeaf, NextOperand
  <2>2. NoFailure' => NoFailure
    BY <2>1 DEF NoFailure
  <2> QED
    BY <2>1, <2>2, LexSame
<1>3. CASE CodegenNode
  BY <1>3, LexEnter
<1>4. CASE OperandReturned
  BY <1>4, LexOperand, LexBinding
<1>5. CASE EndScope
  BY <1>5, LexScope
<1>6. CASE OperandFailed \/ EndPlain \/ EndBinary \/ EndAssignment
  BY <1>6, LexEnds
<1>7. CASE UNCHANGED vars
  BY <1>7, LexSame DEF vars, NoFailure
<1> QED
  BY <1>1, <1>2, <1>3, <1>4, <1>5, <1>6, <1>7 DEF Next, Expressions, Terminated

-----------------------------------------------------------------------------
(* Where the activations bind a name, and what Innermost chooses. *)
LEMMA MeansInnermost ==
  ASSUME Len(frames) \in Nat, \A k \in 1..Len(frames) : Len(frames[k].bound) \in Nat,
         NEW x, NEW v, Means(frames, Len(frames), x, v)
  PROVE  v = IF BindingsOf(x) = {} THEN NoAlloca ELSE Innermost(x)
<1>1. \A k, j : <<k, j>> \in BindingsOf(x) <=>
         k \in 1..Len(frames) /\ j \in 1..Len(frames[k].bound) /\ frames[k].bound[j].name = x
  BY DEF BindingsOf
<1>2. \A p \in BindingsOf(x) : p = <<p[1], p[2]>>
  BY DEF BindingsOf
<1>3. CASE v = NoAlloca /\ \A k \in 1..Len(frames) : Unbound(frames[k].bound, x)
  <2>1. BindingsOf(x) = {}
    BY <1>3 DEF BindingsOf, Unbound
  <2> QED
    BY <1>3, <2>1
<1>4. CASE \E k \in 1..Len(frames) : \E j \in 1..Len(frames[k].bound) :
             /\ LastOf(frames[k].bound, x, j) /\ v = frames[k].bound[j].alloca
             /\ \A l \in 1..Len(frames) : l > k => Unbound(frames[l].bound, x)
  <2>1. PICK k \in 1..Len(frames) : \E j \in 1..Len(frames[k].bound) :
             /\ LastOf(frames[k].bound, x, j) /\ v = frames[k].bound[j].alloca
             /\ \A l \in 1..Len(frames) : l > k => Unbound(frames[l].bound, x)
    BY <1>4
  <2>2. PICK j \in 1..Len(frames[k].bound) :
             /\ LastOf(frames[k].bound, x, j) /\ v = frames[k].bound[j].alloca
             /\ \A l \in 1..Len(frames) : l > k => Unbound(frames[l].bound, x)
    BY <2>1
  <2> DEFINE Greatest(p) == \A q \in BindingsOf(x) : q[1] < p[1] \/ (q[1] = p[1] /\ q[2] <= p[2])
             at == CHOOSE p \in BindingsOf(x) : Greatest(p)
  <2>3. <<k, j>> \in BindingsOf(x)
    BY <1>1, <2>2 DEF LastOf
  <2>4. Greatest(<<k, j>>)
    <3> SUFFICES ASSUME NEW q \in BindingsOf(x) PROVE q[1] < k \/ (q[1] = k /\ q[2] <= j)
      OBVIOUS
    <3>1. /\ q[1] \in 1..Len(frames) /\ q[2] \in 1..Len(frames[q[1]].bound)
          /\ frames[q[1]].bound[q[2]].name = x
      BY <1>1, <1>2
    <3>2. ~(q[1] > k)
      BY <2>2, <3>1 DEF Unbound
    <3>3. q[1] = k => ~(q[2] > j)
      BY <2>2, <3>1 DEF LastOf
    <3> QED
      BY <3>1, <3>2, <3>3
  <2>5. at \in BindingsOf(x) /\ Greatest(at)
    <3> HIDE DEF Greatest
    <3> QED
      BY <2>3, <2>4
  <2>6. Innermost(x) = frames[at[1]].bound[at[2]].alloca
    BY DEF Innermost
  <2> HIDE DEF at
  <2>7. at[1] \in 1..Len(frames) /\ at[2] \in 1..Len(frames[at[1]].bound)
    BY <1>1, <1>2, <2>5
  <2>8. at[1] < k \/ (at[1] = k /\ at[2] <= j)
    BY <2>4, <2>5
  <2>9. k < at[1] \/ (k = at[1] /\ j <= at[2])
    BY <2>3, <2>5
  <2>10. at[1] = k
    BY <2>7, <2>8, <2>9
  <2>11. at[2] = j
    BY <2>7, <2>8, <2>9, <2>10
  <2> QED
    BY <2>2, <2>3, <2>6, <2>10, <2>11
<1> QED
  BY <1>3, <1>4 DEF Means

(* While nothing has failed, NamedValues has for every name its innermost  *)
(* binding in the for, var and function being compiled (K:971, K:810),     *)
(* whatever the program, as long as no var binds a name twice.             *)
THEOREM DistinctScopesCorrect == Spec => []DistinctScopesAreLexical
<1>1. Inv /\ LexInv => ScopesAreLexical
  <2> SUFFICES ASSUME Inv, LexInv, pc # "top", NoFailure, NEW x \in Name
               PROVE  NamedValues[x] = IF BindingsOf(x) = {} THEN NoAlloca ELSE Innermost(x)
    BY DEF ScopesAreLexical
  <2>1. Len(frames) \in Nat /\ \A k \in 1..Len(frames) : frames[k] \in Record
    BY DEF Inv, Stack
  <2>2. ASSUME NEW k \in 1..Len(frames) PROVE Len(frames[k].bound) \in Nat
    <3>1. frames[k].bound \in Seq(Binding)
      BY <2>1 DEF Record
    <3> QED
      BY <3>1
  <2>3. Means(frames, Len(frames), x, NamedValues[x])
    BY DEF LexInv, Resolved
  <2> QED
    BY <2>1, <2>2, <2>3, MeansInnermost
<1>2. CASE NamesOnce
  <2>1. Inv /\ LexInv /\ [Next]_vars => LexInv'
    BY <1>2, LexNext
  <2>2. Inv /\ LexInv => DistinctScopesAreLexical
    BY <1>1 DEF DistinctScopesAreLexical
  <2> QED
    BY <2>1, <2>2, LexInit, InvAlways, PTL DEF Spec
<1>3. CASE ~NamesOnce
  <2>1. DistinctScopesAreLexical
    BY <1>3 DEF DistinctScopesAreLexical
  <2> QED
    BY <2>1, PTL
<1> QED
  BY <1>2, <1>3
=============================================================================
