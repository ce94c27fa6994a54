------------------------- MODULE KaleidoscopeCodegen -------------------------
(***************************************************************************)
(* The Codegen methods of src/kaleidoscope/kaleidoscope.cpp and the loop   *)
(* over top level statements: which definitions make it into the module,   *)
(* what NamedValues holds while their bodies are compiled, and which       *)
(* operators have a precedence.  LLVM's module is the functions it holds,  *)
(* an alloca is known by the statement it was made in and a number; other  *)
(* instructions, the basic blocks and the optimiser are left out.          *)
(*                                                                         *)
(* A call of Codegen is an activation record on `frames'.  It evaluates    *)
(* the operands of its expression one after another and either returns a   *)
(* value or null.                                                          *)
(***************************************************************************)
EXTENDS Integers, Sequences

CONSTANTS
  Name,          \* identifiers of variables
  Operator,      \* operator characters
  FnName,        \* functions: <<"", id>>, <<"unary", op>>, <<"binary", op>>
  Exp,           \* the ASTs, closed under operands
  Programs       \* the sequences of statements

Standard  == [op \in {"=", "<", "+", "-", "*"} |->
                CASE op = "=" -> 2 [] op = "<" -> 10 [] op = "*" -> 40 [] OTHER -> 20]
Builtin   == {"<", "+", "-", "*"}
Anonymous == <<"", "">>

(* An expression: op, the operands sub in the order of evaluation and, by  *)
(* op, name, names, opcode or callee.  An assignment is the binary         *)
(* operator =; its left side lhs is no operand.                            *)
IsExp(e) ==
  /\ e.sub \in Seq(Exp)
  /\ \/ e.op = "num"    /\ e.sub = <<>>
     \/ e.op = "var"    /\ e.sub = <<>> /\ e.name \in Name
     \/ e.op = "unary"  /\ Len(e.sub) = 1 /\ e.opcode \in Operator
     \/ e.op = "binary" /\ Len(e.sub) = 2 /\ e.opcode \in Operator \ {"="}
     \/ e.op = "assign" /\ Len(e.sub) = 1 /\ e.lhs \in Exp
     \/ e.op = "call"   /\ e.callee \in FnName
     \/ e.op = "if"     /\ Len(e.sub) = 3
     \/ e.op = "for"    /\ Len(e.sub) = 4 /\ e.name \in Name
     \/ e.op = "varin"  /\ e.names \in Seq(Name) /\ Len(e.sub) = Len(e.names) + 1

(* A statement.  A top level expression is the definition of a function    *)
(* that has no name.                                                       *)
Statement == [kind : {"def", "extern"}, fn : FnName, args : Seq(Name), prec : Nat, body : Exp]

ASSUME ExpAssumption == \A e \in Exp : IsExp(e)
ASSUME ProgramAssumption == Programs \subseteq Seq(Statement) \ {<<>>}
ASSUME FnNameAssumption ==
  /\ \A fn \in FnName : fn = <<fn[1], fn[2]>>
  /\ Anonymous \in FnName /\ \A op \in Operator : {<<"unary", op>>, <<"binary", op>>} \subseteq FnName

VARIABLES
  program,       \* the top level statements, fixed
  next,          \* the one being handled
  functions,     \* TheModule: per name the number of arguments and whether
                 \* the function has a body, or NoFunction
  BinopPrecedence, \* 0 for an operator it does not hold
  NamedValues,   \* the alloca of each name in scope
  allocas,       \* allocas made in the function being compiled
  frames,        \* the activation records of Codegen, the running one last
  exp,           \* the expression to compile next
  val,           \* whether the Codegen that returned last gave a value
  pc,            \* "top", "enter", "operands" or "leave"
  status         \* "running", "done", "assert" or "crash"

vars == <<program, next, functions, BinopPrecedence, NamedValues, allocas, frames,
          exp, val, pc, status>>

NoFunction == [args |-> -1, body |-> FALSE]
NoAlloca   == [stmt |-> 0, number |-> 0]

-----------------------------------------------------------------------------
stmt     == program[next]
Running  == status = "running"
top      == frames[Len(frames)]
Exists(fn) == functions[fn] # NoFunction

(* An activation record.  bound: the bindings it has made in NamedValues   *)
(* and what they replaced (OldVal, OldBindings).  failed: the first        *)
(* operand of a binary operator gave no value.                             *)
Activation(e) == [exp |-> e, i |-> 0, bound |-> <<>>, failed |-> FALSE]

Alloca(n) == [stmt |-> next, number |-> n]

Return(ok) == pc' = "leave" /\ val' = ok

Pop == SubSeq(frames, 1, Len(frames) - 1)

WithTop(f) == [frames EXCEPT ![Len(frames)] = f]

NextStatement ==
  /\ next' = next + 1
  /\ pc' = "top"
  /\ status' = IF next = Len(program) THEN "done" ELSE status

-----------------------------------------------------------------------------
(* PrototypeAST::Codegen.  A name that is taken is refused if it has a     *)
(* body or another number of arguments.                                    *)
Refused_OtherArguments ==
  stmt.fn # Anonymous /\ Exists(stmt.fn) /\ functions[stmt.fn].args # Len(stmt.args)

Refused == /\ stmt.fn # Anonymous /\ Exists(stmt.fn)
           /\ \/ functions[stmt.fn].body
              \/ functions[stmt.fn].args # Len(stmt.args)

Declared(body) == IF stmt.fn = Anonymous THEN functions
                  ELSE [functions EXCEPT ![stmt.fn] = [args |-> Len(stmt.args), body |-> body]]

HandleExtern ==
  /\ Running /\ pc = "top" /\ stmt.kind = "extern"
  /\ functions' = IF Refused THEN functions ELSE Declared(FALSE)
  /\ NextStatement
  /\ UNCHANGED <<program, BinopPrecedence, NamedValues, allocas, frames, exp, val>>

(* FunctionAST::Codegen up to the body.  Of two arguments with one name    *)
(* the second is found.                                                    *)
Arguments == [i \in 1..Len(stmt.args) |->
                [name |-> stmt.args[i], alloca |-> Alloca(i), old |-> NoAlloca]]

Cleared == [x \in Name |-> NoAlloca]

Bind(values, bound) ==
  [x \in Name |->
     IF \E i \in 1..Len(bound) : bound[i].name = x
     THEN bound[CHOOSE i \in 1..Len(bound) :
                  bound[i].name = x /\ \A j \in (i + 1)..Len(bound) : bound[j].name # x].alloca
     ELSE values[x]]

Body == [op |-> "function", sub |-> <<stmt.body>>]

StartFunction_NotCleared ==
  /\ functions' = Declared(TRUE)
  /\ BinopPrecedence' = IF stmt.fn[1] = "binary"
                        THEN [BinopPrecedence EXCEPT ![stmt.fn[2]] = stmt.prec]
                        ELSE BinopPrecedence
  /\ NamedValues' = Bind(NamedValues, Arguments)

StartFunction ==
  /\ functions' = Declared(TRUE)
  /\ BinopPrecedence' = IF stmt.fn[1] = "binary"
                        THEN [BinopPrecedence EXCEPT ![stmt.fn[2]] = stmt.prec]
                        ELSE BinopPrecedence
  /\ NamedValues' = Bind(Cleared, Arguments)

HandleDefinition ==
  /\ Running /\ pc = "top" /\ stmt.kind = "def" /\ ~Refused
  /\ StartFunction
  /\ allocas' = Len(stmt.args)
  /\ frames' = <<[Activation(Body) EXCEPT !.bound = Arguments]>>
  /\ pc' = "operands"
  /\ UNCHANGED <<program, next, exp, val, status>>

RefuseDefinition ==
  /\ Running /\ pc = "top" /\ stmt.kind = "def" /\ Refused
  /\ NamedValues' = Cleared
  /\ NextStatement
  /\ UNCHANGED <<program, functions, BinopPrecedence, allocas, frames, exp, val>>

(* The function is finished. *)
KeepFunction ==
  /\ Running /\ pc = "operands" /\ top.exp.op = "function" /\ top.i = 1
  /\ frames' = <<>>
  /\ NextStatement
  /\ UNCHANGED <<program, functions, BinopPrecedence, NamedValues, allocas, exp, val>>

RemoveFunction_KeepsPrecedence ==
  /\ functions' = IF stmt.fn = Anonymous THEN functions
                  ELSE [functions EXCEPT ![stmt.fn] = NoFunction]
  /\ UNCHANGED BinopPrecedence

(* Its body gave no value: it is removed, and the precedence with it. *)
RemoveFunction ==
  /\ functions' = IF stmt.fn = Anonymous THEN functions
                  ELSE [functions EXCEPT ![stmt.fn] = NoFunction]
  /\ BinopPrecedence' = IF stmt.fn[1] = "binary"
                        THEN [BinopPrecedence EXCEPT ![stmt.fn[2]] = 0]
                        ELSE BinopPrecedence

FailDefinition ==
  /\ Running /\ pc = "leave" /\ ~val /\ top.exp.op = "function"
  /\ RemoveFunction
  /\ frames' = <<>>
  /\ NextStatement
  /\ UNCHANGED <<program, NamedValues, allocas, exp, val>>

-----------------------------------------------------------------------------
(* Expressions.  A number, a variable and a call of what is no function of *)
(* that many arguments return at once.                                     *)
Immediate == \/ exp.op \in {"num", "var"}
             \/ /\ exp.op = "call"
                /\ ~Exists(exp.callee) \/ functions[exp.callee].args # Len(exp.sub)

CodegenLeaf ==
  /\ Running /\ pc = "enter" /\ Immediate
  /\ Return(exp.op = "num" \/ (exp.op = "var" /\ NamedValues[exp.name] # NoAlloca))
  /\ UNCHANGED <<program, next, functions, BinopPrecedence, NamedValues, allocas, frames, exp, status>>

CodegenNode ==
  /\ Running /\ pc = "enter" /\ ~Immediate
  /\ frames' = Append(frames, Activation(exp))
  /\ pc' = "operands"
  /\ UNCHANGED <<program, next, functions, BinopPrecedence, NamedValues, allocas, exp, val, status>>

NextOperand ==
  /\ Running /\ pc = "operands" /\ top.i < Len(top.exp.sub)
  /\ exp' = top.exp.sub[top.i + 1]
  /\ pc' = "enter"
  /\ UNCHANGED <<program, next, functions, BinopPrecedence, NamedValues, allocas, frames, val, status>>

(* The name that operand i, once compiled, is bound to: the start value of *)
(* a for and the initialisers of a var.                                    *)
Binds(e, i) == \/ e.op = "for" /\ i = 1
               \/ e.op = "varin" /\ i <= Len(e.names)
BoundName(e, i) == IF e.op = "for" THEN e.name ELSE e.names[i]

(* Both sides of a binary operator are compiled before either is looked    *)
(* at; anywhere else the first operand without a value is the end.         *)
Continues == val \/ (top.exp.op = "binary" /\ top.i = 0)

OperandReturned ==
  /\ Running /\ pc = "leave" /\ Continues
  /\ LET e == top.exp
         i == top.i + 1
         x == BoundName(e, i)
         f == [top EXCEPT !.i = i, !.failed = @ \/ ~val]
     IN  IF Binds(e, i)
         THEN /\ allocas' = allocas + 1
              /\ NamedValues' = [NamedValues EXCEPT ![x] = Alloca(allocas + 1)]
              /\ frames' = WithTop([f EXCEPT !.bound = Append(@,
                   [name |-> x, alloca |-> Alloca(allocas + 1), old |-> NamedValues[x]])])
         ELSE /\ frames' = WithTop(f)
              /\ UNCHANGED <<allocas, NamedValues>>
  /\ pc' = "operands"
  /\ UNCHANGED <<program, next, functions, BinopPrecedence, exp, val, status>>

(* Return null, and leave NamedValues as it is. *)
OperandFailed ==
  /\ Running /\ pc = "leave" /\ ~Continues /\ top.exp.op # "function"
  /\ frames' = Pop
  /\ Return(FALSE)
  /\ UNCHANGED <<program, next, functions, BinopPrecedence, NamedValues, allocas, exp, status>>

Compiled(op) == Running /\ pc = "operands" /\ top.exp.op = op /\ top.i = Len(top.exp.sub)

Restored_Nothing(bound) == NamedValues

(* The bindings are undone in the order in which they were made. *)
Restored(bound) ==
  Bind(NamedValues, [i \in 1..Len(bound) |-> [bound[i] EXCEPT !.alloca = bound[i].old]])

EndScope ==
  /\ Compiled("for") \/ Compiled("varin")
  /\ NamedValues' = Restored(top.bound)
  /\ frames' = Pop
  /\ Return(TRUE)
  /\ UNCHANGED <<program, next, functions, BinopPrecedence, allocas, exp, status>>

EndPlain ==
  /\ Compiled("if") \/ Compiled("call") \/ Compiled("unary")
  /\ frames' = Pop
  /\ Return(top.exp.op = "unary" => Exists(<<"unary", top.exp.opcode>>))
  /\ UNCHANGED <<program, next, functions, BinopPrecedence, NamedValues, allocas, exp, status>>

(* An operator that is neither built in nor defined fails the assertion    *)
(* "binary operator not found!".                                           *)
EndBinary ==
  /\ Compiled("binary")
  /\ IF top.failed \/ top.exp.opcode \in Builtin \/ Exists(<<"binary", top.exp.opcode>>)
     THEN frames' = Pop /\ Return(~top.failed) /\ UNCHANGED status
     ELSE status' = "assert" /\ UNCHANGED <<frames, pc, val>>
  /\ UNCHANGED <<program, next, functions, BinopPrecedence, NamedValues, allocas, exp>>

(* The left side is taken for a VariableExprAST without a look at what it  *)
(* is.  The first member of a CallExprAST and of a ForExprAST is a string  *)
(* as well and stands for the name; that of any other is no string.        *)
Named  == {"var", "for", "call"}
Target == IF top.exp.lhs.op = "call" THEN top.exp.lhs.callee[2] ELSE top.exp.lhs.name

EndAssignment ==
  /\ Compiled("assign")
  /\ \/ /\ frames' = Pop
        /\ Return(top.exp.lhs.op \in Named /\ Target \in Name /\ NamedValues[Target] # NoAlloca)
        /\ UNCHANGED status
     \/ /\ top.exp.lhs.op \notin Named
        /\ status' = "crash"
        /\ UNCHANGED <<frames, pc, val>>
  /\ UNCHANGED <<program, next, functions, BinopPrecedence, NamedValues, allocas, exp>>

-----------------------------------------------------------------------------
Init ==
  /\ program \in Programs
  /\ next = 1
  /\ functions = [fn \in FnName |-> NoFunction]
  /\ BinopPrecedence = [op \in Operator |-> IF op \in DOMAIN Standard THEN Standard[op] ELSE 0]
  /\ NamedValues = Cleared
  /\ allocas = 0
  /\ frames = <<>>
  /\ exp = program[1].body
  /\ val = FALSE
  /\ pc = "top"
  /\ status = "running"

Statements  == HandleExtern \/ HandleDefinition \/ RefuseDefinition \/ KeepFunction \/ FailDefinition
Expressions == \/ CodegenLeaf \/ CodegenNode \/ NextOperand \/ OperandReturned \/ OperandFailed
               \/ EndScope \/ EndPlain \/ EndBinary \/ EndAssignment
Terminated  == ~Running /\ UNCHANGED vars
Next        == Statements \/ Expressions \/ Terminated
Spec        == Init /\ [][Next]_vars

-----------------------------------------------------------------------------
(* Properties *)

Binding == [name : Name, alloca : [stmt : Nat, number : Nat], old : [stmt : Nat, number : Nat]]
(* Every variable has its type, and Codegen is active inside of a          *)
(* statement and only there.                                               *)
TypeOK ==
  /\ next \in Nat /\ (Running => next \in 1..Len(program))
  /\ functions \in [FnName -> [args : Nat, body : BOOLEAN] \cup {NoFunction}]
  /\ BinopPrecedence \in [Operator -> Nat]
  /\ NamedValues \in [Name -> [stmt : Nat, number : Nat]]
  /\ allocas \in Nat
  /\ \A k \in 1..Len(frames) : /\ frames[k].i \in 0..Len(frames[k].exp.sub)
                              /\ frames[k].bound \in Seq(Binding)
                              /\ frames[k].failed \in BOOLEAN
  /\ val \in BOOLEAN
  /\ pc \in {"top", "enter", "operands", "leave"}
  /\ pc = "top" <=> frames = <<>>
  /\ status \in {"running", "done", "assert", "crash"}

(* Where the bindings of x on the stack are, and the innermost one. *)
BindingsOf(x) ==
  UNION {{<<k, j>> : j \in {j \in 1..Len(frames[k].bound) : frames[k].bound[j].name = x}} :
         k \in 1..Len(frames)}

Innermost(x) ==
  LET at == CHOOSE p \in BindingsOf(x) :
              \A q \in BindingsOf(x) : q[1] < p[1] \/ (q[1] = p[1] /\ q[2] <= p[2])
  IN  frames[at[1]].bound[at[2]].alloca

(* No operand of an expression being compiled has failed. *)
NoFailure == /\ pc = "leave" => val
             /\ \A k \in 1..Len(frames) : ~frames[k].failed

(* Names mean what lexical scoping says: while nothing has failed,         *)
(* NamedValues has the innermost binding of every name that an enclosing   *)
(* for, var or the function itself binds, and nothing for any other name.  *)
(* The comments at 971-972 promise it: what a var shadows is remembered    *)
(* "so that we can restore the binding when we unrecurse".                 *)
ScopesAreLexical ==
  pc # "top" /\ NoFailure =>
    \A x \in Name : NamedValues[x] = IF BindingsOf(x) = {} THEN NoAlloca ELSE Innermost(x)

(* They do in programs in which no var binds a name twice. *)
NamesOnce == \A e \in Exp : e.op = "varin" =>
               \A i, j \in 1..Len(e.names) : e.names[i] = e.names[j] => i = j

DistinctScopesAreLexical == NamesOnce => ScopesAreLexical

(* A failure leaves NamedValues as it was deep inside of the expression,   *)
(* and the other side of a binary operator is still compiled with it.      *)
(* Even so no function finds the allocas of another one.                   *)
OwnVariables ==
  pc # "top" => \A x \in Name : NamedValues[x].stmt \in {0, next}

(* An operator that a program has given a precedence is a function of the  *)
(* module, also after definitions that failed or were refused: the         *)
(* assertion "binary operator not found!" is about the others alone.       *)
OperatorsInstalled ==
  \A op \in Operator \ DOMAIN Standard :
    BinopPrecedence[op] > 0 => Exists(<<"binary", op>>)

(* A function that has been compiled is never declared, defined or removed *)
(* again.                                                                  *)
FunctionsKept ==
  [][\A fn \in FnName :
       functions[fn].body /\ (pc = "top" \/ fn # stmt.fn) => functions'[fn] = functions[fn]]_vars

(* The assertion at 770: a binary operator that is compiled is built in or *)
(* defined.                                                                *)
AssertionHolds == status # "assert"
=============================================================================
