--------------------------- MODULE ToyLispCodegen ---------------------------
(***************************************************************************)
(* The code generator of src/toylisp/toylisp.cpp: the Codegen methods call *)
(* each other recursively, so that frames is the C++ stack of the calls    *)
(* under way, and each action is what one of them does between two calls.  *)
(*                                                                         *)
(* LLVM is external: an instruction is its operation with its operands and *)
(* the function it was inserted into, and LLVM is built without its own    *)
(* assertions, so that a wrong operand ends the program in verifyFunction. *)
(***************************************************************************)
EXTENDS Naturals, Sequences, SequencesExt

CONSTANTS Names,     \* the names of functions and variables
          Asts       \* what the parser builds

NoName == <<>>

Kinds == {"number", "variable", "call", "if", "prototype", "function"}

(* What the parser builds has parts that it builds.  A prototype on its    *)
(* own is a foreign one, that of a definition is not.                      *)
ASSUME AstsAssumption ==
  \A a \in Asts :
    /\ a \in [kind: Kinds, name: Names \cup {NoName}, args: Seq(Names),
              foreign: BOOLEAN, parts: Seq(Asts)]
    /\ a.kind = "if" => Len(a.parts) = 3
    /\ a.kind = "function" => Len(a.parts) = 1
    /\ a.kind = "prototype" => a.foreign
    /\ a.kind = "function" => ~a.foreign

VARIABLES module, env, block,    \* the functions, the variables, the insert point
          code,                  \* the instructions, in the order of their insertion
          phase, node, value,    \* what Codegen is doing, the AST it visits, its value
          frames                 \* the Codegen calls that wait for that value

cenv    == <<module, env, block, code>>
control == <<phase, node, value, frames>>

Value(op, fn, nr) == [op |-> op, fn |-> fn, nr |-> nr]
Const         == Value("const", 0, 0)
Argument(f,i) == Value("arg", f, i)
FunctionAt(f) == Value("function", f, 0)
Instr(n)      == Value("instr", 0, n)

(* A definition without a name around an expression: what repl compiles.   *)
Anonymous(ast) == [kind |-> "function", name |-> NoName, args |-> <<>>,
                   foreign |-> FALSE, parts |-> <<ast>>]

evaluatable(ast) == ast.kind \notin {"prototype", "function"}

Start(ast) == /\ phase' = "visit"
              /\ node' = IF evaluatable(ast) THEN Anonymous(ast) ELSE ast
              /\ UNCHANGED <<value, frames, cenv>>

top == Last(frames)

(* home is the definition whose body holds the AST.                        *)
Frame(fn, home) == [ast |-> node, fn |-> fn, home |-> home, values |-> <<>>, parent |-> 0]

Visit(kind) == phase = "visit" /\ node.kind = kind

Return(v) == phase' = "return" /\ value' = v /\ UNCHANGED node
Throw     == phase' = "throw" /\ UNCHANGED <<node, value>>

-----------------------------------------------------------------------------
(* Numbers, variables and calls *)

(* An instruction goes to the block the builder is at, which may be one of *)
(* a function that was finished before: late.  For whom it was made (ast)  *)
(* is not stored in the program.                                           *)
Insert(op, fn, operands) ==
  /\ code' = Append(code, [op |-> op, fn |-> fn, operands |-> operands, in |-> block,
                           late |-> module[block].state = "finished", ast |-> top.ast])
  /\ UNCHANGED <<module, env>>

Inserted == Instr(Len(code) + 1)

VisitNumber == /\ Visit("number")
               /\ Return(Const)
               /\ UNCHANGED <<frames, cenv>>

VisitVariable == /\ Visit("variable") /\ node.name \in DOMAIN env
                 /\ Return(env[node.name])
                 /\ UNCHANGED <<frames, cenv>>

VisitUndefined == /\ Visit("variable") /\ node.name \notin DOMAIN env
                  /\ Throw
                  /\ UNCHANGED <<frames, cenv>>

Named(name) == {f \in DOMAIN module : module[f].name = name /\ module[f].state # "erased"}

Takes_Any(f, n) == TRUE \* arg_size() is not compared
Takes(f, n) == Len(module[f].args) = n

VisitCall == /\ Visit("call")
             /\ \E f \in Named(node.name) :
                  /\ Takes(f, Len(node.parts))
                  /\ frames' = Append(frames, Frame(f, top.home))
             /\ phase' = "next"
             /\ UNCHANGED <<node, value, cenv>>

VisitWrongCall == /\ Visit("call")
                  /\ \A f \in Named(node.name) : ~Takes(f, Len(node.parts))
                  /\ Throw
                  /\ UNCHANGED <<frames, cenv>>

(* The parts of a call and of an if are compiled from the left.            *)
Waiting == Len(top.values) < Len(top.ast.parts)
Awaited == top.ast.parts[Len(top.values) + 1]

NextPart == /\ phase = "next" /\ Waiting
            /\ phase' = "visit" /\ node' = Awaited
            /\ UNCHANGED <<value, frames, cenv>>

Got(v, parent) == frames' = [frames EXCEPT ![Len(frames)].values = Append(@, v),
                                           ![Len(frames)].parent = parent]

ReturnToCall == /\ phase = "return" /\ frames # <<>> /\ top.ast.kind = "call"
                /\ Got(value, 0)
                /\ phase' = "next"
                /\ UNCHANGED <<node, value, cenv>>

FinishCall == /\ phase = "next" /\ top.ast.kind = "call" /\ ~Waiting
              /\ Insert("call", top.fn, top.values)
              /\ Return(Inserted)
              /\ frames' = Front(frames)
              /\ UNCHANGED block

-----------------------------------------------------------------------------
(* If: parent is the function that the condition was compiled into; both   *)
(* branches, and what follows them, begin with a block of it.              *)

VisitIf == /\ Visit("if")
           /\ frames' = Append(frames, Frame(0, top.home))
           /\ phase' = "next"
           /\ UNCHANGED <<node, value, cenv>>

ReturnToCondition ==
  /\ phase = "return" /\ frames # <<>> /\ top.ast.kind = "if" /\ top.values = <<>>
  /\ Insert("test", 0, <<value>>)
  /\ Got(Inserted, block)
  /\ phase' = "next"
  /\ UNCHANGED <<node, value, block>>

ReturnToBranch ==
  /\ phase = "return" /\ frames # <<>> /\ top.ast.kind = "if" /\ top.values # <<>>
  /\ Got(value, top.parent)
  /\ block' = top.parent
  /\ phase' = "next"
  /\ UNCHANGED <<node, value, module, env, code>>

FinishIf == /\ phase = "next" /\ top.ast.kind = "if" /\ ~Waiting
            /\ Insert("phi", 0, top.values)
            /\ Return(Inserted)
            /\ frames' = Front(frames)
            /\ UNCHANGED block

-----------------------------------------------------------------------------
(* Prototypes and definitions *)

(* What a prototype makes: a new Function, or the one of that name unless  *)
(* it has a body or other arguments.                                       *)
Prototyped_Redefines == \* whether there is a body is not asked
  IF node.name = NoName \/ Named(node.name) = {} THEN {Len(module) + 1}
  ELSE {f \in Named(node.name) : Takes(f, Len(node.args))}

Prototyped ==
  IF node.name = NoName \/ Named(node.name) = {} THEN {Len(module) + 1}
  ELSE {f \in Named(node.name) : module[f].state = "declared" /\ Takes(f, Len(node.args))}

(* inside: the definitions that were being compiled when this one began;   *)
(* it is not stored in the program.                                        *)
Funcgen(f, state, inside) ==
  module' = [g \in DOMAIN module \cup {f} |->
               IF g # f THEN module[g]
               ELSE [name |-> node.name, args |-> node.args, state |-> state,
                     foreign |-> IF f \in DOMAIN module THEN module[f].foreign ELSE node.foreign,
                     inside |-> inside, body |-> node, value |-> Const]]

LastAt(s, x) == CHOOSE i \in DOMAIN s : s[i] = x /\ \A j \in i + 1 .. Len(s) : s[j] # x

(* The arguments become variables; of a name given twice the last counts.  *)
Bind(f, variables) ==
  env' = [n \in DOMAIN variables \cup ToSet(node.args) |->
            IF n \in ToSet(node.args) THEN Argument(f, LastAt(node.args, n)) ELSE variables[n]]

VisitPrototype == /\ Visit("prototype")
                  /\ \E f \in Prototyped : /\ Funcgen(f, "declared", {})
                                           /\ Bind(f, env)
                                           /\ Return(FunctionAt(f))
                  /\ UNCHANGED <<frames, block, code>>

Cleared_Not == env
Cleared == <<>>

Begun == {f \in DOMAIN module : module[f].state = "begun"}

VisitFunction == /\ Visit("function")
                 /\ \E f \in Prototyped : /\ Funcgen(f, "begun", Begun)
                                          /\ Bind(f, Cleared)
                                          /\ block' = f
                                          /\ frames' = Append(frames, Frame(f, f))
                 /\ node' = node.parts[1]
                 /\ UNCHANGED <<phase, value, code>>

VisitRedefined == /\ Visit("prototype") \/ Visit("function")
                  /\ Prototyped = {}
                  /\ Throw
                  /\ env' = IF node.kind = "function" THEN Cleared ELSE env
                  /\ UNCHANGED <<frames, module, block, code>>

(* verifyFunction: every operand in f is a number of f, and the block that *)
(* the return instruction was added to is one of f.                        *)
NumberOf(f, v) == \/ v.op = "const"
                  \/ v.op = "arg" /\ v.fn = f
                  \/ v.op = "instr" /\ code[v.nr].in = f

Verified(f) == /\ block = f
               /\ NumberOf(f, value)
               /\ \A n \in DOMAIN code : code[n].in = f =>
                    \A i \in DOMAIN code[n].operands : NumberOf(f, code[n].operands[i])

ReturnToFunction ==
  /\ phase = "return" /\ frames # <<>> /\ top.ast.kind = "function"
  /\ Verified(top.fn)
  /\ module' = [module EXCEPT ![top.fn].state = "finished", ![top.fn].value = value]
  /\ Return(FunctionAt(top.fn))
  /\ frames' = Front(frames)
  /\ UNCHANGED <<env, block, code>>

Abort == /\ phase = "return" /\ frames # <<>> /\ top.ast.kind = "function"
         /\ ~Verified(top.fn)
         /\ phase' = "abort"
         /\ UNCHANGED <<node, value, frames, cenv>>

(* A SyntaxError goes through the calls; each definition catches it to     *)
(* erase its function, and throws it again.                                *)
Unwind == /\ phase = "throw" /\ frames # <<>>
          /\ module' = IF top.ast.kind = "function"
                       THEN [module EXCEPT ![top.fn].state = "erased"] ELSE module
          /\ frames' = Front(frames)
          /\ UNCHANGED <<phase, node, value, env, block, code>>

Codegen == \/ VisitNumber \/ VisitVariable \/ VisitUndefined
           \/ VisitCall \/ VisitWrongCall \/ NextPart \/ ReturnToCall \/ FinishCall
           \/ VisitIf \/ ReturnToCondition \/ ReturnToBranch \/ FinishIf
           \/ VisitPrototype \/ VisitFunction \/ VisitRedefined
           \/ ReturnToFunction \/ Abort \/ Unwind

-----------------------------------------------------------------------------
(* Properties *)

Finished == {f \in DOMAIN module : module[f].state = "finished"}

(* The instructions that were in f when it was verified.                   *)
CodeOf(f) == {n \in DOMAIN code : code[n].in = f /\ ~code[n].late}

Callees(f) == {code[n].fn : n \in {m \in CodeOf(f) : code[m].op = "call"}}

(* v is what ast computes in f, as far as v itself tells: if it is an      *)
(* instruction, that one was made for ast.                                 *)
Translates(f, ast, v) ==
  CASE ast.kind = "number"   -> v = Const
    [] ast.kind = "variable" -> /\ ast.name \in ToSet(module[f].args)
                                /\ v = Argument(f, LastAt(module[f].args, ast.name))
    [] ast.kind = "call"     -> /\ v.op = "instr" /\ v.nr \in CodeOf(f)
                                /\ code[v.nr].op = "call" /\ code[v.nr].ast = ast
    [] ast.kind = "if"       -> /\ v.op = "instr" /\ v.nr \in CodeOf(f)
                                /\ code[v.nr].op = "phi" /\ code[v.nr].ast = ast
    [] OTHER -> FALSE

CallMeans(f, c) == /\ module[c.fn].name = c.ast.name
                   /\ Len(module[c.fn].args) = Len(c.ast.parts)
                   /\ Len(c.operands) = Len(c.ast.parts)
                   /\ \A i \in DOMAIN c.operands : Translates(f, c.ast.parts[i], c.operands[i])

TestMeans(f, c) == /\ Len(c.operands) = 1
                   /\ Translates(f, c.ast.parts[1], c.operands[1])

PhiMeans(f, c) == /\ Len(c.operands) = 3
                  /\ c.operands[1].op = "instr" /\ c.operands[1].nr \in CodeOf(f)
                  /\ LET test == code[c.operands[1].nr]
                     IN  test.op = "test" /\ test.ast = c.ast
                  /\ \A i \in {2, 3} : Translates(f, c.ast.parts[i], c.operands[i])

FunctionMeans(f) ==
  /\ Translates(f, module[f].body.parts[1], module[f].value)
  /\ \A n \in CodeOf(f) :
       /\ \A i \in DOMAIN code[n].operands :
            code[n].operands[i].op = "instr" => code[n].operands[i].nr < n
       /\ code[n].op = "call" => CallMeans(f, code[n])
       /\ code[n].op = "test" => TestMeans(f, code[n])
       /\ code[n].op = "phi"  => PhiMeans(f, code[n])

(* A function that passed verifyFunction computes what its definition says: *)
(* each instruction was made for a part of the body and its operands for   *)
(* the parts of that, each is older than those that use it, each name is   *)
(* the argument of that name (the last, if there are several) of this      *)
(* function and no other, each call goes to a function of the name written *)
(* there with as many arguments, and the body holds no other definition.   *)
(* Argument names of externs, of failed definitions and of definitions     *)
(* nested in it are in the same env (toylisp.cpp:441).                     *)
(*   Code is added to a function that was verified only if its definition  *)
(* stands inside of another one, where it moves the insert point           *)
(* (toylisp.cpp:459); nothing moves it back.                               *)
FunctionsMean ==
  /\ \A f \in Finished : FunctionMeans(f)
  /\ \A n \in DOMAIN code : code[n].late => module[code[n].in].inside # {}

(* What a finished function calls stays in the module.  There are two      *)
(* exceptions, and eraseFromParent (toylisp.cpp:468) takes a function away *)
(* from those who call it in no other case: a definition fails for which   *)
(* there was a foreign declaration, or one that was nested in a definition *)
(* calls that definition, which fails afterwards.                          *)
CallsStand == \A f \in Finished : \A g \in Callees(f) :
                module[g].state = "erased" => module[g].foreign \/ g \in module[f].inside

=============================================================================
