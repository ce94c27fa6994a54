--------------------------- MODULE ToyLispProofs ---------------------------
(***************************************************************************)
(* The properties of ToyLispCodegen, for every set of names and ASTs and   *)
(* every text.                                                             *)
(***************************************************************************)
EXTENDS ToyLisp, WellFoundedInduction, TLAPS

AllAsts == Asts \cup {Anonymous(a) : a \in Asts}

Values       == [op: {"const", "arg", "function", "instr"}, fn: Nat, nr: Nat]
Functions    == [name: Names \cup {NoName}, args: Seq(Names),
                 state: {"declared", "begun", "finished", "erased"}, foreign: BOOLEAN,
                 inside: SUBSET Nat, body: AllAsts, value: Values]
Instructions == [op: {"call", "test", "phi"}, fn: Nat, operands: Seq(Values), in: Nat,
                 late: BOOLEAN, ast: AllAsts]
Frames       == [ast: AllAsts, fn: Nat, home: Nat, values: Seq(Values), parent: Nat]

TypeOK == /\ module \in Seq(Functions)
          /\ code \in Seq(Instructions)
          /\ frames \in Seq(Frames)
          /\ value \in Values
          /\ block \in Nat
          /\ phase \in {"idle", "visit", "next", "return", "throw", "abort"}
          /\ phase = "visit" => node \in AllAsts
          /\ pc \in {"read", "eval"} => phase = "idle"

(* The definitions that a function was begun in are the ones that were     *)
(* under way then, and as long as it is, they are.                         *)
InsideOK ==
  \A f \in DOMAIN module :
    /\ module[f].state = "declared" => module[f].foreign
    /\ module[f].state = "begun" => module[f].inside \subseteq Begun
    /\ f \notin module[f].inside
    /\ \A g \in module[f].inside :
         /\ g \in DOMAIN module /\ module[g].state # "declared"
         /\ f \notin module[g].inside
         /\ module[g].inside \subseteq module[f].inside

(* v is what was made for ast in the definition f: a number of f is the    *)
(* right one.                                                              *)
Made(f, ast, v) ==
  /\ ast.kind = "number" => v = Const
  /\ ast.kind = "variable" =>
       /\ v.op = "arg"
       /\ v.fn = f => /\ ast.name \in ToSet(module[f].args)
                      /\ v = Argument(f, LastAt(module[f].args, ast.name))
  /\ ast.kind = "call" => /\ v.op = "instr" /\ v.nr \in DOMAIN code
                          /\ code[v.nr].op = "call" /\ code[v.nr].ast = ast
  /\ ast.kind = "if" => /\ v.op = "instr" /\ v.nr \in DOMAIN code
                        /\ code[v.nr].op = "phi" /\ code[v.nr].ast = ast
  /\ ast.kind \in {"prototype", "function"} => v.op = "function"

TestOf(ast, v) == /\ v.op = "instr" /\ v.nr \in DOMAIN code
                  /\ code[v.nr].op = "test" /\ code[v.nr].ast = ast

(* The insert point is in the definition under way, or in one that was     *)
(* nested in it and is finished.                                           *)
PointOK(f, b) == \/ b = f
                 \/ b \in Finished /\ f \in module[b].inside

(* If g is erased while f is a function of the module, g is foreign or f   *)
(* was nested in it.                                                       *)
Stands(f, g) == /\ g \in DOMAIN module
                /\ g \in Finished \/ module[g].foreign \/ g = f \/ g \in module[f].inside

Calls(c, fn) == /\ fn \in DOMAIN module
                /\ module[fn].name = c.name
                /\ Len(module[fn].args) = Len(c.parts)

PartsMade(f, ast, values) ==
  \A k \in DOMAIN values : Made(f, ast.parts[k], values[k])

BranchesMade(f, ast, values) ==
  /\ values # <<>> => TestOf(ast, values[1])
  /\ \A k \in DOMAIN values : k # 1 => Made(f, ast.parts[k], values[k])

FrameOK(r) ==
  /\ r.home \in Begun
  /\ r.ast.kind \in {"call", "if", "function"}
  /\ Len(r.values) <= Len(r.ast.parts)
  /\ r.ast.kind = "function" => /\ r.fn = r.home /\ module[r.home].body = r.ast
                                /\ r.values = <<>>
  /\ r.ast.kind = "call" => /\ Calls(r.ast, r.fn) /\ Stands(r.home, r.fn)
                            /\ PartsMade(r.home, r.ast, r.values)
  /\ r.ast.kind = "if" => /\ r.values # <<>> => PointOK(r.home, r.parent)
                          /\ BranchesMade(r.home, r.ast, r.values)

FramesOK == /\ \A i \in DOMAIN frames : FrameOK(frames[i])
            /\ frames # <<>> => frames[1].ast.kind = "function"

(* The frames of a definition stand together, above those of the           *)
(* definitions it is nested in.                                            *)
NestedOK ==
  /\ \A i, j \in DOMAIN frames : i < j =>
       \/ frames[i].home \in module[frames[j].home].inside
       \/ frames[i].home = frames[j].home /\ frames[j].ast.kind # "function"
  /\ \A f \in Begun : \E i \in DOMAIN frames : frames[i].ast.kind = "function" /\ frames[i].home = f

(* Each frame waits for the part that the one above it was pushed for.     *)
WaitsFor(r, q) == /\ Len(r.values) < Len(r.ast.parts)
                  /\ q.ast = r.ast.parts[Len(r.values) + 1]
                  /\ q.ast.kind # "function" => q.home = r.home

WaitingOK == \A i, j \in DOMAIN frames : j = i + 1 => WaitsFor(frames[i], frames[j])

EnvOK == \A n \in DOMAIN env :
           LET v == env[n]
           IN  /\ v.op = "arg" /\ v \in Values /\ v.fn \in DOMAIN module
               /\ module[v.fn].state # "declared" =>
                    /\ n \in ToSet(module[v.fn].args)
                    /\ v = Argument(v.fn, LastAt(module[v.fn].args, n))

InstructionOK(n, c) ==
  /\ c.in \in DOMAIN module /\ module[c.in].state # "declared"
  /\ c.late => c.in \in Finished /\ module[c.in].inside # {}
  /\ \A i \in DOMAIN c.operands : c.operands[i].op = "instr" => c.operands[i].nr \in 1 .. n - 1
  /\ c.op = "call" => /\ c.ast.kind = "call"
                      /\ Calls(c.ast, c.fn) /\ Stands(c.in, c.fn)
                      /\ Len(c.operands) = Len(c.ast.parts)
                      /\ ~c.late => PartsMade(c.in, c.ast, c.operands)
  /\ c.op = "test" => /\ c.ast.kind = "if" /\ Len(c.operands) = 1
                      /\ ~c.late => Made(c.in, c.ast.parts[1], c.operands[1])
  /\ c.op = "phi" => /\ c.ast.kind = "if" /\ Len(c.operands) = 3
                     /\ ~c.late => BranchesMade(c.in, c.ast, c.operands)

CodeOK == \A n \in DOMAIN code : InstructionOK(n, code[n])

(* What is visited is the part that the topmost frame waits for.           *)
NowOK == /\ phase = "visit" => IF frames = <<>> THEN ~evaluatable(node)
                               ELSE Waiting /\ node = Awaited
         /\ phase = "return" /\ frames # <<>> => Waiting /\ Made(top.home, Awaited, value)
         /\ phase = "next" => frames # <<>> /\ top.ast.kind # "function"
         /\ phase \in {"visit", "next", "return"} /\ frames # <<>> => PointOK(top.home, block)
         /\ phase = "idle" => frames = <<>>

IInv == /\ TypeOK
        /\ InsideOK
        /\ FramesOK
        /\ NestedOK
        /\ WaitingOK
        /\ EnvOK
        /\ CodeOK
        /\ NowOK
        /\ FunctionsMean

-----------------------------------------------------------------------------
(* Sequences *)

LEMMA Added ==
  ASSUME NEW S, NEW s \in Seq(S), NEW e \in S
  PROVE  LET t == Append(s, e)
         IN  /\ t \in Seq(S) /\ Len(t) = Len(s) + 1 /\ t # <<>>
             /\ DOMAIN t = 1 .. Len(s) + 1 /\ DOMAIN s = 1 .. Len(s)
             /\ t[Len(s) + 1] = e /\ Last(t) = e
             /\ \A k \in 1 .. Len(s) : t[k] = s[k]
  BY DEF Last

LEMMA Removed ==
  ASSUME NEW S, NEW s \in Seq(S), s # <<>>
  PROVE  LET t == Front(s)
         IN  /\ t \in Seq(S) /\ Len(t) = Len(s) - 1
             /\ DOMAIN t = 1 .. Len(s) - 1 /\ DOMAIN s = 1 .. Len(s)
             /\ Len(s) \in Nat \ {0}
             /\ Last(s) \in S /\ Last(s) = s[Len(s)]
             /\ \A k \in 1 .. Len(s) - 1 : t[k] = s[k]
  BY DEF Front, Last

LEMMA Replaced ==
  ASSUME NEW S, NEW s \in Seq(S), s # <<>>, NEW e \in S
  PROVE  LET t == [s EXCEPT ![Len(s)] = e]
         IN  /\ t \in Seq(S) /\ Len(t) = Len(s) /\ t # <<>>
             /\ DOMAIN t = 1 .. Len(s) /\ DOMAIN s = 1 .. Len(s)
             /\ Len(s) \in Nat \ {0}
             /\ Last(t) = e /\ t[Len(s)] = e
             /\ \A k \in 1 .. Len(s) : k # Len(s) => t[k] = s[k]
  BY DEF Last

LEMMA OneIsThere ==
  ASSUME NEW n \in Nat \ {0}
  PROVE  1 \in 1 .. n
OBVIOUS

LEMMA AstTypes ==
  ASSUME NEW a \in AllAsts
  PROVE  /\ a.kind \in Kinds /\ a.name \in Names \cup {NoName} /\ a.args \in Seq(Names)
         /\ a.foreign \in BOOLEAN /\ a.parts \in Seq(Asts)
         /\ a.kind = "if" => Len(a.parts) = 3
         /\ a.kind = "function" => Len(a.parts) = 1
         /\ a.kind = "prototype" => a.foreign
         /\ a.kind = "function" => ~a.foreign
<1>1. CASE a \in Asts
  BY <1>1, AstsAssumption
<1>2. CASE a \notin Asts
  <2>1. PICK b \in Asts : a = Anonymous(b)
    BY <1>2 DEF AllAsts
  <2>2. <<b>> \in Seq(Asts) /\ Len(<<b>>) = 1
    OBVIOUS
  <2>3. /\ a.kind = "function" /\ a.name = NoName /\ a.args = <<>> /\ a.foreign = FALSE
        /\ a.parts = <<b>>
    BY <2>1 DEF Anonymous
  <2>4. <<>> \in Seq(Names)
    OBVIOUS
  <2> QED
    BY <2>2, <2>3, <2>4 DEF Kinds
<1> QED
  BY <1>1, <1>2

-----------------------------------------------------------------------------
(* What a step leaves of the module and of the code. *)

ModuleKept ==
  /\ DOMAIN module \subseteq DOMAIN module'
  /\ \A f \in DOMAIN module :
       /\ module'[f].name = module[f].name
       /\ Len(module'[f].args) = Len(module[f].args)
       /\ module'[f].foreign = module[f].foreign
       /\ module[f].state # "declared" => /\ module'[f].state # "declared"
                                          /\ module'[f].args = module[f].args
                                          /\ module'[f].inside = module[f].inside
                                          /\ module'[f].body = module[f].body
       /\ module[f].state = "finished" => /\ module'[f].state = "finished"
                                          /\ module'[f].value = module[f].value

(* Code that is added to a finished function is late. *)
CodeKept ==
  /\ DOMAIN code \subseteq DOMAIN code'
  /\ \A n \in DOMAIN code : code'[n] = code[n]
  /\ \A n \in DOMAIN code' \ DOMAIN code : code'[n].in \in Finished => code'[n].late

Kept == ModuleKept /\ CodeKept

LEMMA MadeKept ==
  ASSUME Kept, NEW f \in DOMAIN module, module[f].state # "declared",
         NEW ast, NEW v, Made(f, ast, v)
  PROVE  Made(f, ast, v)'
BY DEF Kept, ModuleKept, CodeKept, Made

LEMMA TestKept ==
  ASSUME Kept, NEW ast, NEW v, TestOf(ast, v)
  PROVE  TestOf(ast, v)'
BY DEF Kept, CodeKept, TestOf

LEMMA PointKept ==
  ASSUME Kept, NEW f, NEW b, PointOK(f, b)
  PROVE  PointOK(f, b)'
BY DEF Kept, ModuleKept, PointOK, Finished

LEMMA StandsKept ==
  ASSUME Kept, NEW f \in DOMAIN module, module[f].state # "declared", NEW g, Stands(f, g)
  PROVE  Stands(f, g)'
BY DEF Kept, ModuleKept, Stands, Finished

LEMMA CallsKept ==
  ASSUME Kept, NEW c, NEW fn, Calls(c, fn)
  PROVE  Calls(c, fn)'
BY DEF Kept, ModuleKept, Calls

LEMMA PartsKept ==
  ASSUME Kept, NEW f \in DOMAIN module, module[f].state # "declared",
         NEW ast, NEW values, PartsMade(f, ast, values)
  PROVE  PartsMade(f, ast, values)'
BY MadeKept DEF PartsMade

LEMMA BranchesKept ==
  ASSUME Kept, NEW f \in DOMAIN module, module[f].state # "declared",
         NEW ast, NEW values, BranchesMade(f, ast, values)
  PROVE  BranchesMade(f, ast, values)'
BY MadeKept, TestKept DEF BranchesMade

LEMMA FrameKept ==
  ASSUME Kept, NEW r, FrameOK(r), r.home \in Begun'
  PROVE  FrameOK(r)'
<1>1. r.home \in DOMAIN module /\ module[r.home].state # "declared"
  BY DEF FrameOK, Begun
<1>2. module'[r.home].body = module[r.home].body
  BY <1>1 DEF Kept, ModuleKept
<1>3. r.ast.kind = "call" => /\ Calls(r.ast, r.fn)' /\ Stands(r.home, r.fn)'
                             /\ PartsMade(r.home, r.ast, r.values)'
  BY <1>1, CallsKept, StandsKept, PartsKept DEF FrameOK
<1>4. r.ast.kind = "if" => /\ r.values # <<>> => PointOK(r.home, r.parent)'
                           /\ BranchesMade(r.home, r.ast, r.values)'
  BY <1>1, PointKept, BranchesKept DEF FrameOK
<1> QED
  BY <1>2, <1>3, <1>4 DEF FrameOK

LEMMA InstructionKept ==
  ASSUME Kept, NEW n, NEW c, InstructionOK(n, c)
  PROVE  InstructionOK(n, c)'
<1>1. c.in \in DOMAIN module /\ module[c.in].state # "declared"
  BY DEF InstructionOK
<1>2. /\ c.in \in DOMAIN module' /\ module'[c.in].state # "declared"
      /\ module'[c.in].inside = module[c.in].inside
      /\ c.in \in Finished => c.in \in Finished'
  BY <1>1 DEF Kept, ModuleKept, Finished
<1>3. c.op = "call" => /\ Calls(c.ast, c.fn)' /\ Stands(c.in, c.fn)'
                       /\ ~c.late => PartsMade(c.in, c.ast, c.operands)'
  BY <1>1, CallsKept, StandsKept, PartsKept DEF InstructionOK
<1>4. c.op = "test" /\ ~c.late => Made(c.in, c.ast.parts[1], c.operands[1])'
  BY <1>1, MadeKept DEF InstructionOK
<1>5. c.op = "phi" /\ ~c.late => BranchesMade(c.in, c.ast, c.operands)'
  BY <1>1, BranchesKept DEF InstructionOK
<1> QED
  BY <1>2, <1>3, <1>4, <1>5 DEF InstructionOK

(* A finished function has the same code afterwards, and it means the same. *)
LEMMA CodeOfKept ==
  ASSUME Kept, NEW f \in Finished
  PROVE  CodeOf(f)' = CodeOf(f)
<1>1. ASSUME NEW n \in CodeOf(f) PROVE n \in CodeOf(f)'
  BY <1>1 DEF Kept, CodeKept, CodeOf
<1>2. ASSUME NEW n \in CodeOf(f)' PROVE n \in CodeOf(f)
  BY <1>2 DEF Kept, CodeKept, CodeOf
<1> QED
  BY <1>1, <1>2

LEMMA TranslatesKept ==
  ASSUME Kept, NEW f \in Finished, NEW ast, NEW v, Translates(f, ast, v)
  PROVE  Translates(f, ast, v)'
<1>1. CodeOf(f)' = CodeOf(f) /\ CodeOf(f) \subseteq DOMAIN code
  BY CodeOfKept DEF CodeOf
<1>2. module'[f].args = module[f].args
  BY DEF Kept, ModuleKept, Finished
<1>3. \A n \in CodeOf(f) : code'[n] = code[n]
  BY <1>1 DEF Kept, CodeKept
<1> QED
  BY <1>1, <1>2, <1>3 DEF Translates

LEMMA FunctionMeansKept ==
  ASSUME Kept, CodeOK, NEW f \in Finished, FunctionMeans(f)
  PROVE  FunctionMeans(f)'
<1>1. CodeOf(f)' = CodeOf(f) /\ CodeOf(f) \subseteq DOMAIN code
  BY CodeOfKept DEF CodeOf
<1>2. module'[f].body = module[f].body /\ module'[f].value = module[f].value
  BY DEF Kept, ModuleKept, Finished
<1>4. \A n \in CodeOf(f) : code'[n] = code[n]
  BY <1>1 DEF Kept, CodeKept
<1>5. ASSUME NEW c, CallMeans(f, c), c.fn \in DOMAIN module PROVE CallMeans(f, c)'
  <2>1. module'[c.fn].name = module[c.fn].name /\ Len(module'[c.fn].args) = Len(module[c.fn].args)
    BY <1>5 DEF Kept, ModuleKept
  <2>2. \A i \in DOMAIN c.operands : Translates(f, c.ast.parts[i], c.operands[i])'
    BY <1>5, TranslatesKept DEF CallMeans
  <2> QED
    BY <1>5, <2>1, <2>2 DEF CallMeans
<1>6. ASSUME NEW c, TestMeans(f, c) PROVE TestMeans(f, c)'
  BY <1>6, TranslatesKept DEF TestMeans
<1>7. ASSUME NEW c, PhiMeans(f, c) PROVE PhiMeans(f, c)'
  <2>1. \A i \in {2, 3} : Translates(f, c.ast.parts[i], c.operands[i])'
    BY <1>7, TranslatesKept DEF PhiMeans
  <2> QED
    BY <1>1, <1>4, <1>7, <2>1 DEF PhiMeans
<1>8. \A n \in CodeOf(f) : code[n].op = "call" => code[n].fn \in DOMAIN module
  BY <1>1 DEF CodeOK, InstructionOK, Calls
<1>9. Translates(f, module[f].body.parts[1], module[f].value)'
  BY <1>2, TranslatesKept DEF FunctionMeans
<1>10. ASSUME NEW n \in CodeOf(f)
       PROVE  /\ \A i \in DOMAIN code'[n].operands :
                   code'[n].operands[i].op = "instr" => code'[n].operands[i].nr < n
              /\ code'[n].op = "call" => CallMeans(f, code[n])'
              /\ code'[n].op = "test" => TestMeans(f, code[n])'
              /\ code'[n].op = "phi"  => PhiMeans(f, code[n])'
  <2>1. code'[n] = code[n]
    BY <1>4
  <2> QED
    BY <2>1, <1>5, <1>6, <1>7, <1>8 DEF FunctionMeans
<1> QED
  BY <1>1, <1>9, <1>10 DEF FunctionMeans

LEMMA ModuleSame ==
  ASSUME UNCHANGED module PROVE ModuleKept
BY DEF ModuleKept

LEMMA CodeSame ==
  ASSUME UNCHANGED code PROVE CodeKept
BY DEF CodeKept

LEMMA CodeOKKept ==
  ASSUME CodeOK, Kept,
         \A n \in DOMAIN code' \ DOMAIN code : InstructionOK(n, code[n])'
  PROVE  CodeOK'
<1>1. ASSUME NEW n \in DOMAIN code' PROVE InstructionOK(n, code[n])'
  <2>1. CASE n \in DOMAIN code
    <3>1. InstructionOK(n, code[n])
      BY <2>1 DEF CodeOK
    <3>2. \A c : c = code[n] => InstructionOK(n, c)'
      BY <3>1, InstructionKept
    <3>3. code'[n] = code[n]
      BY <2>1 DEF Kept, CodeKept
    <3> QED
      BY <3>2, <3>3
  <2>2. CASE n \notin DOMAIN code
    BY <2>2
  <2> QED
    BY <2>1, <2>2
<1> QED
  BY <1>1 DEF CodeOK

LEMMA FunctionsMeanKept ==
  ASSUME CodeOK, FunctionsMean, Kept,
         \A f \in Finished' \ Finished : FunctionMeans(f)',
         \A n \in DOMAIN code' \ DOMAIN code :
           code'[n].late => module'[code'[n].in].inside # {}
  PROVE  FunctionsMean'
<1>1. ASSUME NEW f \in Finished' PROVE FunctionMeans(f)'
  BY FunctionMeansKept DEF FunctionsMean
<1>2. ASSUME NEW n \in DOMAIN code', code'[n].late PROVE module'[code'[n].in].inside # {}
  <2>1. CASE n \in DOMAIN code
    <3>1. code'[n] = code[n]
      BY <2>1 DEF Kept, CodeKept
    <3>2. code[n].in \in DOMAIN module /\ module[code[n].in].state # "declared"
      BY <2>1 DEF CodeOK, InstructionOK
    <3>3. module'[code[n].in].inside = module[code[n].in].inside
      BY <3>2 DEF Kept, ModuleKept
    <3> QED
      BY <1>2, <2>1, <3>1, <3>3 DEF FunctionsMean
  <2> QED
    BY <1>2, <2>1
<1> QED
  BY <1>1, <1>2 DEF FunctionsMean

LEMMA FramesPushed ==
  ASSUME TypeOK, FramesOK, Kept, NEW r \in Frames, frames' = Append(frames, r),
         FrameOK(r)', Begun \subseteq Begun', frames = <<>> => r.ast.kind = "function"
  PROVE  FramesOK'
<1>1. frames \in Seq(Frames)
  BY DEF TypeOK
<1>2. /\ DOMAIN frames' = 1 .. Len(frames) + 1 /\ DOMAIN frames = 1 .. Len(frames)
      /\ Len(frames) \in Nat
      /\ frames'[Len(frames) + 1] = r
      /\ \A k \in 1 .. Len(frames) : frames'[k] = frames[k]
  BY <1>1, Added
<1>3. ASSUME NEW i \in 1 .. Len(frames), NEW q, q = frames[i] PROVE FrameOK(q)'
  <2>1. FrameOK(q) /\ q.home \in Begun
    BY <1>2, <1>3 DEF FramesOK, FrameOK
  <2> QED
    BY <2>1, FrameKept
<1>4. frames'[1].ast.kind = "function"
  <2>1. CASE frames = <<>>
    BY <2>1, <1>2
  <2>2. CASE frames # <<>>
    <3>1. 1 \in 1 .. Len(frames)
      BY <1>1, <2>2
    <3> QED
      BY <1>2, <2>2, <3>1 DEF FramesOK
  <2> QED
    BY <2>1, <2>2
<1>5. ASSUME NEW i \in DOMAIN frames' PROVE FrameOK(frames[i])'
  <2>1. CASE i \in 1 .. Len(frames)
    BY <1>2, <1>3, <2>1
  <2>2. CASE i = Len(frames) + 1
    BY <1>2, <2>2
  <2> QED
    BY <1>2, <2>1, <2>2
<1> QED
  BY <1>4, <1>5 DEF FramesOK

LEMMA FramesPopped ==
  ASSUME TypeOK, FramesOK, Kept, frames # <<>>, frames' = Front(frames),
         \A i \in 1 .. Len(frames) - 1 : frames[i].home \in Begun'
  PROVE  FramesOK'
<1>1. frames \in Seq(Frames)
  BY DEF TypeOK
<1>2. /\ DOMAIN frames' = 1 .. Len(frames) - 1 /\ DOMAIN frames = 1 .. Len(frames)
      /\ Len(frames) \in Nat \ {0} /\ frames' \in Seq(Frames) /\ Len(frames') = Len(frames) - 1
      /\ \A k \in 1 .. Len(frames) - 1 : frames'[k] = frames[k]
  BY <1>1, Removed
<1>3. ASSUME NEW i \in 1 .. Len(frames) - 1, NEW q, q = frames[i] PROVE FrameOK(q)'
  <2>1. i \in DOMAIN frames
    BY <1>2
  <2>2. FrameOK(q) /\ q.home \in Begun'
    BY <1>3, <2>1 DEF FramesOK
  <2> QED
    BY <2>2, FrameKept
<1>4. frames' # <<>> => frames'[1].ast.kind = "function"
  <2>1. frames' # <<>> => 1 \in 1 .. Len(frames) - 1
    BY <1>2
  <2> QED
    BY <1>2, <2>1 DEF FramesOK
<1> QED
  BY <1>2, <1>3, <1>4 DEF FramesOK

LEMMA FramesReplaced ==
  ASSUME TypeOK, FramesOK, Kept, frames # <<>>, NEW r \in Frames,
         frames' = [frames EXCEPT ![Len(frames)] = r],
         r.ast = top.ast, FrameOK(r)', Begun \subseteq Begun'
  PROVE  FramesOK'
<1>1. frames \in Seq(Frames)
  BY DEF TypeOK
<1>2. /\ DOMAIN frames' = 1 .. Len(frames) /\ DOMAIN frames = 1 .. Len(frames)
      /\ Len(frames) \in Nat \ {0} /\ frames'[Len(frames)] = r
      /\ \A k \in 1 .. Len(frames) : k # Len(frames) => frames'[k] = frames[k]
  BY <1>1, Replaced
<1>3. ASSUME NEW i \in 1 .. Len(frames), NEW q, q = frames[i] PROVE FrameOK(q)'
  <2>1. FrameOK(q) /\ q.home \in Begun
    BY <1>2, <1>3 DEF FramesOK, FrameOK
  <2> QED
    BY <2>1, FrameKept
<1>4. frames'[1].ast.kind = "function"
  <2>1. top = frames[Len(frames)]
    BY <1>1, Removed DEF top
  <2>2. frames'[1].ast = frames[1].ast
    <3>1. CASE Len(frames) = 1
      BY <1>2, <2>1, <3>1
    <3>2. CASE Len(frames) # 1
      <4>1. 1 \in 1 .. Len(frames)
        BY <1>2, OneIsThere
      <4>2. frames'[1] = frames[1]
        BY <1>2, <3>2, <4>1
      <4> QED
        BY <4>2
    <3> QED
      BY <3>1, <3>2
  <2> QED
    BY <2>2 DEF FramesOK
<1>5. ASSUME NEW i \in DOMAIN frames' PROVE FrameOK(frames[i])'
  BY <1>2, <1>3
<1> QED
  BY <1>4, <1>5 DEF FramesOK

LEMMA NestedPushed ==
  ASSUME TypeOK, NestedOK, UNCHANGED module, frames # <<>>, NEW r \in Frames,
         frames' = Append(frames, r), r.home = top.home, r.ast.kind # "function"
  PROVE  NestedOK'
<1>1. frames \in Seq(Frames)
  BY DEF TypeOK
<1>2. /\ DOMAIN frames' = 1 .. Len(frames) + 1 /\ DOMAIN frames = 1 .. Len(frames)
      /\ frames'[Len(frames) + 1] = r
      /\ \A k \in 1 .. Len(frames) : frames'[k] = frames[k]
  BY <1>1, Added
<1>3. Len(frames) \in Nat \ {0} /\ top = frames[Len(frames)]
  BY <1>1, Removed DEF top
<1>4. ASSUME NEW i \in DOMAIN frames', NEW j \in DOMAIN frames', i < j
      PROVE  \/ frames'[i].home \in module[frames'[j].home].inside
             \/ frames'[i].home = frames'[j].home /\ frames'[j].ast.kind # "function"
  <2>1. i \in 1 .. Len(frames)
    BY <1>2, <1>3, <1>4
  <2>2. CASE j \in 1 .. Len(frames)
    BY <1>2, <1>4, <2>1, <2>2 DEF NestedOK
  <2>3. CASE j = Len(frames) + 1
    <3>1. frames'[j] = r /\ frames'[i] = frames[i]
      BY <1>2, <2>1, <2>3
    <3>2. CASE i = Len(frames)
      BY <1>3, <3>1, <3>2
    <3>3. CASE i < Len(frames)
      BY <1>2, <1>3, <2>1, <3>1, <3>3 DEF NestedOK
    <3> QED
      BY <1>3, <2>1, <3>2, <3>3
  <2> QED
    BY <1>2, <1>3, <2>2, <2>3
<1>5. ASSUME NEW f \in Begun
      PROVE  \E i \in DOMAIN frames' : frames'[i].ast.kind = "function" /\ frames'[i].home = f
  <2>1. PICK i \in DOMAIN frames : frames[i].ast.kind = "function" /\ frames[i].home = f
    BY DEF NestedOK
  <2>2. i \in DOMAIN frames' /\ frames'[i] = frames[i]
    BY <1>2, <1>3
  <2> QED
    BY <2>1, <2>2
<1>6. Begun' = Begun
  BY DEF Begun
<1> QED
  BY <1>4, <1>5, <1>6 DEF NestedOK

LEMMA WaitingPushed ==
  ASSUME TypeOK, WaitingOK, NEW r \in Frames, frames' = Append(frames, r),
         frames # <<>> => WaitsFor(top, r)
  PROVE  WaitingOK'
<1>1. frames \in Seq(Frames)
  BY DEF TypeOK
<1>2. /\ DOMAIN frames' = 1 .. Len(frames) + 1 /\ DOMAIN frames = 1 .. Len(frames)
      /\ Len(frames) \in Nat
      /\ frames'[Len(frames) + 1] = r
      /\ \A k \in 1 .. Len(frames) : frames'[k] = frames[k]
  BY <1>1, Added
<1>3. frames # <<>> => top = frames[Len(frames)]
  BY <1>1, Removed DEF top
<1>4. ASSUME NEW i \in DOMAIN frames', NEW j \in DOMAIN frames', j = i + 1
      PROVE  WaitsFor(frames'[i], frames'[j])
  <2>1. i \in 1 .. Len(frames) /\ frames'[i] = frames[i]
    BY <1>2, <1>4
  <2>2. CASE j \in 1 .. Len(frames)
    BY <1>2, <1>4, <2>1, <2>2 DEF WaitingOK
  <2>3. CASE j = Len(frames) + 1
    <3>1. i = Len(frames) /\ frames # <<>>
      BY <1>2, <1>4, <2>1, <2>3
    <3> QED
      BY <1>2, <1>3, <2>1, <2>3, <3>1
  <2> QED
    BY <1>2, <2>2, <2>3
<1> QED
  BY <1>4 DEF WaitingOK, WaitsFor

LEMMA WaitingPopped ==
  ASSUME TypeOK, WaitingOK, frames # <<>>, frames' = Front(frames)
  PROVE  WaitingOK'
<1>1. frames \in Seq(Frames)
  BY DEF TypeOK
<1>2. \A i \in DOMAIN frames' : i \in DOMAIN frames /\ frames'[i] = frames[i]
  BY <1>1, Removed
<1> QED
  BY <1>2 DEF WaitingOK, WaitsFor

LEMMA WaitingReplaced ==
  ASSUME TypeOK, WaitingOK, frames # <<>>, NEW r \in Frames,
         frames' = [frames EXCEPT ![Len(frames)] = r], r.home = top.home, r.ast = top.ast
  PROVE  WaitingOK'
<1>1. frames \in Seq(Frames)
  BY DEF TypeOK
<1>2. /\ DOMAIN frames' = DOMAIN frames /\ DOMAIN frames = 1 .. Len(frames)
      /\ Len(frames) \in Nat \ {0} /\ frames'[Len(frames)] = r
      /\ \A k \in DOMAIN frames : k # Len(frames) => frames'[k] = frames[k]
  BY <1>1, Replaced
<1>3. top = frames[Len(frames)]
  BY <1>1, Removed DEF top
<1>4. \A k \in DOMAIN frames : frames'[k].home = frames[k].home /\ frames'[k].ast = frames[k].ast
  BY <1>2, <1>3
<1>5. \A i, j \in DOMAIN frames : j = i + 1 => i # Len(frames)
  BY <1>2
<1> QED
  BY <1>2, <1>4, <1>5 DEF WaitingOK, WaitsFor

LEMMA NestedReplaced ==
  ASSUME TypeOK, NestedOK, UNCHANGED module, frames # <<>>, NEW r \in Frames,
         frames' = [frames EXCEPT ![Len(frames)] = r], r.home = top.home, r.ast = top.ast
  PROVE  NestedOK'
<1>1. frames \in Seq(Frames)
  BY DEF TypeOK
<1>2. /\ DOMAIN frames' = DOMAIN frames
      /\ Len(frames) \in Nat \ {0} /\ frames'[Len(frames)] = r
      /\ \A k \in DOMAIN frames : k # Len(frames) => frames'[k] = frames[k]
  BY <1>1, Replaced
<1>3. top = frames[Len(frames)]
  BY <1>1, Removed DEF top
<1>4. \A k \in DOMAIN frames : frames'[k].home = frames[k].home /\ frames'[k].ast = frames[k].ast
  BY <1>2, <1>3
<1>5. Begun' = Begun
  BY DEF Begun
<1> QED
  BY <1>2, <1>4, <1>5 DEF NestedOK

LEMMA NestedPopped ==
  ASSUME TypeOK, NestedOK, frames # <<>>, frames' = Front(frames), Kept, FramesOK,
         \A f \in Begun' : f \in Begun /\ (f = top.home => top.ast.kind # "function")
  PROVE  NestedOK'
<1>1. frames \in Seq(Frames)
  BY DEF TypeOK
<1>2. /\ DOMAIN frames' = 1 .. Len(frames) - 1 /\ DOMAIN frames = 1 .. Len(frames)
      /\ Len(frames) \in Nat \ {0} /\ top = frames[Len(frames)]
      /\ \A k \in 1 .. Len(frames) - 1 : frames'[k] = frames[k]
  BY <1>1, Removed DEF top
<1>3. \A i \in DOMAIN frames' : i \in DOMAIN frames /\ frames'[i] = frames[i]
  BY <1>2
<1>4. ASSUME NEW i \in DOMAIN frames PROVE module'[frames[i].home].inside = module[frames[i].home].inside
  <2>1. frames[i].home \in DOMAIN module /\ module[frames[i].home].state # "declared"
    BY DEF FramesOK, FrameOK, Begun
  <2> QED
    BY <2>1 DEF Kept, ModuleKept
<1>5. ASSUME NEW f \in Begun'
      PROVE  \E i \in DOMAIN frames' : frames'[i].ast.kind = "function" /\ frames'[i].home = f
  <2>1. PICK i \in DOMAIN frames : frames[i].ast.kind = "function" /\ frames[i].home = f
    BY DEF NestedOK
  <2>2. i # Len(frames)
    BY <1>2, <2>1
  <2>3. i \in DOMAIN frames'
    BY <1>2, <2>2
  <2> QED
    BY <1>3, <2>1, <2>3
<1>6. ASSUME NEW i \in DOMAIN frames', NEW j \in DOMAIN frames', i < j
      PROVE  \/ frames'[i].home \in module'[frames'[j].home].inside
             \/ frames'[i].home = frames'[j].home /\ frames'[j].ast.kind # "function"
  BY <1>3, <1>4, <1>6 DEF NestedOK
<1> QED
  BY <1>5, <1>6 DEF NestedOK

(* Steps that change nothing but what Codegen is doing. *)
LEMMA Still ==
  ASSUME IInv, UNCHANGED <<frames, cenv>>
  PROVE  InsideOK' /\ FramesOK' /\ NestedOK' /\ WaitingOK' /\ EnvOK' /\ CodeOK' /\ FunctionsMean'
<1>1. UNCHANGED <<frames, module, env, block, code>>
  BY DEF cenv
<1>2. Kept
  BY <1>1, ModuleSame, CodeSame DEF Kept
<1>3. InsideOK' /\ NestedOK' /\ WaitingOK' /\ EnvOK' /\ Begun' = Begun /\ Finished' = Finished
  BY <1>1 DEF IInv, InsideOK, NestedOK, WaitingOK, WaitsFor, EnvOK, Begun, Finished
<1>4. FramesOK'
  <2>1. ASSUME NEW i \in DOMAIN frames, NEW q, q = frames[i] PROVE FrameOK(q)'
    <3>1. FrameOK(q) /\ q.home \in Begun
      BY <2>1 DEF IInv, FramesOK, FrameOK
    <3> QED
      BY <1>2, <1>3, <3>1, FrameKept
  <2>2. \A i \in DOMAIN frames' : FrameOK(frames[i])'
    BY <1>1, <2>1
  <2> QED
    BY <1>1, <2>2 DEF IInv, FramesOK
<1>5. CodeOK'
  BY <1>1, <1>2, CodeOKKept DEF IInv
<1>6. FunctionsMean'
  BY <1>1, <1>2, <1>3, FunctionsMeanKept DEF IInv
<1> QED
  BY <1>3, <1>4, <1>5, <1>6

-----------------------------------------------------------------------------
(* The steps that change only what Codegen is doing. *)

LEMMA Basics ==
  ASSUME TypeOK
  PROVE  /\ frames \in Seq(Frames) /\ value \in Values /\ code \in Seq(Instructions)
         /\ module \in Seq(Functions)
         /\ frames # <<>> => /\ top \in Frames /\ top = frames[Len(frames)]
                             /\ Len(frames) \in DOMAIN frames
                             /\ top.ast \in AllAsts /\ top.values \in Seq(Values)
                             /\ top.fn \in Nat /\ top.home \in Nat /\ top.parent \in Nat
<1>1. frames \in Seq(Frames) /\ value \in Values /\ code \in Seq(Instructions)
      /\ module \in Seq(Functions)
  BY DEF TypeOK
<1>2. ASSUME frames # <<>>
      PROVE  top \in Frames /\ top = frames[Len(frames)] /\ Len(frames) \in DOMAIN frames
  BY <1>1, <1>2, Removed DEF top
<1> QED
  BY <1>1, <1>2 DEF Frames

LEMMA TopOK ==
  ASSUME IInv, frames # <<>>
  PROVE  /\ FrameOK(top)
         /\ top.home \in Begun /\ top.home \in DOMAIN module
         /\ module[top.home].state = "begun"
<1>1. Len(frames) \in DOMAIN frames /\ top = frames[Len(frames)]
  BY Basics DEF IInv
<1>2. FrameOK(top)
  BY <1>1 DEF IInv, FramesOK
<1> QED
  BY <1>2 DEF FrameOK, Begun

LEMMA AwaitedType ==
  ASSUME IInv, frames # <<>>, Waiting
  PROVE  Awaited \in Asts /\ Len(top.values) + 1 \in DOMAIN top.ast.parts
<1>1. top.ast \in AllAsts /\ top.values \in Seq(Values)
  BY Basics DEF IInv
<1>2. top.ast.parts \in Seq(Asts)
  BY <1>1, AstTypes
<1>3. Len(top.values) \in Nat /\ Len(top.ast.parts) \in Nat
      /\ DOMAIN top.ast.parts = 1 .. Len(top.ast.parts)
  BY <1>1, <1>2
<1>4. Len(top.values) + 1 \in 1 .. Len(top.ast.parts)
  BY <1>3 DEF Waiting
<1> QED
  BY <1>2, <1>3, <1>4 DEF Awaited

ControlTypes == /\ value' \in Values
                /\ phase' \in {"idle", "visit", "next", "return", "throw", "abort"}
                /\ phase' = "visit" => node' \in AllAsts
                /\ pc' \in {"read", "eval"} => phase' = "idle"

LEMMA StillStep ==
  ASSUME IInv, UNCHANGED <<frames, cenv>>, ControlTypes, NowOK'
  PROVE  IInv'
<1>1. TypeOK'
  BY DEF IInv, TypeOK, ControlTypes, cenv
<1> QED
  BY <1>1, Still DEF IInv

LEMMA VisitingHolds ==
  ASSUME IInv, phase = "visit", evaluatable(node)
  PROVE  frames # <<>> /\ Waiting /\ node = Awaited /\ PointOK(top.home, block)
BY DEF IInv, NowOK

(* Where a visit is answered, the answer is for the AST visited. *)
LEMMA AnsweredStep ==
  ASSUME IInv, phase = "visit", frames # <<>>, NEW v \in Values, Made(top.home, node, v), Return(v),
         UNCHANGED <<frames, cenv, pc>>
  PROVE  IInv'
<1>1. UNCHANGED <<frames, module, env, block, code>>
  BY DEF cenv
<1>2. ControlTypes
  BY DEF ControlTypes, Return, IInv, TypeOK
<1>3. Waiting /\ node = Awaited /\ PointOK(top.home, block)
  BY DEF IInv, NowOK
<1>4. Waiting' /\ Awaited' = Awaited /\ top' = top
  BY <1>1, <1>3 DEF Waiting, Awaited, top
<1>5. Made(top.home, Awaited, value)'
  <2>1. value' = v
    BY DEF Return
  <2>2. Made(top.home, Awaited, v)
    BY <1>3
  <2> QED
    BY <1>1, <1>4, <2>1, <2>2 DEF Made
<1>6. PointOK(top.home, block)'
  BY <1>1, <1>3, <1>4 DEF PointOK, Finished
<1>7. NowOK'
  BY <1>4, <1>5, <1>6 DEF NowOK, Return
<1> QED
  BY <1>2, <1>7, StillStep

LEMMA NumberStep ==
  ASSUME IInv, VisitNumber, UNCHANGED pc
  PROVE  IInv'
<1>1. phase = "visit" /\ node.kind = "number" /\ evaluatable(node)
  BY DEF VisitNumber, Visit, evaluatable
<1>2. frames # <<>>
  BY <1>1, VisitingHolds
<1>3. Const \in Values /\ Made(top.home, node, Const)
  BY <1>1 DEF Const, Value, Values, Made
<1> QED
  BY <1>1, <1>2, <1>3, AnsweredStep DEF VisitNumber

LEMMA VariableStep ==
  ASSUME IInv, VisitVariable, UNCHANGED pc
  PROVE  IInv'
<1>1. phase = "visit" /\ node.kind = "variable" /\ evaluatable(node) /\ node.name \in DOMAIN env
  BY DEF VisitVariable, Visit, evaluatable
<1>2. frames # <<>>
  BY <1>1, VisitingHolds
<1>3. module[top.home].state = "begun"
  BY <1>2, TopOK
<1>4. env[node.name] \in Values /\ Made(top.home, node, env[node.name])
  BY <1>1, <1>3 DEF IInv, EnvOK, Made
<1> QED
  BY <1>1, <1>2, <1>4, AnsweredStep DEF VisitVariable

LEMMA ThrownStep ==
  ASSUME IInv, Throw, UNCHANGED <<frames, cenv, pc>>, phase # "idle"
  PROVE  IInv'
<1>1. ControlTypes
  BY DEF ControlTypes, Throw, IInv, TypeOK
<1>2. NowOK'
  BY DEF NowOK, Throw
<1> QED
  BY <1>1, <1>2, StillStep

LEMMA NextStep ==
  ASSUME IInv, NextPart, UNCHANGED pc
  PROVE  IInv'
<1>1. UNCHANGED <<frames, module, env, block, code>>
  BY DEF cenv, NextPart
<1>2. frames # <<>> /\ PointOK(top.home, block)
  BY DEF IInv, NowOK, NextPart
<1>3. Waiting' /\ Awaited' = Awaited /\ top' = top
  BY <1>1 DEF Waiting, Awaited, top, NextPart
<1>4. Awaited \in Asts
  BY <1>2, AwaitedType DEF NextPart
<1>5. ControlTypes
  BY <1>4 DEF ControlTypes, NextPart, IInv, TypeOK, AllAsts
<1>6. PointOK(top.home, block)'
  BY <1>1, <1>2, <1>3 DEF PointOK, Finished
<1>7. NowOK'
  BY <1>1, <1>2, <1>3, <1>6 DEF NowOK, NextPart
<1> QED
  BY <1>5, <1>7, StillStep DEF NextPart

LEMMA AbortStep ==
  ASSUME IInv, Abort, UNCHANGED pc
  PROVE  IInv'
<1>1. ControlTypes
  BY DEF ControlTypes, Abort, IInv, TypeOK
<1>2. NowOK'
  BY DEF NowOK, Abort
<1> QED
  BY <1>1, <1>2, StillStep DEF Abort

-----------------------------------------------------------------------------
(* Calls and ifs: a frame is pushed, and gets the values of its parts. *)

LEMMA PushStep ==
  ASSUME IInv, frames # <<>>, UNCHANGED <<cenv, node, value, pc>>, phase' = "next", phase # "idle",
         NEW r \in Frames, FrameOK(r), r.home = top.home, r.ast.kind \in {"call", "if"},
         frames' = Append(frames, r), PointOK(top.home, block), Waiting, r.ast = Awaited
  PROVE  IInv'
<1>1. UNCHANGED <<module, env, block, code>>
  BY DEF cenv
<1>2. Kept
  BY <1>1, ModuleSame, CodeSame DEF Kept
<1>3. InsideOK' /\ EnvOK' /\ Begun' = Begun /\ Finished' = Finished
  BY <1>1 DEF IInv, InsideOK, EnvOK, Begun, Finished
<1>4. CodeOK'
  BY <1>1, <1>2, CodeOKKept DEF IInv
<1>5. FunctionsMean'
  BY <1>1, <1>2, <1>3, FunctionsMeanKept DEF IInv
<1>6. /\ frames \in Seq(Frames) /\ frames' \in Seq(Frames) /\ frames' # <<>>
      /\ top' = r
  BY Basics, Added DEF IInv, top
<1>7. TypeOK'
  BY <1>1, <1>6 DEF IInv, TypeOK
<1>8. FrameOK(r)'
  BY <1>2, <1>3, FrameKept DEF FrameOK
<1>9. FramesOK'
  BY <1>2, <1>3, <1>8, FramesPushed DEF IInv
<1>10. NestedOK'
  BY <1>1, NestedPushed DEF IInv
<1>11. PointOK(top.home, block)'
  BY <1>1, <1>6 DEF PointOK, Finished
<1>12. NowOK'
  BY <1>6, <1>11 DEF NowOK
<1>13. WaitingOK'
  BY WaitingPushed DEF IInv, WaitsFor, Waiting, Awaited
<1> QED
  BY <1>3, <1>4, <1>5, <1>7, <1>9, <1>10, <1>12, <1>13 DEF IInv

LEMMA FrameTypes ==
  ASSUME node \in AllAsts, NEW fn \in Nat, NEW home \in Nat
  PROVE  /\ Frame(fn, home) \in Frames
         /\ Frame(fn, home).ast = node /\ Frame(fn, home).fn = fn /\ Frame(fn, home).home = home
         /\ Frame(fn, home).values = <<>> /\ Len(Frame(fn, home).values) = 0
<1>1. <<>> \in Seq(Values) /\ Len(<<>>) = 0
  OBVIOUS
<1> QED
  BY <1>1 DEF Frame, Frames

LEMMA BegunStands ==
  ASSUME IInv, frames # <<>>, NEW f \in DOMAIN module, module[f].state # "erased"
  PROVE  Stands(top.home, f)
<1>1. Len(frames) \in DOMAIN frames /\ top = frames[Len(frames)] /\ DOMAIN frames = 1 .. Len(frames)
  BY Basics DEF IInv
<1>2. module \in Seq(Functions)
  BY Basics DEF IInv
<1>3. module[f].state \in {"declared", "begun", "finished"}
  <2>1. module[f] \in Functions
    BY <1>2
  <2> QED
    BY <2>1 DEF Functions
<1>4. CASE f \in Begun
  <2>1. PICK i \in DOMAIN frames : frames[i].home = f
    BY <1>4 DEF IInv, NestedOK
  <2>2. i = Len(frames) \/ i < Len(frames)
    BY <1>1
  <2>3. f = top.home \/ f \in module[top.home].inside
    BY <1>1, <2>1, <2>2 DEF IInv, NestedOK
  <2> QED
    BY <2>3 DEF Stands
<1>5. CASE module[f].state = "declared"
  BY <1>5 DEF IInv, InsideOK, Stands
<1>6. CASE module[f].state = "finished"
  BY <1>6 DEF Stands, Finished
<1> QED
  BY <1>3, <1>4, <1>5, <1>6 DEF Begun

LEMMA CallStep ==
  ASSUME IInv, VisitCall, UNCHANGED pc
  PROVE  IInv'
<1>1. phase = "visit" /\ node.kind = "call" /\ evaluatable(node)
  BY DEF VisitCall, Visit, evaluatable
<1>2. frames # <<>> /\ PointOK(top.home, block) /\ Waiting /\ node = Awaited
  BY <1>1, VisitingHolds
<1>3. PICK f \in Named(node.name) : /\ Takes(f, Len(node.parts))
                                    /\ frames' = Append(frames, Frame(f, top.home))
  BY DEF VisitCall
<1>4. f \in DOMAIN module /\ module[f].name = node.name /\ module[f].state # "erased"
  BY DEF Named
<1>5. f \in Nat /\ top.home \in Nat /\ node \in AllAsts
  BY <1>1, <1>2, <1>4, Basics DEF IInv, TypeOK
<1>6. Stands(top.home, f)
  BY <1>2, <1>4, BegunStands
<1>7. Calls(node, f)
  BY <1>3, <1>4 DEF Calls, Takes
<1> DEFINE r == Frame(f, top.home)
<1>8. /\ r \in Frames /\ r.ast = node /\ r.fn = f /\ r.home = top.home
      /\ r.values = <<>> /\ Len(r.values) = 0 /\ DOMAIN r.values = {}
  BY <1>5, FrameTypes
<1> HIDE DEF r
<1>9. 0 <= Len(node.parts)
  BY <1>5, AstTypes
<1>10. FrameOK(r)
  BY <1>1, <1>2, <1>6, <1>7, <1>8, <1>9, TopOK DEF FrameOK, PartsMade
<1> QED
  BY <1>1, <1>2, <1>3, <1>8, <1>10, PushStep DEF VisitCall, r

LEMMA IfStep ==
  ASSUME IInv, VisitIf, UNCHANGED pc
  PROVE  IInv'
<1>1. phase = "visit" /\ node.kind = "if" /\ evaluatable(node)
  BY DEF VisitIf, Visit, evaluatable
<1>2. frames # <<>> /\ PointOK(top.home, block) /\ Waiting /\ node = Awaited
  BY <1>1, VisitingHolds
<1>5. 0 \in Nat /\ top.home \in Nat /\ node \in AllAsts
  BY <1>1, <1>2, Basics DEF IInv, TypeOK
<1> DEFINE r == Frame(0, top.home)
<1>8. /\ r \in Frames /\ r.ast = node /\ r.home = top.home
      /\ r.values = <<>> /\ Len(r.values) = 0 /\ DOMAIN r.values = {}
  BY <1>5, FrameTypes
<1> HIDE DEF r
<1>9. 0 <= Len(node.parts)
  BY <1>5, AstTypes
<1>10. FrameOK(r)
  BY <1>1, <1>2, <1>8, <1>9, TopOK DEF FrameOK, BranchesMade
<1> QED
  BY <1>1, <1>2, <1>8, <1>10, PushStep DEF VisitIf, r

LEMMA GotFrame ==
  ASSUME IInv, frames # <<>>, NEW v \in Values, NEW p \in Nat, Got(v, p)
  PROVE  LET r == [top EXCEPT !.values = Append(top.values, v), !.parent = p]
         IN  /\ r \in Frames /\ frames' = [frames EXCEPT ![Len(frames)] = r]
             /\ r.ast = top.ast /\ r.home = top.home /\ r.fn = top.fn /\ r.parent = p
             /\ r.values = Append(top.values, v)
<1>1. /\ frames \in Seq(Frames) /\ top \in Frames /\ top = frames[Len(frames)]
      /\ Len(frames) \in DOMAIN frames /\ top.values \in Seq(Values)
  BY Basics DEF IInv
<1> DEFINE vs == Append(top.values, v)
<1>2. vs \in Seq(Values)
  BY <1>1
<1> HIDE DEF vs
<1> DEFINE r == [top EXCEPT !.values = vs, !.parent = p]
<1>3. /\ r \in Frames /\ r.ast = top.ast /\ r.home = top.home /\ r.fn = top.fn
      /\ r.parent = p /\ r.values = vs
  BY <1>1, <1>2 DEF Frames
<1>4. frames' = [frames EXCEPT ![Len(frames)] = r]
  BY <1>1 DEF Got, vs
<1> QED
  BY <1>3, <1>4 DEF vs

LEMMA GotStep ==
  ASSUME IInv, frames # <<>>, NEW v \in Values, NEW p \in Nat, Got(v, p),
         UNCHANGED <<module, env, node, value, pc>>, Kept, CodeOK', FunctionsMean',
         code' \in Seq(Instructions), block' \in Nat,
         phase' = "next", phase # "idle", top.ast.kind # "function",
         \A r \in Frames : /\ r.ast = top.ast /\ r.home = top.home /\ r.fn = top.fn
                           /\ r.parent = p /\ r.values = Append(top.values, v)
                           => FrameOK(r)' /\ PointOK(r.home, block)'
  PROVE  IInv'
<1> DEFINE r == [top EXCEPT !.values = Append(top.values, v), !.parent = p]
<1>1. /\ r \in Frames /\ frames' = [frames EXCEPT ![Len(frames)] = r]
      /\ r.ast = top.ast /\ r.home = top.home /\ r.fn = top.fn /\ r.parent = p
      /\ r.values = Append(top.values, v)
  BY GotFrame
<1> HIDE DEF r
<1>2. PICK q \in Frames : q = r
  BY <1>1
<1>3. FrameOK(q)' /\ PointOK(q.home, block)'
  BY <1>1, <1>2
<1>4. InsideOK' /\ EnvOK' /\ Begun' = Begun
  BY DEF IInv, InsideOK, EnvOK, Begun
<1>5. /\ frames \in Seq(Frames) /\ frames' \in Seq(Frames) /\ frames' # <<>>
      /\ Last(frames') = q
  <2>1. frames' = [frames EXCEPT ![Len(frames)] = q]
    BY <1>1, <1>2
  <2>2. frames \in Seq(Frames)
    BY Basics DEF IInv
  <2>3. q \in Frames
    BY <1>2
  <2> DEFINE t == [frames EXCEPT ![Len(frames)] = q]
  <2>4. t \in Seq(Frames) /\ t # <<>> /\ Last(t) = q
    BY <2>2, <2>3, Replaced
  <2> QED
    BY <2>1, <2>2, <2>4
<1>6. top' = q
  BY <1>5 DEF top
<1>7. TypeOK'
  BY <1>5, Basics DEF IInv, TypeOK
<1>8. FramesOK'
  BY <1>1, <1>2, <1>3, <1>4, FramesReplaced DEF IInv
<1>9. NestedOK'
  BY <1>1, <1>2, NestedReplaced DEF IInv
<1>10. NowOK'
  BY <1>1, <1>2, <1>3, <1>5, <1>6 DEF NowOK
<1>11. WaitingOK'
  BY <1>1, <1>2, WaitingReplaced DEF IInv
<1> QED
  BY <1>4, <1>7, <1>8, <1>9, <1>10, <1>11 DEF IInv

LEMMA ToCallStep ==
  ASSUME IInv, ReturnToCall, UNCHANGED pc
  PROVE  IInv'
<1>1. UNCHANGED <<module, env, block, code>> /\ frames # <<>> /\ phase = "return"
      /\ top.ast.kind = "call" /\ Got(value, 0) /\ phase' = "next" /\ UNCHANGED <<node, value>>
  BY DEF ReturnToCall, cenv
<1>2. Kept
  BY <1>1, ModuleSame, CodeSame DEF Kept
<1>3. Begun' = Begun /\ Finished' = Finished
  BY <1>1 DEF Begun, Finished
<1>4. CodeOK'
  BY <1>1, <1>2, CodeOKKept DEF IInv
<1>5. FunctionsMean'
  BY <1>1, <1>2, <1>3, FunctionsMeanKept DEF IInv
<1>6. code' \in Seq(Instructions) /\ block' \in Nat /\ value \in Values /\ 0 \in Nat
  BY <1>1 DEF IInv, TypeOK
<1>7. Waiting /\ Made(top.home, Awaited, value) /\ PointOK(top.home, block)
  BY <1>1 DEF IInv, NowOK
<1>8. ASSUME NEW r \in Frames, r.ast = top.ast, r.home = top.home, r.fn = top.fn,
             r.values = Append(top.values, value)
      PROVE  FrameOK(r)' /\ PointOK(r.home, block)'
  <2>1. FrameOK(top)
    BY <1>1, TopOK
  <2>2. top.values \in Seq(Values)
    BY <1>1, Basics DEF IInv
  <2>3. /\ Len(r.values) = Len(top.values) + 1 /\ DOMAIN r.values = 1 .. Len(top.values) + 1
        /\ DOMAIN top.values = 1 .. Len(top.values) /\ Len(top.values) \in Nat
        /\ r.values[Len(top.values) + 1] = value
        /\ \A k \in 1 .. Len(top.values) : r.values[k] = top.values[k]
    BY <1>6, <1>8, <2>2, Added
  <2>4. top.ast.parts \in Seq(Asts)
    BY <1>1, Basics, AstTypes DEF IInv
  <2>5. Len(r.values) <= Len(r.ast.parts)
    BY <1>7, <1>8, <2>3, <2>4 DEF Waiting
  <2>6. ASSUME NEW k \in DOMAIN r.values PROVE Made(r.home, r.ast.parts[k], r.values[k])
    <3>1. CASE k = Len(top.values) + 1
      BY <1>7, <1>8, <2>3, <3>1 DEF Awaited
    <3>2. CASE k \in 1 .. Len(top.values)
      BY <1>1, <1>8, <2>1, <2>3, <3>2 DEF FrameOK, PartsMade
    <3> QED
      BY <2>3, <3>1, <3>2
  <2>7. FrameOK(r)
    BY <1>1, <1>8, <2>1, <2>5, <2>6 DEF FrameOK, PartsMade
  <2>8. PointOK(r.home, block)'
    BY <1>1, <1>3, <1>7, <1>8 DEF PointOK
  <2> QED
    BY <1>2, <1>3, <2>7, <2>8, FrameKept DEF FrameOK
<1> QED
  BY <1>1, <1>2, <1>4, <1>5, <1>6, <1>8, GotStep

LEMMA ToBranchStep ==
  ASSUME IInv, ReturnToBranch, UNCHANGED pc
  PROVE  IInv'
<1>1. /\ UNCHANGED <<module, env, code>> /\ frames # <<>> /\ phase = "return"
      /\ top.ast.kind = "if" /\ top.values # <<>> /\ Got(value, top.parent) /\ phase' = "next"
      /\ UNCHANGED <<node, value>> /\ block' = top.parent
  BY DEF ReturnToBranch
<1>2. Kept
  BY <1>1, ModuleSame, CodeSame DEF Kept
<1>3. Begun' = Begun /\ Finished' = Finished
  BY <1>1 DEF Begun, Finished
<1>4. CodeOK'
  BY <1>1, <1>2, CodeOKKept DEF IInv
<1>5. FunctionsMean'
  BY <1>1, <1>2, <1>3, FunctionsMeanKept DEF IInv
<1>6. code' \in Seq(Instructions) /\ block' \in Nat /\ value \in Values /\ top.parent \in Nat
  BY <1>1, Basics DEF IInv, TypeOK
<1>7. Waiting /\ Made(top.home, Awaited, value)
  BY <1>1 DEF IInv, NowOK
<1>8. ASSUME NEW r \in Frames, r.ast = top.ast, r.home = top.home, r.parent = top.parent,
             r.values = Append(top.values, value)
      PROVE  FrameOK(r)' /\ PointOK(r.home, block)'
  <2>1. FrameOK(top)
    BY <1>1, TopOK
  <2>2. top.values \in Seq(Values) /\ top.values # <<>>
    BY <1>1, Basics DEF IInv
  <2>3. /\ Len(r.values) = Len(top.values) + 1 /\ DOMAIN r.values = 1 .. Len(top.values) + 1
        /\ DOMAIN top.values = 1 .. Len(top.values) /\ Len(top.values) \in Nat \ {0}
        /\ r.values[Len(top.values) + 1] = value
        /\ \A k \in 1 .. Len(top.values) : r.values[k] = top.values[k]
    BY <1>6, <1>8, <2>2, Added
  <2>4. top.ast.parts \in Seq(Asts)
    BY <1>1, Basics, AstTypes DEF IInv
  <2>5. Len(r.values) <= Len(r.ast.parts)
    BY <1>7, <1>8, <2>3, <2>4 DEF Waiting
  <2>6. ASSUME NEW k \in DOMAIN r.values, k # 1 PROVE Made(r.home, r.ast.parts[k], r.values[k])
    <3>1. CASE k = Len(top.values) + 1
      BY <1>7, <1>8, <2>3, <3>1 DEF Awaited
    <3>2. CASE k \in 1 .. Len(top.values)
      BY <1>1, <1>8, <2>1, <2>3, <2>6, <3>2 DEF FrameOK, BranchesMade
    <3> QED
      BY <2>3, <3>1, <3>2
  <2>7. TestOf(r.ast, r.values[1])
    <3>1. 1 \in 1 .. Len(top.values)
      BY <2>3, OneIsThere
    <3> QED
      BY <1>1, <1>8, <2>1, <2>3, <3>1 DEF FrameOK, BranchesMade
  <2>8. PointOK(r.home, top.parent)
    BY <1>1, <1>8, <2>1 DEF FrameOK
  <2>9. FrameOK(r)
    BY <1>1, <1>8, <2>1, <2>5, <2>6, <2>7, <2>8 DEF FrameOK, BranchesMade
  <2>10. PointOK(r.home, block)'
    BY <1>1, <1>3, <2>8 DEF PointOK
  <2> QED
    BY <1>2, <1>3, <2>9, <2>10, FrameKept DEF FrameOK
<1> QED
  BY <1>1, <1>2, <1>4, <1>5, <1>6, <1>8, GotStep

-----------------------------------------------------------------------------
(* Instructions.  Where the insert point is in a nested definition that is *)
(* finished, what is inserted is late.                                     *)

LEMMA PointInside ==
  ASSUME IInv, frames # <<>>, PointOK(top.home, block)
  PROVE  /\ block \in DOMAIN module /\ module[block].state \in {"begun", "finished"}
         /\ block \in Finished => top.home \in module[block].inside
         /\ block \notin Finished => block = top.home
<1>1. top.home \in DOMAIN module /\ module[top.home].state = "begun"
  BY TopOK
<1> QED
  BY <1>1 DEF PointOK, Finished

LEMMA StandsInside ==
  ASSUME IInv, frames # <<>>, PointOK(top.home, block), NEW g, Stands(top.home, g)
  PROVE  Stands(block, g)
<1>1. CASE block = top.home
  BY <1>1
<1>2. CASE block # top.home
  <2>1. block \in DOMAIN module /\ top.home \in module[block].inside
    BY <1>2, PointInside DEF PointOK
  <2>2. module[top.home].inside \subseteq module[block].inside
    BY <2>1 DEF IInv, InsideOK
  <2> QED
    BY <2>1, <2>2 DEF Stands
<1> QED
  BY <1>1, <1>2

(* The code with one instruction more.                                     *)
LEMMA InsertStep ==
  ASSUME IInv, frames # <<>>, PointOK(top.home, block),
         NEW op \in {"call", "test", "phi"}, NEW fn \in Nat, NEW operands \in Seq(Values),
         Insert(op, fn, operands),
         op = "call" => /\ top.ast.kind = "call" /\ Calls(top.ast, fn) /\ Stands(top.home, fn)
                        /\ Len(operands) = Len(top.ast.parts)
                        /\ PartsMade(top.home, top.ast, operands),
         op = "test" => /\ top.ast.kind = "if" /\ Len(operands) = 1
                        /\ Made(top.home, top.ast.parts[1], operands[1]),
         op = "phi" => /\ top.ast.kind = "if" /\ Len(operands) = 3
                       /\ BranchesMade(top.home, top.ast, operands),
         \A i \in DOMAIN operands : operands[i].op = "instr" => operands[i].nr \in DOMAIN code
  PROVE  /\ code' \in Seq(Instructions) /\ Kept /\ CodeOK' /\ FunctionsMean'
         /\ Inserted \in Values /\ Inserted.op = "instr" /\ Inserted.nr \in DOMAIN code'
         /\ code'[Inserted.nr].op = op /\ code'[Inserted.nr].ast = top.ast
<1> DEFINE c == [op |-> op, fn |-> fn, operands |-> operands, in |-> block,
                 late |-> module[block].state = "finished", ast |-> top.ast]
<1>1. /\ block \in DOMAIN module /\ module[block].state \in {"begun", "finished"}
      /\ block \in Finished => top.home \in module[block].inside
      /\ block \notin Finished => block = top.home
  BY PointInside
<1>2. top.ast \in AllAsts /\ block \in Nat
  BY Basics DEF IInv, TypeOK
<1>3. /\ c.op = op /\ c.fn = fn /\ c.operands = operands /\ c.in = block /\ c.ast = top.ast
      /\ c.late <=> block \in Finished
  BY <1>1 DEF Finished
<1>4. c \in Instructions
  BY <1>2 DEF Instructions
<1>5. code' = Append(code, c) /\ UNCHANGED module
  BY DEF Insert
<1> HIDE DEF c
<1>6. code \in Seq(Instructions)
  BY Basics DEF IInv
<1>7. /\ code' \in Seq(Instructions) /\ DOMAIN code' = 1 .. Len(code) + 1
      /\ DOMAIN code = 1 .. Len(code) /\ Len(code) \in Nat
      /\ code'[Len(code) + 1] = c
      /\ \A k \in 1 .. Len(code) : code'[k] = code[k]
  BY <1>4, <1>5, <1>6, Added
<1>8. \A n \in DOMAIN code' \ DOMAIN code : n = Len(code) + 1
  BY <1>7
<1>9. Kept
  <2>1. CodeKept
    BY <1>3, <1>7, <1>8 DEF CodeKept
  <2> QED
    BY <1>5, <2>1, ModuleSame DEF Kept
<1>10. InstructionOK(Len(code) + 1, c)
  <2>1. \A i \in DOMAIN c.operands : c.operands[i].op = "instr" =>
          c.operands[i].nr \in 1 .. (Len(code) + 1) - 1
    BY <1>3, <1>7
  <2>2. c.op = "call" => Stands(c.in, c.fn)
    BY <1>3, StandsInside
  <2>3. ~c.late => c.in = top.home
    BY <1>1, <1>3
  <2>4. c.in \in DOMAIN module /\ module[c.in].state # "declared"
    BY <1>1, <1>3
  <2>5. c.late => c.in \in Finished /\ module[c.in].inside # {}
    BY <1>1, <1>3
  <2> QED
    BY <1>3, <2>1, <2>2, <2>3, <2>4, <2>5 DEF InstructionOK
<1>11. ASSUME NEW n \in DOMAIN code' \ DOMAIN code, NEW q, q = code'[n] PROVE InstructionOK(n, q)'
  <2>1. InstructionOK(n, q)
    BY <1>7, <1>8, <1>10, <1>11
  <2> QED
    BY <1>9, <2>1, InstructionKept
<1>12. CodeOK'
  <2>1. \A n \in DOMAIN code' \ DOMAIN code : InstructionOK(n, code[n])'
    BY <1>11
  <2> QED
    BY <1>9, <2>1, CodeOKKept DEF IInv
<1>13. FunctionsMean'
  <2>1. Finished' = Finished
    BY <1>5 DEF Finished
  <2>2. \A n \in DOMAIN code' \ DOMAIN code :
          code'[n].late => module'[code'[n].in].inside # {}
    BY <1>1, <1>3, <1>5, <1>7, <1>8
  <2> QED
    BY <1>9, <2>1, <2>2, FunctionsMeanKept DEF IInv
<1>14. /\ Inserted \in Values /\ Inserted.op = "instr" /\ Inserted.nr = Len(code) + 1
  BY <1>7 DEF Inserted, Instr, Value, Values
<1>15. Len(code) + 1 \in DOMAIN code'
  BY <1>7
<1> QED
  BY <1>3, <1>7, <1>9, <1>12, <1>13, <1>14, <1>15

(* The instructions that the values of a frame name are there.             *)
LEMMA MadeNumbers ==
  ASSUME NEW f, NEW ast \in AllAsts, NEW v, Made(f, ast, v), v.op = "instr"
  PROVE  v.nr \in DOMAIN code
<1>1. ast.kind \in Kinds
  BY AstTypes
<1> QED
  BY <1>1 DEF Made, Kinds, Const, Value

LEMMA PartTypes ==
  ASSUME NEW ast \in AllAsts, NEW k \in 1 .. Len(ast.parts)
  PROVE  ast.parts[k] \in AllAsts
<1>1. ast.parts \in Seq(Asts)
  BY AstTypes
<1> QED
  BY <1>1 DEF AllAsts

LEMMA ToConditionStep ==
  ASSUME IInv, ReturnToCondition, UNCHANGED pc
  PROVE  IInv'
<1>1. /\ UNCHANGED <<module, env, node, value, block>> /\ frames # <<>> /\ phase = "return"
      /\ top.ast.kind = "if" /\ top.values = <<>> /\ Got(Inserted, block) /\ phase' = "next"
      /\ Insert("test", 0, <<value>>)
  BY DEF ReturnToCondition, Insert
<1>2. Waiting /\ Made(top.home, Awaited, value) /\ PointOK(top.home, block)
  BY <1>1 DEF IInv, NowOK
<1>3. Awaited = top.ast.parts[1] /\ top.ast \in AllAsts /\ Len(top.ast.parts) = 3
  BY <1>1, Basics, AstTypes DEF IInv, Awaited
<1>4. value \in Values /\ block \in Nat
  BY DEF IInv, TypeOK
<1>5. Awaited \in AllAsts
  BY <1>1, <1>2, AwaitedType DEF AllAsts
<1>6. value.op = "instr" => value.nr \in DOMAIN code
  BY <1>2, <1>5, MadeNumbers
<1> DEFINE os == <<value>>
<1>7. os \in Seq(Values) /\ Len(os) = 1 /\ DOMAIN os = {1} /\ os[1] = value
  BY <1>4
<1>8. Insert("test", 0, os)
  BY <1>1
<1> HIDE DEF os
<1>9. \A i \in DOMAIN os : os[i].op = "instr" => os[i].nr \in DOMAIN code
  BY <1>6, <1>7
<1>10. Made(top.home, top.ast.parts[1], os[1])
  BY <1>2, <1>3, <1>7
<1>11. /\ code' \in Seq(Instructions) /\ Kept /\ CodeOK' /\ FunctionsMean'
       /\ Inserted \in Values /\ Inserted.op = "instr" /\ Inserted.nr \in DOMAIN code'
       /\ code'[Inserted.nr].op = "test" /\ code'[Inserted.nr].ast = top.ast
  BY <1>1, <1>2, <1>7, <1>8, <1>9, <1>10, InsertStep
<1>12. Begun' = Begun /\ Finished' = Finished /\ block' \in Nat
  BY <1>1, <1>4 DEF Begun, Finished
<1>13. ASSUME NEW r \in Frames, r.ast = top.ast, r.home = top.home, r.parent = block,
              r.values = Append(top.values, Inserted)
       PROVE  FrameOK(r)' /\ PointOK(r.home, block)'
  <2>1. r.values = <<Inserted>>
    BY <1>1, <1>13
  <2>2. Len(r.values) = 1 /\ DOMAIN r.values = {1} /\ r.values[1] = Inserted /\ r.values # <<>>
    BY <2>1
  <2>3. r.home \in Begun'
    BY <1>1, <1>12, <1>13, TopOK
  <2>4. PointOK(r.home, r.parent)'
    BY <1>1, <1>2, <1>12, <1>13 DEF PointOK
  <2>5. PointOK(r.home, block)'
    BY <1>1, <1>2, <1>12, <1>13 DEF PointOK
  <2>6. TestOf(r.ast, r.values[1])'
    BY <1>11, <1>13, <2>2 DEF TestOf
  <2>7. \A k \in DOMAIN r.values : k = 1
    BY <2>2
  <2>8. BranchesMade(r.home, r.ast, r.values)'
    BY <2>6, <2>7 DEF BranchesMade
  <2>9. Len(r.values) <= Len(r.ast.parts)
    BY <1>3, <1>13, <2>2
  <2> QED
    BY <1>1, <1>13, <2>3, <2>4, <2>5, <2>8, <2>9 DEF FrameOK
<1> QED
  BY <1>1, <1>4, <1>11, <1>12, <1>13, GotStep

(* A frame that has the values of all parts leaves them to an instruction, *)
(* whose value goes to the frame below.                                    *)
LEMMA BelowWaits ==
  ASSUME IInv, frames # <<>>, frames' = Front(frames), frames' # <<>>
  PROVE  /\ top' \in Frames /\ WaitsFor(top', top)
         /\ top.ast.kind = "function" => top'.home \in module[top.home].inside
         /\ \E i \in DOMAIN frames : top' = frames[i]
<1>1. /\ frames \in Seq(Frames) /\ top = frames[Len(frames)] /\ Len(frames) \in Nat \ {0}
      /\ frames' \in Seq(Frames) /\ Len(frames') = Len(frames) - 1
      /\ \A k \in 1 .. Len(frames) - 1 : frames'[k] = frames[k]
      /\ DOMAIN frames = 1 .. Len(frames)
  BY Basics, Removed DEF IInv
<1>2. Len(frames) - 1 \in 1 .. Len(frames) - 1
  BY <1>1
<1>3. top' \in Frames /\ top' = frames[Len(frames) - 1]
  BY <1>1, <1>2, Removed DEF top
<1> DEFINE i == Len(frames) - 1
           j == Len(frames)
<1>4. i \in DOMAIN frames /\ j \in DOMAIN frames /\ i < j /\ j = i + 1
  BY <1>1, <1>2
<1>5. top' = frames[i] /\ top = frames[j]
  BY <1>1, <1>3
<1> HIDE DEF i, j
<1>6. WaitsFor(frames[i], frames[j])
  BY <1>4 DEF IInv, WaitingOK
<1>7. frames[j].ast.kind = "function" => frames[i].home \in module[frames[j].home].inside
  BY <1>4 DEF IInv, NestedOK
<1> QED
  BY <1>3, <1>4, <1>5, <1>6, <1>7

LEMMA NotLast ==
  ASSUME IInv, frames # <<>>, top.ast.kind # "function", frames' = Front(frames)
  PROVE  frames' # <<>>
<1>1. /\ frames \in Seq(Frames) /\ top = frames[Len(frames)] /\ Len(frames) \in Nat \ {0}
      /\ frames' \in Seq(Frames) /\ Len(frames') = Len(frames) - 1
  BY Basics, Removed DEF IInv
<1>2. Len(frames) # 1
  BY <1>1 DEF IInv, FramesOK
<1> QED
  BY <1>1, <1>2

LEMMA PoppedStep ==
  ASSUME IInv, frames # <<>>, top.ast.kind # "function", frames' = Front(frames),
         UNCHANGED <<module, env, block, node, pc>>, Kept, CodeOK', FunctionsMean',
         code' \in Seq(Instructions), value' \in Values, phase' = "return", phase # "idle",
         PointOK(top.home, block),
         \A f, ast : f = top.home /\ ast = top.ast => Made(f, ast, value)'
  PROVE  IInv'
<1>1. InsideOK' /\ EnvOK' /\ Begun' = Begun /\ Finished' = Finished
  BY DEF IInv, InsideOK, EnvOK, Begun, Finished
<1>2. frames' # <<>>
  BY NotLast
<1>3. top' \in Frames /\ WaitsFor(top', top)
  BY <1>2, BelowWaits
<1>4. frames \in Seq(Frames) /\ frames' \in Seq(Frames)
  BY Basics, Removed DEF IInv
<1>5. TypeOK'
  BY <1>4 DEF IInv, TypeOK
<1>6. \A i \in 1 .. Len(frames) - 1 : frames[i].home \in Begun'
  BY <1>1, <1>4 DEF IInv, FramesOK, FrameOK
<1>7. FramesOK'
  BY <1>6, FramesPopped DEF IInv
<1>8. NestedOK'
  BY <1>1, NestedPopped DEF IInv
<1>9. WaitingOK'
  BY WaitingPopped DEF IInv
<1>10. top'.home = top.home /\ Waiting' /\ Awaited' = top.ast
  BY <1>3 DEF WaitsFor, Waiting, Awaited
<1>11. Made(top.home, Awaited, value)'
  BY <1>10
<1>12. PointOK(top.home, block)'
  BY <1>1, <1>10 DEF PointOK
<1>13. NowOK'
  BY <1>2, <1>10, <1>11, <1>12 DEF NowOK
<1> QED
  BY <1>1, <1>5, <1>7, <1>8, <1>9, <1>13 DEF IInv

LEMMA FinishCallStep ==
  ASSUME IInv, FinishCall, UNCHANGED pc
  PROVE  IInv'
<1>1. /\ phase = "next" /\ top.ast.kind = "call" /\ ~Waiting /\ phase' = "return"
      /\ Insert("call", top.fn, top.values) /\ value' = Inserted
      /\ frames' = Front(frames) /\ UNCHANGED <<module, env, block, node>>
  BY DEF FinishCall, Insert, Return
<1>2. frames # <<>> /\ PointOK(top.home, block)
  BY <1>1 DEF IInv, NowOK
<1>3. FrameOK(top)
  BY <1>2, TopOK
<1>4. top.values \in Seq(Values) /\ top.fn \in Nat /\ top.ast \in AllAsts
  BY <1>2, Basics DEF IInv
<1>5. top.ast.parts \in Seq(Asts)
  BY <1>4, AstTypes
<1>6. Len(top.values) = Len(top.ast.parts) /\ DOMAIN top.values = 1 .. Len(top.ast.parts)
  BY <1>1, <1>3, <1>4, <1>5 DEF Waiting, FrameOK
<1>7. Calls(top.ast, top.fn) /\ Stands(top.home, top.fn) /\ PartsMade(top.home, top.ast, top.values)
  BY <1>1, <1>3 DEF FrameOK
<1>8. ASSUME NEW k \in DOMAIN top.values, top.values[k].op = "instr"
      PROVE  top.values[k].nr \in DOMAIN code
  <2>1. Made(top.home, top.ast.parts[k], top.values[k])
    BY <1>7 DEF PartsMade
  <2>2. top.ast.parts[k] \in AllAsts
    BY <1>4, <1>6, PartTypes
  <2> QED
    BY <1>8, <2>1, <2>2, MadeNumbers
<1>9. /\ code' \in Seq(Instructions) /\ Kept /\ CodeOK' /\ FunctionsMean'
      /\ Inserted \in Values /\ Inserted.op = "instr" /\ Inserted.nr \in DOMAIN code'
      /\ code'[Inserted.nr].op = "call" /\ code'[Inserted.nr].ast = top.ast
  BY <1>1, <1>2, <1>4, <1>6, <1>7, <1>8, InsertStep
<1>10. ASSUME NEW f, NEW ast, f = top.home, ast = top.ast PROVE Made(f, ast, value)'
  BY <1>1, <1>9, <1>10 DEF Made
<1> QED
  BY <1>1, <1>2, <1>9, <1>10, PoppedStep

LEMMA FinishIfStep ==
  ASSUME IInv, FinishIf, UNCHANGED pc
  PROVE  IInv'
<1>1. /\ phase = "next" /\ top.ast.kind = "if" /\ ~Waiting /\ phase' = "return"
      /\ Insert("phi", 0, top.values) /\ value' = Inserted
      /\ frames' = Front(frames) /\ UNCHANGED <<module, env, block, node>>
  BY DEF FinishIf, Insert, Return
<1>2. frames # <<>> /\ PointOK(top.home, block)
  BY <1>1 DEF IInv, NowOK
<1>3. FrameOK(top)
  BY <1>2, TopOK
<1>4. top.values \in Seq(Values) /\ top.ast \in AllAsts
  BY <1>2, Basics DEF IInv
<1>5. top.ast.parts \in Seq(Asts) /\ Len(top.ast.parts) = 3
  BY <1>1, <1>4, AstTypes
<1>6. Len(top.values) = 3 /\ DOMAIN top.values = 1 .. Len(top.ast.parts) /\ top.values # <<>>
  BY <1>1, <1>3, <1>4, <1>5 DEF Waiting, FrameOK
<1>7. BranchesMade(top.home, top.ast, top.values)
  BY <1>1, <1>3 DEF FrameOK
<1>8. ASSUME NEW k \in DOMAIN top.values, top.values[k].op = "instr"
      PROVE  top.values[k].nr \in DOMAIN code
  <2>1. CASE k = 1
    BY <1>6, <1>7, <2>1 DEF BranchesMade, TestOf
  <2>2. CASE k # 1
    <3>1. Made(top.home, top.ast.parts[k], top.values[k])
      BY <1>7, <2>2 DEF BranchesMade
    <3>2. top.ast.parts[k] \in AllAsts
      BY <1>4, <1>6, PartTypes
    <3> QED
      BY <1>8, <3>1, <3>2, MadeNumbers
  <2> QED
    BY <2>1, <2>2
<1>9. /\ code' \in Seq(Instructions) /\ Kept /\ CodeOK' /\ FunctionsMean'
      /\ Inserted \in Values /\ Inserted.op = "instr" /\ Inserted.nr \in DOMAIN code'
      /\ code'[Inserted.nr].op = "phi" /\ code'[Inserted.nr].ast = top.ast
  BY <1>1, <1>2, <1>4, <1>6, <1>7, <1>8, InsertStep
<1>10. ASSUME NEW f, NEW ast, f = top.home, ast = top.ast PROVE Made(f, ast, value)'
  BY <1>1, <1>9, <1>10 DEF Made
<1> QED
  BY <1>1, <1>2, <1>9, <1>10, PoppedStep

-----------------------------------------------------------------------------
(* Prototypes and definitions. *)

LEMMA FramesSame ==
  ASSUME FramesOK, Kept, UNCHANGED frames, Begun \subseteq Begun'
  PROVE  FramesOK'
<1>1. ASSUME NEW i \in DOMAIN frames, NEW q, q = frames[i] PROVE FrameOK(q)'
  <2>1. FrameOK(q) /\ q.home \in Begun
    BY <1>1 DEF FramesOK, FrameOK
  <2> QED
    BY <2>1, FrameKept
<1>2. \A i \in DOMAIN frames' : FrameOK(frames[i])'
  BY <1>1
<1> QED
  BY <1>2 DEF FramesOK

LEMMA PrototypedIs ==
  ASSUME IInv, NEW f \in Prototyped
  PROVE  /\ DOMAIN module = 1 .. Len(module) /\ Len(module) \in Nat
         /\ \/ f = Len(module) + 1 /\ f \notin DOMAIN module
            \/ /\ f \in DOMAIN module /\ module[f].state = "declared"
               /\ module[f].name = node.name /\ Len(module[f].args) = Len(node.args)
<1>1. DOMAIN module = 1 .. Len(module) /\ Len(module) \in Nat
  BY Basics DEF IInv
<1>2. Len(module) + 1 \notin DOMAIN module
  BY <1>1
<1> QED
  BY <1>1, <1>2 DEF Prototyped, Named, Takes

LEMMA FuncgenModule ==
  ASSUME IInv, node \in AllAsts, NEW f \in Prototyped, NEW state \in {"declared", "begun"},
         NEW inside \in SUBSET Nat, Funcgen(f, state, inside), UNCHANGED code
  PROVE  /\ module' \in Seq(Functions) /\ Kept
         /\ f \in DOMAIN module' /\ DOMAIN module' = DOMAIN module \cup {f}
         /\ \A g \in DOMAIN module : g # f => module'[g] = module[g]
         /\ module'[f].name = node.name /\ module'[f].args = node.args
         /\ module'[f].state = state /\ module'[f].inside = inside /\ module'[f].body = node
         /\ f \in DOMAIN module => module'[f].foreign = module[f].foreign
         /\ f \notin DOMAIN module => module'[f].foreign = node.foreign
<1>1. /\ DOMAIN module = 1 .. Len(module) /\ Len(module) \in Nat
      /\ \/ f = Len(module) + 1 /\ f \notin DOMAIN module
         \/ /\ f \in DOMAIN module /\ module[f].state = "declared"
            /\ module[f].name = node.name /\ Len(module[f].args) = Len(node.args)
  BY PrototypedIs
<1> DEFINE new == [name |-> node.name, args |-> node.args, state |-> state,
                   foreign |-> IF f \in DOMAIN module THEN module[f].foreign ELSE node.foreign,
                   inside |-> inside, body |-> node, value |-> Const]
<1>2. new \in Functions
  <2>1. node.name \in Names \cup {NoName} /\ node.args \in Seq(Names) /\ node.foreign \in BOOLEAN
    BY AstTypes
  <2>2. f \in DOMAIN module => module[f] \in Functions
    BY Basics DEF IInv
  <2>3. f \in DOMAIN module => module[f].foreign \in BOOLEAN
    BY <2>2 DEF Functions
  <2>4. Const \in Values
    BY DEF Const, Value, Values
  <2> QED
    BY <2>1, <2>3, <2>4 DEF Functions
<1>3. module' = [g \in DOMAIN module \cup {f} |-> IF g # f THEN module[g] ELSE new]
  BY DEF Funcgen
<1>4. /\ new.name = node.name /\ new.args = node.args /\ new.state = state
      /\ new.inside = inside /\ new.body = node
      /\ new.foreign = IF f \in DOMAIN module THEN module[f].foreign ELSE node.foreign
  OBVIOUS
<1> HIDE DEF new
<1>5. /\ DOMAIN module' = DOMAIN module \cup {f} /\ module'[f] = new
      /\ \A g \in DOMAIN module : g # f => module'[g] = module[g]
  BY <1>3
<1>6. module' \in Seq(Functions)
  <2> DEFINE n == IF f \in DOMAIN module THEN Len(module) ELSE Len(module) + 1
  <2>1. n \in Nat /\ DOMAIN module \cup {f} = 1 .. n
    BY <1>1
  <2>2. \A g \in DOMAIN module : module[g] \in Functions
    BY Basics DEF IInv
  <2> HIDE DEF n
  <2>3. module' \in [1 .. n -> Functions]
    BY <1>2, <1>3, <2>1, <2>2
  <2> QED
    BY <2>1, <2>3
<1>7. ModuleKept
  BY <1>1, <1>4, <1>5 DEF ModuleKept
<1> QED
  BY <1>4, <1>5, <1>6, <1>7, CodeSame DEF Kept

(* A definition cannot have begun inside of a function before there is     *)
(* that function, or while it is only declared.                            *)
LEMMA NotInside ==
  ASSUME IInv, NEW f \in Prototyped, NEW g \in DOMAIN module
  PROVE  f \notin module[g].inside /\ f \notin Begun /\ f \notin Finished
BY PrototypedIs DEF IInv, InsideOK, Begun, Finished

(* The largest of some indices, from the well-founded order of Nat. *)
Below == {p \in Nat \X Nat : p[1] < p[2]}

LEMMA Least == ASSUME NEW T, T \subseteq Nat, T # {}
               PROVE  \E x \in T : \A y \in T : x <= y
<1>1. IsWellFoundedOn(Below, Nat)
  BY NatLessThanWellFounded DEF OpToRel, Below
<1>2. PICK x \in T : \A y \in T : ~ (<<y, x>> \in Below)
  BY <1>1, WFMin
<1>3. ASSUME NEW y \in T PROVE x <= y
  <2>1. x \in Nat /\ y \in Nat
    OBVIOUS
  <2>2. ~(<<y, x>> \in Below)
    BY <1>2
  <2>3. ~(y < x)
    BY <2>1, <2>2 DEF Below
  <2> QED
    BY <2>1, <2>3
<1> QED
  BY <1>3

LEMMA LastIndex == ASSUME NEW n \in Nat, NEW T, T \subseteq 1..n, T # {}
                   PROVE  \E x \in T : \A y \in T : y <= x
<1> DEFINE U == {n - y : y \in T}
<1>1. U \subseteq Nat /\ U # {}
  <2>1. \A y \in T : n - y \in Nat
    OBVIOUS
  <2> QED
    BY <2>1
<1>2. PICK u \in U : \A v \in U : u <= v
  BY <1>1, Least
<1>3. PICK x \in T : u = n - x
  OBVIOUS
<1>4. ASSUME NEW y \in T PROVE y <= x
  <2>1. n - x <= n - y
    BY <1>2, <1>3
  <2> QED
    BY <2>1
<1> QED
  BY <1>4

LEMMA LastAtIs ==
  ASSUME NEW S, NEW s \in Seq(S), NEW x \in ToSet(s)
  PROVE  /\ LastAt(s, x) \in DOMAIN s /\ s[LastAt(s, x)] = x /\ LastAt(s, x) \in Nat
         /\ \A j \in LastAt(s, x) + 1 .. Len(s) : s[j] # x
<1> DEFINE T == {i \in 1 .. Len(s) : s[i] = x}
<1>1. T \subseteq 1 .. Len(s) /\ T # {} /\ Len(s) \in Nat /\ DOMAIN s = 1 .. Len(s)
  BY DEF ToSet
<1> HIDE DEF T
<1>2. PICK i \in T : \A j \in T : j <= i
  BY <1>1, LastIndex
<1>3. i \in DOMAIN s /\ s[i] = x
  BY <1>1, <1>2 DEF T
<1>4. ASSUME NEW j \in i + 1 .. Len(s) PROVE s[j] # x
  <2>1. j \in 1 .. Len(s) /\ ~(j <= i)
    BY <1>1, <1>3
  <2> QED
    BY <1>2, <2>1 DEF T
<1>5. LastAt(s, x) \in DOMAIN s /\ s[LastAt(s, x)] = x
      /\ \A j \in LastAt(s, x) + 1 .. Len(s) : s[j] # x
  BY <1>3, <1>4 DEF LastAt
<1> QED
  BY <1>1, <1>5

LEMMA BoundEnv ==
  ASSUME IInv, node \in AllAsts, NEW f \in Prototyped, NEW variables, Bind(f, variables),
         f \in DOMAIN module', module'[f].args = node.args,
         \A g \in DOMAIN module : g # f => module'[g] = module[g],
         DOMAIN module' = DOMAIN module \cup {f},
         (variables = env /\ module'[f].state = "declared") \/ DOMAIN variables = {}
  PROVE  EnvOK'
<1>1. f \in Nat
  BY PrototypedIs
<1>2. ASSUME NEW n \in DOMAIN env'
      PROVE  /\ env'[n].op = "arg" /\ env'[n] \in Values /\ env'[n].fn \in DOMAIN module'
             /\ module'[env'[n].fn].state # "declared" =>
                  /\ n \in ToSet(module'[env'[n].fn].args)
                  /\ env'[n] = Argument(env'[n].fn, LastAt(module'[env'[n].fn].args, n))
  <2>1. CASE n \in ToSet(node.args)
    <3>1. env'[n] = Argument(f, LastAt(node.args, n))
      BY <2>1 DEF Bind
    <3>2. LastAt(node.args, n) \in Nat
      BY <2>1, LastAtIs, AstTypes
    <3>3. env'[n].op = "arg" /\ env'[n].fn = f /\ env'[n] \in Values
      BY <1>1, <3>1, <3>2 DEF Argument, Value, Values
    <3> QED
      BY <2>1, <3>1, <3>3
  <2>2. CASE n \notin ToSet(node.args)
    <3>1. n \in DOMAIN variables /\ env'[n] = variables[n]
      BY <2>2 DEF Bind
    <3>2. n \in DOMAIN env /\ env'[n] = env[n] /\ module'[f].state = "declared"
      BY <3>1
    <3> QED
      BY <3>2 DEF IInv, EnvOK
  <2> QED
    BY <2>1, <2>2
<1> QED
  BY <1>2 DEF EnvOK

LEMMA PrototypeStep ==
  ASSUME IInv, VisitPrototype, UNCHANGED pc
  PROVE  IInv'
<1>1. PICK f \in Prototyped : /\ Funcgen(f, "declared", {})
                              /\ Bind(f, env)
                              /\ Return(FunctionAt(f))
  BY DEF VisitPrototype
<1>2. phase = "visit" /\ node.kind = "prototype" /\ UNCHANGED <<frames, block, code>>
  BY DEF VisitPrototype, Visit
<1>3. node \in AllAsts
  BY <1>2 DEF IInv, TypeOK
<1>4. node.foreign
  BY <1>2, <1>3, AstTypes
<1>5. /\ module' \in Seq(Functions) /\ Kept
      /\ f \in DOMAIN module' /\ DOMAIN module' = DOMAIN module \cup {f}
      /\ \A g \in DOMAIN module : g # f => module'[g] = module[g]
      /\ module'[f].args = node.args
      /\ module'[f].state = "declared" /\ module'[f].inside = {}
      /\ f \in DOMAIN module => module'[f].foreign = module[f].foreign
      /\ f \notin DOMAIN module => module'[f].foreign = node.foreign
  <2>1. {} \in SUBSET Nat /\ "declared" \in {"declared", "begun"}
    OBVIOUS
  <2> QED
    BY <1>1, <1>2, <1>3, <2>1, FuncgenModule
<1>6. /\ f \in Nat /\ f \notin Begun /\ f \notin Finished
      /\ f \in DOMAIN module => module[f].state = "declared"
  BY PrototypedIs DEF Begun, Finished
<1>7. Begun' = Begun /\ Finished' = Finished
  BY <1>5, <1>6 DEF Begun, Finished
<1>8. ASSUME NEW g \in DOMAIN module PROVE f \notin module[g].inside
  BY NotInside
<1>9. InsideOK'
  <2>1. module'[f].foreign
    BY <1>4, <1>5, <1>6 DEF IInv, InsideOK
  <2>2. ASSUME NEW g \in DOMAIN module, g # f
        PROVE  /\ module'[g].state = "declared" => module'[g].foreign
               /\ module'[g].state = "begun" => module'[g].inside \subseteq Begun'
               /\ g \notin module'[g].inside
               /\ \A h \in module'[g].inside :
                    /\ h \in DOMAIN module' /\ module'[h].state # "declared"
                    /\ g \notin module'[h].inside
                    /\ module'[h].inside \subseteq module'[g].inside
    BY <1>5, <1>7, <1>8, <2>2 DEF IInv, InsideOK
  <2> QED
    BY <1>5, <2>1, <2>2 DEF InsideOK
<1>10. EnvOK'
  BY <1>1, <1>3, <1>5, BoundEnv
<1>11. FunctionAt(f) \in Values /\ FunctionAt(f).op = "function"
  BY <1>6 DEF FunctionAt, Value, Values
<1>12. TypeOK'
  BY <1>1, <1>2, <1>5, <1>11 DEF IInv, TypeOK, Return
<1>13. FramesOK'
  BY <1>2, <1>5, <1>7, FramesSame DEF IInv
<1>14. NestedOK'
  <2>1. \A i \in DOMAIN frames : frames[i].home # f /\ frames[i].home \in DOMAIN module
    BY <1>6 DEF IInv, FramesOK, FrameOK, Begun
  <2> QED
    BY <1>2, <1>5, <1>7, <2>1 DEF IInv, NestedOK
<1>15. WaitingOK'
  BY <1>2 DEF IInv, WaitingOK, WaitsFor
<1>16. CodeOK'
  BY <1>2, <1>5, CodeOKKept DEF IInv
<1>17. FunctionsMean'
  BY <1>2, <1>5, <1>7, FunctionsMeanKept DEF IInv
<1>18. NowOK'
  <2>1. CASE frames = <<>>
    BY <1>1, <1>2, <2>1 DEF NowOK, Return
  <2>2. CASE frames # <<>>
    <3>1. Waiting /\ node = Awaited /\ PointOK(top.home, block)
      BY <1>2, <2>2 DEF IInv, NowOK
    <3>2. Waiting' /\ Awaited' = Awaited /\ top' = top
      BY <1>2, <3>1 DEF Waiting, Awaited, top
    <3>3. Awaited'.kind = "prototype" /\ value'.op = "function"
      BY <1>1, <1>2, <1>11, <3>1, <3>2 DEF Return
    <3>4. Made(top.home, Awaited, value)'
      BY <3>3 DEF Made
    <3>5. \A h, b : PointOK(h, b) => PointOK(h, b)'
      BY <1>5, PointKept
    <3>6. PointOK(top.home, block)'
      BY <1>2, <3>1, <3>2, <3>5
    <3> QED
      BY <1>1, <1>2, <2>2, <3>2, <3>4, <3>6 DEF NowOK, Return
  <2> QED
    BY <2>1, <2>2
<1> QED
  BY <1>9, <1>10, <1>12, <1>13, <1>14, <1>15, <1>16, <1>17, <1>18 DEF IInv

LEMMA FunctionStep ==
  ASSUME IInv, VisitFunction, UNCHANGED pc
  PROVE  IInv'
<1>1. PICK f \in Prototyped : /\ Funcgen(f, "begun", Begun)
                              /\ Bind(f, Cleared)
                              /\ block' = f
                              /\ frames' = Append(frames, Frame(f, f))
  BY DEF VisitFunction
<1>2. /\ phase = "visit" /\ node.kind = "function" /\ node' = node.parts[1]
      /\ UNCHANGED <<phase, value, code>>
  BY DEF VisitFunction, Visit
<1>3. node \in AllAsts
  BY <1>2 DEF IInv, TypeOK
<1>4. node.parts \in Seq(Asts) /\ Len(node.parts) = 1
  BY <1>2, <1>3, AstTypes
<1>5. f \in Nat /\ Begun \in SUBSET Nat
  BY PrototypedIs DEF Begun
<1>6. /\ module' \in Seq(Functions) /\ Kept
      /\ f \in DOMAIN module' /\ DOMAIN module' = DOMAIN module \cup {f}
      /\ \A g \in DOMAIN module : g # f => module'[g] = module[g]
      /\ module'[f].args = node.args
      /\ module'[f].state = "begun" /\ module'[f].inside = Begun /\ module'[f].body = node
  <2>1. "begun" \in {"declared", "begun"}
    OBVIOUS
  <2> QED
    BY <1>1, <1>2, <1>3, <1>5, <2>1, FuncgenModule
<1>7. /\ f \notin Begun /\ f \notin Finished
      /\ f \in DOMAIN module => module[f].state = "declared"
  BY PrototypedIs DEF Begun, Finished
<1>8. Begun' = Begun \cup {f} /\ Finished' = Finished
  BY <1>6, <1>7 DEF Begun, Finished
<1>9. ASSUME NEW g \in DOMAIN module PROVE f \notin module[g].inside
  BY NotInside
<1>10. InsideOK'
  <2>1. ASSUME NEW g \in Begun
        PROVE  /\ g \in DOMAIN module' /\ module'[g].state # "declared"
               /\ f \notin module'[g].inside
               /\ module'[g].inside \subseteq module'[f].inside
    BY <1>6, <1>7, <1>9 DEF IInv, InsideOK, Begun
  <2>2. ASSUME NEW g \in DOMAIN module, g # f
        PROVE  /\ module'[g].state = "declared" => module'[g].foreign
               /\ module'[g].state = "begun" => module'[g].inside \subseteq Begun'
               /\ g \notin module'[g].inside
               /\ \A h \in module'[g].inside :
                    /\ h \in DOMAIN module' /\ module'[h].state # "declared"
                    /\ g \notin module'[h].inside
                    /\ module'[h].inside \subseteq module'[g].inside
    BY <1>6, <1>8, <1>9, <2>2 DEF IInv, InsideOK
  <2> QED
    BY <1>6, <1>7, <1>8, <2>1, <2>2 DEF InsideOK
<1>11. EnvOK'
  <2>1. DOMAIN Cleared = {}
    BY DEF Cleared
  <2> QED
    BY <1>1, <1>3, <1>6, <2>1, BoundEnv
<1> DEFINE r == Frame(f, f)
<1>12. /\ r \in Frames /\ r.ast = node /\ r.fn = f /\ r.home = f
       /\ r.values = <<>> /\ Len(r.values) = 0
  BY <1>3, <1>5, FrameTypes
<1>13. frames' = Append(frames, r)
  BY <1>1
<1> HIDE DEF r
<1>14. PICK q \in Frames : q = r
  BY <1>12
<1>15. FrameOK(q)'
  BY <1>2, <1>4, <1>6, <1>8, <1>12, <1>14 DEF FrameOK
<1>16. FramesOK'
  BY <1>2, <1>6, <1>8, <1>12, <1>13, <1>14, <1>15, FramesPushed DEF IInv
<1>17. /\ frames \in Seq(Frames) /\ frames' \in Seq(Frames) /\ frames' # <<>>
       /\ top' = r
       /\ DOMAIN frames' = 1 .. Len(frames) + 1 /\ DOMAIN frames = 1 .. Len(frames)
       /\ Len(frames) \in Nat /\ frames'[Len(frames) + 1] = r
       /\ \A k \in 1 .. Len(frames) : frames'[k] = frames[k]
  BY <1>12, <1>13, Basics, Added DEF IInv, top
<1>18. NestedOK'
  <2>1. ASSUME NEW i \in DOMAIN frames PROVE frames[i].home \in Begun
    BY DEF IInv, FramesOK, FrameOK
  <2>2. ASSUME NEW i \in DOMAIN frames', NEW j \in DOMAIN frames', i < j
        PROVE  \/ frames'[i].home \in module'[frames'[j].home].inside
               \/ frames'[i].home = frames'[j].home /\ frames'[j].ast.kind # "function"
    <3>1. i \in DOMAIN frames /\ frames'[i] = frames[i]
      BY <1>17, <2>2
    <3>2. CASE j \in DOMAIN frames
      <4>1. frames'[j] = frames[j]
        BY <1>17, <3>2
      <4>2. frames[j].home # f /\ frames[j].home \in DOMAIN module
        BY <1>7, <2>1, <3>2 DEF Begun
      <4>3. module'[frames[j].home] = module[frames[j].home]
        BY <1>6, <4>2
      <4> QED
        BY <2>2, <3>1, <3>2, <4>1, <4>3 DEF IInv, NestedOK
    <3>3. CASE j = Len(frames) + 1
      BY <1>6, <1>12, <1>17, <2>1, <3>1, <3>3
    <3> QED
      BY <1>17, <3>2, <3>3
  <2>3. ASSUME NEW g \in Begun'
        PROVE  \E i \in DOMAIN frames' : frames'[i].ast.kind = "function" /\ frames'[i].home = g
    <3>1. CASE g = f
      <4>1. Len(frames) + 1 \in DOMAIN frames'
        BY <1>17
      <4> QED
        BY <1>2, <1>12, <1>17, <3>1, <4>1
    <3>2. CASE g \in Begun
      <4>1. PICK i \in DOMAIN frames : frames[i].ast.kind = "function" /\ frames[i].home = g
        BY <3>2 DEF IInv, NestedOK
      <4>2. i \in DOMAIN frames' /\ frames'[i] = frames[i]
        BY <1>17
      <4> QED
        BY <4>1, <4>2
    <3> QED
      BY <1>8, <3>1, <3>2
  <2> QED
    BY <2>2, <2>3 DEF NestedOK
<1>19. WaitingOK'
  <2>1. frames # <<>> => WaitsFor(top, r)
    BY <1>2, <1>12 DEF IInv, NowOK, WaitsFor, Waiting, Awaited
  <2> QED
    BY <1>12, <1>13, <2>1, WaitingPushed DEF IInv
<1>20. node.parts[1] \in Asts
  BY <1>4
<1>21. TypeOK'
  BY <1>1, <1>2, <1>5, <1>6, <1>17, <1>20 DEF IInv, TypeOK, AllAsts
<1>22. CodeOK'
  BY <1>2, <1>6, CodeOKKept DEF IInv
<1>23. FunctionsMean'
  BY <1>2, <1>6, <1>8, FunctionsMeanKept DEF IInv
<1>24. NowOK'
  <2>1. Waiting' /\ Awaited' = node.parts[1]
    BY <1>4, <1>12, <1>17 DEF Waiting, Awaited
  <2>2. PointOK(top.home, block)'
    BY <1>1, <1>12, <1>17 DEF PointOK
  <2> QED
    BY <1>2, <1>17, <2>1, <2>2 DEF NowOK
<1> QED
  BY <1>10, <1>11, <1>16, <1>18, <1>19, <1>21, <1>22, <1>23, <1>24 DEF IInv

LEMMA RedefinedStep ==
  ASSUME IInv, VisitRedefined, UNCHANGED pc
  PROVE  IInv'
<1>1. /\ UNCHANGED <<frames, module, block, code, value, node>> /\ phase' = "throw"
      /\ env' = Cleared \/ env' = env
  BY DEF VisitRedefined, Throw
<1>2. Kept
  BY <1>1, ModuleSame, CodeSame DEF Kept
<1>3. InsideOK' /\ NestedOK' /\ WaitingOK' /\ Begun' = Begun /\ Finished' = Finished
  BY <1>1 DEF IInv, InsideOK, NestedOK, WaitingOK, WaitsFor, Begun, Finished
<1>4. EnvOK'
  <2>1. CASE env' = Cleared
    BY <2>1 DEF EnvOK, Cleared
  <2>2. CASE env' = env
    BY <1>1, <2>2 DEF IInv, EnvOK
  <2> QED
    BY <1>1, <2>1, <2>2
<1>5. FramesOK'
  BY <1>1, <1>2, <1>3, FramesSame DEF IInv
<1>6. CodeOK'
  BY <1>1, <1>2, CodeOKKept DEF IInv
<1>7. FunctionsMean'
  BY <1>1, <1>2, <1>3, FunctionsMeanKept DEF IInv
<1>8. phase = "visit"
  BY DEF VisitRedefined, Visit
<1>9. TypeOK'
  BY <1>1, <1>8 DEF IInv, TypeOK
<1>10. NowOK'
  BY <1>1 DEF NowOK
<1> QED
  BY <1>3, <1>4, <1>5, <1>6, <1>7, <1>9, <1>10 DEF IInv

-----------------------------------------------------------------------------
(* The end of a definition: its function is finished or erased. *)

(* No definition under way began inside of the topmost one.                *)
LEMMA TopIsInnermost ==
  ASSUME IInv, frames # <<>>, top.ast.kind = "function"
  PROVE  /\ \A i \in 1 .. Len(frames) - 1 : frames[i].home \in Begun /\ frames[i].home # top.home
         /\ \A f \in Begun : f # top.home => top.home \notin module[f].inside
<1>1. /\ top = frames[Len(frames)] /\ Len(frames) \in DOMAIN frames
      /\ DOMAIN frames = 1 .. Len(frames) /\ Len(frames) \in Nat \ {0}
  BY Basics, Removed DEF IInv
<1>2. top.home \in DOMAIN module /\ top.home \in Begun
  BY TopOK
<1>3. ASSUME NEW i \in DOMAIN frames, i # Len(frames)
      PROVE  frames[i].home \in module[top.home].inside
  <2>1. i < Len(frames)
    BY <1>1, <1>3
  <2> QED
    BY <1>1, <2>1 DEF IInv, NestedOK
<1>4. ASSUME NEW i \in 1 .. Len(frames) - 1
      PROVE  frames[i].home \in Begun /\ frames[i].home # top.home
  <2>1. i \in DOMAIN frames /\ i # Len(frames)
    <3>1. ASSUME NEW n \in Nat, NEW k \in 1 .. n - 1 PROVE k \in 1 .. n /\ k # n
      OBVIOUS
    <3> QED
      BY <1>1, <3>1
  <2>2. frames[i].home \in Begun
    BY <2>1 DEF IInv, FramesOK, FrameOK
  <2> QED
    BY <1>2, <1>3, <2>1, <2>2 DEF IInv, InsideOK
<1>5. ASSUME NEW f \in Begun, f # top.home PROVE top.home \notin module[f].inside
  <2>1. PICK i \in DOMAIN frames : frames[i].home = f
    BY DEF IInv, NestedOK
  <2>2. f \in module[top.home].inside
    BY <1>1, <1>3, <1>5, <2>1
  <2> QED
    BY <1>2, <2>2 DEF IInv, InsideOK
<1> QED
  BY <1>4, <1>5

(* Its function ends, in the state given.                                  *)
Ended(f, state, v) == module' = [module EXCEPT ![f].state = state, ![f].value = v]

LEMMA EndedModule ==
  ASSUME IInv, frames # <<>>, NEW state \in {"finished", "erased"}, NEW v \in Values,
         Ended(top.home, state, v), UNCHANGED code
  PROVE  LET f == top.home
         IN  /\ f \in Begun /\ f \in DOMAIN module /\ module[f].state = "begun"
             /\ module' \in Seq(Functions) /\ DOMAIN module' = DOMAIN module
             /\ module'[f].state = state /\ module'[f].value = v
             /\ module'[f].name = module[f].name /\ module'[f].args = module[f].args
             /\ module'[f].foreign = module[f].foreign /\ module'[f].inside = module[f].inside
             /\ module'[f].body = module[f].body
             /\ \A g \in DOMAIN module : g # f => module'[g] = module[g]
             /\ Begun' = Begun \ {f}
             /\ Finished' = IF state = "finished" THEN Finished \cup {f} ELSE Finished
             /\ Kept
<1> DEFINE f == top.home
<1>1. /\ f \in DOMAIN module /\ module[f].state = "begun" /\ f \in Begun
  BY TopOK
<1>2. module \in Seq(Functions)
  BY Basics DEF IInv
<1> HIDE DEF f
<1>3. /\ DOMAIN module' = DOMAIN module
      /\ module'[f] = [module[f] EXCEPT !.state = state, !.value = v]
      /\ \A g \in DOMAIN module : g # f => module'[g] = module[g]
  BY <1>1, <1>2 DEF Ended, f
<1>4. module[f] \in Functions
  BY <1>1, <1>2
<1>5. /\ module'[f] \in Functions /\ module'[f].state = state /\ module'[f].value = v
      /\ module'[f].name = module[f].name /\ module'[f].args = module[f].args
      /\ module'[f].foreign = module[f].foreign /\ module'[f].inside = module[f].inside
      /\ module'[f].body = module[f].body
  BY <1>3, <1>4 DEF Functions
<1>6. module' \in Seq(Functions)
  <2>1. PICK n \in Nat : DOMAIN module = 1 .. n
    BY <1>2
  <2>2. \A g \in 1 .. n : module'[g] \in Functions
    BY <1>2, <1>3, <1>5, <2>1
  <2>3. module' = [g \in 1 .. n |-> module'[g]]
    BY <1>1, <1>2, <1>3, <2>1 DEF Ended
  <2>4. module' \in [1 .. n -> Functions]
    BY <2>2, <2>3
  <2> QED
    BY <2>4
<1>7. Begun' = Begun \ {f}
  <2>1. module'[f].state # "begun"
    BY <1>5
  <2> QED
    BY <1>1, <1>3, <2>1 DEF Begun
<1>8. Kept
  <2>1. ModuleKept
    BY <1>1, <1>3, <1>5 DEF ModuleKept
  <2> QED
    BY <2>1, CodeSame DEF Kept
<1>9. Finished' = IF state = "finished" THEN Finished \cup {f} ELSE Finished
  <2>1. module'[f].state = state
    BY <1>5
  <2>2. DOMAIN module' = DOMAIN module /\ \A g \in DOMAIN module : g # f => module'[g] = module[g]
    BY <1>3
  <2> QED
    BY <1>1, <2>1, <2>2 DEF Finished
<1> QED
  BY <1>1, <1>3, <1>5, <1>6, <1>7, <1>8, <1>9 DEF f

LEMMA EndStep ==
  ASSUME IInv, frames # <<>>, top.ast.kind = "function", frames' = Front(frames),
         NEW state \in {"finished", "erased"}, NEW v \in Values,
         Ended(top.home, state, v), UNCHANGED <<env, block, code, node, pc>>, phase # "idle",
         phase' \in {"return", "throw"}, value' \in Values, NowOK', FunctionsMean'
  PROVE  IInv'
<1> DEFINE f == top.home
<1>1. /\ f \in Begun /\ f \in DOMAIN module /\ module[f].state = "begun"
      /\ module' \in Seq(Functions) /\ DOMAIN module' = DOMAIN module
      /\ module'[f].state = state
      /\ module'[f].args = module[f].args
      /\ module'[f].foreign = module[f].foreign /\ module'[f].inside = module[f].inside
      /\ \A g \in DOMAIN module : g # f => module'[g] = module[g]
      /\ Begun' = Begun \ {f}
      /\ Kept
  BY EndedModule
<1>2. frames \in Seq(Frames) /\ frames' \in Seq(Frames)
  BY Basics, Removed DEF IInv
<1> HIDE DEF f
<1>3. InsideOK'
  <2>1. ASSUME NEW g \in DOMAIN module
        PROVE  /\ module'[g].inside = module[g].inside /\ module'[g].foreign = module[g].foreign
               /\ module'[g].state = "declared" <=> module[g].state = "declared"
               /\ module'[g].state = "begun" => g \in Begun /\ g # f
    BY <1>1 DEF Begun
  <2>2. ASSUME NEW g \in Begun, g # f PROVE module[g].inside \subseteq Begun \ {f}
    <3>1. f \notin module[g].inside
      BY <2>2, TopIsInnermost DEF f
    <3> QED
      BY <3>1 DEF IInv, InsideOK, Begun
  <2> QED
    BY <1>1, <2>1, <2>2 DEF IInv, InsideOK
<1>4. EnvOK'
  <2>1. \A g \in DOMAIN module : /\ module'[g].args = module[g].args
                                 /\ module'[g].state = "declared" <=> module[g].state = "declared"
    BY <1>1
  <2> QED
    BY <1>1, <2>1 DEF IInv, EnvOK
<1>5. FramesOK'
  BY <1>1, TopIsInnermost, FramesPopped DEF IInv, f
<1>6. NestedOK'
  BY <1>1, NestedPopped DEF IInv, f
<1>7. WaitingOK'
  BY WaitingPopped DEF IInv
<1>8. CodeOK'
  BY <1>1, CodeOKKept DEF IInv
<1>9. TypeOK'
  BY <1>1, <1>2 DEF IInv, TypeOK
<1> QED
  BY <1>3, <1>4, <1>5, <1>6, <1>7, <1>8, <1>9 DEF IInv

(* What was made for ast is its translation, once it is verified.          *)
LEMMA VerifiedTranslates ==
  ASSUME NEW f, NEW ast \in AllAsts, NEW v, Made(f, ast, v), NumberOf(f, v),
         \A n \in DOMAIN code : code[n].in = f => ~code[n].late
  PROVE  Translates(f, ast, v)
<1>1. ast.kind \in Kinds
  BY AstTypes
<1>2. v.nr \in DOMAIN code /\ code[v.nr].in = f => v.nr \in CodeOf(f)
  BY DEF CodeOf
<1>3. CASE ast.kind = "number"
  BY <1>3 DEF Made, Translates
<1>4. CASE ast.kind = "variable"
  BY <1>4 DEF Made, NumberOf, Translates
<1>5. CASE ast.kind = "call"
  BY <1>2, <1>5 DEF Made, NumberOf, Translates
<1>6. CASE ast.kind = "if"
  BY <1>2, <1>6 DEF Made, NumberOf, Translates
<1>7. CASE ast.kind \in {"prototype", "function"}
  BY <1>7 DEF Made, NumberOf, Translates
<1> QED
  BY <1>1, <1>3, <1>4, <1>5, <1>6, <1>7 DEF Kinds

LEMMA VerifiedMeans ==
  ASSUME IInv, NEW f \in DOMAIN module, module[f].state = "begun", module[f].body \in AllAsts,
         Len(module[f].body.parts) = 1,
         Made(f, module[f].body.parts[1], value), Verified(f)
  PROVE  /\ Translates(f, module[f].body.parts[1], value)
         /\ \A n \in CodeOf(f) :
              /\ \A i \in DOMAIN code[n].operands :
                   code[n].operands[i].op = "instr" => code[n].operands[i].nr < n
              /\ code[n].op = "call" => CallMeans(f, code[n])
              /\ code[n].op = "test" => TestMeans(f, code[n])
              /\ code[n].op = "phi"  => PhiMeans(f, code[n])
<1>1. \A n \in DOMAIN code : code[n].in = f => ~code[n].late
  BY DEF IInv, CodeOK, InstructionOK, Finished
<1>2. module[f].body.parts[1] \in AllAsts
  <2>1. 1 \in 1 .. Len(module[f].body.parts)
    OBVIOUS
  <2> QED
    BY <2>1, PartTypes
<1>3. Translates(f, module[f].body.parts[1], value)
  BY <1>1, <1>2, VerifiedTranslates DEF Verified
<1>4. ASSUME NEW n \in CodeOf(f)
      PROVE  /\ \A i \in DOMAIN code[n].operands :
                  code[n].operands[i].op = "instr" => code[n].operands[i].nr < n
             /\ code[n].op = "call" => CallMeans(f, code[n])
             /\ code[n].op = "test" => TestMeans(f, code[n])
             /\ code[n].op = "phi"  => PhiMeans(f, code[n])
  <2> DEFINE c == code[n]
  <2>1. n \in DOMAIN code /\ c.in = f /\ ~c.late
    BY DEF CodeOf
  <2>2. c \in Instructions /\ n \in Nat
    BY <2>1, Basics DEF IInv
  <2>3. InstructionOK(n, c)
    BY <2>1 DEF IInv, CodeOK
  <2>4. \A i \in DOMAIN c.operands : NumberOf(f, c.operands[i])
    BY <2>1 DEF Verified
  <2> HIDE DEF c
  <2>5. c.ast \in AllAsts /\ c.operands \in Seq(Values)
    BY <2>2 DEF Instructions
  <2>6. DOMAIN c.operands = 1 .. Len(c.operands)
    BY <2>5
  <2>7. ASSUME NEW i \in DOMAIN c.operands, c.operands[i].op = "instr" PROVE c.operands[i].nr < n
    BY <2>2, <2>3, <2>7 DEF InstructionOK
  <2>8. ASSUME NEW k \in DOMAIN c.operands, Len(c.operands) <= Len(c.ast.parts),
               Made(f, c.ast.parts[k], c.operands[k])
        PROVE  Translates(f, c.ast.parts[k], c.operands[k])
    <3>1. Len(c.operands) \in Nat /\ Len(c.ast.parts) \in Nat
      BY <2>5, AstTypes
    <3>2. k \in 1 .. Len(c.ast.parts)
      BY <2>6, <2>8, <3>1
    <3>3. c.ast.parts[k] \in AllAsts
      BY <2>5, <3>2, PartTypes
    <3> QED
      BY <1>1, <2>4, <2>8, <3>3, VerifiedTranslates
  <2>9. ASSUME c.op = "call" PROVE CallMeans(f, c)
    <3>1. /\ Calls(c.ast, c.fn) /\ Len(c.operands) = Len(c.ast.parts)
          /\ PartsMade(f, c.ast, c.operands)
      BY <2>1, <2>3, <2>9 DEF InstructionOK, c
    <3>2. Len(c.operands) <= Len(c.ast.parts)
      BY <2>5, <3>1
    <3>3. \A k \in DOMAIN c.operands : Translates(f, c.ast.parts[k], c.operands[k])
      BY <2>8, <3>1, <3>2 DEF PartsMade
    <3> QED
      BY <3>1, <3>3 DEF CallMeans, Calls
  <2>10. ASSUME c.op = "test" PROVE TestMeans(f, c)
    <3>1. Len(c.operands) = 1 /\ c.ast.kind = "if" /\ Made(f, c.ast.parts[1], c.operands[1])
      BY <2>1, <2>3, <2>10 DEF InstructionOK, c
    <3>2. Len(c.ast.parts) = 3
      BY <2>5, <3>1, AstTypes
    <3>3. 1 \in DOMAIN c.operands /\ Len(c.operands) <= Len(c.ast.parts)
      BY <2>6, <3>1, <3>2
    <3> QED
      BY <2>8, <3>1, <3>3 DEF TestMeans
  <2>11. ASSUME c.op = "phi" PROVE PhiMeans(f, c)
    <3>1. Len(c.operands) = 3 /\ c.ast.kind = "if" /\ BranchesMade(f, c.ast, c.operands)
      BY <2>1, <2>3, <2>11 DEF InstructionOK, c
    <3>2. Len(c.ast.parts) = 3
      BY <2>5, <3>1, AstTypes
    <3>3. {1, 2, 3} \subseteq DOMAIN c.operands /\ Len(c.operands) <= Len(c.ast.parts)
          /\ c.operands # <<>>
      BY <2>6, <3>1, <3>2
    <3>4. TestOf(c.ast, c.operands[1]) /\ NumberOf(f, c.operands[1])
      BY <2>4, <3>1, <3>3 DEF BranchesMade
    <3>5. c.operands[1].nr \in CodeOf(f)
      BY <1>1, <3>4 DEF TestOf, NumberOf, CodeOf
    <3>6. \A k \in {2, 3} : Translates(f, c.ast.parts[k], c.operands[k])
      BY <2>8, <3>1, <3>3 DEF BranchesMade
    <3> QED
      BY <3>1, <3>4, <3>5, <3>6 DEF PhiMeans, TestOf
  <2> QED
    BY <2>7, <2>9, <2>10, <2>11 DEF c
<1> QED
  BY <1>3, <1>4

(* The function of a definition that is finished means what it says.       *)
LEMMA FinishedMeans ==
  ASSUME IInv, frames # <<>>, top.ast.kind = "function", phase = "return",
         NEW f, f = top.home, Verified(f), Ended(f, "finished", value), UNCHANGED code
  PROVE  FunctionMeans(f)'
<1>1. /\ f \in DOMAIN module /\ module[f].state = "begun" /\ DOMAIN module' = DOMAIN module
      /\ module'[f].value = value /\ module'[f].args = module[f].args
      /\ module'[f].body = module[f].body
      /\ \A g \in DOMAIN module : /\ module'[g].name = module[g].name
                                  /\ module'[g].args = module[g].args
  <2>1. value \in Values
    BY Basics DEF IInv
  <2> QED
    BY <2>1, EndedModule
<1>2. /\ top.ast \in AllAsts /\ Len(top.ast.parts) = 1 /\ module[f].body = top.ast
      /\ Made(f, top.ast.parts[1], value)
  <2>1. top.ast \in AllAsts /\ Len(top.ast.parts) = 1
    BY Basics, AstTypes DEF IInv
  <2>2. top.values = <<>> /\ module[f].body = top.ast
    BY TopOK DEF FrameOK
  <2>3. Made(f, Awaited, value)
    BY DEF IInv, NowOK
  <2>4. Awaited = top.ast.parts[1]
    BY <2>2 DEF Awaited
  <2> QED
    BY <2>1, <2>2, <2>3, <2>4
<1>3. /\ Translates(f, module[f].body.parts[1], value)
      /\ \A n \in CodeOf(f) :
           /\ \A i \in DOMAIN code[n].operands :
                code[n].operands[i].op = "instr" => code[n].operands[i].nr < n
           /\ code[n].op = "call" => CallMeans(f, code[n])
           /\ code[n].op = "test" => TestMeans(f, code[n])
           /\ code[n].op = "phi"  => PhiMeans(f, code[n])
  BY <1>1, <1>2, VerifiedMeans
<1>4. CodeOf(f)' = CodeOf(f) /\ code' = code
  BY DEF CodeOf
<1>5. ASSUME NEW ast, NEW v, Translates(f, ast, v) PROVE Translates(f, ast, v)'
  BY <1>1, <1>4, <1>5 DEF Translates
<1>6. ASSUME NEW c, CallMeans(f, c), c.fn \in DOMAIN module PROVE CallMeans(f, c)'
  BY <1>1, <1>5, <1>6 DEF CallMeans
<1>7. ASSUME NEW c, TestMeans(f, c) PROVE TestMeans(f, c)'
  BY <1>5, <1>7 DEF TestMeans
<1>8. ASSUME NEW c, PhiMeans(f, c) PROVE PhiMeans(f, c)'
  BY <1>4, <1>5, <1>8 DEF PhiMeans
<1>9. \A n \in CodeOf(f) : code[n].op = "call" => code[n].fn \in DOMAIN module
  BY DEF IInv, CodeOK, InstructionOK, Calls, CodeOf
<1>10. Translates(f, module[f].body.parts[1], module[f].value)'
  <2>1. PICK ast : ast = module[f].body.parts[1]
    OBVIOUS
  <2>2. PICK v : v = value
    OBVIOUS
  <2>3. Translates(f, ast, v)'
    BY <1>3, <1>5, <2>1, <2>2
  <2>4. module'[f].body.parts[1] = ast /\ module'[f].value = v
    BY <1>1, <2>1, <2>2
  <2> QED
    BY <2>3, <2>4
<1>11. \A n \in CodeOf(f) :
         /\ \A i \in DOMAIN code[n].operands :
              code[n].operands[i].op = "instr" => code[n].operands[i].nr < n
         /\ code[n].op = "call" => CallMeans(f, code[n])'
         /\ code[n].op = "test" => TestMeans(f, code[n])'
         /\ code[n].op = "phi"  => PhiMeans(f, code[n])'
  BY <1>3, <1>6, <1>7, <1>8, <1>9
<1> QED
  BY <1>1, <1>4, <1>10, <1>11 DEF FunctionMeans

LEMMA ReturnToFunctionStep ==
  ASSUME IInv, ReturnToFunction, UNCHANGED pc
  PROVE  IInv'
<1> DEFINE f == top.home
<1>1. /\ phase = "return" /\ frames # <<>> /\ top.ast.kind = "function"
      /\ frames' = Front(frames) /\ phase' = "return"
      /\ UNCHANGED <<env, block, code, node, pc>>
  BY DEF ReturnToFunction, Return
<1>2. top.fn = f
  BY <1>1, TopOK DEF FrameOK
<1>3. /\ Verified(f) /\ Ended(f, "finished", value) /\ value' = FunctionAt(f)
  BY <1>2 DEF ReturnToFunction, Return, Ended
<1>4. value \in Values /\ value' \in Values /\ value'.op = "function"
  <2>1. value \in Values /\ f \in Nat
    BY <1>1, Basics DEF IInv
  <2> QED
    BY <1>3, <2>1 DEF FunctionAt, Value, Values
<1>5. /\ f \in DOMAIN module /\ module'[f].inside = module[f].inside
      /\ DOMAIN module' = DOMAIN module /\ module'[f].state = "finished"
      /\ Finished' = Finished \cup {f} /\ Kept
  BY <1>1, <1>3, <1>4, EndedModule
<1>6. FunctionsMean'
  <2>1. \A g \in Finished' \ Finished : g = top.home
    BY <1>5
  <2>2. PICK g : g = top.home
    OBVIOUS
  <2>3. FunctionMeans(g)'
    BY <1>1, <1>3, <2>2, FinishedMeans
  <2>4. \A h \in Finished' \ Finished : FunctionMeans(h)'
    BY <2>1, <2>2, <2>3
  <2> QED
    BY <1>1, <1>5, <2>4, FunctionsMeanKept DEF IInv
<1>7. NowOK'
  <2>1. CASE frames' = <<>>
    BY <1>1, <2>1 DEF NowOK
  <2>2. CASE frames' # <<>>
    <3>1. /\ top' \in Frames /\ WaitsFor(top', top) /\ top'.home \in module[f].inside
      BY <1>1, <2>2, BelowWaits
    <3>2. Waiting' /\ Awaited' = top.ast
      BY <3>1 DEF WaitsFor, Waiting, Awaited
    <3>3. Made(top.home, Awaited, value)'
      BY <1>1, <1>4, <3>2 DEF Made
    <3>4. PointOK(top.home, block)'
      BY <1>1, <1>3, <1>5, <3>1 DEF PointOK, Verified
    <3> QED
      BY <1>1, <3>2, <3>3, <3>4 DEF NowOK
  <2> QED
    BY <2>1, <2>2
<1>8. "finished" \in {"finished", "erased"} /\ phase # "idle" /\ phase' \in {"return", "throw"}
  BY <1>1
<1> HIDE DEF f
<1> QED
  BY <1>1, <1>3, <1>4, <1>6, <1>7, <1>8, EndStep DEF f

(* A definition that fails takes its function away and nothing else.       *)
LEMMA UnwindStep ==
  ASSUME IInv, Unwind, UNCHANGED pc
  PROVE  IInv'
<1>1. /\ phase = "throw" /\ phase' = "throw" /\ frames # <<>> /\ frames' = Front(frames)
      /\ UNCHANGED <<env, block, code, node, value, pc>>
  BY DEF Unwind
<1>2. NowOK'
  BY <1>1 DEF NowOK
<1>3. value \in Values /\ value' \in Values
  BY <1>1, Basics DEF IInv
<1>4. CASE top.ast.kind = "function"
  <2>1. top.fn = top.home /\ top.home \in DOMAIN module
    BY <1>1, <1>4, TopOK DEF FrameOK
  <2>2. PICK f : f = top.home
    OBVIOUS
  <2>3. f \in DOMAIN module /\ module[f] \in Functions
    BY <2>1, <2>2, Basics DEF IInv
  <2>4. PICK v \in Values : v = module[f].value
    BY <2>3 DEF Functions
  <2>5. module' = [module EXCEPT ![f].state = "erased"]
    BY <1>4, <2>1, <2>2 DEF Unwind
  <2>6. [module[f] EXCEPT !.state = "erased"]
          = [[module[f] EXCEPT !.state = "erased"] EXCEPT !.value = v]
    BY <2>3, <2>4 DEF Functions
  <2>7. module \in Seq(Functions)
    BY Basics DEF IInv
  <2>8. Ended(f, "erased", v)
    BY <2>3, <2>5, <2>6, <2>7 DEF Ended
  <2>9. "erased" \in {"finished", "erased"}
    OBVIOUS
  <2>10. Kept /\ Finished' = Finished
    BY <1>1, <2>2, <2>8, <2>9, EndedModule
  <2>11. FunctionsMean'
    BY <1>1, <2>10, FunctionsMeanKept DEF IInv
  <2> QED
    BY <1>1, <1>2, <1>3, <1>4, <2>2, <2>8, <2>9, <2>11, EndStep
<1>5. CASE top.ast.kind # "function"
  <2>1. module' = module
    BY <1>5 DEF Unwind
  <2>2. Kept /\ Begun' = Begun /\ Finished' = Finished
    BY <1>1, <2>1, ModuleSame, CodeSame DEF Kept, Begun, Finished
  <2>3. InsideOK' /\ EnvOK'
    BY <1>1, <2>1, <2>2 DEF IInv, InsideOK, EnvOK
  <2>4. \A i \in 1 .. Len(frames) - 1 : frames[i].home \in Begun
    <3>1. frames \in Seq(Frames)
      BY Basics DEF IInv
    <3>2. ASSUME NEW i \in 1 .. Len(frames) - 1 PROVE i \in DOMAIN frames
      BY <3>1
    <3> QED
      BY <3>2 DEF IInv, FramesOK, FrameOK
  <2>5. FramesOK'
    BY <1>1, <2>2, <2>4, FramesPopped DEF IInv
  <2>6. NestedOK'
    BY <1>1, <1>5, <2>2, NestedPopped DEF IInv
  <2>7. WaitingOK'
    BY <1>1, WaitingPopped DEF IInv
  <2>8. CodeOK'
    BY <1>1, <2>2, CodeOKKept DEF IInv
  <2>9. FunctionsMean'
    BY <1>1, <2>2, FunctionsMeanKept DEF IInv
  <2>10. frames' \in Seq(Frames)
    BY <1>1, Basics, Removed DEF IInv
  <2>11. TypeOK'
    BY <1>1, <2>1, <2>10 DEF IInv, TypeOK
  <2> QED
    BY <1>2, <2>3, <2>5, <2>6, <2>7, <2>8, <2>9, <2>11 DEF IInv
<1> QED
  BY <1>4, <1>5

-----------------------------------------------------------------------------
(* repl, and all steps. *)

LEMMA CompileStep ==
  ASSUME IInv, repl_Compile
  PROVE  IInv'
<1>1. /\ pc = "eval" /\ pc' = "compile" /\ phase' = "visit" /\ parse(exp) \in Asts
      /\ node' = IF evaluatable(parse(exp)) THEN Anonymous(parse(exp)) ELSE parse(exp)
      /\ UNCHANGED <<value, frames, cenv>>
  BY DEF repl_Compile, Start
<1>2. frames = <<>>
  BY <1>1 DEF IInv, TypeOK, NowOK
<1>3. node' \in AllAsts
  BY <1>1 DEF AllAsts
<1>4. ~evaluatable(node')
  BY <1>1 DEF evaluatable, Anonymous
<1>5. NowOK'
  BY <1>1, <1>2, <1>4 DEF NowOK
<1>6. TypeOK'
  BY <1>1, <1>3 DEF IInv, TypeOK, cenv
<1> QED
  BY <1>1, <1>5, <1>6, Still DEF IInv

LEMMA AnswerStep ==
  ASSUME IInv, repl_Answer
  PROVE  IInv'
<1>1. /\ frames = <<>> /\ phase' = "idle" /\ UNCHANGED <<node, value, frames, cenv>>
  BY DEF repl_Answer
<1>2. NowOK'
  BY <1>1 DEF NowOK
<1>3. TypeOK'
  BY <1>1 DEF IInv, TypeOK, cenv
<1> QED
  BY <1>1, <1>2, <1>3, Still DEF IInv

(* Reading, and the answers for which nothing is compiled.                 *)
LEMMA OtherStep ==
  ASSUME IInv, UNCHANGED <<control, cenv>>, pc' \in {"read", "eval"} => pc \in {"read", "eval"}
  PROVE  IInv'
<1>1. NowOK'
  BY DEF control, cenv, IInv, NowOK, top, Waiting, Awaited, PointOK, Finished, Made
<1>2. TypeOK'
  BY DEF control, cenv, IInv, TypeOK
<1> QED
  BY <1>1, <1>2, Still DEF IInv, control

LEMMA CodegenStep ==
  ASSUME IInv, Codegen, UNCHANGED pc
  PROVE  IInv'
<1>1. CASE VisitNumber
  BY <1>1, NumberStep
<1>2. CASE VisitVariable
  BY <1>2, VariableStep
<1>3. CASE VisitUndefined \/ VisitWrongCall
  BY <1>3, ThrownStep DEF VisitUndefined, VisitWrongCall, Visit
<1>4. CASE VisitCall
  BY <1>4, CallStep
<1>5. CASE NextPart
  BY <1>5, NextStep
<1>6. CASE ReturnToCall
  BY <1>6, ToCallStep
<1>7. CASE FinishCall
  BY <1>7, FinishCallStep
<1>8. CASE VisitIf
  BY <1>8, IfStep
<1>9. CASE ReturnToCondition
  BY <1>9, ToConditionStep
<1>10. CASE ReturnToBranch
  BY <1>10, ToBranchStep
<1>11. CASE FinishIf
  BY <1>11, FinishIfStep
<1>12. CASE VisitPrototype
  BY <1>12, PrototypeStep
<1>13. CASE VisitFunction
  BY <1>13, FunctionStep
<1>14. CASE VisitRedefined
  BY <1>14, RedefinedStep
<1>15. CASE ReturnToFunction
  BY <1>15, ReturnToFunctionStep
<1>16. CASE Abort
  BY <1>16, AbortStep
<1>17. CASE Unwind
  BY <1>17, UnwindStep
<1> QED
  BY <1>1, <1>2, <1>3, <1>4, <1>5, <1>6, <1>7, <1>8, <1>9, <1>10, <1>11, <1>12, <1>13, <1>14,
     <1>15, <1>16, <1>17 DEF Codegen

LEMMA IInvInit ==
  ASSUME Init
  PROVE  IInv
<1>1. /\ module = <<>> /\ env = <<>> /\ block = 0 /\ code = <<>> /\ pc = "read"
      /\ phase = "idle" /\ value = Const /\ frames = <<>>
  BY DEF Init
<1>2. Begun = {} /\ Finished = {}
  BY <1>1 DEF Begun, Finished
<1>3. TypeOK
  BY <1>1 DEF TypeOK, Const, Value, Values
<1>4. InsideOK /\ FramesOK /\ NestedOK /\ WaitingOK
  BY <1>1, <1>2 DEF InsideOK, FramesOK, NestedOK, WaitingOK
<1>5. EnvOK /\ CodeOK /\ NowOK
  BY <1>1 DEF EnvOK, CodeOK, NowOK
<1>6. FunctionsMean
  BY <1>1, <1>2 DEF FunctionsMean
<1> QED
  BY <1>3, <1>4, <1>5, <1>6 DEF IInv

LEMMA IInvNext ==
  ASSUME IInv, [Next]_vars
  PROVE  IInv'
<1>1. CASE readExpression
  <2>1. pc = "read" /\ UNCHANGED <<control, cenv>>
    BY <1>1 DEF readExpression
  <2> QED
    BY <2>1, OtherStep
<1>2. CASE repl_Compile
  BY <1>2, CompileStep
<1>3. CASE repl_Malformed
  <2>1. pc = "eval" /\ UNCHANGED <<control, cenv>>
    BY <1>3 DEF repl_Malformed
  <2> QED
    BY <2>1, OtherStep
<1>4. CASE repl_Answer
  BY <1>4, AnswerStep
<1>5. CASE repl_Aborted
  <2>1. pc' = "stopped" /\ UNCHANGED <<control, cenv>>
    BY <1>5 DEF repl_Aborted, Stop
  <2> QED
    BY <2>1, OtherStep
<1>6. CASE Codegen /\ UNCHANGED <<text, at, reading, pc, why, said>>
  BY <1>6, CodegenStep
<1>7. CASE UNCHANGED vars
  <2>1. UNCHANGED <<control, cenv>> /\ pc' = pc
    BY <1>7 DEF vars
  <2> QED
    BY <2>1, OtherStep
<1> QED
  BY <1>1, <1>2, <1>3, <1>4, <1>5, <1>6, <1>7 DEF Next, repl

LEMMA SpecIInv == Spec => []IInv
<1>1. Init => IInv
  BY IInvInit
<1>2. IInv /\ [Next]_vars => IInv'
  BY IInvNext
<1> QED
  BY <1>1, <1>2, PTL DEF Spec

-----------------------------------------------------------------------------
(* The theorems *)

(* Every state that repl and the code generator reach is well-formed: each *)
(* waiting Codegen call is one of a call, an if or a definition under way, *)
(* the values it has are numbers of the functions that they are made in,   *)
(* and nothing waits when repl reads.                                      *)
THEOREM ToyLispTypeCorrect == Spec => []TypeOK
<1>1. IInv => TypeOK
  BY DEF IInv
<1> QED
  BY <1>1, SpecIInv, PTL

(* A function that passed verifyFunction computes what its definition      *)
(* says, whatever was compiled, declared or has failed before, and however *)
(* definitions stand inside of definitions (toylisp.cpp:441, :459): the    *)
(* arguments of other definitions that are still in env, and the           *)
(* instructions that end up in another function, are all found by          *)
(* verifyFunction.                                                         *)
THEOREM FunctionsMeanCorrect == Spec => []FunctionsMean
<1>1. IInv => FunctionsMean
  BY DEF IInv
<1> QED
  BY <1>1, SpecIInv, PTL

(* eraseFromParent (toylisp.cpp:468) takes a function away from those that *)
(* call it only if the failed definition had a foreign declaration, or if  *)
(* the caller was nested in it.                                            *)
THEOREM CallsStandCorrect == Spec => []CallsStand
<1>1. ASSUME IInv, NEW f \in Finished, NEW g \in Callees(f), module[g].state = "erased"
      PROVE  module[g].foreign \/ g \in module[f].inside
  <2>1. PICK n \in CodeOf(f) : code[n].op = "call" /\ g = code[n].fn
    BY DEF Callees
  <2>2. n \in DOMAIN code /\ code[n].in = f
    BY DEF CodeOf
  <2>3. InstructionOK(n, code[n])
    BY <1>1, <2>2 DEF IInv, CodeOK
  <2>4. Stands(f, g)
    BY <2>1, <2>2, <2>3 DEF InstructionOK
  <2> QED
    BY <1>1, <2>4 DEF Stands, Finished
<1>2. IInv => CallsStand
  BY <1>1 DEF CallsStand
<1> QED
  BY <1>2, SpecIInv, PTL

=============================================================================
