------------------------------ MODULE ToyLisp ------------------------------
(***************************************************************************)
(* src/toylisp/toylisp.cpp: a read-eval-print loop.  readExpression is a   *)
(* machine of one action per case of its switch, the code generator that   *)
(* of ToyLispCodegen; the parser is a function.                            *)
(*                                                                         *)
(* The text is a sequence of pieces: the characters readExpression has a   *)
(* case for, and runs of those it has none for.                            *)
(***************************************************************************)
EXTENDS ToyLispCodegen

CONSTANTS Texts,             \* what may be typed: sequences of pieces
          parse(_)           \* parseExpression: an AST, or why there is none

VARIABLES text, at,          \* std::cin, and the piece it is at
          stk, tok, exp,     \* readExpression's stack and token, and its answer
          pc, why,           \* what repl is doing, and why it has ended
          said               \* what repl has printed, one answer per expression

reading == <<stk, tok, exp>>
vars    == <<text, at, reading, pc, why, said, control, cenv>>

Atom(t) == [type |-> "ATOM", atom |-> t, list |-> <<>>]
List(l) == [type |-> "LIST", atom |-> <<>>, list |-> l]

-----------------------------------------------------------------------------
(* readExpression *)

ch == IF at <= Len(text) THEN text[at] ELSE "EOF"

WithTok(list) == IF tok = <<>> THEN list ELSE Append(list, Atom(tok))

Answer(e) == /\ exp' = e /\ pc' = "eval"
             /\ stk' = <<>> /\ tok' = <<>>
             /\ UNCHANGED why

(* The end of the program, for the reason given. *)
Stop(reason) == pc' = "stopped" /\ why' = reason

APPEND_TOK(t) ==
  IF stk = <<>> THEN Answer(Atom(t))
  ELSE /\ stk' = [stk EXCEPT ![Len(stk)] = Append(@, Atom(t))]
       /\ tok' = <<>>
       /\ UNCHANGED <<exp, pc, why>>

Blank == /\ ch = " "
         /\ at' = at + 1
         /\ IF tok = <<>> THEN UNCHANGED <<reading, pc, why>> ELSE APPEND_TOK(tok)

Closing == {i \in at + 1 .. Len(text) : text[i] = "quote"}

String == /\ ch = "quote"
          /\ \E i \in Closing :
               /\ \A j \in Closing : i <= j
               /\ at' = i + 1
               /\ APPEND_TOK(tok \o SubSeq(text, at, i))

(* The loop over a string does not look for the end of the input: it adds  *)
(* EOF to tok until there is no memory left.                               *)
OpenString == /\ ch = "quote" /\ Closing = {}
              /\ Stop("memory")
              /\ UNCHANGED <<at, reading>>

Open == /\ ch = "("
        /\ at' = at + 1
        /\ stk' = Append(stk, <<>>)
        /\ UNCHANGED <<tok, exp, pc, why>>

CloseInner_Drops == \* the inner list is popped and not appended
  /\ ch = ")" /\ Len(stk) > 1
  /\ at' = at + 1
  /\ stk' = Front(stk)
  /\ tok' = <<>>
  /\ UNCHANGED <<exp, pc, why>>

CloseInner == /\ ch = ")" /\ Len(stk) > 1
              /\ at' = at + 1
              /\ LET l == List(WithTok(Last(stk)))
                     outer == Front(stk)
                 IN  stk' = [outer EXCEPT ![Len(outer)] = Append(@, l)]
              /\ tok' = <<>>
              /\ UNCHANGED <<exp, pc, why>>

CloseOuter == /\ ch = ")" /\ Len(stk) = 1
              /\ at' = at + 1
              /\ Answer(List(WithTok(stk[1])))

(* Missing '(': readExpression is called outside of repl's try. *)
CloseNone == /\ ch = ")" /\ stk = <<>>
             /\ Stop("uncaught")
             /\ UNCHANGED <<at, reading>>

Nul == /\ ch = "NUL"
       /\ at' = at + 1
       /\ CASE Len(stk) = 0 -> Answer(Atom(tok))
            [] Len(stk) = 1 -> Answer(List(stk[1]))
            [] OTHER        -> Stop("uncaught") /\ UNCHANGED reading

Eof == ch = "EOF" /\ at' = at + 1 /\ Answer(List(<<>>))

Other == /\ ch \notin {" ", "quote", "(", ")", "NUL", "EOF"}
         /\ at' = at + 1
         /\ tok' = Append(tok, ch)
         /\ UNCHANGED <<stk, exp, pc, why>>

readExpression == /\ pc = "read"
                  /\ \/ Blank \/ String \/ OpenString \/ Open \/ CloseInner
                     \/ CloseOuter \/ CloseNone \/ Nul \/ Eof \/ Other
                  /\ UNCHANGED <<text, said, control, cenv>>

-----------------------------------------------------------------------------
(* repl *)

Init == /\ text \in Texts
        /\ at = 1
        /\ stk = <<>> /\ tok = <<>> /\ exp = List(<<>>)
        /\ pc = "read" /\ why = "" /\ said = <<>>
        /\ module = <<>> /\ env = <<>> /\ block = 0 /\ code = <<>>
        /\ phase = "idle" /\ node = NoName /\ value = Const /\ frames = <<>>

Say(what) == said' = Append(said, what) /\ pc' = "read" /\ UNCHANGED why

repl_Compile == /\ pc = "eval" /\ parse(exp) \in Asts
                /\ Start(parse(exp))
                /\ pc' = "compile"
                /\ UNCHANGED <<why, said>>

repl_Malformed == /\ pc = "eval" /\ parse(exp).kind \in {"thrown", "assert", "undefined"}
                  /\ IF parse(exp).kind = "thrown" THEN Say("message")
                     ELSE Stop(parse(exp).kind) /\ UNCHANGED said
                  /\ UNCHANGED <<control, cenv>>

(* What the compiled code does is external: one that calls functions may   *)
(* be endless, or miss one of them.                                        *)
repl_Answer == /\ pc = "compile" /\ phase \in {"return", "throw"} /\ frames = <<>>
               /\ LET f == value.fn
                  IN  \/ phase = "throw" /\ Say("message")
                      \/ /\ phase = "return"
                         /\ Say(IF module[f].name = NoName THEN "value" ELSE "code")
                      \/ /\ phase = "return" /\ module[f].name = NoName /\ Callees(f) # {}
                         /\ Stop("running") /\ UNCHANGED said
               /\ phase' = "idle"
               /\ UNCHANGED <<node, value, frames, cenv>>

repl_Aborted == /\ pc = "compile" /\ phase = "abort"
                /\ Stop("verify")
                /\ UNCHANGED <<said, control, cenv>>

repl == /\ repl_Compile \/ repl_Malformed \/ repl_Answer \/ repl_Aborted
        /\ UNCHANGED <<text, at, reading>>

Next == \/ readExpression
        \/ repl
        \/ Codegen /\ UNCHANGED <<text, at, reading, pc, why, said>>

Spec == Init /\ [][Next]_vars

=============================================================================
