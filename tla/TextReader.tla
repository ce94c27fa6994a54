----------------------------- MODULE TextReader -----------------------------
(***************************************************************************)
(* What an input buffer promises to those who read from it: a text and a   *)
(* position that the reader may move at will, whatever has been read from  *)
(* the file so far and however much memory that took.  Reading past the    *)
(* text gives WEOF and does not move.                                      *)
(***************************************************************************)
EXTENDS Integers, Sequences

CONSTANTS Texts, WEOF

VARIABLES text, pos, ch

vars == <<text, pos, ch>>

Init == text \in Texts /\ pos = 0 /\ ch = WEOF

SetPos == pos' \in Nat /\ UNCHANGED <<text, ch>>

Read ==
  /\ pos < Len(text)
  /\ ch' = text[pos + 1]
  /\ pos' = pos + 1
  /\ UNCHANGED text

ReadPastEnd ==
  /\ pos >= Len(text)
  /\ ch' = WEOF
  /\ UNCHANGED <<text, pos>>

Next == SetPos \/ Read \/ ReadPastEnd

Spec == Init /\ [][Next]_vars
=============================================================================
