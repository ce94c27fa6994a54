-------------------------- MODULE MCTextPositions --------------------------
(***************************************************************************)
(* Every file of up to three bytes: a letter, both line ending characters, *)
(* a byte with the high bit set and the byte that reads as WEOF; and some  *)
(* longer ones, with lines that take several reads of the file, with a 0   *)
(* before the byte that cannot be printed and after it, and with line ends *)
(* that the table does not get.                                            *)
(***************************************************************************)
EXTENDS TextPositions

Bytes == {97, LF, CR, 200, 255}

Longer ==
  {<<97, LF, 97, 97, CR, LF, 97>>, <<97, CR, 200, LF, LF, 97>>,
   <<CR, LF, CR, CR, 97>>, <<97, LF, 255, 97, LF>>,
   <<97, 0, 200, 97>>, <<97, CR, CR, 200, 0>>, <<CR, CR, CR, LF, 97>>}

MCFiles == UNION {[1..n -> Bytes] : n \in 0..3} \cup Longer
=============================================================================
