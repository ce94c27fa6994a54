---------------------------- MODULE KscopeParser ----------------------------
(***************************************************************************)
(* kscope_parse of src/kaleidoscope/kscope.c: the packrat runtime, with    *)
(* the rules of the kaleidoscope grammar, and what main of kaleidoscope    *)
(* relies on when it takes the tree.                                       *)
(***************************************************************************)
EXTENDS PackratParser, KscopeGrammar

(* Every text is a FILE, the whole of it: what no statement can be made of *)
(* is the UNKNOWN node.  So kscope_parse leaves root and the error list    *)
(* undefined for main (kaleidoscope.cpp:1328) only when there is no file,  *)
(* and a program with an error in it is never refused.                     *)
FileAlwaysParsed ==
  status = "done" => root = Node("FILE", 0, Len(input)) /\ errors.num = 0
=============================================================================
