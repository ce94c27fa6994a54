---------------------------- MODULE NarwhalArray ----------------------------
(***************************************************************************)
(* The dynamic arrays of src/narwhal_utils/narwhal_arrays.c, which         *)
(* c_generator.c prints into every parser as well: num items in memory for *)
(* cap of them.  `cells' is that memory; a cell nobody has written since   *)
(* it was allocated is Unset, and a cell beyond num keeps what it held.    *)
(***************************************************************************)
EXTENDS Integers, Sequences

CONSTANT Unset        \* what memory holds before something is written to it

array_init(num_items) ==
  [num |-> num_items, cap |-> num_items, cells |-> [i \in 1..num_items |-> Unset]]

(* realloc keeps the cells there are. *)
array_resize(da, num_items) ==
  IF num_items >= da.cap
  THEN LET cap == (num_items * 3) \div 2 + 1
       IN  [num   |-> num_items,
            cap   |-> cap,
            cells |-> [i \in 1..cap |-> IF i <= da.cap THEN da.cells[i] ELSE Unset]]
  ELSE [da EXCEPT !.num = num_items]

array_add_InPlace(da, item) ==
  [num   |-> da.num + 1,
   cap   |-> da.cap,
   cells |-> [i \in 1..da.cap |-> IF i = da.num THEN item ELSE da.cells[i]]]

array_add(da, item) ==
  LET grown == IF da.num = da.cap THEN array_resize(da, da.num + 1)
                                  ELSE [da EXCEPT !.num = da.num + 1]
  IN  [grown EXCEPT !.cells = [i \in 1..grown.cap |->
                                 IF i = da.num + 1 THEN item ELSE grown.cells[i]]]

array_copy(src) ==
  [num |-> src.num, cap |-> src.num, cells |-> [i \in 1..src.num |-> src.cells[i]]]

array_deinit == array_init(0)

array_clear(da) == [da EXCEPT !.num = 0]

array_size(da) == da.num

array_item(da, index) == da.cells[index + 1]

-----------------------------------------------------------------------------
(* An array of items of S: what the program may rely on between two calls. *)
IsArray(da, S) ==
  /\ da \in [num : Nat, cap : Nat, cells : Seq(S \cup {Unset})]
  /\ da.num <= da.cap
  /\ Len(da.cells) = da.cap
  /\ \A i \in 1..da.num : da.cells[i] \in S

(* The items, as a sequence. *)
Contents(da) == SubSeq(da.cells, 1, da.num)
=============================================================================
