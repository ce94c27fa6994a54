------------------------ MODULE TextPositionsProofs ------------------------
(***************************************************************************)
(* For every file, every increment, every parse and every number of tasks: *)
(* the buffer never lets fread write past its memory and grows by one      *)
(* increment for each read at the end of the file; it is a text to all who *)
(* read it, and the arrays filled from it stay inside of theirs; strings   *)
(* are those of the text, line numbers too but for the line ends that the  *)
(* table loses, and a message shows the line of its error if it has bytes  *)
(* below 128 only.                                                         *)
(***************************************************************************)
EXTENDS TextPositions, FiniteSetTheorems, WellFoundedInduction, TLAPS

-----------------------------------------------------------------------------
(* Arrays. *)

LEMMA FunctionIsSequence ==
  ASSUME NEW S, NEW n \in Nat, NEW f \in [1..n -> S]
  PROVE  f \in Seq(S) /\ Len(f) = n
OBVIOUS

(* A new array and an emptied one are arrays. *)
LEMMA NewArrayIsArray ==
  ASSUME NEW S
  PROVE  IsArray(array_init(0), S)
<1> DEFINE cells == [i \in 1..0 |-> Unset]
<1>1. cells \in Seq(S \cup {Unset}) /\ Len(cells) = 0
  <2>1. cells \in [1..0 -> S \cup {Unset}]
    OBVIOUS
  <2> QED
    BY <2>1, FunctionIsSequence
<1>2. array_init(0) = [num |-> 0, cap |-> 0, cells |-> cells]
  BY DEF array_init
<1> HIDE DEF cells
<1>3. array_init(0) \in [num : Nat, cap : Nat, cells : Seq(S \cup {Unset})]
  <2>1. [num |-> 0, cap |-> 0, cells |-> cells]
          \in [num : Nat, cap : Nat, cells : Seq(S \cup {Unset})]
    BY <1>1
  <2> QED
    BY <1>2, <2>1
<1>4. /\ array_init(0).num = 0 /\ array_init(0).cap = 0
      /\ Len(array_init(0).cells) = 0
  BY <1>1, <1>2
<1>5. \A i \in 1..array_init(0).num : array_init(0).cells[i] \in S
  BY <1>4
<1>6. array_init(0).num <= array_init(0).cap /\ Len(array_init(0).cells) = array_init(0).cap
  BY <1>4
<1> QED
  BY <1>3, <1>5, <1>6 DEF IsArray

LEMMA ClearedArrayIsArray ==
  ASSUME NEW S, NEW da, IsArray(da, S)
  PROVE  IsArray(array_clear(da), S)
BY DEF IsArray, array_clear

(* array_resize always leaves room for what it was asked for, and keeps    *)
(* every item.                                                             *)
LEMMA ResizeMakesRoom ==
  ASSUME NEW S, NEW da, IsArray(da, S)
  PROVE  LET grown == array_resize(da, da.num + 1)
         IN  /\ grown \in [num : Nat, cap : Nat, cells : Seq(S \cup {Unset})]
             /\ grown.num = da.num + 1
             /\ grown.num <= grown.cap
             /\ Len(grown.cells) = grown.cap
             /\ \A i \in 1..da.num : grown.cells[i] = da.cells[i]
<1> DEFINE n   == da.num + 1
           cap == (n * 3) \div 2 + 1
<1>1. /\ da \in [num : Nat, cap : Nat, cells : Seq(S \cup {Unset})]
      /\ da.num <= da.cap
      /\ Len(da.cells) = da.cap
  BY DEF IsArray
<1>2. CASE n >= da.cap
  <2> DEFINE cells == [i \in 1..cap |-> IF i <= da.cap THEN da.cells[i] ELSE Unset]
  <2>1. array_resize(da, n) = [num |-> n, cap |-> cap, cells |-> cells]
    BY <1>2 DEF array_resize
  <2>2. n \in Nat /\ cap \in Nat /\ n <= cap
    BY <1>1
  <2>3. \A i \in 1..cap : cells[i] \in S \cup {Unset}
    <3>1. \A i \in 1..da.cap : da.cells[i] \in S \cup {Unset}
      BY <1>1
    <3> QED
      BY <1>1, <2>2, <3>1
  <2>4. cells \in Seq(S \cup {Unset}) /\ Len(cells) = cap
    <3>1. cells \in [1..cap -> S \cup {Unset}]
      BY <2>3
    <3> HIDE DEF cells, cap, n
    <3> QED
      BY <2>2, <3>1, FunctionIsSequence
  <2>5. \A i \in 1..da.num : cells[i] = da.cells[i]
    BY <1>1, <2>2
  <2> HIDE DEF cells, cap
  <2> QED
    BY <2>1, <2>2, <2>4, <2>5
<1>3. CASE ~(n >= da.cap)
  <2>1. array_resize(da, n) = [da EXCEPT !.num = n]
    BY <1>3 DEF array_resize
  <2> QED
    BY <1>1, <1>3, <2>1
<1> QED
  BY <1>2, <1>3

LEMMA Within ==
  ASSUME NEW m \in Nat, NEW n \in Nat \ {0}, n <= m
  PROVE  n \in 1..(m + 1)
OBVIOUS

LEMMA LastPlace == \A m \in Nat : m + 1 \in 1..(m + 1)
OBVIOUS

LEMMA FirstItems ==
  ASSUME NEW S, NEW s \in Seq(S), NEW n \in Nat, n <= Len(s)
  PROVE  Len(SubSeq(s, 1, n)) = n /\ \A i \in 1..n : SubSeq(s, 1, n)[i] = s[i]
OBVIOUS

(* One array is another one and an item. *)
Longer(added, da, item) ==
  /\ added.num = da.num + 1
  /\ added.cells[da.num + 1] = item
  /\ \A i \in 1..da.num : added.cells[i] = da.cells[i]

(* array_add writes inside of the memory, keeps what was there and puts    *)
(* the item after it.                                                      *)
LEMMA AddKeepsArray ==
  ASSUME NEW S, NEW da, NEW item \in S, IsArray(da, S)
  PROVE  IsArray(array_add(da, item), S) /\ Longer(array_add(da, item), da, item)
<1> DEFINE grown == IF da.num = da.cap THEN array_resize(da, da.num + 1)
                                       ELSE [da EXCEPT !.num = da.num + 1]
           cells == [i \in 1..grown.cap |-> IF i = da.num + 1 THEN item ELSE grown.cells[i]]
<1>1. /\ da \in [num : Nat, cap : Nat, cells : Seq(S \cup {Unset})]
      /\ da.num <= da.cap
      /\ Len(da.cells) = da.cap
      /\ \A i \in 1..da.num : da.cells[i] \in S
  BY DEF IsArray
<1>2. /\ grown \in [num : Nat, cap : Nat, cells : Seq(S \cup {Unset})]
      /\ grown.num = da.num + 1
      /\ grown.num <= grown.cap
      /\ Len(grown.cells) = grown.cap
      /\ \A i \in 1..da.num : grown.cells[i] = da.cells[i]
  <2>1. CASE da.num = da.cap
    BY <2>1, ResizeMakesRoom
  <2>2. CASE da.num # da.cap
    BY <1>1, <2>2
  <2> QED
    BY <2>1, <2>2
<1>3. array_add(da, item) = [grown EXCEPT !.cells = cells]
  BY DEF array_add
<1> HIDE DEF grown
<1>4. \A i \in 1..grown.cap : cells[i] \in S \cup {Unset}
  <2>1. \A i \in 1..grown.cap : grown.cells[i] \in S \cup {Unset}
    BY <1>2
  <2> QED
    BY <2>1
<1>5. cells \in Seq(S \cup {Unset}) /\ Len(cells) = grown.cap
  <2>1. cells \in [1..grown.cap -> S \cup {Unset}]
    BY <1>4
  <2> QED
    BY <1>2, <2>1, FunctionIsSequence
<1>6. /\ cells[da.num + 1] = item
      /\ \A i \in 1..da.num : cells[i] = da.cells[i]
  BY <1>1, <1>2
<1> HIDE DEF cells
<1>7. \A i \in 1..(da.num + 1) : cells[i] \in S
  <2>1. da.num \in Nat
    BY <1>1
  <2> SUFFICES ASSUME NEW i \in 1..(da.num + 1) PROVE cells[i] \in S
    OBVIOUS
  <2>2. i \in 1..da.num \/ i = da.num + 1
    BY <2>1
  <2> QED
    BY <1>1, <1>6, <2>2
<1> QED
  BY <1>1, <1>2, <1>3, <1>5, <1>6, <1>7 DEF IsArray, Longer

-----------------------------------------------------------------------------
(* The buffer under its readers. *)

BufferInv == BufferTypeOK /\ BytesFit

LoopsInv ==
  /\ IsArray(line_endings, Nat)
  /\ IsArray(str, Int)
  /\ eol_pos \in Nat
  /\ span \in [begin : Nat, end : Nat, narrow : BOOLEAN]

Inv == BufferInv /\ LoopsInv

LEMMA SequenceElements ==
  ASSUME NEW S, NEW s \in Seq(S)
  PROVE  Len(s) \in Nat /\ \A i \in 1..Len(s) : s[i] \in S
OBVIOUS

LEMMA BytesOfFile ==
  ASSUME file \in Files
  PROVE  Len(file) \in Nat /\ \A i \in 1..Len(file) : file[i] \in 0..255
<1>1. file \in Seq(0..255)
  BY FilesAssumption
<1> QED
  BY <1>1, SequenceElements

(* Every byte, and WEOF, is some wide character. *)
LEMMA WideIsInt ==
  /\ \A byte \in 0..255 : Wide(byte) \in Int
  /\ WEOF \in Int
BY DEF Wide, WEOF

LEMMA UseKeepsBuffer ==
  ASSUME BufferInv, NEW pos \in Nat, NEW again \in BOOLEAN, Use(pos, again)
  PROVE  BufferInv'
BY DEF BufferInv, BufferTypeOK, BytesFit, Use

(* One turn of the loop in input_buffer_read_char. *)
LEMMA ReadCharKeepsBuffer ==
  ASSUME BufferInv, read_char
  PROVE  BufferInv'
<1> USE DEF BufferInv, BufferTypeOK, BytesFit
<1>1. Len(file) \in Nat /\ INCREMENT \in Nat \ {0}
  BY BytesOfFile, IncrementAssumption
<1>2. CASE ReadMore
  <2>1. /\ Smaller(INCREMENT, Len(file) - bytes_read) \in Nat
        /\ Smaller(INCREMENT, Len(file) - bytes_read) <= INCREMENT
        /\ Smaller(INCREMENT, Len(file) - bytes_read) <= Len(file) - bytes_read
    BY <1>1, <1>2 DEF ReadMore, Smaller
  <2> HIDE DEF BufferInv, BufferTypeOK, BytesFit
  <2>2. /\ bytes_read \in Nat /\ buf_size \in Nat
        /\ bytes_read <= buf_size /\ bytes_read <= Len(file)
    BY DEF BufferInv, BufferTypeOK, BytesFit
  <2>3. /\ bytes_read' \in Nat /\ buf_size' \in Nat
        /\ bytes_read' <= buf_size' /\ bytes_read' <= Len(file)
    BY <1>1, <1>2, <2>1, <2>2 DEF ReadMore
  <2> QED
    BY <1>2, <2>3 DEF ReadMore, BufferInv, BufferTypeOK, BytesFit
<1>3. CASE EndOfFile
  <2>1. buf_size + INCREMENT \in Nat /\ bytes_read <= buf_size + INCREMENT
    BY <1>1
  <2> QED
    BY <1>3, <2>1, WideIsInt DEF EndOfFile
<1>4. CASE TakeChar
  <2>1. file[current_pos + 1] \in 0..255
    BY <1>4, BytesOfFile DEF TakeChar
  <2>2. Wide(file[current_pos + 1]) \in Int
    BY <2>1, WideIsInt
  <2>3. /\ file' = file /\ bytes_read' = bytes_read /\ buf_size' = buf_size
        /\ ch' \in Int
        /\ current_pos' = current_pos + 1
    BY <1>4, <2>2 DEF TakeChar
  <2>4. current_pos' \in Nat
    BY <2>3
  <2>5. reading' \in BOOLEAN
    BY <1>4 DEF TakeChar
  <2> QED
    BY <2>3, <2>4, <2>5
<1> QED
  BY <1>2, <1>3, <1>4 DEF read_char

(* The line that print_errors reads again begins at a position. *)
LEMMA LinePosIsPosition ==
  ASSUME IsArray(line_endings, Nat), NEW pos
  PROVE  line_pos(find_line(pos)) \in Nat
<1> DEFINE line == find_line(pos)
           n    == array_size(line_endings)
<1>1. n \in Nat /\ \A i \in 1..n : line_endings.cells[i] \in Nat
  BY DEF IsArray, array_size
<1>2. line \in (1..n) \cup {n, -1}
  <2>1. CASE LinesBeyond(pos) # {}
    <3>1. LinesBeyond(pos) \subseteq 1..n
      BY DEF LinesBeyond
    <3>2. \E i \in LinesBeyond(pos) : \A j \in LinesBeyond(pos) : i <= j
      <4>1. LinesBeyond(pos) \subseteq Nat
        BY <1>1, <3>1
      <4> DEFINE Below == {p \in Nat \X Nat : p[1] < p[2]}
                 Lines == LinesBeyond(pos)
      <4>2. IsWellFoundedOn(Below, Nat)
        BY NatLessThanWellFounded DEF OpToRel
      <4> HIDE DEF Below, Lines
      <4>3. Lines \subseteq Nat /\ Lines # {}
        BY <2>1, <4>1 DEF Lines
      <4>4. PICK m \in Lines : \A k \in Lines : <<k, m>> \notin Below
        BY <4>2, <4>3, WFMin
      <4>5. ASSUME NEW k \in Lines PROVE m <= k
        <5>1. k \in Nat /\ m \in Nat
          BY <4>3
        <5>2. <<k, m>> \notin Below
          BY <4>4
        <5>3. <<k, m>> \in Nat \X Nat /\ <<k, m>>[1] = k /\ <<k, m>>[2] = m
          BY <5>1
        <5>4. ~(k < m)
          BY <5>2, <5>3 DEF Below
        <5> QED
          BY <5>1, <5>4
      <4> QED
        BY <4>5 DEF Lines
    <3> QED
      BY <2>1, <3>1, <3>2 DEF find_line
  <2>2. CASE LinesBeyond(pos) = {}
    BY <2>2 DEF find_line
  <2> QED
    BY <2>1, <2>2
<1>3. CASE line > 1
  <2>1. line - 1 \in 1..n
    BY <1>1, <1>2, <1>3
  <2>2. line - 2 + 1 = line - 1
    BY <1>1, <1>2
  <2> HIDE DEF line
  <2> QED
    BY <1>1, <1>3, <2>1, <2>2 DEF line_pos, array_item, line
<1>4. CASE ~(line > 1)
  BY <1>4 DEF line_pos
<1> QED
  BY <1>3, <1>4

-----------------------------------------------------------------------------
(* The steps of the system. *)

LEMMA InitEstablishesInv == Init => Inv
<1> SUFFICES ASSUME Init PROVE Inv
  OBVIOUS
<1>1. Len(file) \in Nat
  BY BytesOfFile DEF Init, BufferInit
<1>2. BufferInv
  <2>1. /\ file \in Files
        /\ buf_size = 0 /\ bytes_read = 0 /\ current_pos = 0
        /\ ch = WEOF
    BY DEF Init, BufferInit
  <2>2. reading \in BOOLEAN
    BY DEF Init, BufferInit
  <2>3. ch \in Int
    BY <2>1, WideIsInt
  <2> QED
    BY <1>1, <2>1, <2>2, <2>3 DEF BufferInv, BufferTypeOK, BytesFit
<1>3. IsArray(line_endings, Nat) /\ IsArray(str, Int)
  BY NewArrayIsArray DEF Init
<1>4. eol_pos \in Nat /\ span \in [begin : Nat, end : Nat, narrow : BOOLEAN]
  BY DEF Init, NoSpan
<1> QED
  BY <1>2, <1>3, <1>4 DEF Inv, LoopsInv

(* The readers touch the buffer through its operations and in no other     *)
(* way.                                                                    *)
LEMMA StepsUseBuffer ==
  ASSUME Inv, Next
  PROVE  \/ read_char
         \/ \E pos \in Nat, again \in BOOLEAN : Use(pos, again)
         \/ UNCHANGED bufferVars
<1>1. current_pos \in Nat /\ Len(file) \in Nat
  BY BytesOfFile DEF Inv, BufferInv, BufferTypeOK
<1>2. CASE ReadChar
  BY <1>2 DEF ReadChar
<1>3. CASE find_line_endings
  BY <1>3 DEF find_line_endings
<1>4. CASE EndingsChar
  BY <1>1, <1>4 DEF EndingsChar
<1>5. ASSUME NEW begin \in Positions, NEW end \in Positions, NEW narrow \in BOOLEAN,
             read_string(begin, end, narrow)
      PROVE  \E pos \in Nat, again \in BOOLEAN : Use(pos, again)
  <2>1. begin \in Nat /\ (begin < end) \in BOOLEAN
    BY <1>1 DEF Positions
  <2>2. Use(begin, begin < end)
    BY <1>5 DEF read_string
  <2> QED
    BY <2>1, <2>2
<1>6. CASE StringChar
  BY <1>1, <1>6 DEF StringChar
<1>7. CASE EmptyString
  BY <1>7 DEF EmptyString
<1>8. ASSUME NEW pos \in Positions, print_errors(pos)
      PROVE  \E p \in Nat, again \in BOOLEAN : Use(p, again)
  BY <1>8, LinePosIsPosition DEF print_errors, Inv, LoopsInv
<1>9. CASE MessageChar
  BY <1>1, <1>9 DEF MessageChar
<1>10. CASE Parse
  <2>1. PICK pos \in Positions : Use(pos, TRUE)
    BY <1>10 DEF Parse
  <2>2. pos \in Nat /\ TRUE \in BOOLEAN
    BY <1>1 DEF Positions
  <2> QED
    BY <2>1, <2>2
<1> QED
  BY <1>2, <1>3, <1>4, <1>5, <1>6, <1>7, <1>8, <1>9, <1>10 DEF Next

LEMMA StepKeepsBuffer ==
  ASSUME Inv, [Next]_vars
  PROVE  BufferInv'
<1>1. CASE Next
  <2>1. CASE read_char
    BY <2>1, ReadCharKeepsBuffer DEF Inv
  <2>2. CASE \E pos \in Nat, again \in BOOLEAN : Use(pos, again)
    BY <2>2, UseKeepsBuffer DEF Inv
  <2>3. CASE UNCHANGED bufferVars
    BY <2>3 DEF Inv, BufferInv, BufferTypeOK, BytesFit, bufferVars
  <2> QED
    BY <1>1, <2>1, <2>2, <2>3, StepsUseBuffer
<1>2. CASE UNCHANGED vars
  BY <1>2 DEF vars, bufferVars, Inv, BufferInv, BufferTypeOK, BytesFit
<1> QED
  BY <1>1, <1>2

LEMMA StepKeepsLoops ==
  ASSUME Inv, [Next]_vars
  PROVE  LoopsInv'
<1>1. /\ IsArray(line_endings, Nat) /\ IsArray(str, Int)
      /\ eol_pos \in Nat
      /\ span \in [begin : Nat, end : Nat, narrow : BOOLEAN]
      /\ current_pos \in Nat /\ ch \in Int
      /\ Len(file) \in Nat
  BY BytesOfFile DEF Inv, LoopsInv, BufferInv, BufferTypeOK
<1>2. CASE ReadChar
  BY <1>1, <1>2 DEF ReadChar, LoopsInv
<1>3. CASE find_line_endings
  <2>1. IsArray(line_endings', Nat)
    BY <1>3, NewArrayIsArray DEF find_line_endings
  <2> QED
    BY <1>1, <1>3, <2>1 DEF find_line_endings, LoopsInv
<1>4. CASE EndingsChar
  <2>1. IsArray(EndingsUpToNow, Nat)
    BY <1>1, AddKeepsArray DEF EndingsUpToNow
  <2>2. IsArray(array_add(EndingsUpToNow, current_pos), Nat)
    BY <1>1, <2>1, AddKeepsArray
  <2>3. \/ line_endings' = EndingsUpToNow
        \/ line_endings' = array_add(EndingsUpToNow, current_pos)
    BY <1>4 DEF EndingsChar
  <2>4. eol_pos' \in {0, current_pos}
    <3>1. CASE ch # WEOF
      BY <1>4, <3>1 DEF EndingsChar
    <3>2. CASE ch = WEOF
      BY <1>4, <3>2 DEF EndingsChar
    <3> QED
      BY <3>1, <3>2
  <2> QED
    <3>1. eol_pos' \in Nat
      BY <1>1, <2>4
    <3>2. IsArray(line_endings', Nat)
      BY <2>1, <2>2, <2>3
    <3>3. UNCHANGED <<span, str>>
      BY <1>4 DEF EndingsChar
    <3> QED
      BY <1>1, <3>1, <3>2, <3>3 DEF LoopsInv
<1>5. ASSUME NEW begin \in Positions, NEW end \in Positions, NEW narrow \in BOOLEAN,
             read_string(begin, end, narrow)
      PROVE  LoopsInv'
  <2>1. IsArray(str', Int)
    BY <1>1, <1>5, ClearedArrayIsArray DEF read_string
  <2>2. span' \in [begin : Nat, end : Nat, narrow : BOOLEAN]
    BY <1>1, <1>5 DEF read_string, Positions
  <2> QED
    BY <1>1, <1>5, <2>1, <2>2 DEF read_string, LoopsInv
<1>6. CASE StringChar
  <2> DEFINE read == IF Kept THEN array_add(str, ch) ELSE str
  <2>1. IsArray(read, Int)
    BY <1>1, AddKeepsArray
  <2>2. IsArray(array_add(read, 0), Int)
    BY <2>1, AddKeepsArray
  <2>3. str' = read \/ str' = array_add(read, 0)
    BY <1>6 DEF StringChar
  <2> HIDE DEF read
  <2> QED
    BY <1>1, <1>6, <2>1, <2>2, <2>3 DEF StringChar, LoopsInv
<1>7. CASE EmptyString
  <2>1. IsArray(array_add(str, 0), Int)
    BY <1>1, AddKeepsArray
  <2> QED
    BY <1>1, <1>7, <2>1 DEF EmptyString, LoopsInv
<1>8. ASSUME NEW pos \in Positions, print_errors(pos)
      PROVE  LoopsInv'
  <2>1. IsArray(str', Int)
    BY <1>8, NewArrayIsArray DEF print_errors
  <2> QED
    BY <1>1, <1>8, <2>1 DEF print_errors, LoopsInv
<1>9. CASE MessageChar
  <2>1. IsArray(array_add(str, ch), Int) /\ IsArray(array_add(str, 0), Int)
    BY <1>1, AddKeepsArray
  <2> QED
    BY <1>1, <1>9, <2>1 DEF MessageChar, LoopsInv
<1>10. CASE Parse \/ UNCHANGED vars
  BY <1>1, <1>10 DEF Parse, vars, LoopsInv
<1> QED
  BY <1>2, <1>3, <1>4, <1>5, <1>6, <1>7, <1>8, <1>9, <1>10 DEF Next

THEOREM InvCorrect == Spec => []Inv
<1>1. Init => Inv
  BY InitEstablishesInv
<1>2. Inv /\ [Next]_vars => Inv'
  BY StepKeepsBuffer, StepKeepsLoops DEF Inv
<1> QED
  BY <1>1, <1>2, PTL DEF Spec

(* input_buffer_read_char never fills memory that realloc has not given,   *)
(* however far the cursor has been set ahead of what was read, and         *)
(* find_line_endings, read_string and print_errors never write beyond the  *)
(* memory of the arrays they fill.                                         *)
THEOREM MemoryFitsCorrect == Spec => []MemoryFits
<1>1. Inv => MemoryFits
  BY DEF Inv, BufferInv, LoopsInv, ArraysFit, MemoryFits
<1> QED
  BY <1>1, InvCorrect, PTL

-----------------------------------------------------------------------------
(* The buffer is a text. *)

LEMMA TurnReadsText ==
  ASSUME BufferInv, read_char
  PROVE  [Reader!Next]_Reader!vars
<1>1. /\ bytes_read <= Len(file) /\ bytes_read \in Nat /\ current_pos \in Nat
      /\ Len(file) \in Nat
  BY BytesOfFile DEF BufferInv, BufferTypeOK, BytesFit
<1>2. Len(WideText(file)) = Len(file)
  <2>1. WideText(file) \in [1..Len(file) -> {Wide(file[i]) : i \in 1..Len(file)}]
    BY DEF WideText
  <2> QED
    BY <1>1, <2>1, FunctionIsSequence
<1>3. CASE ReadMore
  BY <1>3 DEF ReadMore, Reader!vars
<1>4. CASE EndOfFile
  <2>1. Reader!ReadPastEnd
    BY <1>1, <1>2, <1>4 DEF EndOfFile, Reader!ReadPastEnd
  <2> QED
    BY <2>1 DEF Reader!Next
<1>5. CASE TakeChar
  <2>1. current_pos + 1 \in 1..Len(file)
    BY <1>1, <1>5 DEF TakeChar
  <2>2. WideText(file)[current_pos + 1] = Wide(file[current_pos + 1])
    BY <2>1 DEF WideText
  <2>3. Reader!Read
    BY <1>1, <1>2, <1>5, <2>1, <2>2 DEF TakeChar, Reader!Read
  <2> QED
    BY <2>3 DEF Reader!Next
<1> QED
  BY <1>3, <1>4, <1>5 DEF read_char

LEMMA UseSetsPosition ==
  ASSUME NEW pos \in Nat, NEW again \in BOOLEAN, Use(pos, again)
  PROVE  Reader!Next
<1>1. Reader!SetPos
  BY DEF Use, Reader!SetPos
<1> QED
  BY <1>1 DEF Reader!Next

(* Whatever pieces the file is read in, those who read the buffer see one  *)
(* text with a position they may set, and WEOF after it.                   *)
THEOREM ReadsTextCorrect == Spec => ReadsText
<1>1. Init => Reader!Init
  BY DEF Init, BufferInit, Reader!Init
<1>2. Inv /\ [Next]_vars => [Reader!Next]_Reader!vars
  <2> SUFFICES ASSUME Inv, [Next]_vars PROVE [Reader!Next]_Reader!vars
    OBVIOUS
  <2>1. CASE read_char
    BY <2>1, TurnReadsText DEF Inv
  <2>2. CASE \E pos \in Nat, again \in BOOLEAN : Use(pos, again)
    BY <2>2, UseSetsPosition
  <2>3. CASE UNCHANGED bufferVars
    BY <2>3 DEF bufferVars, Reader!vars
  <2>4. CASE UNCHANGED vars
    BY <2>4 DEF vars, bufferVars, Reader!vars
  <2> QED
    BY <2>1, <2>2, <2>3, <2>4, StepsUseBuffer
<1> QED
  BY <1>1, <1>2, InvCorrect, PTL DEF Spec, ReadsText, Reader!Spec

-----------------------------------------------------------------------------
(* Ranks: how many places of a set there are up to a number. *)
LEMMA LeastNumber ==
  ASSUME NEW T, T \subseteq Nat, T # {}
  PROVE  \E x \in T : \A y \in T : x <= y
<1> DEFINE Below == {p \in Nat \X Nat : p[1] < p[2]}
<1>1. IsWellFoundedOn(Below, Nat)
  BY NatLessThanWellFounded DEF OpToRel
<1> HIDE DEF Below
<1>2. PICK x \in T : \A y \in T : <<y, x>> \notin Below
  BY <1>1, WFMin
<1>3. ASSUME NEW y \in T PROVE x <= y
  <2>1. x \in Nat /\ y \in Nat /\ <<y, x>> \notin Below
    BY <1>2
  <2>2. <<y, x>> \in Nat \X Nat /\ <<y, x>>[1] = y /\ <<y, x>>[2] = x
    BY <2>1
  <2>3. ~(y < x)
    BY <2>1, <2>2 DEF Below
  <2> QED
    BY <2>1, <2>3
<1> QED
  BY <1>3

LEMMA RankType ==
  ASSUME NEW S, S \subseteq Nat, NEW n \in Nat
  PROVE  IsFiniteSet({i \in S : i <= n}) /\ Rank(S, n) \in Nat
<1> DEFINE T == {i \in S : i <= n}
<1>1. T \in SUBSET Nat /\ \A s \in T : s <= n
  OBVIOUS
<1> HIDE DEF T
<1>2. IsFiniteSet(T)
  BY <1>1, FS_BoundedSetOfNaturals
<1>3. Cardinality(T) \in Nat
  BY <1>2, FS_CardinalityType
<1> QED
  BY <1>2, <1>3 DEF Rank, T

LEMMA RankNone ==
  ASSUME NEW S, NEW n, \A i \in S : ~(i <= n)
  PROVE  Rank(S, n) = 0
<1>1. {i \in S : i <= n} = {}
  OBVIOUS
<1> QED
  BY <1>1, FS_EmptySet DEF Rank

LEMMA RankSkip ==
  ASSUME NEW S, S \subseteq Nat, NEW n \in Nat, n + 1 \notin S
  PROVE  Rank(S, n + 1) = Rank(S, n)
<1>1. {i \in S : i <= n + 1} = {i \in S : i <= n}
  <2>1. \A i \in S : i <= n + 1 <=> i <= n
    OBVIOUS
  <2> QED
    BY <2>1
<1> QED
  BY <1>1 DEF Rank

LEMMA RankStep ==
  ASSUME NEW S, S \subseteq Nat, NEW n \in Nat, n + 1 \in S
  PROVE  Rank(S, n + 1) = Rank(S, n) + 1
<1> DEFINE T == {i \in S : i <= n}
<1>1. {i \in S : i <= n + 1} = T \cup {n + 1}
  <2>1. \A i \in S : i <= n + 1 <=> (i <= n \/ i = n + 1)
    OBVIOUS
  <2> QED
    BY <2>1
<1>2. n + 1 \notin T
  OBVIOUS
<1>3. IsFiniteSet(T)
  BY RankType
<1> HIDE DEF T
<1>4. Cardinality(T \cup {n + 1}) = Cardinality(T) + 1
  BY <1>2, <1>3, FS_AddElement
<1> QED
  BY <1>1, <1>4 DEF Rank, T

LEMMA RankMonotonic ==
  ASSUME NEW S, S \subseteq Nat, NEW m \in Nat, NEW n \in Nat, m <= n
  PROVE  Rank(S, m) <= Rank(S, n)
<1> DEFINE T(k) == {i \in S : i <= k}
<1>1. T(m) \in SUBSET T(n)
  <2>1. \A i \in S : i <= m => i <= n
    OBVIOUS
  <2> QED
    BY <2>1
<1>2. IsFiniteSet(T(n))
  BY RankType
<1>3. Rank(S, m) = Cardinality(T(m)) /\ Rank(S, n) = Cardinality(T(n))
  BY DEF Rank
<1> HIDE DEF T
<1> QED
  BY <1>1, <1>2, <1>3, FS_Subset

LEMMA RankBelow ==
  ASSUME NEW S, S \subseteq Nat, NEW m \in Nat, NEW n \in S, m < n
  PROVE  Rank(S, m) < Rank(S, n)
<1>1. n - 1 \in Nat /\ m <= n - 1 /\ (n - 1) + 1 = n /\ n \in Nat
  OBVIOUS
<1>2. Rank(S, m) <= Rank(S, n - 1)
  BY <1>1, RankMonotonic
<1>3. Rank(S, n) = Rank(S, n - 1) + 1
  <2>1. (n - 1) + 1 \in S
    BY <1>1
  <2>2. Rank(S, (n - 1) + 1) = Rank(S, n - 1) + 1
    BY <1>1, <2>1, RankStep
  <2> QED
    BY <1>1, <2>2
<1>4. Rank(S, m) \in Nat /\ Rank(S, n - 1) \in Nat
  BY <1>1, RankType
<1> QED
  BY <1>2, <1>3, <1>4

LEMMA RankPositive ==
  ASSUME NEW S, S \subseteq Nat \ {0}, NEW n \in S
  PROVE  Rank(S, n) \in Nat \ {0}
<1>1. 0 \in Nat /\ n \in Nat /\ 0 < n /\ S \subseteq Nat
  OBVIOUS
<1>2. Rank(S, 0) < Rank(S, n)
  BY <1>1, RankBelow
<1>3. Rank(S, 0) \in Nat /\ Rank(S, n) \in Nat
  BY <1>1, RankType
<1> QED
  BY <1>2, <1>3

(* Every rank but 0 is the rank of a place. *)
LEMMA RankOnto ==
  ASSUME NEW S, S \subseteq Nat \ {0}, NEW n \in Nat, NEW r \in 1..Rank(S, n)
  PROVE  \E j \in S : j <= n /\ Rank(S, j) = r
<1> DEFINE T == {k \in Nat : Rank(S, k) >= r}
<1>1. S \subseteq Nat /\ \A k \in Nat : Rank(S, k) \in Nat
  BY RankType
<1>2. n \in T
  BY <1>1
<1>3. PICK j \in T : \A k \in T : j <= k
  <2>1. T \subseteq Nat /\ T # {}
    BY <1>2
  <2> HIDE DEF T
  <2> QED
    BY <2>1, LeastNumber
<1>4. j # 0
  <2>1. Rank(S, 0) = 0
    <3>1. \A i \in S : ~(i <= 0)
      OBVIOUS
    <3> QED
      BY <3>1, RankNone
  <2> QED
    BY <2>1
<1>5. j - 1 \in Nat /\ (j - 1) + 1 = j /\ j - 1 \notin T
  <2>1. j - 1 \in Nat /\ (j - 1) + 1 = j /\ ~(j <= j - 1)
    BY <1>4
  <2> QED
    BY <1>3, <2>1
<1>6. Rank(S, j - 1) < r /\ Rank(S, j) >= r
  BY <1>1, <1>5
<1>7. j \in S
  <2> SUFFICES ASSUME j \notin S PROVE FALSE
    OBVIOUS
  <2>1. Rank(S, (j - 1) + 1) = Rank(S, j - 1)
    BY <1>1, <1>5, RankSkip
  <2> QED
    BY <1>1, <1>5, <1>6, <2>1
<1>8. Rank(S, j) = Rank(S, j - 1) + 1
  <2>1. Rank(S, (j - 1) + 1) = Rank(S, j - 1) + 1
    BY <1>1, <1>5, <1>7, RankStep
  <2> QED
    BY <1>5, <2>1
<1>9. Rank(S, j) = r
  BY <1>1, <1>5, <1>6, <1>8
<1> QED
  BY <1>2, <1>3, <1>7, <1>9

(* An array holds, for the places in S that come up to n, their values, in *)
(* their order.                                                            *)
Lists(da, S, n, v) ==
  /\ da.num = Rank(S, n)
  /\ \A j \in S : j <= n => da.cells[Rank(S, j)] = v[j]

LEMMA ListsSkip ==
  ASSUME NEW da, NEW S, S \subseteq Nat, NEW n \in Nat, NEW v, Lists(da, S, n, v), n + 1 \notin S
  PROVE  Lists(da, S, n + 1, v)
<1>1. Rank(S, n + 1) = Rank(S, n)
  BY RankSkip
<1>2. \A j \in S : j <= n + 1 => j <= n
  OBVIOUS
<1> QED
  BY <1>1, <1>2 DEF Lists

(* All of them, and one value after them. *)
Closed(da, S, n, v, item) ==
  /\ da.num = Rank(S, n) + 1
  /\ \A j \in S : da.cells[Rank(S, j)] = v[j]
  /\ da.cells[da.num] = item

LEMMA ListsAdd ==
  ASSUME NEW da, NEW added, NEW item, Longer(added, da, item),
         NEW S, S \subseteq Nat \ {0}, NEW n \in Nat, NEW v, Lists(da, S, n, v)
  PROVE  /\ n + 1 \in S /\ item = v[n + 1] => Lists(added, S, n + 1, v)
         /\ (\A j \in S : j <= n) => Closed(added, S, n, v, item)
<1>1. /\ added.num = da.num + 1 /\ added.cells[da.num + 1] = item
      /\ \A i \in 1..da.num : added.cells[i] = da.cells[i]
  BY DEF Longer
<1>2. da.num = Rank(S, n) /\ S \subseteq Nat
  BY DEF Lists
<1>3. ASSUME NEW j \in S, j <= n PROVE added.cells[Rank(S, j)] = v[j]
  <2>1. j \in Nat /\ Rank(S, j) \in Nat \ {0}
    BY RankPositive
  <2>2. Rank(S, j) <= Rank(S, n)
    BY <1>2, <1>3, <2>1, RankMonotonic
  <2>3. Rank(S, n) \in Nat
    BY <1>2, RankType
  <2>4. Rank(S, j) \in 1..da.num
    BY <1>2, <2>1, <2>2, <2>3
  <2> QED
    BY <1>1, <1>3, <2>4 DEF Lists
<1>4. ASSUME n + 1 \in S, item = v[n + 1] PROVE Lists(added, S, n + 1, v)
  <2>1. Rank(S, n + 1) = Rank(S, n) + 1
    BY <1>2, <1>4, RankStep
  <2>2. \A j \in S : j <= n + 1 => j <= n \/ j = n + 1
    OBVIOUS
  <2> QED
    BY <1>1, <1>2, <1>3, <1>4, <2>1, <2>2 DEF Lists
<1>5. ASSUME \A j \in S : j <= n PROVE Closed(added, S, n, v, item)
  BY <1>1, <1>2, <1>3, <1>5 DEF Closed
<1> QED
  BY <1>4, <1>5

LEMMA ListsMore ==
  ASSUME NEW T, NEW da, IsArray(da, T), NEW item \in T, NEW S, S \subseteq Nat \ {0}, NEW n \in Nat,
         NEW v, Lists(da, S, n, v), n + 1 \in S, item = v[n + 1]
  PROVE  Lists(array_add(da, item), S, n + 1, v)
<1>1. Longer(array_add(da, item), da, item)
  BY AddKeepsArray
<1> QED
  BY <1>1, ListsAdd

LEMMA ListsClosed ==
  ASSUME NEW T, NEW da, IsArray(da, T), NEW item \in T, NEW S, S \subseteq Nat \ {0}, NEW n \in Nat,
         NEW v, Lists(da, S, n, v), \A j \in S : j <= n
  PROVE  Closed(array_add(da, item), S, n, v, item)
<1>1. Longer(array_add(da, item), da, item)
  BY AddKeepsArray
<1> QED
  BY <1>1, ListsAdd

-----------------------------------------------------------------------------
(* The bytes that find_line_endings takes for the text. *)
LEMMA WideCharacters ==
  /\ LF # WEOF /\ CR # WEOF /\ LF # CR
  /\ \A byte \in 0..255 : /\ (Wide(byte) = LF <=> byte = LF)
                         /\ (Wide(byte) = CR <=> byte = CR)
BY DEF Wide, LF, CR, WEOF

LEMMA ScannedText ==
  ASSUME file \in Files
  PROVE  /\ Len(Scanned) \in Nat /\ Len(Scanned) <= Len(file)
         /\ \A i \in 1..Len(Scanned) : Scanned[i] = file[i]
         /\ \A i \in 1..Len(file) : i < Len(Scanned) => Wide(file[i]) # WEOF
         /\ \/ Len(Scanned) = Len(file)
            \/ Len(Scanned) \in 1..Len(file) /\ Wide(file[Len(Scanned)]) = WEOF
<1> DEFINE ends == {i \in 1..Len(file) : Wide(file[i]) = WEOF}
           last == CHOOSE i \in ends : \A j \in ends : i <= j
<1>1. Len(file) \in Nat /\ file \in Seq(0..255)
  BY FilesAssumption, BytesOfFile
<1>2. CASE ends = {}
  <2>1. Scanned = file
    BY <1>2 DEF Scanned
  <2> QED
    BY <1>1, <1>2, <2>1
<1>3. CASE ends # {}
  <2>1. last \in ends /\ \A j \in ends : last <= j
    <3>1. ends \subseteq Nat
      OBVIOUS
    <3> HIDE DEF ends
    <3>2. \E i \in ends : \A j \in ends : i <= j
      BY <1>3, <3>1, LeastNumber
    <3> QED
      BY <3>2
  <2>2. Scanned = SubSeq(file, 1, last)
    BY <1>3 DEF Scanned
  <2> HIDE DEF last
  <2>3. last \in 1..Len(file) /\ Wide(file[last]) = WEOF
    BY <2>1
  <2>4. Len(Scanned) = last /\ \A i \in 1..last : Scanned[i] = file[i]
    BY <1>1, <2>2, <2>3
  <2>5. \A i \in 1..Len(file) : i < last => Wide(file[i]) # WEOF
    BY <2>1
  <2> QED
    BY <1>1, <2>3, <2>4, <2>5
<1> QED
  BY <1>2, <1>3

(* What has been read without a WEOF is text, and a WEOF ends it. *)
LEMMA ScannedSoFar ==
  ASSUME file \in Files, NEW p \in Nat, p <= Len(file), \A i \in 1..p : Wide(file[i]) # WEOF
  PROVE  /\ p <= Len(Scanned)
         /\ p = Len(file) => Len(Scanned) = p
         /\ p < Len(file) => p + 1 <= Len(Scanned)
         /\ p < Len(file) /\ Wide(file[p + 1]) = WEOF => Len(Scanned) = p + 1
<1> DEFINE n == Len(Scanned)
<1>1. Len(file) \in Nat
  BY BytesOfFile
<1>2. /\ n \in Nat /\ n <= Len(file)
      /\ \A i \in 1..Len(file) : i < n => Wide(file[i]) # WEOF
      /\ n = Len(file) \/ (n \in 1..Len(file) /\ Wide(file[n]) = WEOF)
  BY ScannedText
<1> HIDE DEF n
<1>3. n = Len(file) \/ p < n
  BY <1>1, <1>2
<1>4. ASSUME p < Len(file), Wide(file[p + 1]) = WEOF PROVE n = p + 1
  <2>1. p + 1 \in 1..Len(file)
    BY <1>1, <1>4
  <2>2. ~(p + 1 < n)
    BY <1>2, <1>4, <2>1
  <2> QED
    BY <1>1, <1>2, <1>3, <1>4, <2>2
<1> QED
  BY <1>1, <1>2, <1>3, <1>4 DEF n

(* The line ends that the table gets: of several '\r' in a row only the    *)
(* last one, and that one only if no '\n' follows it.                      *)
EndsInTable(i) ==
  \/ Scanned[i] = LF
  \/ Scanned[i] = CR /\ (i = Len(Scanned) \/ Scanned[i + 1] \notin {LF, CR})

TableEnds == {i \in 1..Len(Scanned) : EndsInTable(i)}

TableLine(pos) == IF pos > Len(Scanned) THEN -1 ELSE 1 + Rank(TableEnds, pos)

TableStart(pos) ==
  LET before == {i \in 1..pos : EndsInTable(i)}
  IN  IF before = {} THEN 0 ELSE CHOOSE i \in before : \A j \in before : j <= i

LEMMA EndsOfLines ==
  ASSUME file \in Files
  PROVE  /\ TableEnds \subseteq 1..Len(Scanned) /\ TableEnds \subseteq Nat \ {0} /\ TableEnds \subseteq Nat
         /\ \A i \in 1..Len(Scanned) :
              i \in TableEnds <=>
                \/ file[i] = LF
                \/ file[i] = CR /\ (i = Len(Scanned) \/ file[i + 1] \notin {LF, CR})
<1>1. /\ Len(Scanned) \in Nat /\ \A i \in 1..Len(Scanned) : Scanned[i] = file[i]
  BY ScannedText
<1>2. TableEnds \subseteq 1..Len(Scanned)
  BY DEF TableEnds
<1>3. TableEnds \subseteq Nat \ {0} /\ TableEnds \subseteq Nat
  BY <1>1, <1>2
<1>4. ASSUME NEW i \in 1..Len(Scanned)
      PROVE  EndsInTable(i) <=>
               \/ file[i] = LF
               \/ file[i] = CR /\ (i = Len(Scanned) \/ file[i + 1] \notin {LF, CR})
  <2>1. i # Len(Scanned) => i + 1 \in 1..Len(Scanned)
    BY <1>1
  <2> QED
    BY <1>1, <2>1 DEF EndsInTable
<1> QED
  BY <1>2, <1>3, <1>4 DEF TableEnds

-----------------------------------------------------------------------------
(* find_line_endings: what the table holds while it is made, and then. *)
Places == [i \in 1..Len(file) |-> i]

(* The character read last, not dealt with yet, and the end of the file.   *)
Taken == ~reading /\ current_pos \in 1..Len(file) /\ ch = Wide(file[current_pos])
AtEnd == ~reading /\ ch = WEOF /\ current_pos = Len(file)

(* The table for the first p characters; a '\r' at the end is left open.   *)
LinesDone(p) ==
  /\ \A i \in 1..p : Wide(file[i]) # WEOF
  /\ eol_pos = IF p > 0 /\ file[p] = CR THEN p ELSE 0
  /\ Lists(line_endings, TableEnds, IF eol_pos = 0 THEN p ELSE p - 1, Places)

Table == Closed(line_endings, TableEnds, Len(Scanned), Places, Len(Scanned))

TableInv ==
  /\ task = "start" => ~reading
  /\ task = "line endings" =>
       \/ reading /\ current_pos <= Len(file) /\ LinesDone(current_pos)
       \/ Taken /\ LinesDone(current_pos - 1)
       \/ AtEnd /\ LinesDone(current_pos)
  /\ task \notin {"start", "parse", "line endings"} => Table

LEMMA FileFixed ==
  ASSUME file' = file
  PROVE  Scanned' = Scanned /\ TableEnds' = TableEnds /\ Places' = Places
<1>1. Scanned' = Scanned
  BY DEF Scanned
<1>2. \A i : EndsInTable(i)' <=> EndsInTable(i)
  BY <1>1 DEF EndsInTable
<1>3. TableEnds' = TableEnds
  BY <1>1, <1>2 DEF TableEnds
<1> QED
  BY <1>1, <1>3 DEF Places

(* A place is dealt with once what follows it has been seen. *)
LEMMA EndingsTaken ==
  ASSUME Inv, Taken, LinesDone(current_pos - 1)
  PROVE  /\ IsArray(EndingsUpToNow, Nat)
         /\ Lists(EndingsUpToNow, TableEnds, IF ch = CR THEN current_pos - 1 ELSE current_pos, Places)
         /\ current_pos <= Len(Scanned) /\ (ch = WEOF => current_pos = Len(Scanned))
<1> DEFINE c == current_pos
           p == current_pos - 1
           E == TableEnds
<1>1. /\ file \in Files /\ Len(file) \in Nat /\ c \in 1..Len(file) /\ p \in Nat /\ p + 1 = c
      /\ p < Len(file) /\ p <= Len(file)
      /\ ch = Wide(file[c]) /\ file[c] \in 0..255
  BY BytesOfFile DEF Inv, BufferInv, BufferTypeOK, Taken
<1>2. IsArray(line_endings, Nat) /\ eol_pos \in Nat
  BY DEF Inv, LoopsInv
<1>3. /\ \A i \in 1..p : Wide(file[i]) # WEOF
      /\ eol_pos = IF p > 0 /\ file[p] = CR THEN p ELSE 0
      /\ Lists(line_endings, E, IF eol_pos = 0 THEN p ELSE p - 1, Places)
  BY DEF LinesDone
<1>4. /\ c <= Len(Scanned) /\ (ch = WEOF => c = Len(Scanned)) /\ Len(Scanned) \in Nat
  BY <1>1, <1>3, ScannedSoFar, ScannedText
<1>5. E \subseteq Nat \ {0} /\ E \subseteq Nat
  BY <1>1, EndsOfLines
<1>6. /\ ch = LF <=> file[c] = LF
      /\ ch = CR <=> file[c] = CR
      /\ LF # CR
  BY <1>1, WideCharacters
<1>7. /\ c \in 1..Len(Scanned)
      /\ file[c] = LF => c \in E
      /\ file[c] \notin {LF, CR} => c \notin E
  BY <1>1, <1>4, EndsOfLines
<1>8. p > 0 => /\ p \in 1..Len(Scanned) /\ p # Len(Scanned)
               /\ file[p] = CR => (p \in E <=> file[c] \notin {LF, CR})
  <2> SUFFICES ASSUME p > 0 PROVE /\ p \in 1..Len(Scanned) /\ p # Len(Scanned)
                                  /\ file[p] = CR => (p \in E <=> file[c] \notin {LF, CR})
    OBVIOUS
  <2>1. p \in 1..Len(Scanned) /\ p # Len(Scanned)
    BY <1>1, <1>4
  <2> QED
    BY <1>1, <1>6, <2>1, EndsOfLines
<1>9. Places[c] = c /\ (p > 0 => Places[p] = p)
  BY <1>1 DEF Places
<1>10. c \in Nat
  BY <1>1
<1> HIDE DEF c, p, E
<1>11. ASSUME eol_pos # 0
       PROVE  /\ eol_pos = p /\ p - 1 \in Nat /\ (p - 1) + 1 = p /\ p > 0 /\ file[p] = CR
              /\ Lists(line_endings, E, p - 1, Places)
  BY <1>1, <1>3, <1>11
<1>12. ASSUME eol_pos = 0 PROVE Lists(line_endings, E, p, Places)
  BY <1>3, <1>12
<1>13. ASSUME file[c] \in {LF, CR} PROVE Lists(line_endings, E, p, Places)
  <2>1. CASE eol_pos # 0
    <3>1. p \notin E
      BY <1>8, <1>11, <1>13, <2>1
    <3>2. Lists(line_endings, E, (p - 1) + 1, Places)
      BY <1>5, <1>11, <2>1, <3>1, ListsSkip
    <3> QED
      BY <1>11, <2>1, <3>2
  <2> QED
    BY <1>12, <2>1
<1>14. CASE file[c] = LF
  <2>1. EndingsUpToNow = array_add(line_endings, c)
    BY <1>6, <1>14 DEF EndingsUpToNow, c
  <2>2. Lists(line_endings, E, p, Places) /\ p + 1 \in E /\ c = Places[p + 1]
    BY <1>1, <1>7, <1>9, <1>13, <1>14
  <2>3. Lists(array_add(line_endings, c), E, p + 1, Places)
    BY <1>1, <1>2, <1>5, <1>10, <2>2, ListsMore
  <2>4. IsArray(array_add(line_endings, c), Nat)
    BY <1>2, <1>10, AddKeepsArray
  <2> QED
    BY <1>1, <1>4, <1>6, <1>14, <2>1, <2>3, <2>4 DEF c, E
<1>15. CASE file[c] = CR
  <2>1. EndingsUpToNow = line_endings
    BY <1>6, <1>15 DEF EndingsUpToNow
  <2> QED
    BY <1>2, <1>4, <1>6, <1>13, <1>15, <2>1 DEF c, E, p
<1>16. CASE file[c] \notin {LF, CR}
  <2>1. IsArray(EndingsUpToNow, Nat) /\ Lists(EndingsUpToNow, E, p, Places)
    <3>1. CASE eol_pos # 0
      <4>1. EndingsUpToNow = array_add(line_endings, p)
        BY <1>2, <1>6, <1>11, <1>16, <3>1 DEF EndingsUpToNow
      <4>2. (p - 1) + 1 \in E /\ p = Places[(p - 1) + 1]
        BY <1>8, <1>9, <1>11, <1>16, <3>1
      <4>3. Lists(array_add(line_endings, p), E, (p - 1) + 1, Places)
        BY <1>1, <1>2, <1>5, <1>11, <3>1, <4>2, ListsMore
      <4>4. IsArray(array_add(line_endings, p), Nat)
        BY <1>1, <1>2, AddKeepsArray
      <4> QED
        BY <1>11, <3>1, <4>1, <4>3, <4>4
    <3>2. CASE eol_pos = 0
      <4>1. EndingsUpToNow = line_endings
        BY <1>6, <1>16, <3>2 DEF EndingsUpToNow
      <4> QED
        BY <1>2, <1>12, <3>2, <4>1
    <3> QED
      BY <3>1, <3>2
  <2>2. Lists(EndingsUpToNow, E, p + 1, Places)
    BY <1>1, <1>5, <1>7, <1>16, <2>1, ListsSkip
  <2> QED
    BY <1>1, <1>4, <1>6, <1>16, <2>1, <2>2 DEF c, E
<1> QED
  BY <1>14, <1>15, <1>16

LEMMA EndingsAtEnd ==
  ASSUME Inv, AtEnd, LinesDone(current_pos)
  PROVE  /\ IsArray(EndingsUpToNow, Nat)
         /\ Lists(EndingsUpToNow, TableEnds, current_pos, Places)
         /\ current_pos = Len(Scanned)
<1> DEFINE p == current_pos
           E == TableEnds
<1>1. file \in Files /\ Len(file) \in Nat /\ p = Len(file) /\ p \in Nat /\ ch = WEOF
  BY BytesOfFile DEF Inv, BufferInv, BufferTypeOK, AtEnd
<1>2. IsArray(line_endings, Nat) /\ eol_pos \in Nat
  BY DEF Inv, LoopsInv
<1>3. /\ \A i \in 1..p : Wide(file[i]) # WEOF
      /\ eol_pos = IF p > 0 /\ file[p] = CR THEN p ELSE 0
      /\ Lists(line_endings, E, IF eol_pos = 0 THEN p ELSE p - 1, Places)
  BY DEF LinesDone
<1>4. p = Len(Scanned)
  BY <1>1, <1>3, ScannedSoFar
<1>5. E \subseteq Nat \ {0} /\ E \subseteq Nat
  BY <1>1, EndsOfLines
<1>6. ch \notin {LF, CR}
  BY <1>1, WideCharacters
<1>7. p > 0 => Places[p] = p /\ p \in 1..Len(Scanned)
  BY <1>1, <1>4 DEF Places
<1> HIDE DEF p, E
<1>8. CASE eol_pos # 0
  <2>1. /\ eol_pos = p /\ p - 1 \in Nat /\ (p - 1) + 1 = p /\ p > 0 /\ file[p] = CR
        /\ Lists(line_endings, E, p - 1, Places)
    BY <1>1, <1>3, <1>8
  <2>2. EndingsUpToNow = array_add(line_endings, p)
    BY <1>2, <1>6, <1>8, <2>1 DEF EndingsUpToNow
  <2>3. p \in E
    BY <1>1, <1>4, <1>7, <2>1, EndsOfLines DEF E
  <2>4. (p - 1) + 1 \in E /\ p = Places[(p - 1) + 1]
    BY <1>7, <2>1, <2>3
  <2>5. Lists(array_add(line_endings, p), E, (p - 1) + 1, Places)
    BY <1>1, <1>2, <1>5, <2>1, <2>4, ListsMore
  <2>6. IsArray(array_add(line_endings, p), Nat)
    BY <1>1, <1>2, AddKeepsArray
  <2> QED
    BY <1>4, <2>1, <2>2, <2>5, <2>6 DEF p, E
<1>9. CASE eol_pos = 0
  <2>1. EndingsUpToNow = line_endings
    BY <1>6, <1>9 DEF EndingsUpToNow
  <2> QED
    BY <1>2, <1>3, <1>4, <1>9, <2>1 DEF p, E
<1> QED
  BY <1>8, <1>9

(* One turn of input_buffer_read_char, for a loop that waits for it. *)
LEMMA TurnTakes ==
  ASSUME Inv, ReadChar
  PROVE  /\ reading /\ file' = file
         /\ UNCHANGED <<task, tasks, line_endings, eol_pos, span, error_pos, str, caret_pos, index>>
         /\ \/ reading' /\ current_pos' = current_pos
            \/ Taken' /\ current_pos' = current_pos + 1 /\ current_pos + 1 <= Len(file)
            \/ ~reading' /\ ch' = WEOF /\ current_pos' = current_pos /\ Len(file) <= current_pos
<1>1. /\ bytes_read <= Len(file) /\ bytes_read \in Nat /\ current_pos \in Nat
      /\ Len(file) \in Nat
  BY BytesOfFile DEF Inv, BufferInv, BufferTypeOK, BytesFit
<1>2. UNCHANGED <<task, tasks, line_endings, eol_pos, span, error_pos, str, caret_pos, index>>
  BY DEF ReadChar
<1>3. CASE ReadMore
  BY <1>2, <1>3 DEF ReadMore
<1>4. CASE EndOfFile
  BY <1>1, <1>2, <1>4 DEF EndOfFile
<1>5. CASE TakeChar
  <2>1. /\ reading /\ file' = file /\ ~reading' /\ current_pos' = current_pos + 1
        /\ ch' = Wide(file[current_pos + 1]) /\ current_pos < bytes_read
    BY <1>5 DEF TakeChar
  <2>2. current_pos + 1 \in 1..Len(file)
    BY <1>1, <2>1
  <2>3. Taken'
    BY <2>1, <2>2 DEF Taken
  <2> QED
    BY <1>1, <1>2, <2>1, <2>2, <2>3
<1> QED
  BY <1>3, <1>4, <1>5 DEF ReadChar, read_char

LEMMA StepKeepsTable == Inv /\ TableInv /\ [Next]_vars => TableInv'
<1> SUFFICES ASSUME Inv, TableInv, [Next]_vars PROVE TableInv'
  OBVIOUS
<1>1. /\ current_pos \in Nat /\ Len(file) \in Nat /\ file \in Files /\ ch \in Int
      /\ line_endings \in [num : Nat, cap : Nat, cells : Seq(Nat \cup {Unset})]
  BY BytesOfFile DEF Inv, BufferInv, BufferTypeOK, LoopsInv, IsArray
<1>2. CASE ReadChar
  <2>1. /\ reading /\ file' = file /\ task' = task /\ line_endings' = line_endings /\ eol_pos' = eol_pos
        /\ \/ reading' /\ current_pos' = current_pos
           \/ Taken' /\ current_pos' = current_pos + 1 /\ current_pos + 1 <= Len(file)
           \/ ~reading' /\ ch' = WEOF /\ current_pos' = current_pos /\ Len(file) <= current_pos
    BY <1>2, TurnTakes
  <2>2. Scanned' = Scanned /\ TableEnds' = TableEnds /\ Places' = Places
    BY <2>1, FileFixed
  <2>3. ASSUME task = "line endings"
        PROVE  \/ reading' /\ current_pos' <= Len(file') /\ LinesDone(current_pos)'
               \/ Taken' /\ LinesDone(current_pos - 1)'
               \/ AtEnd' /\ LinesDone(current_pos)'
    <3>1. current_pos <= Len(file) /\ LinesDone(current_pos)
      BY <2>1, <2>3 DEF TableInv, Taken, AtEnd
    <3>2. CASE reading' /\ current_pos' = current_pos
      BY <2>1, <2>2, <3>1, <3>2 DEF LinesDone
    <3>3. CASE Taken' /\ current_pos' = current_pos + 1
      <4>1. current_pos' - 1 = current_pos
        BY <1>1, <3>3
      <4>2. LinesDone(current_pos - 1)'
        BY <2>1, <2>2, <3>1, <4>1 DEF LinesDone
      <4> QED
        BY <3>3, <4>2
    <3>4. CASE ~reading' /\ ch' = WEOF /\ current_pos' = current_pos /\ Len(file) <= current_pos
      <4>1. current_pos' = Len(file')
        BY <1>1, <2>1, <3>1, <3>4
      <4>2. LinesDone(current_pos)'
        BY <2>1, <2>2, <3>1, <3>4 DEF LinesDone
      <4> QED
        BY <3>4, <4>1, <4>2 DEF AtEnd
    <3> QED
      BY <2>1, <3>2, <3>3, <3>4
  <2>4. task # "start"
    BY <2>1 DEF TableInv
  <2>5. task \notin {"start", "parse", "line endings"} => Table'
    BY <2>1, <2>2 DEF TableInv, Table
  <2> QED
    BY <2>1, <2>3, <2>4, <2>5 DEF TableInv
<1>3. CASE find_line_endings
  <2>1. /\ task' = "line endings" /\ line_endings' = array_init(0) /\ eol_pos' = 0
        /\ reading' = TRUE /\ current_pos' = 0 /\ file' = file
    BY <1>3 DEF find_line_endings, Use
  <2>2. TableEnds' = TableEnds /\ TableEnds \subseteq Nat \ {0}
    BY <1>1, <2>1, FileFixed, EndsOfLines
  <2>3. Lists(line_endings', TableEnds, 0, Places')
    <3>1. \A i \in TableEnds : ~(i <= 0)
      BY <2>2
    <3>2. Rank(TableEnds, 0) = 0
      BY <3>1, RankNone
    <3> QED
      BY <2>1, <3>1, <3>2 DEF Lists, array_init
  <2>4. LinesDone(current_pos)'
    <3>1. \A i \in 1..0 : FALSE
      OBVIOUS
    <3> QED
      BY <2>1, <2>2, <2>3, <3>1 DEF LinesDone
  <2>5. current_pos' <= Len(file')
    <3>1. current_pos' = 0 /\ Len(file') = Len(file)
      BY <2>1
    <3> QED
      BY <1>1, <3>1
  <2> QED
    BY <2>1, <2>4, <2>5 DEF TableInv
<1>4. CASE EndingsChar
  <2> DEFINE c == current_pos
  <2>1. task = "line endings" /\ ~reading /\ file' = file
    BY <1>4 DEF EndingsChar, Use
  <2>2. Scanned' = Scanned /\ TableEnds' = TableEnds /\ Places' = Places
    BY <2>1, FileFixed
  <2>3. TableEnds \subseteq 1..Len(Scanned) /\ TableEnds \subseteq Nat \ {0} /\ Len(Scanned) \in Nat
    BY <1>1, EndsOfLines, ScannedText
  <2>4. CASE ch # WEOF
    <3>1. /\ task' = "line endings" /\ line_endings' = EndingsUpToNow
          /\ eol_pos' = (IF ch = CR THEN c ELSE 0) /\ reading' = TRUE /\ current_pos' = c
      BY <1>4, <2>1, <2>4 DEF EndingsChar, Use
    <3>2. Taken /\ LinesDone(c - 1)
      BY <2>1, <2>4 DEF TableInv, AtEnd
    <3>3. Lists(EndingsUpToNow, TableEnds, IF ch = CR THEN c - 1 ELSE c, Places)
      BY <3>2, EndingsTaken
    <3>4. c \in 1..Len(file) /\ ch = Wide(file[c]) /\ file[c] \in 0..255
      BY <1>1, <3>2, BytesOfFile DEF Taken
    <3>5. ch = CR <=> file[c] = CR
      BY <3>4, WideCharacters
    <3>6. \A i \in 1..c : Wide(file[i]) # WEOF
      <4>1. \A i \in 1..c : i \in 1..(c - 1) \/ i = c
        BY <1>1
      <4> QED
        BY <2>4, <3>2, <3>4, <4>1 DEF LinesDone
    <3>7. c > 0 /\ c # 0
      BY <3>4
    <3>8. LinesDone(current_pos)'
      <4>1. eol_pos' = IF c > 0 /\ file[c] = CR THEN c ELSE 0
        BY <3>1, <3>5, <3>7
      <4>2. Lists(line_endings', TableEnds, IF eol_pos' = 0 THEN c ELSE c - 1, Places)
        BY <3>1, <3>3, <3>7
      <4> QED
        BY <2>1, <2>2, <3>1, <3>6, <4>1, <4>2 DEF LinesDone
    <3>9. current_pos' <= Len(file')
      <4>1. current_pos' = c /\ Len(file') = Len(file)
        BY <2>1, <3>1
      <4>2. c <= Len(file)
        BY <1>1, <3>4
      <4> QED
        BY <4>1, <4>2
    <3> QED
      BY <3>1, <3>8, <3>9 DEF TableInv
  <2>5. CASE ch = WEOF
    <3>1. task' = "table made" /\ line_endings' = array_add(EndingsUpToNow, c)
      BY <1>4, <2>5 DEF EndingsChar
    <3>2. /\ IsArray(EndingsUpToNow, Nat) /\ c = Len(Scanned)
          /\ Lists(EndingsUpToNow, TableEnds, c, Places)
      <4>1. CASE Taken /\ LinesDone(c - 1)
        <5>1. ch # CR
          BY <2>5, WideCharacters
        <5> QED
          BY <2>5, <4>1, <5>1, EndingsTaken
      <4>2. CASE AtEnd /\ LinesDone(c)
        BY <4>2, EndingsAtEnd
      <4> QED
        BY <2>1, <4>1, <4>2 DEF TableInv
    <3>3. \A j \in TableEnds : j <= c
      BY <2>3, <3>2
    <3>4. Closed(array_add(EndingsUpToNow, c), TableEnds, c, Places, c)
      BY <1>1, <2>3, <3>2, <3>3, ListsClosed
    <3>5. Table'
      BY <2>2, <3>1, <3>2, <3>4 DEF Table
    <3> QED
      BY <3>1, <3>5 DEF TableInv
  <2> QED
    BY <2>4, <2>5
<1>5. CASE \/ \E begin, end \in Positions, narrow \in BOOLEAN : read_string(begin, end, narrow)
           \/ \E pos \in Positions : print_errors(pos)
  <2>1. AtRest /\ task' \in {"string", "message"} /\ line_endings' = line_endings /\ file' = file
    BY <1>5 DEF read_string, print_errors, BeginTask, Use
  <2>2. Table
    BY <2>1 DEF AtRest, TableInv
  <2>3. Table'
    BY <2>1, <2>2, FileFixed DEF Table
  <2> QED
    BY <2>1, <2>3 DEF TableInv
<1>6. CASE StringChar \/ EmptyString \/ MessageChar
  <2>1. /\ task \in {"string", "message"} /\ line_endings' = line_endings /\ file' = file
        /\ task' \in {"string", "message", "string read", "message printed"}
    BY <1>6 DEF StringChar, EmptyString, MessageChar, Use, bufferVars
  <2>2. Table'
    BY <2>1, FileFixed DEF TableInv, Table
  <2> QED
    BY <2>1, <2>2 DEF TableInv
<1>7. CASE UNCHANGED vars
  <2>1. UNCHANGED <<file, task, line_endings, eol_pos, current_pos, reading, ch>>
    BY <1>7 DEF vars, bufferVars
  <2>2. Scanned' = Scanned /\ TableEnds' = TableEnds /\ Places' = Places
    BY <2>1, FileFixed
  <2> QED
    BY <2>1, <2>2 DEF TableInv, Table, Taken, AtEnd, LinesDone
<1>8. CASE Parse
  BY <1>8 DEF Parse, TableInv
<1> QED
  BY <1>2, <1>3, <1>4, <1>5, <1>6, <1>7, <1>8 DEF Next

LEMMA TableAlways == Spec => []TableInv
<1>1. Init => TableInv
  BY DEF Init, BufferInit, TableInv
<1> QED
  BY <1>1, StepKeepsTable, InvCorrect, PTL DEF Spec

(* What the table that is made holds: the ends of the lines, and the end   *)
(* of the text.                                                            *)
LEMMA TableItems ==
  ASSUME Inv, Table
  PROVE  /\ array_size(line_endings) = Rank(TableEnds, Len(Scanned)) + 1
         /\ array_item(line_endings, array_size(line_endings) - 1) = Len(Scanned)
         /\ \A j \in TableEnds : Rank(TableEnds, j) \in Nat /\ line_endings.cells[Rank(TableEnds, j)] = j
         /\ \A i \in 1..array_size(line_endings) : array_item(line_endings, i - 1) = line_endings.cells[i]
         /\ line_endings.cells[array_size(line_endings)] = Len(Scanned)
<1>1. /\ line_endings.num = Rank(TableEnds, Len(Scanned)) + 1
      /\ \A j \in TableEnds : line_endings.cells[Rank(TableEnds, j)] = Places[j]
      /\ line_endings.cells[line_endings.num] = Len(Scanned)
  BY DEF Table, Closed
<1>2. file \in Files
  BY DEF Inv, BufferInv, BufferTypeOK
<1>3. /\ TableEnds \subseteq 1..Len(Scanned) /\ TableEnds \subseteq Nat \ {0}
      /\ Len(Scanned) \in Nat /\ Len(Scanned) <= Len(file) /\ Len(file) \in Nat
  BY <1>2, EndsOfLines, ScannedText, BytesOfFile
<1>4. \A j \in TableEnds : Places[j] = j
  BY <1>3 DEF Places
<1>5. \A j \in TableEnds : Rank(TableEnds, j) \in Nat
  BY <1>3, RankPositive
<1>6. line_endings.num \in Nat
  BY DEF Inv, LoopsInv, IsArray
<1>7. \A i \in Int : (i - 1) + 1 = i
  OBVIOUS
<1> QED
  BY <1>1, <1>4, <1>5, <1>6, <1>7 DEF array_size, array_item

LEMMA FindsLine ==
  ASSUME Inv, Table, NEW pos \in Positions
  PROVE  find_line(pos) = TableLine(pos)
<1> DEFINE E == TableEnds
           n == Len(Scanned)
           size == array_size(line_endings)
           cells == line_endings.cells
<1>1. /\ file \in Files /\ pos \in Nat
      /\ n \in Nat /\ E \subseteq 1..n /\ E \subseteq Nat \ {0} /\ E \subseteq Nat
  <2>1. file \in Files
    BY DEF Inv, BufferInv, BufferTypeOK
  <2> QED
    BY <2>1, EndsOfLines, ScannedText, BytesOfFile DEF Positions
<1>2. /\ size = Rank(E, n) + 1 /\ array_item(line_endings, size - 1) = n
      /\ \A j \in E : cells[Rank(E, j)] = j
      /\ \A i \in 1..size : array_item(line_endings, i - 1) = cells[i]
      /\ cells[size] = n
  BY TableItems
<1>3. \A k \in Nat : Rank(E, k) \in Nat
  BY <1>1, RankType
<1>4. LinesBeyond(pos) = {i \in 1..size : pos < cells[i]}
  BY <1>2 DEF LinesBeyond
<1> HIDE DEF E, n, size, cells
<1>5. ASSUME NEW k \in Nat, NEW i \in 1..Rank(E, k)
      PROVE  \E j \in E : j <= k /\ Rank(E, j) = i /\ cells[i] = j
  <2>1. PICK j \in E : j <= k /\ Rank(E, j) = i
    BY <1>1, <1>5, RankOnto
  <2> QED
    BY <1>2, <2>1
<1>6. CASE pos < n
  <2> DEFINE r == Rank(E, pos) + 1
  <2>1. Rank(E, pos) <= Rank(E, n)
    <3>1. pos <= n
      BY <1>1, <1>6
    <3> QED
      BY <1>1, <3>1, RankMonotonic
  <2>2. r \in 1..size /\ (r \in 1..Rank(E, n) \/ r = size)
    BY <1>1, <1>2, <1>3, <2>1
  <2>3. pos < cells[r]
    <3>1. CASE r \in 1..Rank(E, n)
      <4>1. PICK j \in E : j <= n /\ Rank(E, j) = r /\ cells[r] = j
        BY <1>1, <1>5, <3>1
      <4>2. ~(j <= pos)
        <5> SUFFICES ASSUME j <= pos PROVE FALSE
          OBVIOUS
        <5>1. j \in Nat
          BY <1>1
        <5>2. Rank(E, j) <= Rank(E, pos)
          BY <1>1, <5>1, RankMonotonic
        <5> QED
          BY <1>1, <1>3, <4>1, <5>2
      <4> QED
        BY <1>1, <4>1, <4>2
    <3>2. CASE r = size
      BY <1>2, <1>6, <3>2
    <3> QED
      BY <2>2, <3>1, <3>2
  <2>4. ASSUME NEW i \in LinesBeyond(pos) PROVE r <= i
    <3> SUFFICES ASSUME ~(r <= i) PROVE FALSE
      OBVIOUS
    <3>1. i \in 1..size /\ pos < cells[i] /\ size \in Nat
      BY <1>1, <1>2, <1>3, <1>4
    <3>2. i \in 1..Rank(E, pos)
      BY <1>1, <1>3, <3>1
    <3>3. PICK j \in E : j <= pos /\ cells[i] = j
      BY <1>1, <1>5, <3>2
    <3> QED
      BY <1>1, <3>1, <3>3
  <2>5. r \in LinesBeyond(pos)
    BY <1>4, <2>2, <2>3
  <2> DEFINE first == CHOOSE i \in LinesBeyond(pos) : \A j \in LinesBeyond(pos) : i <= j
  <2>6. find_line(pos) = first
    BY <2>5 DEF find_line
  <2> HIDE DEF r
  <2>7. first \in LinesBeyond(pos) /\ \A j \in LinesBeyond(pos) : first <= j
    BY <2>4, <2>5
  <2> HIDE DEF first
  <2>8. first = r
    <3>1. first <= r /\ r <= first
      BY <2>4, <2>5, <2>7
    <3>2. first \in Nat /\ r \in Nat
      <4>1. \A i \in 1..size : i \in Nat
        OBVIOUS
      <4> QED
        BY <1>4, <2>5, <2>7, <4>1
    <3> QED
      BY <3>1, <3>2
  <2>9. TableLine(pos) = r
    <3>1. ~(pos > n) /\ r = 1 + Rank(E, pos)
      BY <1>1, <1>3, <1>6 DEF r
    <3> QED
      BY <3>1 DEF TableLine, E, n
  <2> QED
    BY <2>6, <2>8, <2>9
<1>7. CASE ~(pos < n)
  <2>1. ASSUME NEW i \in 1..size PROVE ~(pos < cells[i])
    <3>1. CASE i \in 1..Rank(E, n)
      <4>1. PICK j \in E : j <= n /\ cells[i] = j
        BY <1>1, <1>5, <3>1
      <4> QED
        BY <1>1, <1>7, <4>1
    <3>2. CASE i = size
      BY <1>2, <1>7, <3>2
    <3>3. i \in 1..Rank(E, n) \/ i = size
      BY <1>1, <1>2, <1>3, <2>1
    <3> QED
      BY <3>1, <3>2, <3>3
  <2>2. LinesBeyond(pos) = {}
    BY <1>4, <2>1
  <2>3. find_line(pos) = IF pos = n THEN size ELSE -1
    BY <1>2, <2>2 DEF find_line, size
  <2>4. size = 1 + Rank(E, n)
    BY <1>1, <1>2, <1>3
  <2>5. pos > n \/ pos = n
    BY <1>1, <1>7
  <2>6. TableLine(pos) = IF pos > n THEN -1 ELSE 1 + Rank(E, pos)
    BY DEF TableLine, E, n
  <2> QED
    BY <1>1, <2>3, <2>4, <2>5, <2>6
<1> QED
  BY <1>6, <1>7

LEMMA RankOfBoth ==
  ASSUME NEW A, NEW B, A \subseteq Nat, B \subseteq Nat, A \cap B = {}, NEW n \in Nat
  PROVE  Rank(A \cup B, n) = Rank(A, n) + Rank(B, n)
<1> DEFINE To(S) == {i \in S : i <= n}
<1>1. IsFiniteSet(To(A)) /\ IsFiniteSet(To(B))
  BY RankType
<1>2. To(A \cup B) = To(A) \cup To(B) /\ To(A) \cap To(B) = {}
  OBVIOUS
<1>3. /\ Rank(A, n) = Cardinality(To(A)) /\ Rank(B, n) = Cardinality(To(B))
      /\ Rank(A \cup B, n) = Cardinality(To(A \cup B))
  BY DEF Rank
<1> HIDE DEF To
<1>4. /\ Cardinality(To(A) \cup To(B))
           = Cardinality(To(A)) + Cardinality(To(B)) - Cardinality(To(A) \cap To(B))
      /\ Cardinality(To(A)) \in Nat /\ Cardinality(To(B)) \in Nat
  BY <1>1, FS_Union, FS_CardinalityType
<1>5. Cardinality(To(A) \cap To(B)) = 0
  BY <1>2, FS_EmptySet
<1>6. \A a, b \in Nat : a + b - 0 = a + b
  OBVIOUS
<1>7. Cardinality(To(A) \cup To(B)) = Cardinality(To(A)) + Cardinality(To(B))
  BY <1>4, <1>5, <1>6
<1>8. Cardinality(To(A \cup B)) = Cardinality(To(A) \cup To(B))
  BY <1>2
<1> QED
  BY <1>3, <1>7, <1>8

(* The table has every line end of the text but the lost ones. *)
LEMMA TableOrLost ==
  ASSUME file \in Files
  PROVE  /\ LineEnds = TableEnds \cup LostEnds /\ TableEnds \cap LostEnds = {}
         /\ TableEnds \subseteq Nat /\ LostEnds \subseteq Nat
<1>1. Len(Scanned) \in Nat /\ TableEnds \subseteq Nat
  BY ScannedText, EndsOfLines
<1>2. LF # CR
  BY DEF LF, CR
<1>3. LostEnds \subseteq LineEnds /\ LineEnds \subseteq 1..Len(Scanned)
  BY DEF LostEnds, LineEnds
<1>4. TableEnds \subseteq 1..Len(Scanned)
  BY DEF TableEnds
<1>5. ASSUME NEW i \in 1..Len(Scanned)
      PROVE  /\ i \in LineEnds <=> (i \in TableEnds \/ i \in LostEnds)
             /\ ~(i \in TableEnds /\ i \in LostEnds)
  <2> DEFINE n == Len(Scanned)
             a == Scanned[i]
             b == Scanned[i + 1]
  <2>1. i < n <=> ~(i = n)
    BY <1>1
  <2>2. i \in LineEnds <=> a = LF \/ (a = CR /\ ~(i < n /\ b = LF))
    BY DEF LineEnds, EndOfLine
  <2>3. i \in TableEnds <=> a = LF \/ (a = CR /\ (i = n \/ b \notin {LF, CR}))
    BY DEF TableEnds, EndsInTable
  <2>4. i \in LostEnds <=> i \in LineEnds /\ i < n /\ a = CR /\ b = CR
    BY DEF LostEnds
  <2> HIDE DEF n, a, b
  <2> QED
    BY <1>2, <2>1, <2>2, <2>3, <2>4
<1>6. LostEnds \subseteq Nat
  BY <1>1, <1>3
<1> QED
  BY <1>1, <1>3, <1>4, <1>5, <1>6

LEMMA LineOfTable ==
  ASSUME file \in Files, NEW pos \in Nat
  PROVE  TableLine(pos) = LineOf(pos)
<1>1. Rank(LineEnds, pos) = Rank(TableEnds, pos) + Rank(LostEnds, pos)
  BY TableOrLost, RankOfBoth
<1>2. Rank(TableEnds, pos) \in Nat /\ Rank(LostEnds, pos) \in Nat
  BY TableOrLost, RankType
<1>3. 1 + Rank(LineEnds, pos) - Rank(LostEnds, pos) = 1 + Rank(TableEnds, pos)
  BY <1>1, <1>2
<1> QED
  BY <1>3 DEF TableLine, LineOf

(* Once the table is made, whatever the file, each node and each error has *)
(* the lines that the text has it on, less one for each '\r' before it     *)
(* that another '\r' follows (narwhal_buffers.c:183, :203).                *)
THEOREM LinesButForLostEndsCorrect == Spec => []LinesButForLostEnds
<1>1. Inv /\ TableInv => LinesButForLostEnds
  <2> SUFFICES ASSUME Inv, TableInv, AtRest,
                      NEW begin \in Positions, NEW end \in begin..Len(file)
               PROVE  assign_line_number(begin, end) =
                        [first_line |-> LineOf(begin),
                         last_line  |-> LineOf(IF end > begin THEN end - 1 ELSE begin)]
    BY DEF LinesButForLostEnds
  <2>1. Table
    BY DEF AtRest, TableInv
  <2>2. Len(file) \in Nat /\ begin \in Nat /\ end \in Nat /\ begin <= end /\ end <= Len(file)
    BY BytesOfFile DEF Inv, BufferInv, BufferTypeOK, Positions
  <2>6. file \in Files
    BY DEF Inv, BufferInv, BufferTypeOK
  <2>7. \A pos \in Positions : find_line(pos) = LineOf(pos)
    <3>1. \A pos \in Positions : pos \in Nat
      BY <2>2 DEF Positions
    <3> QED
      BY <2>1, <2>6, <3>1, FindsLine, LineOfTable
  <2>3. find_line(begin) = LineOf(begin)
    BY <2>7
  <2>4. CASE end > begin
    <3>1. end - 1 \in Positions /\ ~(begin >= end)
      BY <2>2, <2>4 DEF Positions
    <3>2. find_line(end - 1) = LineOf(end - 1)
      BY <2>7, <3>1
    <3> QED
      BY <2>3, <2>4, <3>1, <3>2 DEF assign_line_number
  <2>5. CASE ~(end > begin)
    <3>1. begin >= end
      BY <2>2, <2>5
    <3> QED
      BY <2>3, <2>5, <3>1 DEF assign_line_number
  <2> QED
    BY <2>4, <2>5
<1> QED
  BY <1>1, InvCorrect, TableAlways, PTL

-----------------------------------------------------------------------------
(* read_string: the string holds what has been read of the extent. *)
StringInv ==
  /\ span.begin <= span.end /\ span.end <= Len(file)
  /\ task = "string" =>
       \/ span.begin = span.end /\ str.num = 0 /\ ~reading
       \/ /\ reading /\ span.begin <= current_pos /\ current_pos < span.end
          /\ Lists(str, Readable, current_pos, WideText(file))
       \/ /\ Taken /\ span.begin < current_pos /\ current_pos <= span.end
          /\ Lists(str, Readable, current_pos - 1, WideText(file))
  /\ task = "string read" => Closed(str, Readable, span.end, WideText(file), 0)

LEMMA SpanTypes ==
  ASSUME Inv, StringInv
  PROVE  /\ span.begin \in Nat /\ span.end \in Nat /\ span.narrow \in BOOLEAN
         /\ span.begin <= span.end /\ span.end <= Len(file) /\ Len(file) \in Nat
         /\ current_pos \in Nat /\ ch \in Int
         /\ Readable \subseteq Nat \ {0} /\ Readable \subseteq Nat
         /\ \A i \in Readable : span.begin < i /\ i <= span.end /\ i \in 1..Len(file)
         /\ \A i \in (span.begin + 1)..span.end :
              i \in Readable <=> Wide(file[i]) # WEOF /\ (span.narrow => file[i] < 128)
<1>1. /\ span.begin \in Nat /\ span.end \in Nat /\ span.narrow \in BOOLEAN
      /\ span.begin <= span.end /\ span.end <= Len(file) /\ Len(file) \in Nat
      /\ current_pos \in Nat /\ ch \in Int
  BY BytesOfFile DEF Inv, LoopsInv, BufferInv, BufferTypeOK, StringInv
<1>2. Readable \subseteq (span.begin + 1)..span.end
  BY DEF Readable
<1>3. \A i \in Readable : span.begin < i /\ i <= span.end /\ i \in 1..Len(file)
  BY <1>1, <1>2
<1>4. Readable \subseteq Nat \ {0} /\ Readable \subseteq Nat
  BY <1>1, <1>2
<1> QED
  BY <1>1, <1>3, <1>4 DEF Readable

(* The character read last is added if it is one of those to keep. *)
LEMMA StringTaken ==
  ASSUME Inv, StringInv, Taken, span.begin < current_pos, current_pos <= span.end,
         Lists(str, Readable, current_pos - 1, WideText(file))
  PROVE  LET read == IF Kept THEN array_add(str, ch) ELSE str
         IN  IsArray(read, Int) /\ Lists(read, Readable, current_pos, WideText(file))
<1> DEFINE p == current_pos - 1
           R == Readable
           W == WideText(file)
<1>1. /\ span.begin \in Nat /\ span.end \in Nat /\ span.end <= Len(file) /\ Len(file) \in Nat
      /\ current_pos \in Nat /\ ch \in Int /\ R \subseteq Nat \ {0} /\ R \subseteq Nat
      /\ \A i \in (span.begin + 1)..span.end :
           i \in R <=> Wide(file[i]) # WEOF /\ (span.narrow => file[i] < 128)
  BY SpanTypes
<1>2. p \in Nat /\ p + 1 = current_pos /\ current_pos \in (span.begin + 1)..span.end
  BY <1>1
<1>3. ch = Wide(file[current_pos]) /\ file[current_pos] \in 0..255 /\ current_pos \in 1..Len(file)
  BY BytesOfFile DEF Taken, Inv, BufferInv, BufferTypeOK
<1>4. ch >= 0 <=> file[current_pos] < 128
  <2> DEFINE byte == file[current_pos]
  <2>1. byte \in 0..255 /\ ch = IF byte < 128 THEN byte ELSE byte - 256
    BY <1>3 DEF Wide
  <2> HIDE DEF byte
  <2>2. ch >= 0 <=> byte < 128
    BY <2>1
  <2> QED
    BY <2>2 DEF byte
<1>5. Kept <=> current_pos \in R
  BY <1>1, <1>2, <1>3, <1>4 DEF Kept
<1>6. W[current_pos] = ch
  BY <1>3 DEF WideText
<1>7. IsArray(str, Int)
  BY DEF Inv, LoopsInv
<1> HIDE DEF p, R, W
<1>8. Lists(str, R, p, W)
  BY DEF p, R, W
<1>9. CASE Kept
  <2>1. p + 1 \in R /\ ch = W[p + 1]
    BY <1>2, <1>5, <1>6, <1>9
  <2>2. Lists(array_add(str, ch), R, p + 1, W)
    BY <1>1, <1>2, <1>7, <1>8, <2>1, ListsMore
  <2>3. IsArray(array_add(str, ch), Int)
    BY <1>1, <1>7, AddKeepsArray
  <2> QED
    BY <1>2, <1>9, <2>2, <2>3 DEF R, W
<1>10. CASE ~Kept
  <2>1. Lists(str, R, p + 1, W)
    BY <1>1, <1>2, <1>5, <1>8, <1>10, ListsSkip
  <2> QED
    BY <1>2, <1>7, <1>10, <2>1 DEF R, W
<1> QED
  BY <1>9, <1>10

LEMMA SpanFixed ==
  ASSUME file' = file, span' = span
  PROVE  Readable' = Readable /\ WideText(file)' = WideText(file)
BY DEF Readable, WideText

(* An extent that nothing has been read of. *)
LEMMA NothingRead ==
  ASSUME NEW n, NEW S, \A i \in S : ~(i <= n), NEW da, da.num = 0, NEW v
  PROVE  Lists(da, S, n, v)
<1>1. Rank(S, n) = 0
  BY RankNone
<1> QED
  BY <1>1 DEF Lists

LEMMA StepKeepsString == Inv /\ StringInv /\ [Next]_vars => StringInv'
<1> SUFFICES ASSUME Inv, StringInv, [Next]_vars PROVE StringInv'
  OBVIOUS
<1> DEFINE b == span.begin
           e == span.end
           W == WideText(file)
<1>1. /\ b \in Nat /\ e \in Nat /\ b <= e /\ e <= Len(file) /\ Len(file) \in Nat
      /\ current_pos \in Nat /\ ch \in Int
      /\ Readable \subseteq Nat \ {0} /\ Readable \subseteq Nat
      /\ \A i \in Readable : b < i /\ i <= e
  BY SpanTypes
<1>2. IsArray(str, Int)
  BY DEF Inv, LoopsInv
<1>3. CASE ReadChar
  <2>1. /\ reading /\ file' = file /\ task' = task /\ span' = span /\ str' = str
        /\ \/ reading' /\ current_pos' = current_pos
           \/ Taken' /\ current_pos' = current_pos + 1 /\ current_pos + 1 <= Len(file)
           \/ ~reading' /\ ch' = WEOF /\ current_pos' = current_pos /\ Len(file) <= current_pos
    BY <1>3, TurnTakes
  <2>2. Readable' = Readable /\ WideText(file)' = W
    BY <2>1, SpanFixed
  <2>3. ASSUME task = "string"
        PROVE  \/ /\ reading' /\ b <= current_pos' /\ current_pos' < e
                  /\ Lists(str', Readable', current_pos', WideText(file)')
               \/ /\ Taken' /\ b < current_pos' /\ current_pos' <= e
                  /\ Lists(str', Readable', current_pos' - 1, WideText(file)')
    <3>1. b <= current_pos /\ current_pos < e /\ Lists(str, Readable, current_pos, W)
      BY <2>1, <2>3 DEF StringInv, Taken
    <3>2. CASE reading' /\ current_pos' = current_pos
      BY <2>1, <2>2, <3>1, <3>2
    <3>3. CASE Taken' /\ current_pos' = current_pos + 1
      <4>1. current_pos' - 1 = current_pos /\ b < current_pos' /\ current_pos' <= e
        BY <1>1, <3>1, <3>3
      <4> QED
        BY <2>1, <2>2, <3>1, <3>3, <4>1
    <3>4. ~(Len(file) <= current_pos)
      BY <1>1, <3>1
    <3> QED
      BY <2>1, <3>2, <3>3, <3>4
  <2>4. task = "string read" => Closed(str', Readable', span'.end, WideText(file)', 0)
    BY <2>1, <2>2 DEF StringInv
  <2> HIDE DEF b, e
  <2>5. span'.begin = b /\ span'.end = e /\ b <= e /\ e <= Len(file')
    BY <1>1, <2>1 DEF b, e
  <2> QED
    BY <2>1, <2>3, <2>4, <2>5 DEF StringInv
<1>4. CASE StringChar
  <2> DEFINE read == IF Kept THEN array_add(str, ch) ELSE str
  <2>1. task = "string" /\ b < e /\ ~reading /\ span' = span
    BY <1>4 DEF StringChar
  <2>2. file' = file
    BY <1>4 DEF StringChar, Use
  <2>3. Readable' = Readable /\ WideText(file)' = W
    BY <2>1, <2>2, SpanFixed
  <2>4. /\ Taken /\ b < current_pos /\ current_pos <= e
        /\ Lists(str, Readable, current_pos - 1, W)
    BY <1>1, <2>1 DEF StringInv
  <2>5. IsArray(read, Int) /\ Lists(read, Readable, current_pos, W)
    BY <2>4, StringTaken
  <2> HIDE DEF read, b, e
  <2>6. span'.begin = b /\ span'.end = e /\ b <= e /\ e <= Len(file')
    BY <1>1, <2>1, <2>2 DEF b, e
  <2>7. CASE MoreToRead
    <3>1. str' = read /\ task' = "string" /\ reading' /\ current_pos' = current_pos
      BY <1>4, <2>1, <2>7 DEF StringChar, Use, read
    <3>2. current_pos < e /\ b <= current_pos
      BY <1>1, <2>4, <2>7 DEF MoreToRead, e
    <3> QED
      BY <2>3, <2>5, <2>6, <3>1, <3>2 DEF StringInv
  <2>8. CASE ~MoreToRead
    <3>1. str' = array_add(read, 0) /\ task' = "string read"
      BY <1>4, <2>8 DEF StringChar, read
    <3>2. current_pos = e
      BY <1>1, <2>4, <2>8 DEF MoreToRead, e
    <3>3. Closed(array_add(read, 0), Readable, e, W, 0)
      <4>1. \A j \in Readable : j <= e
        BY <1>1 DEF e
      <4>2. e \in Nat /\ 0 \in Int /\ Lists(read, Readable, e, W)
        BY <1>1, <2>5, <3>2 DEF e
      <4> QED
        BY <1>1, <2>5, <4>1, <4>2, ListsClosed
    <3> QED
      BY <2>3, <2>6, <3>1, <3>3 DEF StringInv
  <2> QED
    BY <2>7, <2>8
<1>5. CASE EmptyString
  <2>1. /\ task = "string" /\ b >= e /\ span' = span /\ file' = file /\ task' = "string read"
        /\ str' = array_add(str, 0)
    BY <1>5 DEF EmptyString, bufferVars
  <2>8. \A i \in Readable : b < i /\ i <= e /\ i \in Nat
    BY <1>1
  <2> HIDE DEF b, e
  <2>2. Readable' = Readable /\ WideText(file)' = W
    BY <2>1, SpanFixed
  <2>3. b = e /\ b \in Nat
    <3>1. b \in Nat /\ e \in Nat /\ b <= e /\ b >= e
      BY <1>1, <2>1 DEF b, e
    <3> QED
      BY <3>1
  <2>4. str.num = 0
    <3>1. ~(b < e) /\ b \in Nat /\ e \in Nat
      BY <2>3
    <3>2. \/ str.num = 0
          \/ b <= current_pos /\ current_pos < e
          \/ b < current_pos /\ current_pos <= e
      BY <2>1 DEF StringInv, b, e
    <3> QED
      BY <1>1, <3>1, <3>2
  <2>5. Lists(str, Readable, e, W)
    <3>1. \A i \in Readable : ~(i <= e)
      BY <2>8, <2>3
    <3> QED
      BY <2>4, <3>1, NothingRead
  <2>6. Closed(array_add(str, 0), Readable, e, W, 0)
    <3>1. e \in Nat /\ 0 \in Int /\ \A j \in Readable : j <= e
      BY <2>8, <2>3
    <3> QED
      BY <1>1, <1>2, <2>5, <3>1, ListsClosed
  <2>7. span'.begin = b /\ span'.end = e /\ b <= e /\ e <= Len(file')
    BY <1>1, <2>1 DEF b, e
  <2> QED
    BY <2>1, <2>2, <2>6, <2>7 DEF StringInv
<1>6. ASSUME NEW begin \in Positions, NEW end \in Positions, NEW narrow \in BOOLEAN,
             begin <= end, read_string(begin, end, narrow)
      PROVE  StringInv'
  <2>1. /\ task' = "string" /\ span' = [begin |-> begin, end |-> end, narrow |-> narrow]
        /\ str' = array_clear(str) /\ file' = file /\ current_pos' = begin
        /\ (reading' <=> begin < end)
    BY <1>6 DEF read_string, BeginTask, Use
  <2>2. begin \in Nat /\ end \in Nat /\ end <= Len(file)
    BY <1>1 DEF Positions
  <2>3. span'.begin = begin /\ span'.end = end
    BY <2>1
  <2>4. str'.num = 0
    BY <1>2, <2>1 DEF array_clear, IsArray
  <2>5. \A i \in Readable' : ~(i <= begin)
    <3>1. Readable' \subseteq (begin + 1)..end
      BY <2>3 DEF Readable
    <3> QED
      BY <2>2, <3>1
  <2>6. Lists(str', Readable', begin, WideText(file)')
    BY <2>4, <2>5, NothingRead
  <2>7. begin < end \/ begin = end
    BY <1>6, <2>2
  <2>8. end <= Len(file')
    BY <2>1, <2>2
  <2>9. begin <= end /\ begin <= begin /\ current_pos' = begin /\ task' = "string"
    BY <1>6, <2>1, <2>2
  <2>10. CASE begin < end
    <3>1. reading'
      BY <2>1, <2>10
    <3> QED
      BY <2>3, <2>6, <2>8, <2>9, <2>10, <3>1 DEF StringInv
  <2>11. CASE begin = end
    <3>1. ~reading'
      BY <2>1, <2>2, <2>11
    <3> QED
      BY <2>3, <2>4, <2>8, <2>9, <2>11, <3>1 DEF StringInv
  <2> QED
    BY <2>7, <2>10, <2>11
<1>7. CASE \/ Parse \/ find_line_endings \/ EndingsChar \/ MessageChar
           \/ \E pos \in Positions : print_errors(pos)
  <2>1. /\ task' \notin {"string", "string read"} /\ span' = span /\ file' = file
    BY <1>7
    DEF Parse, find_line_endings, EndingsChar, MessageChar, print_errors, BeginTask, Use
  <2>2. span'.begin <= span'.end /\ span'.end <= Len(file')
    BY <1>1, <2>1
  <2> QED
    BY <2>1, <2>2 DEF StringInv
<1>8. CASE UNCHANGED vars
  <2>1. UNCHANGED <<file, task, span, str, current_pos, reading, ch>>
    BY <1>8 DEF vars, bufferVars
  <2>2. Readable' = Readable /\ WideText(file)' = W
    BY <2>1, SpanFixed
  <2> QED
    BY <2>1, <2>2 DEF StringInv, Taken
<1> QED
  BY <1>3, <1>4, <1>5, <1>6, <1>7, <1>8 DEF Next

LEMMA StringAlways == Spec => []StringInv
<1>1. Init => StringInv
  <2> SUFFICES ASSUME Init PROVE StringInv
    OBVIOUS
  <2>1. file \in Files /\ span.begin = 0 /\ span.end = 0 /\ task = "start"
    BY DEF Init, BufferInit, NoSpan
  <2>2. Len(file) \in Nat
    BY <2>1, BytesOfFile
  <2> QED
    BY <2>1, <2>2 DEF StringInv
<1> QED
  BY <1>1, StepKeepsString, InvCorrect, PTL DEF Spec

(* The string of a node is the text between its ends without what a wide   *)
(* character, or a char, cannot hold (narwhal_buffers.c:150), wherever the *)
(* cursor was and however much of the file had been read.                  *)
THEOREM StringReadCorrect == Spec => []StringRead
<1>1. Inv /\ StringInv => StringRead
  <2> SUFFICES ASSUME Inv, StringInv, task = "string read"
               PROVE  /\ Len(Contents(str)) = Rank(Readable, span.end) + 1
                      /\ \A i \in Readable : Contents(str)[Rank(Readable, i)] = Wide(file[i])
                      /\ Contents(str)[Len(Contents(str))] = 0
    BY DEF StringRead
  <2>1. /\ str.num = Rank(Readable, span.end) + 1
        /\ \A j \in Readable : str.cells[Rank(Readable, j)] = WideText(file)[j]
        /\ str.cells[str.num] = 0
    BY DEF StringInv, Closed
  <2>2. str.num \in Nat /\ str.cells \in Seq(Int \cup {Unset}) /\ str.num <= Len(str.cells)
    BY DEF Inv, LoopsInv, IsArray
  <2>3. /\ span.end \in Nat /\ Readable \subseteq Nat \ {0} /\ Readable \subseteq Nat
        /\ \A i \in Readable : i <= span.end /\ i \in 1..Len(file)
    BY SpanTypes
  <2>4. Rank(Readable, span.end) \in Nat
    BY <2>3, RankType
  <2>5. Len(Contents(str)) = str.num /\ \A i \in 1..str.num : Contents(str)[i] = str.cells[i]
    BY <2>2, FirstItems DEF Contents
  <2>6. ASSUME NEW i \in Readable PROVE Contents(str)[Rank(Readable, i)] = Wide(file[i])
    <3>1. Rank(Readable, i) \in Nat \ {0}
      BY <2>3, RankPositive
    <3>2. Rank(Readable, i) <= Rank(Readable, span.end)
      BY <2>3, RankMonotonic
    <3>3. Rank(Readable, i) \in 1..str.num
      BY <2>1, <2>4, <3>1, <3>2, Within
    <3>4. WideText(file)[i] = Wide(file[i])
      BY <2>3 DEF WideText
    <3> QED
      BY <2>1, <2>5, <3>3, <3>4
  <2>7. Contents(str)[str.num] = 0
    <3>1. str.num \in 1..str.num
      BY <2>1, <2>4, LastPlace
    <3> QED
      BY <2>1, <2>5, <3>1
  <2> QED
    BY <2>1, <2>5, <2>6, <2>7
<1> QED
  BY <1>1, InvCorrect, StringAlways, PTL

-----------------------------------------------------------------------------
(* print_errors: where the line of an error begins. *)
LEMMA LargestNumber ==
  ASSUME NEW n \in Nat, NEW T, T \subseteq 1..n, T # {}
  PROVE  \E x \in T : \A y \in T : y <= x
<1> DEFINE U == {n - y : y \in T}
<1>1. U \subseteq Nat /\ U # {}
  <2>1. \A y \in T : n - y \in Nat
    OBVIOUS
  <2> QED
    BY <2>1
<1>2. PICK u \in U : \A v \in U : u <= v
  BY <1>1, LeastNumber
<1>3. PICK x \in T : u = n - x
  OBVIOUS
<1>4. ASSUME NEW y \in T PROVE y <= x
  <2>1. n - x <= n - y
    BY <1>2, <1>3
  <2> QED
    BY <2>1
<1> QED
  BY <1>4

LEMMA TableStartIs ==
  ASSUME file \in Files, NEW pos \in Nat, pos <= Len(Scanned)
  PROVE  /\ TableStart(pos) \in Nat /\ TableStart(pos) <= pos
         /\ \A i \in TableEnds : i <= pos => i <= TableStart(pos)
         /\ TableStart(pos) # 0 => TableStart(pos) \in TableEnds
<1> DEFINE before == {i \in 1..pos : EndsInTable(i)}
           last == CHOOSE i \in before : \A j \in before : j <= i
<1>1. Len(Scanned) \in Nat
  BY ScannedText
<1>2. \A i : i \in before <=> i \in TableEnds /\ i <= pos
  BY <1>1 DEF TableEnds
<1>3. CASE before = {}
  <2>1. TableStart(pos) = 0
    BY <1>3 DEF TableStart
  <2> QED
    BY <1>2, <1>3, <2>1
<1>4. CASE before # {}
  <2>1. TableStart(pos) = last
    BY <1>4 DEF TableStart
  <2>2. before \subseteq 1..pos
    OBVIOUS
  <2> HIDE DEF before
  <2>3. \E i \in before : \A j \in before : j <= i
    BY <1>4, <2>2, LargestNumber
  <2>4. last \in before /\ \A j \in before : j <= last
    BY <2>3
  <2> HIDE DEF last
  <2>5. last \in Nat /\ last <= pos
    BY <2>2, <2>4
  <2>6. last \in TableEnds
    BY <1>2, <2>4
  <2>7. \A i \in TableEnds : i <= pos => i <= last
    BY <1>2, <2>4
  <2> QED
    BY <2>1, <2>5, <2>6, <2>7
<1> QED
  BY <1>3, <1>4

LEMMA StartOfLine ==
  ASSUME Inv, Table, NEW pos \in Positions, pos < Len(Scanned)
  PROVE  line_pos(find_line(pos)) = TableStart(pos)
<1> DEFINE E == TableEnds
           n == Len(Scanned)
           r == Rank(E, pos)
<1>1. /\ file \in Files /\ pos \in Nat /\ pos <= n /\ n \in Nat
      /\ E \subseteq Nat \ {0} /\ E \subseteq Nat
  <2>1. file \in Files
    BY DEF Inv, BufferInv, BufferTypeOK
  <2>2. pos \in Nat /\ n \in Nat
    BY <2>1, ScannedText, BytesOfFile DEF Positions
  <2> QED
    BY <2>1, <2>2, EndsOfLines
<1>2. r \in Nat /\ Rank(E, n) \in Nat /\ r <= Rank(E, n)
  BY <1>1, RankType, RankMonotonic
<1>3. find_line(pos) = 1 + r
  <2>1. ~(pos > n)
    BY <1>1
  <2>2. find_line(pos) = TableLine(pos)
    BY FindsLine
  <2> QED
    BY <2>1, <2>2 DEF TableLine
<1>4. /\ TableStart(pos) \in Nat /\ TableStart(pos) <= pos
      /\ \A i \in E : i <= pos => i <= TableStart(pos)
      /\ TableStart(pos) # 0 => TableStart(pos) \in E
  BY <1>1, TableStartIs
<1>5. CASE r = 0
  <2>1. line_pos(find_line(pos)) = 0
    BY <1>3, <1>5 DEF line_pos
  <2>2. ASSUME TableStart(pos) # 0 PROVE FALSE
    <3>1. TableStart(pos) \in E
      BY <1>4, <2>2
    <3>2. Rank(E, TableStart(pos)) \in Nat \ {0}
      BY <1>1, <3>1, RankPositive
    <3>3. Rank(E, TableStart(pos)) <= r
      BY <1>1, <1>4, RankMonotonic
    <3> QED
      BY <1>5, <3>2, <3>3
  <2> QED
    BY <2>1, <2>2
<1>6. CASE r # 0
  <2>1. /\ array_size(line_endings) = Rank(E, n) + 1
        /\ \A j \in E : line_endings.cells[Rank(E, j)] = j
    BY TableItems
  <2>2. r \in 1..r
    BY <1>2, <1>6
  <2>3. PICK j \in E : j <= pos /\ Rank(E, j) = r
    <3>1. r \in 1..Rank(E, pos) /\ E \subseteq Nat \ {0} /\ pos \in Nat
      BY <1>1, <2>2
    <3> HIDE DEF E, r
    <3> QED
      BY <3>1, RankOnto
  <2>4. line_pos(find_line(pos)) = line_endings.cells[r]
    <3> HIDE DEF r
    <3>1. 1 + r > 1 /\ ((1 + r) - 2) + 1 = r
      BY <1>2, <1>6
    <3>2. line_pos(find_line(pos)) = array_item(line_endings, (1 + r) - 2)
      BY <1>3, <3>1 DEF line_pos
    <3>3. array_item(line_endings, (1 + r) - 2) = line_endings.cells[((1 + r) - 2) + 1]
      BY Zenon DEF array_item
    <3> QED
      BY Zenon, <3>1, <3>2, <3>3
  <2>5. line_pos(find_line(pos)) = j
    BY <2>1, <2>3, <2>4
  <2>6. j \in Nat /\ j # 0 /\ j <= TableStart(pos)
    BY <1>1, <1>4, <2>3
  <2>7. ~(j < TableStart(pos))
    <3> SUFFICES ASSUME j < TableStart(pos) PROVE FALSE
      OBVIOUS
    <3>1. TableStart(pos) \in E
      BY <1>4, <2>6
    <3>2. Rank(E, j) < Rank(E, TableStart(pos))
      BY <1>1, <2>6, <3>1, RankBelow
    <3>3. Rank(E, TableStart(pos)) <= r
      BY <1>1, <1>4, RankMonotonic
    <3>4. Rank(E, TableStart(pos)) \in Nat
      BY <1>1, <1>4, RankType
    <3> QED
      BY <1>2, <2>3, <3>2, <3>3, <3>4
  <2> QED
    BY <1>4, <2>5, <2>6, <2>7
<1> QED
  BY <1>5, <1>6

(* The error is on a character of the text that is no line ending. *)
Shown == error_pos < Len(Scanned) /\ Scanned[error_pos + 1] \notin {LF, CR}

(* Nothing between the beginning of its line and the error ends the line   *)
(* as print_errors reads it: a '\r' that ends no line would be one of      *)
(* several in a row, and the last of them is followed by something else.   *)
LEMMA LineReadToError ==
  ASSUME file \in Files, error_pos \in Nat, Shown,
         NEW i \in 1..error_pos, TableStart(error_pos) < i
  PROVE  Wide(file[i]) \notin {WEOF, LF, CR}
<1> DEFINE n == Len(Scanned)
           s == TableStart(error_pos)
<1>1. /\ Len(file) \in Nat /\ \A k \in 1..Len(file) : file[k] \in 0..255
      /\ n \in Nat /\ n <= Len(file) /\ error_pos < n
      /\ \A k \in 1..n : Scanned[k] = file[k]
      /\ \A k \in 1..Len(file) : k < n => Wide(file[k]) # WEOF
  BY ScannedText, BytesOfFile DEF Shown
<1>2. s \in Nat /\ \A k \in TableEnds : k <= error_pos => k <= s
  <2>1. error_pos <= n
    BY <1>1
  <2> QED
    BY <2>1, TableStartIs
<1>3. file[error_pos + 1] \notin {LF, CR}
  <2>1. error_pos + 1 \in 1..n
    BY <1>1
  <2> QED
    BY <1>1, <2>1 DEF Shown
<1> HIDE DEF n, s
<1>4. \A k \in 1..error_pos : k \in 1..n /\ k # n /\ k < n /\ k \in 1..Len(file)
  BY <1>1
<1>5. ASSUME NEW k \in 1..error_pos, s < k
      PROVE  file[k] # LF /\ (file[k] = CR => file[k + 1] \in {LF, CR})
  <2>1. k \notin TableEnds
    BY <1>2, <1>5
  <2> QED
    BY <1>4, <2>1, EndsOfLines DEF n
<1>6. file[i] # CR
  <2> SUFFICES ASSUME file[i] = CR PROVE FALSE
    OBVIOUS
  <2> DEFINE T == {k \in 1..error_pos : s < k /\ file[k] = CR}
  <2>1. T \subseteq 1..error_pos /\ i \in T
    BY DEF s
  <2>2. PICK m \in T : \A k \in T : k <= m
    <3> HIDE DEF T
    <3> QED
      BY <2>1, LargestNumber
  <2>3. m \in 1..error_pos /\ s < m /\ file[m] = CR
    OBVIOUS
  <2>4. file[m + 1] \in {LF, CR}
    BY <1>5, <2>3
  <2>5. m # error_pos
    BY <1>3, <2>4
  <2>6. m + 1 \in 1..error_pos /\ s < m + 1
    BY <1>2, <2>3, <2>5
  <2>7. file[m + 1] = CR
    BY <1>5, <2>4, <2>6
  <2>8. m + 1 <= m
    BY <2>2, <2>6, <2>7
  <2> QED
    BY <2>3, <2>8
<1>7. file[i] # LF
  BY <1>5 DEF s
<1>8. file[i] \in 0..255 /\ Wide(file[i]) # WEOF
  BY <1>1, <1>4
<1> QED
  BY <1>6, <1>7, <1>8, WideCharacters

LEMMA ErrorFixed ==
  ASSUME file' = file, NEW e, error_pos' = e
  PROVE  /\ TableStart(error_pos)' = TableStart(e)
         /\ Shown' <=> e < Len(Scanned) /\ Scanned[e + 1] \notin {LF, CR}
<1>1. Scanned' = Scanned
  BY FileFixed
<1>2. \A i : EndsInTable(i)' <=> EndsInTable(i)
  BY <1>1 DEF EndsInTable
<1>3. TableStart(error_pos)' = TableStart(e)
  <2> DEFINE start(B) == IF B = {} THEN 0 ELSE CHOOSE i \in B : \A j \in B : j <= i
  <2>1. {i \in 1..error_pos' : EndsInTable(i)'} = {i \in 1..e : EndsInTable(i)}
    BY <1>2
  <2>2. TableStart(e) = start({i \in 1..e : EndsInTable(i)})
    BY DEF TableStart
  <2>3. TableStart(error_pos)' = start({i \in 1..error_pos' : EndsInTable(i)'})
    BY DEF TableStart
  <2> HIDE DEF start
  <2> QED
    BY <2>1, <2>2, <2>3
<1> QED
  BY <1>1, <1>3 DEF Shown

(* print_errors has read index characters of the line that begins at start *)
(* and has put the caret after as many as come before the error, if it is  *)
(* that far; it stops nowhere before.                                      *)
CaretAfter(start) ==
  caret_pos = IF start < error_pos /\ error_pos <= start + index
              THEN error_pos - start - 1 ELSE 0

CharsRead(start) ==
  \/ reading /\ current_pos = start + index /\ current_pos <= Len(file)
  \/ Taken /\ current_pos = start + index + 1
  \/ AtEnd /\ current_pos = start + index

(* Those characters are in str, and when the line has come to its end a 0  *)
(* is after them.                                                          *)
LineRead(start) ==
  \A i \in 1..index :
    str.cells[i] = Wide(file[start + i]) /\ Wide(file[start + i]) \notin {WEOF, LF, CR}

LineClosed(start) ==
  /\ str.num = index + 1 /\ str.cells[index + 1] = 0
  /\ \/ start + index = Len(file)
     \/ start + index + 1 <= Len(file) /\ Wide(file[start + index + 1]) \in {WEOF, LF, CR}

MessageInv ==
  /\ error_pos \in Nat /\ index \in Nat
  /\ task \in {"message", "message printed"} /\ Shown =>
       /\ CaretAfter(TableStart(error_pos)) /\ LineRead(TableStart(error_pos))
       /\ task = "message" => CharsRead(TableStart(error_pos)) /\ str.num = index
       /\ task = "message printed" =>
            error_pos <= TableStart(error_pos) + index /\ LineClosed(TableStart(error_pos))

LEMMA PlaceOfError ==
  ASSUME file \in Files, error_pos \in Nat, Shown
  PROVE  /\ Len(Scanned) \in Nat /\ Len(Scanned) <= Len(file) /\ Len(file) \in Nat
         /\ error_pos < Len(Scanned) /\ error_pos <= Len(Scanned)
         /\ TableStart(error_pos) \in Nat /\ TableStart(error_pos) <= error_pos
<1>1. /\ Len(Scanned) \in Nat /\ Len(Scanned) <= Len(file) /\ Len(file) \in Nat
      /\ error_pos < Len(Scanned)
  BY ScannedText, BytesOfFile DEF Shown
<1>2. error_pos <= Len(Scanned)
  BY <1>1
<1> QED
  BY <1>1, <1>2, TableStartIs

(* In the first column the caret is as far to the right as in the second.  *)
LEMMA ColumnOfCaret ==
  ASSUME error_pos \in Nat, index \in Nat, NEW s \in Nat, s <= error_pos,
         error_pos <= s + index, CaretAfter(s)
  PROVE  caret_pos + 1 = IF error_pos - s = 0 THEN 1 ELSE error_pos - s
BY DEF CaretAfter

(* What the message does with the character it has read. *)
LEMMA MessageCharKeepsCaret ==
  ASSUME Inv, MessageInv, MessageChar, Shown
  PROVE  /\ CaretAfter(TableStart(error_pos))' /\ LineRead(TableStart(error_pos))'
         /\ task' = "message" => CharsRead(TableStart(error_pos))' /\ str'.num = index'
         /\ task' = "message printed" =>
              error_pos' <= TableStart(error_pos)' + index' /\ LineClosed(TableStart(error_pos))'
<1> DEFINE s == TableStart(error_pos)
<1>1. /\ file \in Files /\ Len(file) \in Nat /\ Len(Scanned) \in Nat
      /\ Len(Scanned) <= Len(file) /\ error_pos \in Nat /\ index \in Nat
      /\ error_pos < Len(Scanned) /\ current_pos \in Nat
  BY PlaceOfError DEF Inv, BufferInv, BufferTypeOK, MessageInv
<1>2. s \in Nat /\ s <= error_pos
  BY <1>1, PlaceOfError
<1>3. /\ task = "message" /\ ~reading /\ file' = file /\ error_pos' = error_pos
      /\ current_pos' = current_pos
  BY DEF MessageChar, Use
<1>4. TableStart(error_pos)' = s
  BY <1>3, ErrorFixed
<1>8. LineRead(s) /\ str.num = index /\ IsArray(str, Int) /\ ch \in Int
  BY <1>3 DEF MessageInv, Inv, LoopsInv, BufferInv, BufferTypeOK
<1>5. /\ CaretAfter(s)
      /\ \/ Taken /\ current_pos = s + index + 1
         \/ AtEnd /\ current_pos = s + index
  BY <1>3 DEF MessageInv, CharsRead
<1> HIDE DEF s
<1>6. CASE ch \notin {WEOF, LF, CR}
  <2>1. /\ caret_pos' = IF current_pos = error_pos THEN index ELSE caret_pos
        /\ index' = index + 1 /\ task' = "message" /\ reading'
    BY <1>6 DEF MessageChar, CaretAt, Use
  <2>2. current_pos = s + index + 1 /\ current_pos <= Len(file)
    <3>1. Taken /\ current_pos = s + index + 1
      BY <1>5, <1>6 DEF AtEnd
    <3> QED
      BY <1>1, <3>1 DEF Taken
  <2>3. CharsRead(TableStart(error_pos))'
    <3>1. current_pos' = s + index' /\ current_pos' <= Len(file)'
      <4>1. current_pos = s + (index + 1)
        BY <1>1, <1>2, <2>2
      <4> QED
        BY <1>3, <2>1, <2>2, <4>1
    <3> QED
      BY <1>4, <2>1, <3>1 DEF CharsRead
  <2>4. caret_pos' = IF s < error_pos /\ error_pos <= s + (index + 1)
                     THEN error_pos - s - 1 ELSE 0
    <3>1. caret_pos = IF s < error_pos /\ error_pos <= s + index
                      THEN error_pos - s - 1 ELSE 0
      BY <1>5 DEF CaretAfter
    <3>2. CASE current_pos = error_pos
      <4>1. s < error_pos /\ error_pos <= s + (index + 1) /\ error_pos - s - 1 = index
        BY <1>1, <1>2, <2>2, <3>2
      <4> QED
        BY <2>1, <3>2, <4>1
    <3>3. CASE current_pos # error_pos
      <4>1. error_pos <= s + (index + 1) <=> error_pos <= s + index
        BY <1>1, <1>2, <2>2, <3>3
      <4> QED
        BY <2>1, <3>1, <3>3, <4>1
    <3> QED
      BY <3>2, <3>3
  <2>5. CaretAfter(TableStart(error_pos))'
    BY <1>3, <1>4, <2>1, <2>4 DEF CaretAfter
  <2>6. LineRead(TableStart(error_pos))' /\ str'.num = index'
    <3>1. str' = array_add(str, ch)
      BY <1>6 DEF MessageChar
    <3>2. Longer(str', str, ch)
      BY <1>8, <3>1, AddKeepsArray
    <3>3. ch = Wide(file[s + index + 1])
      BY <1>5, <1>6, <2>2 DEF Taken, AtEnd
    <3>4. s + (index + 1) = s + index + 1
      BY <1>1, <1>2
    <3>5. ASSUME NEW i \in 1..(index + 1)
          PROVE  /\ str'.cells[i] = Wide(file[s + i])
                 /\ Wide(file[s + i]) \notin {WEOF, LF, CR}
      <4>1. i \in 1..index \/ i = index + 1
        BY <1>1
      <4>2. CASE i \in 1..index
        BY <1>8, <3>2, <4>2 DEF Longer, LineRead
      <4>3. CASE i = index + 1
        BY <1>6, <1>8, <3>2, <3>3, <3>4, <4>3 DEF Longer
      <4> QED
        BY <4>1, <4>2, <4>3
    <3>6. str'.num = index + 1
      BY <1>8, <3>2 DEF Longer
    <3> QED
      BY <1>3, <1>4, <2>1, <3>5, <3>6 DEF LineRead
  <2> QED
    BY <2>1, <2>3, <2>5, <2>6
<1>7. CASE ch \in {WEOF, LF, CR}
  <2>1. caret_pos' = caret_pos /\ index' = index /\ task' = "message printed"
    BY <1>7 DEF MessageChar
  <2>2. error_pos <= s + index
    <3> SUFFICES ASSUME ~(error_pos <= s + index) PROVE FALSE
      OBVIOUS
    <3>1. CASE Taken /\ current_pos = s + index + 1
      <4>1. current_pos \in 1..error_pos /\ s < current_pos
        BY <1>1, <1>2, <3>1
      <4>2. Wide(file[current_pos]) \notin {WEOF, LF, CR}
        BY <1>1, <4>1, LineReadToError DEF s
      <4> QED
        BY <1>7, <3>1, <4>2 DEF Taken
    <3>2. CASE AtEnd /\ current_pos = s + index
      <4>1. current_pos = Len(file)
        BY <3>2 DEF AtEnd
      <4> QED
        BY <1>1, <1>2, <3>2, <4>1
    <3> QED
      BY <1>5, <3>1, <3>2
  <2>3. CaretAfter(TableStart(error_pos))'
    BY <1>3, <1>4, <1>5, <2>1 DEF CaretAfter
  <2>4. LineRead(TableStart(error_pos))' /\ LineClosed(TableStart(error_pos))'
    <3>1. str' = array_add(str, 0)
      BY <1>7 DEF MessageChar
    <3>6. 0 \in Int
      OBVIOUS
    <3>2. Longer(str', str, 0)
      BY <1>8, <3>1, <3>6, AddKeepsArray
    <3>3. \A i \in 1..index : /\ str'.cells[i] = Wide(file[s + i])
                             /\ Wide(file[s + i]) \notin {WEOF, LF, CR}
      BY <1>8, <3>2 DEF Longer, LineRead
    <3>4. str'.num = index + 1 /\ str'.cells[index + 1] = 0
      BY <1>8, <3>2 DEF Longer
    <3>5. \/ s + index = Len(file)
          \/ s + index + 1 <= Len(file) /\ Wide(file[s + index + 1]) \in {WEOF, LF, CR}
      <4>1. CASE Taken /\ current_pos = s + index + 1
        <5>1. current_pos <= Len(file)
          BY <1>1, <4>1 DEF Taken
        <5> QED
          BY <1>7, <4>1, <5>1 DEF Taken
      <4>2. CASE AtEnd /\ current_pos = s + index
        BY <4>2 DEF AtEnd
      <4> QED
        BY <1>5, <4>1, <4>2
    <3> QED
      BY <1>3, <1>4, <2>1, <3>3, <3>4, <3>5 DEF LineRead, LineClosed
  <2> QED
    BY <1>3, <1>4, <2>1, <2>2, <2>3, <2>4
<1> QED
  BY <1>6, <1>7

LEMMA StepKeepsMessage == Inv /\ TableInv /\ MessageInv /\ [Next]_vars => MessageInv'
<1> SUFFICES ASSUME Inv, TableInv, MessageInv, [Next]_vars PROVE MessageInv'
  OBVIOUS
<1> DEFINE s == TableStart(error_pos)
<1>1. /\ file \in Files /\ Len(file) \in Nat /\ error_pos \in Nat /\ index \in Nat
      /\ current_pos \in Nat
  BY BytesOfFile DEF Inv, BufferInv, BufferTypeOK, MessageInv
<1>2. CASE ReadChar
  <2>1. /\ reading /\ file' = file
        /\ task' = task /\ error_pos' = error_pos /\ caret_pos' = caret_pos /\ index' = index
        /\ str' = str
    BY <1>2, TurnTakes
  <2>2. TableStart(error_pos)' = s /\ (Shown' <=> Shown)
    BY <2>1, ErrorFixed DEF Shown
  <2>3. ASSUME task \in {"message", "message printed"}, Shown
        PROVE  CaretAfter(TableStart(error_pos))' /\ LineRead(TableStart(error_pos))'
    BY <2>1, <2>2, <2>3 DEF MessageInv, CaretAfter, LineRead
  <2>4. ASSUME task = "message", Shown
        PROVE  CharsRead(TableStart(error_pos))' /\ str'.num = index'
    <3>6. str'.num = index'
      BY <2>1, <2>4 DEF MessageInv
    <3>1. current_pos = s + index /\ current_pos <= Len(file)
      BY <2>1, <2>4 DEF MessageInv, CharsRead, Taken, AtEnd
    <3>2. \/ reading' /\ current_pos' = current_pos
          \/ Taken' /\ current_pos' = current_pos + 1 /\ current_pos + 1 <= Len(file)
          \/ ~reading' /\ ch' = WEOF /\ current_pos' = current_pos /\ Len(file) <= current_pos
      BY <1>2, TurnTakes
    <3>3. CASE reading' /\ current_pos' = current_pos
      BY <2>1, <2>2, <3>1, <3>3, <3>6 DEF CharsRead
    <3>4. CASE Taken' /\ current_pos' = current_pos + 1
      BY <2>1, <2>2, <3>1, <3>4, <3>6 DEF CharsRead
    <3>5. CASE ~reading' /\ ch' = WEOF /\ current_pos' = current_pos /\ Len(file) <= current_pos
      <4>1. current_pos = Len(file)
        BY <1>1, <3>1, <3>5
      <4>2. AtEnd'
        BY <2>1, <3>5, <4>1 DEF AtEnd
      <4> QED
        BY <2>1, <2>2, <3>1, <3>5, <3>6, <4>2 DEF CharsRead
    <3> QED
      BY <3>2, <3>3, <3>4, <3>5
  <2>5. ASSUME task = "message printed", Shown
        PROVE  error_pos' <= TableStart(error_pos)' + index' /\ LineClosed(TableStart(error_pos))'
    BY <2>1, <2>2, <2>5 DEF MessageInv, LineClosed
  <2>6. error_pos' \in Nat /\ index' \in Nat
    BY <1>1, <2>1
  <2> QED
    BY <2>1, <2>2, <2>3, <2>4, <2>5, <2>6 DEF MessageInv
<1>3. ASSUME NEW pos \in Positions, print_errors(pos)
      PROVE  MessageInv'
  <2>1. /\ task' = "message" /\ error_pos' = pos /\ caret_pos' = 0 /\ index' = 0
        /\ file' = file /\ reading' /\ current_pos' = line_pos(find_line(pos))
        /\ str' = array_init(0) /\ AtRest
    BY <1>3 DEF print_errors, BeginTask, Use
  <2>2. pos \in Nat /\ 0 \in Nat
    BY <1>1 DEF Positions
  <2>3. ASSUME Shown'
        PROVE  /\ CaretAfter(TableStart(error_pos))' /\ CharsRead(TableStart(error_pos))'
               /\ LineRead(TableStart(error_pos))' /\ str'.num = index'
    <3>1. TableStart(error_pos)' = TableStart(pos) /\ pos < Len(Scanned)
      BY <2>1, <2>3, ErrorFixed
    <3>2. Table
      BY <2>1 DEF TableInv, AtRest
    <3>3. current_pos' = TableStart(pos)
      BY <2>1, <3>1, <3>2, StartOfLine
    <3>4. /\ Len(Scanned) \in Nat /\ Len(Scanned) <= Len(file)
          /\ TableStart(pos) \in Nat /\ TableStart(pos) <= pos
      <4>1. Len(Scanned) \in Nat /\ Len(Scanned) <= Len(file)
        BY <1>1, ScannedText
      <4>2. pos <= Len(Scanned)
        BY <2>2, <3>1, <4>1
      <4> QED
        BY <1>1, <2>2, <4>1, <4>2, TableStartIs
    <3>5. /\ ~(TableStart(pos) < pos /\ pos <= TableStart(pos) + 0)
          /\ TableStart(pos) = TableStart(pos) + 0 /\ TableStart(pos) <= Len(file)
      BY <1>1, <2>2, <3>1, <3>4
    <3>6. CaretAfter(TableStart(error_pos))'
      BY <2>1, <3>1, <3>5 DEF CaretAfter
    <3>7. CharsRead(TableStart(error_pos))'
      BY <2>1, <3>1, <3>3, <3>5 DEF CharsRead
    <3>8. LineRead(TableStart(error_pos))' /\ str'.num = index'
      <4>1. \A i \in 1..0 : FALSE
        OBVIOUS
      <4> QED
        BY <2>1, <4>1 DEF LineRead, array_init
    <3> QED
      BY <3>6, <3>7, <3>8
  <2> QED
    BY <2>1, <2>2, <2>3 DEF MessageInv
<1>4. CASE MessageChar
  <2>1. /\ file' = file /\ error_pos' = error_pos
        /\ task = "message" /\ task' \in {"message", "message printed"}
    BY <1>4 DEF MessageChar, Use
  <2>4. error_pos' \in Nat /\ index' \in Nat
    <3>1. error_pos' = error_pos /\ (index' = index \/ index' = index + 1)
      BY <1>4 DEF MessageChar
    <3> QED
      BY <1>1, <3>1
  <2>2. Shown' <=> Shown
    BY <2>1, ErrorFixed DEF Shown
  <2>3. ASSUME Shown
        PROVE  /\ CaretAfter(TableStart(error_pos))' /\ LineRead(TableStart(error_pos))'
               /\ task' = "message" => CharsRead(TableStart(error_pos))' /\ str'.num = index'
               /\ task' = "message printed" =>
                    /\ error_pos' <= TableStart(error_pos)' + index'
                    /\ LineClosed(TableStart(error_pos))'
    BY <1>4, <2>3, MessageCharKeepsCaret
  <2> QED
    BY <2>1, <2>2, <2>3, <2>4 DEF MessageInv
<1>5. CASE \/ Parse \/ find_line_endings \/ EndingsChar \/ StringChar \/ EmptyString
           \/ \E begin, end \in Positions, narrow \in BOOLEAN :
                begin <= end /\ read_string(begin, end, narrow)
  <2>1. task' \notin {"message", "message printed"} /\ error_pos' = error_pos /\ index' = index
    BY <1>5
    DEF Parse, find_line_endings, EndingsChar, StringChar, EmptyString, read_string, BeginTask
  <2> QED
    BY <1>1, <2>1 DEF MessageInv
<1>6. CASE UNCHANGED vars
  <2>1. UNCHANGED <<file, task, error_pos, index, caret_pos, str, current_pos, reading, ch>>
    BY <1>6 DEF vars, bufferVars
  <2>2. TableStart(error_pos)' = s /\ (Shown' <=> Shown)
    BY <2>1, ErrorFixed DEF Shown
  <2> QED
    BY <2>1, <2>2
    DEF MessageInv, CaretAfter, LineRead, LineClosed, CharsRead, Taken, AtEnd
<1> QED
  BY <1>2, <1>3, <1>4, <1>5, <1>6 DEF Next

(* Where the line begins in the text, if a table that has lost line ends   *)
(* says so: they are followed by one that it has.                          *)
LEMMA StartInTable ==
  ASSUME file \in Files, error_pos \in Nat, Shown
  PROVE  TableStart(error_pos) = LineStart(error_pos)
<1> DEFINE n == Len(Scanned)
           L == {i \in LineEnds : i <= error_pos}
           T == {i \in 1..error_pos : EndsInTable(i)}
           top(B) == CHOOSE i \in B : \A j \in B : j <= i
<1>1. n \in Nat /\ error_pos < n /\ LF # CR
  BY ScannedText DEF Shown, LF, CR
<1>2. \A i \in 1..error_pos : i \in 1..n /\ i < n /\ i # n /\ i + 1 \in 1..n
  BY <1>1
<1>3. \A i : i \in L <=> i \in 1..error_pos /\ EndOfLine(i)
  <2>1. \A i \in 1..n : i <= error_pos => i \in 1..error_pos
    OBVIOUS
  <2> QED
    BY <1>2, <2>1 DEF LineEnds
<1>4. ASSUME NEW i \in 1..error_pos
      PROVE  /\ i \in T <=> Scanned[i] = LF \/ (Scanned[i] = CR /\ Scanned[i + 1] \notin {LF, CR})
             /\ i \in L <=> Scanned[i] = LF \/ (Scanned[i] = CR /\ Scanned[i + 1] # LF)
  <2>1. i < n /\ i # n
    BY <1>2
  <2>2. (i \in T) <=> EndsInTable(i)
    OBVIOUS
  <2>3. (i \in L) <=> EndOfLine(i)
    BY <1>3
  <2> HIDE DEF T, L
  <2>4. EndsInTable(i) <=> Scanned[i] = LF \/ (Scanned[i] = CR /\ Scanned[i + 1] \notin {LF, CR})
    BY <2>1 DEF EndsInTable
  <2>5. EndOfLine(i) <=> Scanned[i] = LF \/ (Scanned[i] = CR /\ Scanned[i + 1] # LF)
    BY <2>1 DEF EndOfLine
  <2> QED
    BY <2>2, <2>3, <2>4, <2>5
<1>5. /\ LineStart(error_pos) = IF L = {} THEN 0 ELSE top(L)
      /\ TableStart(error_pos) = IF T = {} THEN 0 ELSE top(T)
  BY DEF LineStart, TableStart
<1>6. T \subseteq L /\ T \subseteq 1..error_pos /\ L \subseteq 1..error_pos
  <2>1. T \subseteq 1..error_pos
    OBVIOUS
  <2>2. L \subseteq 1..error_pos
    BY <1>3
  <2> HIDE DEF T, L
  <2> QED
    BY <1>4, <2>1, <2>2
<1>7. Scanned[error_pos + 1] \notin {LF, CR}
  BY DEF Shown
<1> HIDE DEF L, T, n
<1>8. CASE L = {}
  BY <1>5, <1>6, <1>8
<1>9. CASE L # {}
  <2>1. PICK m \in L : \A j \in L : j <= m
    BY <1>6, <1>9, LargestNumber
  <2>2. m \in 1..error_pos /\ m \in Nat
    BY <1>6
  <2>3. m \in T
    <3> SUFFICES ASSUME m \notin T PROVE FALSE
      OBVIOUS
    <3>1. Scanned[m] = CR /\ Scanned[m + 1] = CR
      <4>1. /\ ~(Scanned[m] = LF) /\ (Scanned[m] = CR => Scanned[m + 1] \in {LF, CR})
            /\ Scanned[m] = LF \/ (Scanned[m] = CR /\ Scanned[m + 1] # LF)
        BY <1>4, <2>1, <2>2
      <4> QED
        BY <4>1
    <3>2. m + 1 \in 1..error_pos
      <4>1. m # error_pos
        BY <1>7, <3>1
      <4> QED
        BY <2>2, <4>1
    <3>3. ~(m + 1 <= m) /\ (m + 1) + 1 \in Nat
      BY <2>2
    <3>4. m + 1 \notin L
      BY <2>1, <3>3
    <3>5. Scanned[(m + 1) + 1] = LF
      BY <1>4, <3>1, <3>2, <3>4
    <3>6. (m + 1) + 1 \in 1..error_pos
      <4>1. m + 1 # error_pos
        BY <1>7, <3>5
      <4> QED
        BY <2>2, <3>2, <4>1
    <3>7. (m + 1) + 1 \in L
      BY <1>4, <3>5, <3>6
    <3>8. ~((m + 1) + 1 <= m)
      BY <2>2
    <3> QED
      BY <2>1, <3>7, <3>8
  <2>4. ASSUME NEW B, m \in B, B \subseteq L PROVE top(B) = m
    <3>1. \A j \in B : j <= m
      BY <2>1, <2>4
    <3>2. top(B) \in B /\ \A j \in B : j <= top(B)
      BY <2>4, <3>1
    <3> HIDE DEF top
    <3>3. top(B) <= m /\ m <= top(B)
      BY <2>4, <3>1, <3>2
    <3>4. top(B) \in 1..error_pos
      BY <1>6, <2>4, <3>2
    <3> QED
      BY <2>2, <3>3, <3>4
  <2> HIDE DEF top
  <2>5. top(T) = m /\ top(L) = m
    BY <1>6, <2>3, <2>4
  <2> QED
    BY <1>5, <1>9, <2>3, <2>5
<1> QED
  BY <1>8, <1>9

(* Which bytes a line stops at, and which cannot be printed. *)
LEMMA WideStops ==
  ASSUME NEW byte \in 0..255
  PROVE  /\ Wide(byte) = 0 <=> byte = 0
         /\ Wide(byte) \in {WEOF, LF, CR} <=> byte \in {LF, CR, 255}
         /\ Wide(byte) >= 0 <=> byte < 128
<1>1. CASE byte < 128
  BY <1>1 DEF Wide, WEOF, LF, CR
<1>2. CASE ~(byte < 128)
  <2>1. Wide(byte) = byte - 256 /\ byte - 256 < 0 /\ (byte - 256 = -1 <=> byte = 255)
    BY <1>2 DEF Wide
  <2> QED
    BY <1>2, <2>1 DEF WEOF, LF, CR
<1> QED
  BY <1>1, <1>2

LEMMA StopsInside ==
  ASSUME NEW a \in Nat, NEW b \in Nat, NEW c \in Nat, a + b = c \/ a + b + 1 <= c
  PROVE  a + b <= c
OBVIOUS

(* What of the characters that were read fprintf gets to print. *)
LEMMA LineShown ==
  ASSUME file \in Files, IsArray(str, Int), index \in Nat,
         NEW s \in Nat, s + index <= Len(file), LineRead(s), LineClosed(s)
  PROVE  LET n == Len(LineChars)
         IN  /\ \A i \in 1..n : LineChars[i] = Wide(file[s + i]) /\ file[s + i] \notin Stops
             /\ s + n = Len(file) \/ file[s + n + 1] \in Stops
             /\ LinePrinted <=> \A i \in 1..n : file[s + i] < 128
<1> DEFINE N == {i \in 1..array_size(str) : array_item(str, i - 1) = 0}
           c == CHOOSE i \in N : \A j \in N : i <= j
<1>1. Len(file) \in Nat /\ \A i \in 1..Len(file) : file[i] \in 0..255
  BY BytesOfFile
<1>2. /\ str.num = index + 1 /\ str.cells[index + 1] = 0
      /\ str.cells \in Seq(Int \cup {Unset}) /\ str.num <= Len(str.cells)
  BY DEF LineClosed, IsArray
<1>3. N = {i \in 1..(index + 1) : str.cells[i] = 0}
  <2>1. \A i \in Int : (i - 1) + 1 = i
    OBVIOUS
  <2> QED
    BY <1>2, <2>1 DEF array_size, array_item
<1>4. LineChars = SubSeq(str.cells, 1, c - 1)
  BY DEF LineChars
<1>5. c \in N /\ \A j \in N : c <= j
  <2> HIDE DEF N
  <2>1. N \subseteq Nat /\ N # {}
    <3>1. index + 1 \in 1..(index + 1)
      OBVIOUS
    <3> QED
      BY <1>2, <1>3, <3>1
  <2>2. \E i \in N : \A j \in N : i <= j
    BY <2>1, LeastNumber
  <2> QED
    BY <2>2
<1> HIDE DEF c, N
<1> DEFINE k == c - 1
<1>6. /\ c \in 1..(index + 1) /\ str.cells[c] = 0 /\ k \in Nat /\ k <= index /\ k + 1 = c
      /\ \A i \in 1..k : i \in 1..index /\ i \notin N
  <2>1. c \in 1..(index + 1) /\ str.cells[c] = 0
    BY <1>3, <1>5
  <2>2. k \in Nat /\ k <= index /\ k + 1 = c /\ \A i \in 1..k : i \in 1..index /\ ~(c <= i)
    BY <2>1
  <2> QED
    BY <1>5, <2>1, <2>2
<1>7. Len(LineChars) = k /\ \A i \in 1..k : LineChars[i] = str.cells[i]
  <2>1. k <= Len(str.cells) /\ Len(str.cells) \in Nat
    BY <1>2, <1>6
  <2> QED
    BY <1>2, <1>4, <1>6, <2>1, FirstItems
<1> HIDE DEF k
<1>8. ASSUME NEW i \in 1..index
      PROVE  /\ s + i \in 1..Len(file) /\ file[s + i] \in 0..255
             /\ str.cells[i] = Wide(file[s + i]) /\ file[s + i] \notin {LF, CR, 255}
  <2>1. s + i \in 1..Len(file)
    BY <1>1
  <2>2. str.cells[i] = Wide(file[s + i]) /\ Wide(file[s + i]) \notin {WEOF, LF, CR}
    BY DEF LineRead
  <2>3. file[s + i] \in 0..255
    BY <1>1, <2>1
  <2> QED
    BY <2>1, <2>2, <2>3, WideStops
<1>9. ASSUME NEW i \in 1..k
      PROVE  /\ LineChars[i] = Wide(file[s + i]) /\ file[s + i] \notin Stops
             /\ LineChars[i] >= 0 <=> file[s + i] < 128
  <2>1. /\ i \in 1..index /\ i \in 1..(index + 1) /\ str.cells[i] # 0
        /\ LineChars[i] = str.cells[i]
    BY <1>3, <1>6, <1>7
  <2>2. /\ file[s + i] \in 0..255 /\ str.cells[i] = Wide(file[s + i])
        /\ file[s + i] \notin {LF, CR, 255}
    BY <1>8, <2>1
  <2>3. file[s + i] # 0
    BY <2>1, <2>2, WideStops
  <2>4. Wide(file[s + i]) >= 0 <=> file[s + i] < 128
    BY <2>2, WideStops
  <2>5. LineChars[i] = Wide(file[s + i])
    BY <2>1, <2>2
  <2>6. file[s + i] \notin Stops
    BY <2>2, <2>3 DEF Stops
  <2> QED
    BY <2>4, <2>5, <2>6
<1>10. s + k = Len(file) \/ file[s + k + 1] \in Stops
  <2>1. s + k + 1 = s + c
    BY <1>6
  <2>2. CASE c \in 1..index
    <3>1. file[s + c] \in 0..255 /\ Wide(file[s + c]) = 0
      BY <1>6, <1>8, <2>2
    <3>2. file[s + c] = 0
      BY <3>1, WideStops
    <3> QED
      BY <2>1, <3>2 DEF Stops
  <2>3. CASE c = index + 1
    <3>1. k = index
      BY <1>6, <2>3
    <3>2. ASSUME s + index + 1 <= Len(file), Wide(file[s + index + 1]) \in {WEOF, LF, CR}
          PROVE  file[s + index + 1] \in Stops
      <4>1. s + index + 1 \in 1..Len(file)
        BY <1>1, <3>2
      <4>2. file[s + index + 1] \in 0..255
        BY <1>1, <4>1
      <4> QED
        BY <3>2, <4>2, WideStops DEF Stops
    <3> QED
      BY <3>1, <3>2 DEF LineClosed
  <2>4. c \in 1..index \/ c = index + 1
    BY <1>6
  <2> QED
    BY <2>2, <2>3, <2>4
<1>11. LinePrinted <=> \A i \in 1..k : file[s + i] < 128
  BY <1>7, <1>9 DEF LinePrinted
<1> QED
  BY <1>7, <1>9, <1>10, <1>11

(* An error message shows the line of the error (print_errors,             *)
(* parsergen.c:207, :215) as far as a 0, whatever the table has lost, or   *)
(* nothing if there is a byte above 127 in it; the caret is under the      *)
(* character that the error is at, and for the first column one to the     *)
(* right of it.                                                            *)
THEOREM MessageShowsErrorCorrect == Spec => []MessageShowsError
<1>1. Init => MessageInv
  BY DEF Init, MessageInv
<1>2. Inv /\ MessageInv => MessageShowsError
  <2> DEFINE s == TableStart(error_pos)
             n == Len(LineChars)
  <2> SUFFICES ASSUME Inv, MessageInv, task = "message printed", Shown
               PROVE  MessageShowsError
    BY DEF MessageShowsError, Shown
  <2>1. /\ CaretAfter(s) /\ LineRead(s) /\ LineClosed(s)
        /\ error_pos <= s + index /\ error_pos \in Nat /\ index \in Nat
    BY DEF MessageInv
  <2>2. file \in Files /\ IsArray(str, Int) /\ Len(file) \in Nat
    BY BytesOfFile DEF Inv, LoopsInv, BufferInv, BufferTypeOK
  <2>3. s \in Nat /\ s <= error_pos /\ s = LineStart(error_pos)
    BY <2>1, <2>2, PlaceOfError, StartInTable
  <2> HIDE DEF s
  <2>4. CaretColumn = IF error_pos - s = 0 THEN 1 ELSE error_pos - s
    <3>1. caret_pos + 1 = IF error_pos - s = 0 THEN 1 ELSE error_pos - s
      BY <2>1, <2>3, ColumnOfCaret
    <3> QED
      BY <3>1 DEF CaretColumn
  <2>5. s + index <= Len(file)
    <3>1. s + index = Len(file) \/ s + index + 1 <= Len(file)
      BY <2>1 DEF LineClosed
    <3> QED
      BY <2>1, <2>2, <2>3, <3>1, StopsInside
  <2>6. /\ \A i \in 1..n : LineChars[i] = Wide(file[s + i]) /\ file[s + i] \notin Stops
        /\ s + n = Len(file) \/ file[s + n + 1] \in Stops
        /\ LinePrinted <=> \A i \in 1..n : file[s + i] < 128
    BY <2>1, <2>2, <2>3, <2>5, LineShown
  <2> QED
    BY <2>3, <2>4, <2>6 DEF MessageShowsError
<1> QED
  BY <1>1, <1>2, StepKeepsMessage, InvCorrect, TableAlways, PTL DEF Spec

-----------------------------------------------------------------------------
(* How much memory the buffer takes. *)
LEMMA Times ==
  ASSUME NEW n \in Nat \ {0}, NEW x \in Int, NEW y \in Int
  PROVE  /\ n * x \in Int /\ n * (x + y) = n * x + n * y
         /\ x <= y => n * x <= n * y
<1>1. n * x \in Int /\ n * (x + y) = n * x + n * y
  OBVIOUS
<1>2. ASSUME x <= y PROVE n * x <= n * y
  <2>1. y - x \in Nat /\ x + (y - x) = y
    BY <1>2
  <2>2. n * (y - x) >= 0
    BY <2>1
  <2>3. n * y = n * x + n * (y - x)
    BY <2>1
  <2>4. n * x \in Int /\ n * y \in Int /\ n * (y - x) \in Int
    OBVIOUS
  <2> QED
    BY <2>2, <2>3, <2>4
<1> QED
  BY <1>1, <1>2

LEMMA Successor == \A n \in Nat : n + 1 \in Nat /\ n <= n + 1
OBVIOUS

LEMMA OnceMore ==
  ASSUME NEW n \in Nat \ {0}, NEW x \in Int
  PROVE  n * (x + 1) = n * x + n /\ n * x \in Int
OBVIOUS

LEMMA SmallerOfBoth ==
  ASSUME NEW a \in Nat \ {0}, NEW b \in Nat \ {0}
  PROVE  /\ Smaller(a, b) \in Nat \ {0} /\ Smaller(a, b) <= a
         /\ Smaller(a, b) = a \/ Smaller(a, b) = b
BY DEF Smaller

LEMMA Quotient ==
  ASSUME NEW n \in Nat \ {0}, NEW x \in Int
  PROVE  x \div n \in Int
OBVIOUS

LEMMA QuotientIs ==
  ASSUME NEW n \in Nat \ {0}, NEW x \in Int, NEW q \in Int, n * q <= x, x < n * q + n
  PROVE  x \div n = q
OBVIOUS

(* How many increments the bytes read need; the buffer has these, one for  *)
(* every failed read of the parse and n more.                              *)
Pieces == (bytes_read + INCREMENT - 1) \div INCREMENT

Grown(n) == buf_size = INCREMENT * (Pieces + end_reads + n)

Extra(most) == \E n \in 0..most : Grown(n)

LEMMA PiecesType ==
  ASSUME Inv
  PROVE  /\ Pieces \in Int /\ buf_size \in Nat /\ bytes_read \in Nat
         /\ INCREMENT \in Nat \ {0} /\ Len(file) \in Nat /\ bytes_read <= Len(file)
<1>1. /\ buf_size \in Nat /\ bytes_read \in Nat /\ INCREMENT \in Nat \ {0}
      /\ Len(file) \in Nat /\ bytes_read <= Len(file)
  BY IncrementAssumption, BytesOfFile DEF Inv, BufferInv, BufferTypeOK, BytesFit
<1>2. bytes_read + INCREMENT - 1 \in Int
  BY <1>1
<1> QED
  BY <1>1, <1>2, Quotient DEF Pieces

LEMMA UpToMore ==
  ASSUME NEW m \in Nat, NEW n \in Nat, m <= n, NEW k \in 0..m
  PROVE  k \in 0..n
OBVIOUS

LEMMA ExtraWeaker ==
  ASSUME NEW m \in Nat, NEW n \in Nat, m <= n, Extra(m)
  PROVE  Extra(n)
BY UpToMore DEF Extra

(* A piece of the file needs another increment, and gets it. *)
LEMMA GrownMore ==
  ASSUME Inv, ReadMore, bytes_read = INCREMENT * Pieces,
         end_reads \in Nat, end_reads' = end_reads, NEW n \in Nat, Grown(n)
  PROVE  /\ Grown(n)'
         /\ bytes_read' = INCREMENT * Pieces' \/ bytes_read' = Len(file)'
<1> DEFINE I == INCREMENT
           q == Pieces
           m == Smaller(I, Len(file) - bytes_read)
<1>1. /\ q \in Int /\ buf_size \in Nat /\ bytes_read \in Nat /\ I \in Nat \ {0}
      /\ Len(file) \in Nat
  BY PiecesType
<1>2. /\ buf_size' = buf_size + I /\ bytes_read' = bytes_read + m /\ file' = file
      /\ bytes_read < Len(file)
  BY DEF ReadMore
<1>3. m \in Nat \ {0} /\ m <= I /\ (m = I \/ m = Len(file) - bytes_read)
  <2>1. Len(file) - bytes_read \in Nat \ {0}
    BY <1>1, <1>2
  <2> QED
    BY <1>1, <2>1, SmallerOfBoth
<1>4. Pieces' = (bytes_read' + I - 1) \div I
  BY DEF Pieces
<1>5. bytes_read = I * q /\ buf_size = I * (q + end_reads + n)
  BY DEF Grown
<1> HIDE DEF m, q, I
<1>6. I * (q + 1) = I * q + I /\ I * q \in Int
  BY <1>1, Times
<1>7. Pieces' = q + 1
  <2> DEFINE x == bytes_read' + I - 1
  <2>1. x \in Int /\ I * (q + 1) <= x /\ x < I * (q + 1) + I
    BY <1>1, <1>2, <1>3, <1>5, <1>6
  <2>2. q + 1 \in Int
    BY <1>1
  <2> HIDE DEF x
  <2>3. x \div I = q + 1
    BY <1>1, <2>1, <2>2, QuotientIs
  <2> QED
    BY <1>4, <2>3 DEF x
<1>8. Grown(n)'
  <2> DEFINE y == q + end_reads + n
  <2>1. y \in Int /\ (q + 1) + end_reads + n = y + 1
    BY <1>1
  <2> HIDE DEF y
  <2>2. I * (y + 1) = I * y + I
    BY <1>1, <2>1, OnceMore
  <2>3. buf_size' = I * (Pieces' + end_reads' + n)
    BY <1>2, <1>5, <1>7, <2>1, <2>2 DEF y
  <2> QED
    BY <2>3 DEF Grown, I
<1>9. bytes_read' = I * Pieces' \/ bytes_read' = Len(file)'
  <2>1. CASE m = I
    BY <1>2, <1>5, <1>6, <1>7, <2>1
  <2>2. CASE m = Len(file) - bytes_read
    BY <1>1, <1>2, <2>2
  <2> QED
    BY <1>3, <2>1, <2>2
<1> QED
  BY <1>8, <1>9 DEF I

(* At the end of the file it gets one that it does not need: that is one   *)
(* more of the failed reads of the parse, or one more after it.            *)
LEMMA GrownAtEnd ==
  ASSUME Inv, EndOfFile, end_reads \in Nat, NEW n \in Nat, Grown(n)
  PROVE  /\ Pieces' = Pieces
         /\ end_reads' = end_reads => Grown(n + 1)'
         /\ end_reads' = end_reads + 1 => Grown(n)'
<1> DEFINE y == Pieces + end_reads + n
<1>1. /\ y \in Int /\ buf_size \in Nat /\ INCREMENT \in Nat \ {0} /\ Pieces \in Int
      /\ Pieces + end_reads + (n + 1) = y + 1 /\ Pieces + (end_reads + 1) + n = y + 1
  BY PiecesType
<1>2. buf_size = INCREMENT * y
  BY DEF Grown
<1>3. buf_size' = buf_size + INCREMENT /\ bytes_read' = bytes_read
  BY DEF EndOfFile
<1>4. Pieces' = Pieces
  BY <1>3 DEF Pieces
<1> HIDE DEF y
<1>5. buf_size' = INCREMENT * (y + 1)
  BY <1>1, <1>2, <1>3, OnceMore
<1> QED
  BY <1>1, <1>4, <1>5 DEF Grown

(* A loop that has come to the end of the file, and each one that is over, *)
(* may have asked for one increment too many.                              *)
AskedAtEnd ==
  \/ AtRest
  \/ task \in {"line endings", "message"} /\ ~reading /\ ch = WEOF

Most == IF AskedAtEnd THEN tasks + 1 ELSE tasks

BoundInv ==
  /\ tasks \in Nat /\ end_reads \in Nat
  /\ task \in {"start", "parse", "line endings", "string", "message"} \/ AtRest
  /\ task = "start" \/ AtRest => ~reading
  /\ bytes_read = INCREMENT * Pieces \/ bytes_read = Len(file)
  /\ Extra(Most)

(* A string never comes to the end of the file, an empty one never reads.  *)
LEMMA BytesBeforeEnd ==
  ASSUME Inv, StringInv, EndOfFile
  PROVE  task # "string"
<1> SUFFICES ASSUME current_pos < span.end PROVE FALSE
  BY DEF StringInv, Taken, EndOfFile
<1>1. /\ current_pos \in Nat /\ span.end \in Nat /\ span.end <= Len(file)
      /\ Len(file) \in Nat
  BY SpanTypes
<1>2. current_pos >= Len(file)
  BY DEF EndOfFile
<1> QED
  BY <1>1, <1>2

LEMMA EmptyNeverReads ==
  ASSUME Inv, StringInv, EmptyString
  PROVE  ~reading
<1>1. span.begin \in Nat /\ span.end \in Nat /\ current_pos \in Nat
  BY SpanTypes
<1>2. span.begin >= span.end
  BY DEF EmptyString
<1>3. ~(span.begin <= current_pos /\ current_pos < span.end)
  BY <1>1, <1>2
<1> QED
  BY <1>3 DEF EmptyString, StringInv, Taken

LEMMA StepKeepsBound ==
  Inv /\ StringInv /\ BoundInv /\ [Next]_vars => BoundInv'
<1> SUFFICES ASSUME Inv, StringInv, BoundInv, [Next]_vars PROVE BoundInv'
  OBVIOUS
<1> DEFINE Whole == bytes_read = INCREMENT * Pieces \/ bytes_read = Len(file)
<1>1. /\ tasks \in Nat /\ tasks + 1 \in Nat /\ tasks <= tasks + 1
      /\ end_reads \in Nat /\ Whole
  BY Successor DEF BoundInv
<1>2. Extra(tasks) => Extra(tasks + 1)
  BY <1>1, ExtraWeaker
<1>3. CASE ReadChar
  <2>1. reading /\ UNCHANGED <<task, tasks>>
    BY <1>3, TurnTakes
  <2>2. ~AskedAtEnd /\ task \in {"parse", "line endings", "string", "message"}
    BY <2>1 DEF BoundInv, AskedAtEnd
  <2>3. PICK n \in 0..tasks : Grown(n)
    BY <2>2 DEF BoundInv, Most, Extra
  <2>4. n \in Nat /\ n + 1 \in 0..(tasks + 1) /\ tasks' = tasks
    BY <1>1, <2>1
  <2>5. ~(task' = "start" \/ AtRest') /\ task' \in {"parse", "line endings", "string", "message"}
    BY <2>1, <2>2 DEF AtRest
  <2>10. ASSUME Grown(n)' PROVE Extra(Most)'
    <3>1. n \in 0..tasks' /\ n \in 0..(tasks' + 1)
      BY <1>1, <2>4
    <3>2. n \in 0..Most'
      BY <3>1 DEF Most
    <3> QED
      BY <2>10, <3>2 DEF Extra
  <2>11. ASSUME Grown(n + 1)', AskedAtEnd' PROVE Extra(Most)'
    <3>1. n + 1 \in 0..Most'
      BY <2>4, <2>11 DEF Most
    <3> QED
      BY <2>11, <3>1 DEF Extra
  <2>6. ASSUME Extra(Most)', end_reads' \in Nat, Whole' PROVE BoundInv'
    BY <1>1, <2>4, <2>5, <2>6 DEF BoundInv
  <2>7. CASE ReadMore
    <3>1. bytes_read = INCREMENT * Pieces
      <4>1. bytes_read # Len(file)
        BY <2>7, PiecesType DEF ReadMore
      <4> QED
        BY <1>1, <4>1
    <3>2. end_reads' = end_reads
      BY <1>3, <2>7 DEF ReadChar, ReadMore, EndOfFile
    <3>3. Grown(n)' /\ Whole'
      BY <1>1, <2>3, <2>4, <2>7, <3>1, <3>2, GrownMore
    <3> QED
      BY <1>1, <2>6, <2>10, <3>2, <3>3
  <2>8. CASE EndOfFile
    <3>1. task \in {"parse", "line endings", "message"}
      BY <2>2, <2>8, BytesBeforeEnd
    <3>2. /\ Pieces' = Pieces
          /\ end_reads' = end_reads => Grown(n + 1)'
          /\ end_reads' = end_reads + 1 => Grown(n)'
      BY <1>1, <2>3, <2>4, <2>8, GrownAtEnd
    <3>3. Whole'
      BY <1>1, <2>8, <3>2 DEF EndOfFile
    <3>4. CASE task = "parse"
      <4>1. end_reads' = end_reads + 1 /\ end_reads' \in Nat
        BY <1>1, <1>3, <2>8, <3>4 DEF ReadChar
      <4> QED
        BY <2>6, <2>10, <3>2, <3>3, <4>1
    <3>5. CASE task # "parse"
      <4>1. end_reads' = end_reads
        BY <1>3, <3>5 DEF ReadChar
      <4>2. AskedAtEnd'
        BY <2>1, <2>8, <3>1, <3>5 DEF AskedAtEnd, EndOfFile
      <4> QED
        BY <1>1, <2>6, <2>11, <3>2, <3>3, <4>1, <4>2
    <3> QED
      BY <3>4, <3>5
  <2>9. CASE TakeChar
    <3>1. UNCHANGED <<buf_size, bytes_read, file, end_reads>>
      <4>1. ~EndOfFile
        BY <2>9, PiecesType DEF TakeChar, EndOfFile, Inv, BufferInv, BufferTypeOK
      <4> QED
        BY <1>3, <2>9, <4>1 DEF ReadChar, TakeChar
    <3>2. Grown(n)' /\ Pieces' = Pieces
      BY <2>3, <3>1 DEF Grown, Pieces
    <3>3. Whole'
      BY <1>1, <3>1, <3>2
    <3> QED
      BY <1>1, <2>6, <2>10, <3>1, <3>2, <3>3
  <2> QED
    BY <1>3, <2>7, <2>8, <2>9 DEF ReadChar, read_char
<1>4. ASSUME UNCHANGED <<buf_size, bytes_read, file, end_reads>>,
             tasks' \in Nat, Most <= Most',
             task' \in {"start", "parse", "line endings", "string", "message"} \/ AtRest',
             task' = "start" \/ AtRest' => ~reading'
      PROVE  BoundInv'
  <2>1. Pieces' = Pieces /\ Whole' /\ end_reads' \in Nat
    BY <1>1, <1>4 DEF Pieces
  <2>2. PICK n \in 0..Most : Grown(n)
    BY DEF BoundInv, Extra
  <2>3. n \in 0..Most'
    <3>1. Most \in Nat /\ Most' \in Nat
      BY <1>1, <1>4, Successor DEF Most
    <3> QED
      BY <1>4, <3>1, UpToMore
  <2>4. Grown(n)'
    BY <1>4, <2>1, <2>2 DEF Grown
  <2> QED
    BY <1>4, <2>1, <2>3, <2>4 DEF BoundInv, Extra
<1>5. tasks <= tasks /\ tasks + 1 <= tasks + 1
  BY <1>1
<1>6. CASE Parse \/ find_line_endings
  <2>1. /\ task \in {"start", "parse"} /\ task' \in {"parse", "line endings"}
        /\ tasks' = tasks /\ UNCHANGED <<buf_size, bytes_read, file, end_reads>>
    BY <1>6 DEF Parse, find_line_endings, Use
  <2>2. reading' = TRUE
    BY <1>6 DEF Parse, find_line_endings, Use
  <2>3. Most = tasks /\ Most' = tasks
    BY <2>1, <2>2 DEF Most, AskedAtEnd, AtRest
  <2> QED
    BY <1>1, <1>4, <1>5, <2>1, <2>3 DEF AtRest
<1>7. CASE EndingsChar \/ MessageChar
  <2>1. /\ task \in {"line endings", "message"} /\ ~reading /\ tasks' = tasks
        /\ UNCHANGED <<buf_size, bytes_read, file, end_reads>>
    BY <1>7 DEF EndingsChar, MessageChar, Use
  <2>2. \/ task' = task /\ reading' = TRUE /\ ch # WEOF
        \/ AtRest' /\ reading' = FALSE
    BY <1>7 DEF EndingsChar, MessageChar, Use, AtRest
  <2>3. CASE task' = task /\ reading' = TRUE /\ ch # WEOF
    <3>1. Most = tasks /\ Most' = tasks
      BY <2>1, <2>3 DEF Most, AskedAtEnd, AtRest
    <3> QED
      BY <1>1, <1>4, <1>5, <2>1, <2>3, <3>1 DEF AtRest
  <2>4. CASE AtRest' /\ reading' = FALSE
    <3>1. Most \in {tasks, tasks + 1} /\ Most' = tasks + 1
      BY <2>1, <2>4 DEF Most, AskedAtEnd
    <3> QED
      BY <1>1, <1>4, <1>5, <2>1, <2>4, <3>1
  <2> QED
    BY <2>2, <2>3, <2>4
<1>8. CASE \/ \E begin, end \in Positions, narrow \in BOOLEAN :
                begin <= end /\ read_string(begin, end, narrow)
           \/ \E pos \in Positions : print_errors(pos)
  <2>1. /\ AtRest /\ tasks' = tasks + 1
        /\ task' = "string" \/ (task' = "message" /\ reading')
        /\ UNCHANGED <<buf_size, bytes_read, file, end_reads>>
    BY <1>8 DEF read_string, print_errors, BeginTask, Use
  <2>2. Most = tasks + 1 /\ Most' = tasks + 1
    BY <2>1 DEF Most, AskedAtEnd, AtRest
  <2> QED
    BY <1>1, <1>4, <1>5, <2>1, <2>2 DEF AtRest
<1>9. CASE StringChar \/ EmptyString
  <2>1. /\ task = "string" /\ tasks' = tasks
        /\ UNCHANGED <<buf_size, bytes_read, file, end_reads>>
        /\ task' = "string" \/ (task' = "string read" /\ ~reading')
    <3>1. CASE StringChar
      BY <3>1 DEF StringChar, Use
    <3>2. CASE EmptyString
      <4>1. ~reading
        BY <3>2, EmptyNeverReads
      <4> QED
        BY <3>2, <4>1 DEF EmptyString, bufferVars
    <3> QED
      BY <1>9, <3>1, <3>2
  <2>2. Most = tasks /\ Most' \in {tasks, tasks + 1}
    BY <2>1 DEF Most, AskedAtEnd, AtRest
  <2> QED
    BY <1>1, <1>4, <1>5, <2>1, <2>2 DEF AtRest
<1>10. CASE UNCHANGED vars
  <2>1. UNCHANGED <<buf_size, bytes_read, file, end_reads, task, tasks, reading, ch>>
    BY <1>10 DEF vars, bufferVars
  <2>2. AskedAtEnd' = AskedAtEnd /\ AtRest' = AtRest
    BY <2>1 DEF AskedAtEnd, AtRest
  <2>3. Most' = Most /\ Most \in {tasks, tasks + 1}
    BY <2>1, <2>2 DEF Most
  <2> QED
    BY <1>1, <1>4, <1>5, <2>1, <2>2, <2>3 DEF BoundInv
<1> QED
  BY <1>3, <1>6, <1>7, <1>8, <1>9, <1>10 DEF Next

(* The buffer takes what the file needs, exactly one increment for each    *)
(* read of the parse that met its end (narwhal_buffers.c:103), and at most *)
(* one for each text asked for after the parse, however long the file is   *)
(* and however often it is read again.                                     *)
THEOREM BufferBoundedCorrect == Spec => []BufferBounded
<1>1. Init => BoundInv
  <2> SUFFICES ASSUME Init PROVE BoundInv
    OBVIOUS
  <2>1. /\ tasks = 0 /\ end_reads = 0 /\ task = "start" /\ ~reading
        /\ buf_size = 0 /\ bytes_read = 0
    BY DEF Init, BufferInit
  <2>2. Pieces = 0
    <3>1. /\ INCREMENT \in Nat \ {0} /\ 0 \in Int /\ 0 + INCREMENT - 1 \in Int
          /\ INCREMENT * 0 <= 0 + INCREMENT - 1
          /\ 0 + INCREMENT - 1 < INCREMENT * 0 + INCREMENT
      BY ONLY IncrementAssumption
    <3>2. (0 + INCREMENT - 1) \div INCREMENT = 0
      BY ONLY <3>1, QuotientIs
    <3> QED
      BY <2>1, <3>2 DEF Pieces
  <2>3. INCREMENT * 0 = 0 /\ 0 + 0 + 0 = 0 /\ 0 \in 0..0
    BY ONLY IncrementAssumption
  <2>4. Most = 0
    BY <2>1 DEF Most, AskedAtEnd, AtRest
  <2>5. Grown(0) /\ bytes_read = INCREMENT * Pieces
    BY <2>1, <2>2, <2>3 DEF Grown
  <2>6. Extra(Most)
    BY <2>3, <2>4, <2>5 DEF Extra
  <2> QED
    BY <2>1, <2>5, <2>6 DEF BoundInv, AtRest
<1>2. Inv /\ BoundInv => BufferBounded
  <2> SUFFICES ASSUME Inv, BoundInv PROVE BufferBounded
    OBVIOUS
  <2>1. tasks \in Nat /\ tasks + 1 \in Nat /\ tasks <= tasks + 1
    BY Successor DEF BoundInv
  <2>2. Extra(tasks) \/ Extra(tasks + 1)
    BY DEF BoundInv, Most
  <2>3. Extra(tasks + 1)
    BY <2>1, <2>2, ExtraWeaker
  <2> QED
    BY <2>3 DEF BufferBounded, Extra, Grown, Pieces
<1> QED
  BY <1>1, <1>2, StepKeepsBound, InvCorrect, StringAlways, PTL DEF Spec
=============================================================================
