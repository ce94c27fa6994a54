--------------------------- MODULE TextPositions ---------------------------
(***************************************************************************)
(* What reads the input buffer besides the parser's macros: the strings    *)
(* that node extents are turned into, the table of line ends, the lines    *)
(* assigned to syntax nodes, and the message that parsergen's main prints  *)
(* about an error, with a caret under the place.                           *)
(*                                                                         *)
(* main builds the table once the parse is over, from a buffer that every  *)
(* failed read of the parse has made longer; strings and messages are      *)
(* asked for after that, at most MaxTasks of them in one behaviour.        *)
(***************************************************************************)
EXTENDS InputBuffer, NarwhalArray, FiniteSets

CONSTANTS
  MaxTasks,
  MaxEndReads    \* how many reads of the parse may meet the end of the file

ASSUME MaxTasksAssumption == MaxTasks \in Nat
ASSUME MaxEndReadsAssumption == MaxEndReads \in Nat

VARIABLES
  task,          \* the loop that is running, or the one that is over
  tasks,         \* how many were begun after the table
  end_reads,     \* those reads so far; the program does not count them
  line_endings,  \* array_t of int
  eol_pos,       \* find_line_endings: a '\r' waits for what follows it
  span,          \* read_string: begin, end, and whether into a char[]
  error_pos,     \* print_errors: the position of the error
  str,           \* array_t of characters: the string or the line
  caret_pos, index

vars == <<bufferVars, task, tasks, end_reads, line_endings, eol_pos, span, error_pos,
          str, caret_pos, index>>

LF == 10
CR == 13

NoSpan == [begin |-> 0, end |-> 0, narrow |-> FALSE]

AtRest == task \in {"table made", "string read", "message printed"}

-----------------------------------------------------------------------------
(* Nodes and errors lie inside of the text (PositionsOrdered), and so does *)
(* the cursor of the parser.                                               *)
Positions == 0..Len(file)

(* parse_peg_spec reads where it likes, and again.  What it makes of the   *)
(* characters is nothing to the buffer.                                    *)
Parse ==
  /\ task \in {"start", "parse"}
  /\ end_reads < MaxEndReads
  /\ task' = "parse"
  /\ \E pos \in Positions : Use(pos, TRUE)
  /\ UNCHANGED <<tasks, end_reads, line_endings, eol_pos, span, error_pos, str,
                 caret_pos, index>>

(* input_buffer_find_line_endings, from the beginning of the root node. *)
find_line_endings ==
  /\ task = "parse"
  /\ task' = "line endings"
  /\ line_endings' = array_init(0)
  /\ eol_pos' = 0
  /\ Use(0, TRUE)
  /\ UNCHANGED <<tasks, end_reads, span, error_pos, str, caret_pos, index>>

(* Some character other than '\n' and '\r' completes a '\r' seen before. *)
EndingsUpToNow_MissesLoneCR ==
  IF ch = LF THEN array_add(line_endings, current_pos) ELSE line_endings

EndingsUpToNow ==
  CASE ch = LF -> array_add(line_endings, current_pos)
    [] ch \notin {LF, CR} /\ eol_pos > 0 -> array_add(line_endings, eol_pos)
    [] OTHER -> line_endings

EndingsChar ==
  /\ task = "line endings"
  /\ ~reading
  /\ IF ch # WEOF
     THEN /\ line_endings' = EndingsUpToNow
          /\ eol_pos' = IF ch = CR THEN current_pos ELSE 0
          /\ task' = task
          /\ Use(current_pos, TRUE)
     ELSE /\ line_endings' = array_add(EndingsUpToNow, current_pos)
          /\ eol_pos' = 0
          /\ task' = "table made"
          /\ Use(current_pos, FALSE)
  /\ UNCHANGED <<tasks, end_reads, span, error_pos, str, caret_pos, index>>

(* input_buffer_find_line: the first line that ends beyond the position. *)
LinesBeyond(pos) ==
  {i \in 1..array_size(line_endings) : pos < array_item(line_endings, i - 1)}

find_line(pos) ==
  IF LinesBeyond(pos) # {}
  THEN CHOOSE i \in LinesBeyond(pos) : \A j \in LinesBeyond(pos) : i <= j
  ELSE IF pos = array_item(line_endings, array_size(line_endings) - 1)
       THEN array_size(line_endings)
       ELSE -1

(* assign_line_number *)
assign_line_number(begin, end) ==
  [first_line |-> find_line(begin),
   last_line  |-> find_line(IF begin >= end THEN begin ELSE end - 1)]

-----------------------------------------------------------------------------
BeginTask(name) ==
  /\ AtRest /\ tasks < MaxTasks
  /\ task' = name
  /\ tasks' = tasks + 1

(* input_buffer_read_string for the extent of a node; the input_buffer     *)
(* code of a generated parser has a second one that reads into char[].     *)
read_string(begin, end, narrow) ==
  /\ BeginTask("string")
  /\ span' = [begin |-> begin, end |-> end, narrow |-> narrow]
  /\ str' = array_clear(str)
  /\ Use(begin, begin < end)
  /\ UNCHANGED <<end_reads, line_endings, eol_pos, error_pos, caret_pos, index>>

(* A WEOF is not added.  wctob gives EOF, the same number, for every       *)
(* character that is not a single byte.                                    *)
Kept == ch # WEOF /\ (span.narrow => ch >= 0)

MoreToRead_OneMore == current_pos <= span.end

MoreToRead == current_pos < span.end

StringChar ==
  /\ task = "string" /\ span.begin < span.end
  /\ ~reading
  /\ LET read == IF Kept THEN array_add(str, ch) ELSE str
     IN  IF MoreToRead
         THEN str' = read /\ task' = task /\ Use(current_pos, TRUE)
         ELSE str' = array_add(read, 0) /\ task' = "string read" /\ Use(current_pos, FALSE)
  /\ UNCHANGED <<tasks, end_reads, line_endings, eol_pos, span, error_pos, caret_pos, index>>

EmptyString ==
  /\ task = "string" /\ span.begin >= span.end
  /\ str' = array_add(str, 0)
  /\ task' = "string read"
  /\ UNCHANGED <<bufferVars, tasks, end_reads, line_endings, eol_pos, span, error_pos,
                 caret_pos, index>>

-----------------------------------------------------------------------------
(* print_errors, for one error: its line is read again, from the end of    *)
(* the line before it.                                                     *)
line_pos(line) == IF line > 1 THEN array_item(line_endings, line - 2) ELSE 0

print_errors(pos) ==
  /\ BeginTask("message")
  /\ error_pos' = pos
  /\ str' = array_init(0)
  /\ caret_pos' = 0 /\ index' = 0
  /\ Use(line_pos(find_line(pos)), TRUE)
  /\ UNCHANGED <<end_reads, line_endings, eol_pos, span>>

CaretAt_NextChar == IF current_pos = error_pos + 1 THEN index ELSE caret_pos

CaretAt == IF current_pos = error_pos THEN index ELSE caret_pos

MessageChar ==
  /\ task = "message"
  /\ ~reading
  /\ IF ch \notin {WEOF, LF, CR}
     THEN /\ str' = array_add(str, ch)
          /\ caret_pos' = CaretAt
          /\ index' = index + 1
          /\ task' = task
          /\ Use(current_pos, TRUE)
     ELSE /\ str' = array_add(str, 0)
          /\ task' = "message printed"
          /\ Use(current_pos, FALSE)
          /\ UNCHANGED <<caret_pos, index>>
  /\ UNCHANGED <<tasks, end_reads, line_endings, eol_pos, span, error_pos>>

(* fprintf takes the line as far as its first 0.  A negative wchar_t has   *)
(* no multibyte form: one of them and nothing is printed, no newline       *)
(* either.                                                                 *)
LineChars ==
  LET nuls == {i \in 1..array_size(str) : array_item(str, i - 1) = 0}
  IN  SubSeq(str.cells, 1, (CHOOSE i \in nuls : \A j \in nuls : i <= j) - 1)

LinePrinted == \A i \in 1..Len(LineChars) : LineChars[i] >= 0

(* Blanks printed before the caret, on the row after the line if that was  *)
(* printed; the line would begin in column 0.                              *)
CaretColumn == caret_pos + 1

-----------------------------------------------------------------------------
Init ==
  /\ BufferInit
  /\ task = "start" /\ tasks = 0 /\ end_reads = 0
  /\ line_endings = array_init(0)
  /\ eol_pos = 0
  /\ span = NoSpan
  /\ error_pos = 0
  /\ str = array_init(0)
  /\ caret_pos = 0 /\ index = 0

ReadChar ==
  /\ read_char
  /\ end_reads' = IF task = "parse" /\ EndOfFile THEN end_reads + 1 ELSE end_reads
  /\ UNCHANGED <<task, tasks, line_endings, eol_pos, span, error_pos, str, caret_pos, index>>

Next ==
  \/ ReadChar
  \/ Parse
  \/ find_line_endings \/ EndingsChar
  \/ \E begin, end \in Positions, narrow \in BOOLEAN :
       begin <= end /\ read_string(begin, end, narrow)
  \/ StringChar \/ EmptyString
  \/ \E pos \in Positions : print_errors(pos)
  \/ MessageChar

Spec == Init /\ [][Next]_vars

-----------------------------------------------------------------------------
(* Properties *)

(* How many of the places in S come up to n. *)
Rank(S, n) == Cardinality({i \in S : i <= n})

(* The text as far as find_line_endings gets: it stops after a byte 255. *)
Scanned ==
  LET ends == {i \in 1..Len(file) : Wide(file[i]) = WEOF}
  IN  IF ends = {} THEN file
      ELSE SubSeq(file, 1, CHOOSE i \in ends : \A j \in ends : i <= j)

(* A line ends after "\n", after "\r\n" and after any other "\r": the      *)
(* EndOfLine of the grammar (peg_parser.c:555).                            *)
EndOfLine(i) ==
  \/ Scanned[i] = LF
  \/ Scanned[i] = CR /\ ~(i < Len(Scanned) /\ Scanned[i + 1] = LF)

LineEnds == {i \in 1..Len(Scanned) : EndOfLine(i)}

(* eol_pos holds one "\r": the next one takes the place of it.             *)
LostEnds == {i \in LineEnds : i < Len(Scanned) /\ Scanned[i] = CR /\ Scanned[i + 1] = CR}

LineOf(pos) ==
  IF pos > Len(Scanned) THEN -1 ELSE 1 + Rank(LineEnds, pos) - Rank(LostEnds, pos)

(* The lines given to a node are the ones its first and its last character *)
(* stand on in the text, whatever line ends it uses and whether its last   *)
(* line has one, but counted without every "\r" that another "\r" follows: *)
(* find_line_endings does not find all the line ends                       *)
(* (narwhal_buffers.c:159), and every line after such a one has a number   *)
(* too low.  Positions after a byte 255 have no line.                      *)
LinesButForLostEnds ==
  AtRest =>
    \A begin \in Positions : \A end \in begin..Len(file) :
      assign_line_number(begin, end) =
        [first_line |-> LineOf(begin),
         last_line  |-> LineOf(IF end > begin THEN end - 1 ELSE begin)]

(* The string of a node is its text: reading it again, from any place and  *)
(* with whatever the buffer holds at the time, leaves out nothing but the  *)
(* bytes that a wide character, or a char made from one, cannot hold.  The *)
(* others stand in it in their order, each after as many as come before    *)
(* it, and a 0 after them all.                                             *)
Readable ==
  {i \in (span.begin + 1)..span.end :
     Wide(file[i]) # WEOF /\ (span.narrow => file[i] < 128)}

StringRead ==
  task = "string read" =>
    /\ Len(Contents(str)) = Rank(Readable, span.end) + 1
    /\ \A i \in Readable : Contents(str)[Rank(Readable, i)] = Wide(file[i])
    /\ Contents(str)[Len(Contents(str))] = 0

(* The message shows the line of the error, also behind line ends that     *)
(* the table has lost: all of it up to its line end, a byte 255 or a 0,    *)
(* with the caret under the character the error is at, or one column too   *)
(* far to the right for an error in the first column.  With any byte       *)
(* above 127 before that stop the line is not printed at all, and the      *)
(* caret stands under nothing (parsergen.c:215).                           *)
LineStart(pos) ==
  LET before == {i \in LineEnds : i <= pos}
  IN  IF before = {} THEN 0 ELSE CHOOSE i \in before : \A j \in before : j <= i

Stops == {0, LF, CR, 255}

MessageShowsError ==
  task = "message printed" /\ error_pos < Len(Scanned)
    /\ Scanned[error_pos + 1] \notin {LF, CR} =>
    LET start  == LineStart(error_pos)
        column == error_pos - start
        n      == Len(LineChars)
    IN  /\ \A i \in 1..n : LineChars[i] = Wide(file[start + i]) /\ file[start + i] \notin Stops
        /\ start + n = Len(file) \/ file[start + n + 1] \in Stops
        /\ LinePrinted <=> \A i \in 1..n : file[start + i] < 128
        /\ CaretColumn = IF column = 0 THEN 1 ELSE column

(* The buffer is as long as the pieces of the file it holds, one increment *)
(* for every read of the parse that met the end of the file, and at most   *)
(* one for each loop after it: no increment that a failed read has added   *)
(* is ever used, but no loop asks twice at the end of the file, and a      *)
(* string never asks there.                                                *)
BufferBounded ==
  \E n \in 0..(tasks + 1) :
    buf_size = INCREMENT * ((bytes_read + INCREMENT - 1) \div INCREMENT + end_reads + n)

(* The arrays the loops fill never write beyond their memory. *)
ArraysFit ==
  /\ IsArray(line_endings, Nat)
  /\ IsArray(str, Int)

(* Nothing is written beyond the memory allocated for it: by fread into    *)
(* the buffer, wherever the cursor was set before, and by array_add, which *)
(* the lines, the strings and the line of a message are collected with.    *)
MemoryFits == BytesFit /\ ArraysFit
=============================================================================
