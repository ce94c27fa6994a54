---------------------------- MODULE InputBuffer ----------------------------
(***************************************************************************)
(* The input buffer of src/narwhal_utils/narwhal_buffers.c: a file is read *)
(* a piece at a time into memory that grows as the cursor moves on, and    *)
(* every byte read so far stays there.  input_buffer_read_char is a loop,  *)
(* here one action per turn; `reading' says that the caller is in it.      *)
(***************************************************************************)
EXTENDS Integers, Sequences

CONSTANTS
  Files,       \* the contents a file may have: sequences of bytes
  INCREMENT    \* INPUT_BUFFER_SIZE_INCREMENT

ASSUME FilesAssumption == Files \subseteq Seq(0..255)
ASSUME IncrementAssumption == INCREMENT \in Nat \ {0}

VARIABLES
  file,          \* what is in the file
  buf_size,      \* bytes allocated
  bytes_read,    \* bytes filled; they are the first ones of the file
  current_pos,
  reading,       \* a call of input_buffer_read_char is under way
  ch             \* what the last one returned

bufferVars == <<file, buf_size, bytes_read, current_pos, reading, ch>>

(* A wchar_t of four bytes that holds what a signed char held: bytes from  *)
(* 128 on are negative, and 255 is the value of WEOF.                      *)
WEOF == -1

Wide(byte) == IF byte < 128 THEN byte ELSE byte - 256

Smaller(a, b) == IF a <= b THEN a ELSE b

-----------------------------------------------------------------------------
(* Between two calls of read_char its caller may move the cursor (setpos,  *)
(* or an assignment to current_pos) and call again.                        *)
Use(pos, again) ==
  /\ ~reading
  /\ current_pos' = pos
  /\ reading' = again
  /\ UNCHANGED <<file, buf_size, bytes_read, ch>>

ReadMore ==
  /\ reading /\ current_pos >= bytes_read
  /\ bytes_read < Len(file)
  /\ buf_size' = buf_size + INCREMENT
  /\ bytes_read' = bytes_read + Smaller(INCREMENT, Len(file) - bytes_read)
  /\ UNCHANGED <<file, current_pos, reading, ch>>

(* At the end of the file the buffer has grown all the same. *)
EndOfFile ==
  /\ reading /\ current_pos >= bytes_read
  /\ bytes_read = Len(file)
  /\ buf_size' = buf_size + INCREMENT
  /\ ch' = WEOF
  /\ reading' = FALSE
  /\ UNCHANGED <<file, bytes_read, current_pos>>

TakeChar_NextByte ==
  /\ reading /\ current_pos < bytes_read
  /\ ch' = Wide(file[Smaller(current_pos + 2, bytes_read)])
  /\ current_pos' = current_pos + 1
  /\ reading' = FALSE
  /\ UNCHANGED <<file, buf_size, bytes_read>>

TakeChar ==
  /\ reading /\ current_pos < bytes_read
  /\ ch' = Wide(file[current_pos + 1])
  /\ current_pos' = current_pos + 1
  /\ reading' = FALSE
  /\ UNCHANGED <<file, buf_size, bytes_read>>

read_char == ReadMore \/ EndOfFile \/ TakeChar

(* input_buffer_create, and the calloc in it. *)
BufferInit ==
  /\ file \in Files
  /\ buf_size = 0 /\ bytes_read = 0 /\ current_pos = 0
  /\ reading = FALSE
  /\ ch = WEOF

(* The buffer under any reader at all. *)
BufferNext == read_char \/ (\E pos \in Nat, again \in BOOLEAN : Use(pos, again))

BufferSpec == BufferInit /\ [][BufferNext]_bufferVars

-----------------------------------------------------------------------------
BufferTypeOK ==
  /\ file \in Files
  /\ buf_size \in Nat /\ bytes_read \in Nat /\ current_pos \in Nat
  /\ reading \in BOOLEAN
  /\ ch \in Int

(* fread is given buf + bytes_read and room for INCREMENT bytes right      *)
(* after the buffer has grown by as much: what was filled before must have *)
(* fitted already, or fread writes past the memory.  The unread slack of a *)
(* short read and of every read at the end of the file is never used up,   *)
(* and never needed.                                                       *)
BytesFit == bytes_read <= buf_size /\ bytes_read <= Len(file)

(* The buffer reads a text, whatever it holds of it: the promise that the  *)
(* parser's macros, which set the cursor back and forth, are built on.     *)
WideText(bytes) == [i \in 1..Len(bytes) |-> Wide(bytes[i])]

Reader == INSTANCE TextReader
            WITH Texts <- {WideText(f) : f \in Files}, text <- WideText(file),
                 pos <- current_pos

ReadsText == Reader!Spec
=============================================================================
