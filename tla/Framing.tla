------------------------------- MODULE Framing -------------------------------
(***************************************************************************)
(* How handle_client (src/server/main_server.py) cuts command lines out of *)
(* what recv returns: pieces of the byte stream that need not end where a  *)
(* line ends.  A byte is CR, LF or any other value.                        *)
(***************************************************************************)
EXTENDS Naturals, Sequences, SequencesExt

CONSTANTS
  CR, LF,
  Streams,               \* what a client may send on one connection
  ChunkSize,             \* the argument of recv
  MAX_COMMAND_LENGTH

ASSUME FramingAssumption ==
  /\ CR # LF
  /\ ChunkSize \in Nat \ {0} /\ MAX_COMMAND_LENGTH \in Nat \ {0}
  /\ ChunkSize <= MAX_COMMAND_LENGTH + 1                \* in the code 1024 and 4096
  /\ \A bytes \in Streams : bytes \in Seq(Range(bytes))

VARIABLES
  stream,                \* everything the client sends
  taken,                 \* number of bytes that recv has returned
  buffer,
  dispatched,            \* the lines given to handle_command
  refused                \* the connection was closed over the length of a command

framing_vars == <<stream, taken, buffer, dispatched, refused>>

FramingInit ==
  /\ stream \in Streams
  /\ taken = 0 /\ buffer = <<>> /\ dispatched = <<>> /\ refused = FALSE

HasLine(bytes) == \E i \in 1..(Len(bytes) - 1) : bytes[i] = CR /\ bytes[i + 1] = LF
LineEnd(bytes) ==
  CHOOSE i \in 1..(Len(bytes) - 1) :
    /\ bytes[i] = CR /\ bytes[i + 1] = LF
    /\ \A j \in 1..(i - 1) : ~(bytes[j] = CR /\ bytes[j + 1] = LF)

(* strip("\r\n"): CRs and LFs of both ends, in any order.                    *)
Stripped(line) ==
  LET kept == {i \in 1..Len(line) : line[i] \notin {CR, LF}}
  IN IF kept = {} THEN <<>>
     ELSE SubSeq(line, CHOOSE i \in kept : \A j \in kept : i <= j,
                       CHOOSE i \in kept : \A j \in kept : j <= i)

(* Mutant of Received: every piece is a buffer of its own.                   *)
ReceivedAlone(bytes) == bytes

Received(bytes) == buffer \o bytes

(* recv and extend; a buffer without a line that is too long ends it all.    *)
Receive ==
  /\ ~refused /\ ~HasLine(buffer)
  /\ \E n \in 1..ChunkSize :
       LET bytes == SubSeq(stream, taken + 1, taken + n) IN
       /\ taken + n <= Len(stream)
       /\ taken' = taken + n
       /\ buffer' = Received(bytes)
       /\ refused' = (~HasLine(buffer') /\ Len(buffer') > MAX_COMMAND_LENGTH)
  /\ UNCHANGED <<stream, dispatched>>

(* partition at the first CRLF; an empty line is skipped.                    *)
CutLine ==
  /\ ~refused /\ HasLine(buffer)
  /\ LET line == SubSeq(buffer, 1, LineEnd(buffer) - 1) IN
     /\ buffer' = SubSeq(buffer, LineEnd(buffer) + 2, Len(buffer))
     /\ refused' = (Len(line) > MAX_COMMAND_LENGTH)
     /\ dispatched' = IF refused' \/ Stripped(line) = <<>> THEN dispatched
                                                         ELSE Append(dispatched, Stripped(line))
  /\ UNCHANGED <<stream, taken>>

FramingNext == Receive \/ CutLine

FramingSpec == FramingInit /\ [][FramingNext]_framing_vars

-----------------------------------------------------------------------------
(* Properties *)

(* The lines of the stream, one for each place of a line end.                *)
EndsBefore(n) == {i \in 1..(n - 1) : stream[i] = CR /\ stream[i + 1] = LF}
LineUpTo(i) ==
  LET begin == {j + 2 : j \in EndsBefore(i)} \cup {1}
  IN SubSeq(stream, CHOOSE b \in begin : \A c \in begin : c <= b, i - 1)
CommandsUpTo(n) ==
  FlattenSeq([i \in 1..n |->
    IF i \in EndsBefore(n) /\ Stripped(LineUpTo(i)) # <<>> THEN <<Stripped(LineUpTo(i))>>
                                                         ELSE <<>>])

(* The bytes after the last line end, less a CR that may begin the next.     *)
Unfinished ==
  LET rest == SubSeq(stream, taken - Len(buffer) + 1, taken)
  IN IF Last(rest) = CR THEN Front(rest) ELSE rest

(* However recv splits the stream, what handle_command gets are its lines,   *)
(* in order, none lost, joined or cut in two; none is longer than            *)
(* MAX_COMMAND_LENGTH, the buffer that waits for more is bounded too, and a  *)
(* connection is never closed over a line that is shorter than the limit.    *)
(* (A line of exactly the limit is refused when recv ends between its CR and *)
(* its LF.)                                                                  *)
LinesAreCut ==
  /\ ~refused => dispatched = CommandsUpTo(taken - Len(buffer))
  /\ \A k \in 1..Len(dispatched) : Len(dispatched[k]) <= MAX_COMMAND_LENGTH
  /\ ~refused => Len(buffer) <= MAX_COMMAND_LENGTH + ChunkSize
  /\ refused =>
       \/ \E i \in EndsBefore(taken) : Len(LineUpTo(i)) >= MAX_COMMAND_LENGTH
       \/ Len(Unfinished) >= MAX_COMMAND_LENGTH
=============================================================================
