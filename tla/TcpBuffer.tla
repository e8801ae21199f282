----------------------------- MODULE TcpBuffer ------------------------------
(***************************************************************************)
(* The conversation between the query client (bin/query.cc) and a session  *)
(* (bin/server.cc, network/tcp_buffer.h): the client sends the length of   *)
(* the query and the query; the session answers with blocks of             *)
(* BUFFER_SIZE bytes, each with a status byte and a length of two bytes,   *)
(* the last one marked.  The n-th byte of the output is the number n.      *)
(***************************************************************************)
EXTENDS Integers, Sequences

CONSTANTS
  BUFFER_SIZE,  \* size of a block, header included
  Byte,         \* how many values a byte has (256), an even number
  MaxOutput,    \* bound: bytes the session writes
  QueryLengths, \* bound: the lengths of the queries
  MaxInFlight   \* bound: no flush while so many blocks are on their way

HEADER == 3
Codes == {"success", "query_error", "logic_error", "timeout", "unexpected_error"}

\* "BUFFER_SIZE MUST BE LESS THAN 65536 (2^16)" (communication_protocol.h).
ASSUME TcpAssumption ==
  /\ Byte \in Nat /\ Byte > 1 /\ Byte % 2 = 0
  /\ BUFFER_SIZE \in Nat /\ BUFFER_SIZE > HEADER /\ BUFFER_SIZE < Byte * Byte
  /\ MaxOutput \in Nat /\ QueryLengths \subseteq Nat /\ MaxInFlight \in Nat

VARIABLES
  query_length,  \* length of the query the client sends
  query_size,    \* what the session decoded, Unread before it did
  buffer,        \* TcpBuffer::buffer without the header bytes
  header,        \* the header bytes: status, last block, two bytes of length
  current_pos,   \* TcpBuffer::current_pos
  remaining,     \* bytes that the running xsputn has still to copy
  written,       \* bytes handed to the stream and copied
  sock,          \* the session's socket: "open", "closed", or "destroyed" with the buffer
  up,            \* the connection works
  channel,       \* blocks on their way
  out,           \* what the client printed
  exit           \* the client's exit status, "none" while it reads

serverVars == <<buffer, header, current_pos, remaining, written, sock>>
clientVars == <<out, exit>>
queryVars  == <<query_length, query_size>>
vars == <<queryVars, serverVars, up, channel, clientVars>>

-----------------------------------------------------------------------------
(* The length of the query: BYTES_FOR_QUERY_LENGTH = 4 bytes, low first.    *)

\* What one in each of the four bytes counts.
Place == <<1, Byte, Byte * Byte, Byte * Byte * Byte>>
Lengths == Byte * Byte * Byte * Byte
Unread == - Lengths

EncodeLength(n) == [i \in 1 .. 4 |-> (n \div Place[i]) % Byte]

\* The session adds the shifted bytes into an int, which has four bytes and a
\* sign.
\* Mutant: the bytes are read high first.
DecodeSwapped(b) == b[4] + b[3] * Place[2] + b[2] * Place[3] + b[1] * Place[4]
DecodeLength(b) ==
  LET sum == b[1] + b[2] * Place[2] + b[3] * Place[3] + b[4] * Place[4]
  IN  IF sum < Lengths \div 2 THEN sum ELSE sum - Lengths

Init ==
  /\ query_length \in QueryLengths
  /\ query_size = Unread
  /\ buffer = [i \in HEADER .. BUFFER_SIZE - 1 |-> 0]
  /\ header = [status |-> "unexpected_error", last |-> FALSE, b1 |-> 0, b2 |-> 0]
  /\ current_pos = HEADER
  /\ remaining = 0 /\ written = 0
  /\ sock = "open" /\ up = TRUE
  /\ channel = << >>
  /\ out = << >> /\ exit = "none"

\* The session reads the length, resizes its string to it and reads it.  A
\* negative length is too large for resize: the exception ends the session
\* before it has a TcpBuffer, and so does a connection that breaks.
ReadQuery ==
  LET size == DecodeLength(EncodeLength(query_length))
  IN  /\ query_size = Unread /\ sock = "open"
      /\ \/ query_size' = size /\ sock' = IF size < 0 THEN "destroyed" ELSE sock
         \/ ~up /\ sock' = "destroyed" /\ UNCHANGED query_size
      /\ UNCHANGED <<query_length, buffer, header, current_pos, remaining, written, up,
                     channel, clientVars>>

-----------------------------------------------------------------------------
(* The session's side.                                                      *)

Writing == query_size >= 0 /\ sock = "open"

\* send(), from a buffer filled up to pos: the block leaves, or the socket is
\* closed and ConnectionException thrown.
Send(buf, hd, pos) ==
  LET sealed == [hd EXCEPT !.b1 = pos % Byte, !.b2 = (pos \div Byte) % Byte]
  IN  /\ buffer' = buf /\ header' = sealed
      /\ current_pos' = HEADER
      /\ channel' = IF up THEN Append(channel, [header |-> sealed, bytes |-> buf])
                          ELSE channel

SocketAfterSend == IF up THEN "open" ELSE "closed"

\* The buffer after n more bytes are copied at current_pos.
Filled(n) ==
  [i \in HEADER .. BUFFER_SIZE - 1 |->
     IF i \in current_pos .. current_pos + n - 1
       THEN written + 1 + (i - current_pos) ELSE buffer[i]]

Full(pos) == pos = BUFFER_SIZE

\* One character.
Overflow ==
  /\ Writing /\ remaining = 0 /\ written < MaxOutput
  /\ written' = written + 1
  /\ IF Full(current_pos + 1)
       THEN Send(Filled(1), header, current_pos + 1) /\ sock' = SocketAfterSend
       ELSE /\ buffer' = Filled(1)
            /\ current_pos' = current_pos + 1
            /\ UNCHANGED <<header, channel, sock>>
  /\ UNCHANGED <<queryVars, remaining, up, clientVars>>

\* xsputn(s, n) starts.
Xsputn(n) ==
  /\ Writing /\ remaining = 0 /\ written + n <= MaxOutput
  /\ remaining' = n
  /\ UNCHANGED <<queryVars, buffer, header, current_pos, written, sock, up, channel,
                 clientVars>>

\* Mutant: the last byte of the block is not used.
RoomShort == BUFFER_SIZE - current_pos - 1
Room == BUFFER_SIZE - current_pos

\* Its last turn: what remains fits and leaves room.
CopyRest ==
  /\ Writing /\ remaining > 0 /\ remaining < Room
  /\ buffer' = Filled(remaining)
  /\ current_pos' = current_pos + remaining
  /\ written' = written + remaining
  /\ remaining' = 0
  /\ UNCHANGED <<queryVars, header, sock, up, channel, clientVars>>

\* Another turn: the buffer is filled and sent.
CopyMax ==
  /\ Writing /\ remaining > 0 /\ remaining >= Room
  /\ Send(Filled(Room), header, BUFFER_SIZE)
  /\ written' = written + Room
  /\ remaining' = IF up THEN remaining - Room ELSE 0
  /\ sock' = SocketAfterSend
  /\ UNCHANGED <<queryVars, up, clientVars>>

\* sync(): the block is sent as it is, even when it is empty.
Sync ==
  /\ Writing /\ remaining = 0 /\ Len(channel) < MaxInFlight
  /\ Send(buffer, header, current_pos)
  /\ sock' = SocketAfterSend
  /\ UNCHANGED <<queryVars, remaining, written, up, clientVars>>

SetStatus(code) ==
  /\ Writing /\ remaining = 0
  /\ header' = [header EXCEPT !.status = code, !.last = FALSE]
  /\ UNCHANGED <<queryVars, buffer, current_pos, remaining, written, sock, up, channel,
                 clientVars>>

\* ~TcpBuffer: the last block, unless the socket was closed.
\* Mutant: nothing is sent when the buffer is empty.
LastBlockIfAny == current_pos > HEADER
LastBlock == TRUE

\* Mutant: the last block carries the status only.
LastLengthEmpty == HEADER
LastLength == current_pos

Destroy ==
  /\ query_size >= 0 /\ remaining = 0
  /\ sock \in {"open", "closed"}
  /\ IF sock = "open" /\ LastBlock
       THEN Send(buffer, [header EXCEPT !.last = TRUE], LastLength)
       ELSE UNCHANGED <<buffer, header, current_pos, channel>>
  /\ sock' = "destroyed"
  /\ UNCHANGED <<queryVars, remaining, written, up, clientVars>>

-----------------------------------------------------------------------------
(* The client's side, and the connection between them.                      *)

Break ==
  /\ up
  /\ up' = FALSE
  /\ UNCHANGED <<queryVars, serverVars, channel, clientVars>>

\* A block is printed without its header; the last one gives the exit status.
Read ==
  /\ exit = "none" /\ channel # << >>
  /\ LET block == Head(channel)
         reply_length == block.header.b1 + block.header.b2 * Byte
     IN /\ out' = out \o [i \in 1 .. reply_length - HEADER |-> block.bytes[HEADER - 1 + i]]
        /\ exit' = IF block.header.last THEN block.header.status ELSE "none"
  /\ channel' = Tail(channel)
  /\ UNCHANGED <<queryVars, serverVars, up>>

\* Reading fails: the connection broke, and blocks on their way may be lost;
\* or the session ended and closed it.
ReadFails ==
  /\ exit = "none"
  /\ ~up \/ (sock = "destroyed" /\ channel = << >>)
  /\ exit' = "connection_error"
  /\ UNCHANGED <<queryVars, serverVars, up, channel, out>>

Done == exit # "none" /\ sock = "destroyed" /\ UNCHANGED vars

Next ==
  \/ ReadQuery
  \/ Overflow \/ (\E n \in 0 .. MaxOutput : Xsputn(n)) \/ CopyRest \/ CopyMax \/ Sync
  \/ (\E code \in Codes : SetStatus(code))
  \/ Destroy
  \/ Break \/ Read \/ ReadFails
  \/ Done

Spec == Init /\ [][Next]_vars

-----------------------------------------------------------------------------
Pending == SubSeq([i \in 1 .. BUFFER_SIZE - HEADER |-> buffer[HEADER - 1 + i]],
                  1, current_pos - HEADER)

TypeOK ==
  /\ query_length \in QueryLengths /\ query_size \in Int
  /\ current_pos \in HEADER .. BUFFER_SIZE - 1
  /\ remaining \in 0 .. MaxOutput /\ written \in 0 .. MaxOutput
  /\ header.status \in Codes /\ header.last \in BOOLEAN
  /\ header.b1 \in 0 .. Byte - 1 /\ header.b2 \in 0 .. Byte - 1
  /\ sock \in {"open", "closed", "destroyed"} /\ up \in BOOLEAN
  /\ exit \in Codes \cup {"none", "connection_error"}

\* The client prints a prefix of what the session wrote, in order, nothing
\* twice, whatever mixture of characters, strings and flushes it was written
\* with and wherever a string met the end of a block.
PrintsPrefix ==
  /\ TypeOK
  /\ Len(out) <= written
  /\ \A i \in 1 .. Len(out) : out[i] = i

\* A client that got the last block printed everything, and its exit status
\* is the one the session set last; otherwise it knows that it did not.
CompleteOrError ==
  exit \notin {"none", "connection_error"} =>
    Len(out) = written /\ sock = "destroyed" /\ exit = header.status

\* Without a broken connection the client never reports an error of it: the
\* session sends a last block, unless the length of the query is one that an int
\* does not hold.
LastBlockArrives ==
  exit = "connection_error" /\ query_length < Lengths \div 2 => ~up

\* A query of fewer than half of the lengths that four bytes can express is
\* read in full.
ShortQueryArrives ==
  query_size # Unread /\ query_length < Lengths \div 2 => query_size = query_length
=============================================================================
