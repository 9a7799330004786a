------------------------------ MODULE TextSock ------------------------------
(***************************************************************************)
(* The line reader of a text socket (src/src/modules/mod_textfile.c): a    *)
(* buffer in which the unread data lie between read_off and write_off, the *)
(* callback that reads a chunk and posts an event for every line, and the  *)
(* loss and the reconnection of the socket.                                *)
(*                                                                         *)
(* A character is a newline or not.  Each one that read() delivers is known *)
(* by its position in the stream received so far, and the buffer holds     *)
(* these positions: what a posted line contains, and where a character got *)
(* lost or came twice, is therefore visible.                               *)
(***************************************************************************)
EXTENDS Integers, Sequences, FiniteSets

CONSTANTS
  MAX_LINE_SZ,  \* the longest line that is posted, its newline included
  MaxReceived   \* bound: characters received in a behaviour

ASSUME LineAssumption == MAX_LINE_SZ \in Nat \ {0} /\ MaxReceived \in Nat

Newline   == "nl"
Other     == "c"
Character == {Newline, Other}

buf_sz  == 2 * MAX_LINE_SZ + 1
Offset  == 0 .. buf_sz - 1

VARIABLES
  buf,        \* offset -> position of its character in received, 0 at first
  read_off,   \* start of the line that is being received
  write_off,  \* end of the data
  too_long,   \* flag TEXTSOCK_LINE_TOO_LONG
  line,       \* number of lines seen
  p,          \* how far the data are parsed
  pc,         \* "idle", or "parse" inside of textsocket_callback()
  watched,    \* select() watches the descriptor
  open,       \* the other side has not closed the connection
  received,   \* everything that read() delivered
  posted      \* the events posted: number and text of a line

vars == << buf, read_off, write_off, too_long, line, p, pc, watched, open,
           received, posted >>

Unread == write_off - read_off

-----------------------------------------------------------------------------

(***************************************************************************)
(* "If unread-data is not too long, we move it back to the beginning".     *)
(***************************************************************************)
\* Mutant: there is always thought to be space.
NeedsMoveNever == FALSE

NeedsMove == buf_sz - read_off < MAX_LINE_SZ

\* Mutant: one character is left behind.
MovedOneLess ==
  IF NeedsMove
  THEN [buf |-> [n \in Offset |-> IF n < Unread - 1 THEN buf[read_off + n] ELSE buf[n]],
        read_off |-> 0, write_off |-> Unread]
  ELSE [buf |-> buf, read_off |-> read_off, write_off |-> write_off]

\* The memcpy() does not overlap, see MoveIsSafe.
Moved ==
  IF NeedsMove
  THEN [buf |-> [n \in Offset |-> IF n < Unread THEN buf[read_off + n] ELSE buf[n]],
        read_off |-> 0, write_off |-> Unread]
  ELSE [buf |-> buf, read_off |-> read_off, write_off |-> write_off]

-----------------------------------------------------------------------------

(***************************************************************************)
(* textsocket_callback(): read() delivers a chunk, fails, or returns 0     *)
(* because the connection is closed or no space was offered to it.         *)
(***************************************************************************)
\* The size that is offered to read().
Space == buf_sz - Moved.write_off

Read(chunk) ==
  /\ pc = "idle" /\ watched /\ open
  /\ chunk # << >>
  /\ Len(chunk) <= Space
  /\ Len(received) + Len(chunk) <= MaxReceived
  /\ buf' = [n \in Offset |->
               IF n \in Moved.write_off .. Moved.write_off + Len(chunk) - 1
               THEN Len(received) + 1 + n - Moved.write_off ELSE Moved.buf[n]]
  /\ received' = received \o chunk
  /\ read_off' = Moved.read_off
  /\ write_off' = Moved.write_off + Len(chunk)
  /\ p' = Moved.write_off
  /\ pc' = "parse"
  /\ UNCHANGED << too_long, line, watched, open, posted >>

\* What a read() that delivers nothing leaves behind: the data were moved.
MoveOnly ==
  /\ buf' = Moved.buf
  /\ read_off' = Moved.read_off
  /\ write_off' = Moved.write_off
  /\ p' = Moved.write_off
  /\ UNCHANGED << too_long, line, pc, open, received, posted >>

ReadFails ==
  /\ pc = "idle" /\ watched
  /\ MoveOnly
  /\ UNCHANGED watched

\* "connection lost": the descriptor is not watched until it is reconnected.
Lose ==
  /\ pc = "idle" /\ watched
  /\ ~ open \/ Space = 0
  /\ MoveOnly
  /\ watched' = FALSE

IsNewline(n) == received[buf[n]] = Newline

\* The first newline of the data that are not parsed yet ends a line at n - 1.
EndsLine(n) ==
  /\ n \in p + 1 .. write_off
  /\ IsNewline(n - 1)
  /\ \A m \in p .. n - 2 : ~ IsNewline(m)

Text(n) == [i \in 1 .. n - read_off |-> buf[read_off + i - 1]]

\* Mutant: the length of a line that came in one piece is not looked at.
PostedNoLimit(n) ==
  IF too_long THEN posted ELSE Append(posted, [num |-> line + 1, text |-> Text(n)])

\* The event of the line up to n, unless it is too long.
Posted(n) ==
  IF too_long \/ n - read_off > MAX_LINE_SZ THEN posted
  ELSE Append(posted, [num |-> line + 1, text |-> Text(n)])

ParseLine(n) ==
  /\ pc = "parse"
  /\ EndsLine(n)
  /\ line' = line + 1
  /\ posted' = Posted(n)
  /\ read_off' = n
  /\ p' = n
  /\ too_long' = FALSE
  /\ UNCHANGED << buf, write_off, pc, watched, open, received >>

\* The rest is kept for the next call; a line that is already too long is
\* marked.
ParseRest ==
  /\ pc = "parse"
  /\ \A n \in p .. write_off - 1 : ~ IsNewline(n)
  /\ too_long' = (too_long \/ Unread > MAX_LINE_SZ)
  /\ p' = write_off
  /\ pc' = "idle"
  /\ UNCHANGED << buf, read_off, write_off, line, watched, open, received, posted >>

(***************************************************************************)
(* textsocket_try_reconnect(), once connect() succeeds: the buffer stays as *)
(* it is.                                                                  *)
(***************************************************************************)
Reconnect ==
  /\ ~ watched
  /\ watched' = TRUE
  /\ open' = TRUE
  /\ UNCHANGED << buf, read_off, write_off, too_long, line, p, pc, received, posted >>

\* The other side closes the connection.
PeerCloses ==
  /\ open
  /\ open' = FALSE
  /\ UNCHANGED << buf, read_off, write_off, too_long, line, p, pc, watched,
                  received, posted >>

-----------------------------------------------------------------------------
Init ==
  /\ buf = [n \in Offset |-> 0]
  /\ read_off = 0 /\ write_off = 0 /\ p = 0
  /\ too_long = FALSE /\ line = 0
  /\ pc = "idle" /\ watched = TRUE /\ open = TRUE
  /\ received = << >> /\ posted = << >>

Chunks == UNION {[1 .. n -> Character] : n \in 1 .. buf_sz}

Next ==
  \/ \E chunk \in Chunks : Read(chunk)
  \/ ReadFails \/ Lose \/ ParseRest \/ Reconnect \/ PeerCloses
  \/ \E n \in 1 .. buf_sz : ParseLine(n)

Spec == Init /\ [][Next]_vars

-----------------------------------------------------------------------------
TypeOK ==
  /\ buf \in [Offset -> 0 .. Len(received)]
  /\ {read_off, p, write_off} \subseteq 0 .. buf_sz
  /\ too_long \in BOOLEAN /\ line \in Nat
  /\ pc \in {"idle", "parse"} /\ watched \in BOOLEAN /\ open \in BOOLEAN
  /\ received \in Seq(Character)
  /\ posted \in Seq([num : Nat, text : Seq(Nat)])

\* The unread part of the buffer is the end of what was received, in order and
\* without a gap, however the data were cut into chunks and moved.
BufferHoldsUnread ==
  /\ read_off <= p /\ p <= write_off
  /\ \A n \in read_off .. write_off - 1 : buf[n] = Len(received) - (write_off - n) + 1

\* "So the following memcpy() is safe (no overlapping memory)".
MoveIsSafe == pc = "idle" /\ NeedsMove => Unread <= read_off

(***************************************************************************)
(* The lines of the stream, independently of chunks and buffer.            *)
(***************************************************************************)
Parsed     == Len(received) - (write_off - p)
Ends       == {j \in 1 .. Parsed : received[j] = Newline}
Start(j)   == IF \E i \in Ends : i < j
              THEN 1 + CHOOSE i \in Ends : i < j /\ \A k \in Ends : k < j => k <= i
              ELSE 1
GoodEnds   == {j \in Ends : j - Start(j) < MAX_LINE_SZ}

\* Every complete line of at most MAX_LINE_SZ characters is posted once, whole,
\* in order and with its number; no other line is.
LinesPosted ==
  /\ line = Cardinality(Ends)
  /\ Len(posted) = Cardinality(GoodEnds)
  /\ \A n \in DOMAIN posted :
       \E j \in GoodEnds :
         /\ n = Cardinality({k \in GoodEnds : k <= j})
         /\ posted[n].num = Cardinality({k \in Ends : k <= j})
         /\ posted[n].text = [i \in 1 .. j - Start(j) + 1 |-> Start(j) + i - 1]

\* A connection is given up only when it was closed or when an unfinished line
\* has filled the buffer, which never happens to one of at most MAX_LINE_SZ
\* characters.
GivenUpWithReason ==
  [][watched /\ ~ watched' => ~ open \/ Unread >= MAX_LINE_SZ]_vars

\* What the buffer holds is what was received and not yet read, at offsets that
\* are inside of it, and moving it to the front does not overlap.
BufferSound == TypeOK /\ BufferHoldsUnread /\ MoveIsSafe
=============================================================================
