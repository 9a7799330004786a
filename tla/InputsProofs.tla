---------------------------- MODULE InputsProofs ----------------------------
(***************************************************************************)
(* Proofs about the inputs: the line reader, for every MAX_LINE_SZ and for *)
(* streams of any length, and the input descriptors, for any consoles,     *)
(* sources and limit of the process.                                       *)
(***************************************************************************)
EXTENDS TextSock, Descriptors, FiniteSetTheorems, SequenceTheorems,
        WellFoundedInduction, TLAPS

-----------------------------------------------------------------------------
(* The line reader.                                                         *)

(***************************************************************************)
(* Between two calls everything that is in the buffer has been parsed.     *)
(***************************************************************************)
IdleIsParsed == pc = "idle" => p = write_off

Inv == TypeOK /\ BufferHoldsUnread /\ IdleIsParsed

\* The size of the buffer, and the numbers of the state, are natural.
LEMMA Numbers ==
  ASSUME Inv
  PROVE  /\ buf_sz \in Nat /\ buf_sz >= 3 /\ buf_sz = 2 * MAX_LINE_SZ + 1
         /\ MAX_LINE_SZ \in Nat /\ MAX_LINE_SZ >= 1
         /\ read_off \in Nat /\ p \in Nat /\ write_off \in Nat
         /\ read_off <= p /\ p <= write_off /\ write_off <= buf_sz
         /\ Len(received) \in Nat
         /\ Unread \in Nat /\ Unread = write_off - read_off
<1>1. /\ MAX_LINE_SZ \in Nat /\ MAX_LINE_SZ >= 1
      /\ buf_sz \in Nat /\ buf_sz >= 3 /\ buf_sz = 2 * MAX_LINE_SZ + 1
  BY LineAssumption DEF buf_sz
<1>2. Len(received) \in Nat
  BY LenProperties DEF Inv, TypeOK
<1>3. /\ {read_off, p, write_off} \subseteq 0 .. buf_sz
      /\ read_off <= p /\ p <= write_off
  BY DEF Inv, TypeOK, BufferHoldsUnread
<1>4. /\ read_off \in Nat /\ p \in Nat /\ write_off \in Nat /\ write_off <= buf_sz
  BY <1>1, <1>3
<1> QED BY <1>1, <1>2, <1>3, <1>4 DEF Unread

\* The data are moved only from behind the middle of the buffer.
LEMMA MoveFar ==
  ASSUME Inv, NeedsMove
  PROVE  read_off > MAX_LINE_SZ + 1 /\ Unread < MAX_LINE_SZ
BY Numbers DEF NeedsMove

\* Moving the unread data keeps them and the order of the offsets.
LEMMA MovedKeeps ==
  ASSUME Inv
  PROVE  /\ Moved.buf \in [Offset -> 0 .. Len(received)]
         /\ Moved.read_off \in 0 .. buf_sz /\ Moved.write_off \in 0 .. buf_sz
         /\ Moved.read_off <= Moved.write_off
         /\ Moved.write_off - Moved.read_off = Unread
         /\ \A n \in Moved.read_off .. Moved.write_off - 1 :
              Moved.buf[n] = Len(received) - (Moved.write_off - n) + 1
<1>0. buf \in [Offset -> 0 .. Len(received)]
  BY DEF Inv, TypeOK
<1>1. \A n \in read_off .. write_off - 1 : buf[n] = Len(received) - (write_off - n) + 1
  BY DEF Inv, BufferHoldsUnread
<1>2. CASE NeedsMove
  <2> DEFINE b == [n \in Offset |-> IF n < Unread THEN buf[read_off + n] ELSE buf[n]]
  <2>1. Moved = [buf |-> b, read_off |-> 0, write_off |-> Unread]
    BY <1>2 DEF Moved
  <2>2. \A n \in Offset : n < Unread => read_off + n \in Offset
    BY Numbers DEF Offset
  <2>3. b \in [Offset -> 0 .. Len(received)]
    BY <1>0, <2>2
  <2>4. Unread \in 0 .. buf_sz /\ 0 \in 0 .. buf_sz /\ 0 <= Unread
    BY Numbers
  <2>5. ASSUME NEW n \in 0 .. Unread - 1
        PROVE  b[n] = Len(received) - (Unread - n) + 1
    <3>1. n \in Offset /\ n < Unread /\ n \in Nat
      BY Numbers DEF Offset
    <3>2. b[n] = buf[read_off + n]
      BY <3>1
    <3>3. read_off + n \in read_off .. write_off - 1
      BY <3>1, Numbers
    <3>4. write_off - (read_off + n) = Unread - n
      BY <3>1, Numbers
    <3> HIDE DEF b
    <3> QED BY <1>1, <3>2, <3>3, <3>4
  <2> HIDE DEF b
  <2> QED BY <2>1, <2>3, <2>4, <2>5, Numbers
<1>3. CASE ~ NeedsMove
  <2>1. Moved = [buf |-> buf, read_off |-> read_off, write_off |-> write_off]
    BY <1>3 DEF Moved
  <2>2. read_off \in 0 .. buf_sz /\ write_off \in 0 .. buf_sz /\ read_off <= write_off
    BY Numbers
  <2> QED BY <1>0, <1>1, <2>1, <2>2, Numbers
<1> QED BY <1>2, <1>3

-----------------------------------------------------------------------------
\* The reader starts with an empty buffer.
LEMMA InitInv == Init => Inv
<1> SUFFICES ASSUME Init PROVE Inv
  OBVIOUS
<1>1. buf_sz \in Nat
  BY LineAssumption DEF buf_sz
<1>2. TypeOK
  <2>1. received = << >> /\ Len(received) = 0 /\ received \in Seq(Character)
    BY DEF Init
  <2>2. buf \in [Offset -> 0 .. Len(received)]
    BY <2>1 DEF Init
  <2>3. {read_off, p, write_off} \subseteq 0 .. buf_sz
    BY <1>1 DEF Init
  <2>4. posted \in Seq([num : Nat, text : Seq(Nat)])
    BY DEF Init
  <2> QED BY <2>1, <2>2, <2>3, <2>4 DEF Init, TypeOK
<1>3. BufferHoldsUnread /\ IdleIsParsed
  BY DEF Init, BufferHoldsUnread, IdleIsParsed
<1> QED BY <1>2, <1>3 DEF Inv

\* Every step of the reader and of the other side keeps the invariant.
LEMMA NextInv == Inv /\ [Next]_vars => Inv'
<1> SUFFICES ASSUME Inv, [Next]_vars PROVE Inv'
  OBVIOUS
<1>0. /\ received \in Seq(Character) /\ line \in Nat
      /\ posted \in Seq([num : Nat, text : Seq(Nat)])
      /\ buf \in [Offset -> 0 .. Len(received)]
  BY DEF Inv, TypeOK
<1>1. ASSUME NEW chunk \in Chunks, Read(chunk) PROVE Inv'
  <2> DEFINE m == Moved
             l == Len(chunk)
  <2>1. chunk \in Seq(Character) /\ l \in Nat /\ l >= 1
    <3>1. PICK k \in 1 .. buf_sz : chunk \in [1 .. k -> Character]
      BY <1>1 DEF Chunks
    <3>2. k \in Nat
      BY <3>1, Numbers
    <3>3. chunk \in Seq(Character) /\ Len(chunk) = k
      BY <3>1, <3>2
    <3> QED BY <3>1, <3>2, <3>3
  <2>2. received' \in Seq(Character) /\ Len(received') = Len(received) + l
    BY <1>0, <1>1, <2>1, ConcatProperties DEF Read
  <2>3. /\ m.buf \in [Offset -> 0 .. Len(received)]
        /\ m.read_off \in 0 .. buf_sz /\ m.write_off \in 0 .. buf_sz
        /\ m.read_off <= m.write_off
        /\ \A n \in m.read_off .. m.write_off - 1 :
             m.buf[n] = Len(received) - (m.write_off - n) + 1
    BY MovedKeeps
  <2>4. /\ l <= buf_sz - m.write_off
        /\ buf' = [n \in Offset |-> IF n \in m.write_off .. m.write_off + l - 1
                     THEN Len(received) + 1 + n - m.write_off ELSE m.buf[n]]
        /\ read_off' = m.read_off /\ write_off' = m.write_off + l /\ p' = m.write_off
        /\ pc' = "parse"
        /\ UNCHANGED << too_long, line, watched, open, posted >>
    BY <1>1 DEF Read, Space
  <2> HIDE DEF m, l
  <2>5. buf_sz \in Nat /\ Len(received) \in Nat
    BY Numbers
  <2>6. buf' \in [Offset -> 0 .. Len(received')]
    <3>1. ASSUME NEW n \in Offset, n \in m.write_off .. m.write_off + l - 1
          PROVE  Len(received) + 1 + n - m.write_off \in 0 .. Len(received) + l
      BY SMTT(60), <2>1, <2>3, <2>5, <3>1
    <3>2. ASSUME NEW n \in Offset PROVE m.buf[n] \in 0 .. Len(received) + l
      BY <2>1, <2>3, <2>5
    <3> QED BY <2>2, <2>4, <3>1, <3>2
  <2>7. {read_off', p', write_off'} \subseteq 0 .. buf_sz
    BY <2>1, <2>3, <2>4, <2>5
  <2>8. TypeOK'
    BY <1>0, <2>2, <2>4, <2>6, <2>7 DEF Inv, TypeOK
  <2>9. BufferHoldsUnread'
    <3>1. read_off' <= p' /\ p' <= write_off'
      BY <2>1, <2>3, <2>4, <2>5
    <3>2. ASSUME NEW n \in read_off' .. write_off' - 1
          PROVE  buf'[n] = Len(received') - (write_off' - n) + 1
      <4>1. n \in Offset /\ n \in Nat
        BY <2>1, <2>3, <2>4, <2>5 DEF Offset
      <4>2. CASE n \in m.write_off .. m.write_off + l - 1
        <5>1. buf'[n] = Len(received) + 1 + n - m.write_off
          BY <2>4, <4>1, <4>2
        <5>2. /\ m.write_off \in Int /\ write_off' = m.write_off + l
              /\ Len(received') = Len(received) + l
          BY <2>2, <2>3, <2>4, <2>5
        <5>3. \A a, b, c, d \in Int : (a + b) - ((c + b) - d) + 1 = a + 1 + d - c
          OBVIOUS
        <5>4. Len(received) \in Int /\ l \in Int /\ m.write_off \in Int /\ n \in Int
          BY <2>1, <2>5, <4>1, <5>2
        <5>5. (Len(received) + l) - ((m.write_off + l) - n) + 1
                = Len(received) + 1 + n - m.write_off
          <6> DEFINE a == Len(received)
                     c == m.write_off
          <6>1. a \in Int /\ l \in Int /\ c \in Int /\ n \in Int
            BY <5>4
          <6>2. (a + l) - ((c + l) - n) + 1 = a + 1 + n - c
            <7> HIDE DEF a, c
            <7> QED BY <5>3, <6>1
          <6> QED BY <6>2
        <5> QED BY <5>1, <5>2, <5>5
      <4>3. CASE n \in m.read_off .. m.write_off - 1
        <5>1. buf'[n] = m.buf[n]
          BY <2>3, <2>4, <2>5, <4>1, <4>3
        <5>2. m.buf[n] = Len(received) - (m.write_off - n) + 1
          BY <2>3, <4>3
        <5>3. /\ m.write_off \in Int /\ write_off' = m.write_off + l
              /\ Len(received') = Len(received) + l
          BY <2>2, <2>3, <2>4, <2>5
        <5> QED BY <2>1, <2>5, <4>1, <5>1, <5>2, <5>3
      <4> QED BY <2>1, <2>3, <2>4, <2>5, <4>1, <4>2, <4>3
    <3> QED BY <3>1, <3>2 DEF BufferHoldsUnread
  <2>10. IdleIsParsed'
    BY <2>4 DEF IdleIsParsed
  <2> QED BY <2>8, <2>9, <2>10 DEF Inv
<1>2. ASSUME MoveOnly, watched' \in BOOLEAN PROVE Inv'
  <2>1. /\ buf' = Moved.buf /\ read_off' = Moved.read_off
        /\ write_off' = Moved.write_off /\ p' = Moved.write_off
        /\ UNCHANGED << too_long, line, pc, open, received, posted >>
    BY <1>2 DEF MoveOnly
  <2>2. TypeOK'
    BY <1>2, <2>1, MovedKeeps DEF Inv, TypeOK
  <2>3. BufferHoldsUnread'
    BY <2>1, MovedKeeps, Numbers DEF BufferHoldsUnread
  <2>4. IdleIsParsed'
    BY <2>1 DEF IdleIsParsed
  <2> QED BY <2>2, <2>3, <2>4 DEF Inv
<1>3. CASE ReadFails
  BY <1>2, <1>3 DEF ReadFails, Inv, TypeOK
<1>4. CASE Lose
  BY <1>2, <1>4 DEF Lose
<1>5. ASSUME NEW n \in 1 .. buf_sz, ParseLine(n) PROVE Inv'
  <2>1. n \in p + 1 .. write_off
    BY <1>5 DEF ParseLine, EndsLine
  <2>2. n \in Nat /\ n <= write_off /\ read_off < n
    BY <2>1, Numbers
  <2>3. Text(n) \in Seq(Nat)
    <3>1. n - read_off \in Nat
      BY <2>2, Numbers
    <3>2. \A i \in 1 .. n - read_off : read_off + i - 1 \in Offset
      <4>1. /\ read_off \in Nat /\ write_off \in Nat /\ buf_sz \in Nat
            /\ write_off <= buf_sz
        BY Numbers
      <4> QED BY <2>2, <4>1 DEF Offset
    <3>3. \A i \in 1 .. n - read_off : buf[read_off + i - 1] \in Nat
      BY <1>0, <3>2, Numbers
    <3> DEFINE k == n - read_off
    <3>4. \A f \in [1 .. k -> Nat] : f \in Seq(Nat)
      <4> HIDE DEF k
      <4> SUFFICES ASSUME k \in Nat PROVE \A f \in [1 .. k -> Nat] : f \in Seq(Nat)
        BY <3>1 DEF k
      <4> QED OBVIOUS
    <3>5. Text(n) \in [1 .. k -> Nat]
      BY <3>3 DEF Text
    <3> QED BY <3>4, <3>5
  <2>4. Posted(n) \in Seq([num : Nat, text : Seq(Nat)])
    <3>1. [num |-> line + 1, text |-> Text(n)] \in [num : Nat, text : Seq(Nat)]
      BY <1>0, <2>3
    <3> QED BY <1>0, <3>1, AppendProperties DEF Posted
  <2>5. TypeOK'
    <3>1. {read_off', p', write_off'} \subseteq 0 .. buf_sz
      BY <1>5, <2>2, Numbers DEF ParseLine
    <3>2. line' \in Nat
      BY <1>0, <1>5 DEF ParseLine
    <3>3. posted' \in Seq([num : Nat, text : Seq(Nat)])
      BY <1>5, <2>4 DEF ParseLine
    <3>4. too_long' \in BOOLEAN
      BY <1>5 DEF ParseLine
    <3> QED BY <1>5, <3>1, <3>2, <3>3, <3>4 DEF Inv, TypeOK, ParseLine
  <2>6. BufferHoldsUnread'
    BY <1>5, <2>2, Numbers DEF Inv, BufferHoldsUnread, ParseLine
  <2>7. IdleIsParsed'
    BY <1>5 DEF IdleIsParsed, ParseLine
  <2> QED BY <2>5, <2>6, <2>7 DEF Inv
<1>6. CASE ParseRest
  <2>1. too_long' \in BOOLEAN
    BY <1>6 DEF ParseRest
  <2>2. TypeOK'
    BY <1>6, <2>1 DEF Inv, TypeOK, ParseRest
  <2>3. BufferHoldsUnread'
    BY <1>6, Numbers DEF Inv, BufferHoldsUnread, ParseRest
  <2>4. IdleIsParsed'
    BY <1>6 DEF IdleIsParsed, ParseRest
  <2> QED BY <2>2, <2>3, <2>4 DEF Inv
<1>7. CASE Reconnect
  BY <1>7 DEF Inv, TypeOK, BufferHoldsUnread, IdleIsParsed, Reconnect
<1>8. CASE PeerCloses
  BY <1>8 DEF Inv, TypeOK, BufferHoldsUnread, IdleIsParsed, PeerCloses
<1>9. CASE UNCHANGED vars
  BY <1>9 DEF Inv, TypeOK, BufferHoldsUnread, IdleIsParsed, vars
<1> QED BY <1>1, <1>3, <1>4, <1>5, <1>6, <1>7, <1>8, <1>9 DEF Next

-----------------------------------------------------------------------------
\* The invariant holds in every state that the line reader reaches.
THEOREM Invariance == Spec => []Inv
BY InitInv, NextInv, PTL DEF Spec

\* textsocket_callback() writes inside of its buffer only, and its offsets stay
\* in it.
THEOREM TypeCorrect == Spec => []TypeOK
<1>1. Inv => TypeOK
  BY DEF Inv
<1> QED BY <1>1, Invariance, PTL

\* The unread part of the buffer is the end of the stream, in order and
\* without a gap, for every way of cutting and moving the data.
THEOREM BufferFaithful == Spec => []BufferHoldsUnread
<1>1. Inv => BufferHoldsUnread
  BY DEF Inv
<1> QED BY <1>1, Invariance, PTL

\* The memcpy() of textsocket_callback() never overlaps, for every MAX_LINE_SZ.
THEOREM MoveSafe == Spec => []MoveIsSafe
<1>1. Inv => MoveIsSafe
  BY MoveFar, Numbers DEF MoveIsSafe
<1> QED BY <1>1, Invariance, PTL

\* What textsocket_callback() relies on when it computes addresses and sizes
\* from the offsets.
THEOREM BufferAlwaysSound == Spec => []BufferSound
BY TypeCorrect, BufferFaithful, MoveSafe, PTL DEF BufferSound

\* Only a closed connection, or an unfinished line of MAX_LINE_SZ characters,
\* makes textsocket_callback() give up its descriptor.
THEOREM GivenUp == Spec => GivenUpWithReason
<1>1. Inv /\ [Next]_vars
        => [watched /\ ~ watched' => ~ open \/ Unread >= MAX_LINE_SZ]_vars
  <2> SUFFICES ASSUME Inv, Next, watched, ~ watched', open
               PROVE  Unread >= MAX_LINE_SZ
    BY DEF vars
  <2>1. Lose
    BY DEF Next, Read, ReadFails, ParseLine, ParseRest, Reconnect, PeerCloses
  <2>2. buf_sz - Moved.write_off = 0
    BY <2>1 DEF Lose, Space
  <2>3. Moved.write_off = buf_sz
    BY <2>2, MovedKeeps, Numbers
  <2>4. CASE NeedsMove
    <3>1. Moved.write_off = Unread
      BY <2>4 DEF Moved
    <3> QED BY <2>3, <2>4, <3>1, MoveFar, Numbers
  <2>5. CASE ~ NeedsMove
    <3>1. Moved.write_off = write_off
      BY <2>5 DEF Moved
    <3> QED BY <2>3, <2>5, <3>1, Numbers DEF NeedsMove
  <2> QED BY <2>4, <2>5
<1> QED BY <1>1, Invariance, PTL DEF Spec, GivenUpWithReason

-----------------------------------------------------------------------------
(* The lowest free descriptor.                                              *)

\* Every nonempty set of natural numbers has a least element.
LEMMA LeastNatural ==
  ASSUME NEW T \in SUBSET Nat, T # {}
  PROVE  \E n \in T : \A m \in T : n <= m
<1> DEFINE U == {1 .. n : n \in T}
<1> DEFINE R == StrictSubsetOrdering(Nat)
<1> DEFINE F == FiniteSubsetsOf(Nat)
<1>1. IsWellFoundedOn(R, F)
  BY FS_StrictSubsetOrderingWellFounded
<1>2. U \subseteq F
  <2> SUFFICES ASSUME NEW n \in T PROVE 1 .. n \in F
    OBVIOUS
  <2>1. IsFiniteSet(1 .. n)
    BY FS_Interval
  <2> QED BY <2>1 DEF FiniteSubsetsOf
<1>3. U # {}
  OBVIOUS
<1>4. PICK x \in U : \A y \in U : ~ (<< y, x >> \in R)
  <2> HIDE DEF U, R, F
  <2> QED BY <1>1, <1>2, <1>3, WFMin
<1>5. PICK n \in T : x = 1 .. n
  OBVIOUS
<1>6. ASSUME NEW m \in T, m < n PROVE FALSE
  <2>1. 1 .. m \in U
    OBVIOUS
  <2>2. 1 .. m \subseteq 1 .. n /\ 1 .. m # 1 .. n
    BY <1>6
  <2>3. << 1 .. m, 1 .. n >> \in R
    BY <2>2, <1>2, <2>1, <1>5 DEF StrictSubsetOrdering, FiniteSubsetsOf
  <2> QED BY <2>1, <2>3, <1>4, <1>5
<1> QED BY <1>6

-----------------------------------------------------------------------------
(* The input descriptors.                                                   *)

Owners == Consoles \cup Sources \cup {Listener}

DescTypes ==
    /\ behind \in [Fds -> Owners \cup {Feedback, Free}]
    /\ handlers \in Seq([owner : Owners, fd : Fds])
    /\ maxfd \in Fds \cup {0} /\ rfds \subseteq Fds
    /\ retry \subseteq Sources /\ losses \in Nat

\* A handler has a connection of its own, and while the process runs the
\* listening socket and the sources have one.
HandlersOwn ==
    /\ \A j, k \in DOMAIN handlers : j # k => handlers[j].owner # handlers[k].owner
    /\ \A k \in DOMAIN handlers : behind[handlers[k].fd] = handlers[k].owner
    /\ alive => \A s \in Sources \cup {Listener} : \E k \in DOMAIN handlers : handlers[k].owner = s

\* What is watched has a handler; a source that is lost is not watched.
WatchedHave ==
    /\ \A d \in fds : \E k \in DOMAIN handlers : handlers[k].fd = d
    /\ WatchedIsHeard
    /\ retry # {} \/ left \cap Sources # {} => losses > 0
    /\ \A k \in DOMAIN handlers : handlers[k].owner \in retry => handlers[k].fd \notin fds

\* The pass is at place n: what select() found for the handlers from there on
\* can still be read.
PassAt(n) ==
    /\ handlers[n].owner = visit.at
    /\ \A k \in DOMAIN handlers : k >= n /\ handlers[k].fd \in rfds => handlers[k].owner \in readable
    /\ visit.called => /\ handlers[n].fd \in rfds
                       /\ visit.next = IF n < Len(handlers) THEN handlers[n + 1].owner ELSE None
    /\ ~visit.called => visit.next = None

PassOK ==
    /\ visit.at = None => ~visit.called /\ visit.next = None
    /\ visit.at # None => \E n \in DOMAIN handlers : PassAt(n)

DescInv == DescTypes /\ HandlersOwn /\ WatchedHave /\ PassOK

\* The same list, in terms of places.
LEMMA ListIs ==
  ASSUME DescTypes
  PROVE  /\ Len(handlers) \in Nat /\ DOMAIN handlers = 1 .. Len(handlers)
         /\ \A k \in DOMAIN handlers : /\ handlers[k] \in [owner : Owners, fd : Fds]
                                       /\ handlers[k].owner \in Owners /\ handlers[k].fd \in Fds
<1>1. handlers \in Seq([owner : Owners, fd : Fds])
  BY DEF DescTypes
<1>2. /\ Len(handlers) \in Nat /\ DOMAIN handlers = 1 .. Len(handlers)
      /\ \A k \in DOMAIN handlers : handlers[k] \in [owner : Owners, fd : Fds]
  BY <1>1, LenProperties
<1> QED BY <1>2

\* An owner is a connection of the process, neither the feedback nor nothing.
LEMMA OwnersDiffer ==
  /\ \A o \in Owners : o # Feedback /\ o # Free /\ o # None
  /\ Listener \in Owners /\ Listener \notin Consoles /\ Listener \notin Sources
  /\ Consoles \cap Sources = {}
  /\ Feedback # Free
BY DescriptorsAreOpened DEF Owners

\* Two handlers never have the same descriptor.
LEMMA FdsDistinct ==
  ASSUME HandlersOwn PROVE OneHandlerEach
BY DEF HandlersOwn, OneHandlerEach

\* HandlerOf() finds the handler of an owner.
LEMMA HandlerIs ==
  ASSUME HandlersOwn, NEW n \in DOMAIN handlers PROVE HandlerOf(handlers[n].owner) = handlers[n]
<1>1. handlers[n] \in {handlers[k] : k \in DOMAIN handlers}
  OBVIOUS
<1>2. \A h \in {handlers[k] : k \in DOMAIN handlers} : h.owner = handlers[n].owner => h = handlers[n]
  BY DEF HandlersOwn
<1> QED BY <1>1, <1>2 DEF HandlerOf

\* After() finds the owner of the next one.
LEMMA AfterIs ==
  ASSUME HandlersOwn, NEW n \in DOMAIN handlers
  PROVE  After(handlers[n].owner) = IF n < Len(handlers) THEN handlers[n + 1].owner ELSE None
<1>1. \A k \in DOMAIN handlers : handlers[k].owner = handlers[n].owner => k = n
  BY DEF HandlersOwn
<1> DEFINE m == CHOOSE k \in DOMAIN handlers : handlers[k].owner = handlers[n].owner
<1>2. m = n
  BY <1>1
<1> HIDE DEF m
<1>3. After(handlers[n].owner) = IF m < Len(handlers) THEN handlers[m + 1].owner ELSE None
  BY DEF After, m
<1> QED BY <1>2, <1>3

\* The kernel gives a descriptor that nobody has.
LEMMA LowestIsFree ==
  ASSUME DescTypes, FreeFds # {} PROVE LowestFree \in Fds /\ behind[LowestFree] = Free
<1>1. FreeFds \in SUBSET Nat
  BY DescriptorsAreOpened DEF FreeFds, Fds
<1>2. \E d \in FreeFds : \A e \in FreeFds : d <= e
  BY <1>1, LeastNatural
<1>3. LowestFree \in FreeFds
  BY <1>2 DEF LowestFree
<1> QED BY <1>3 DEF FreeFds

-----------------------------------------------------------------------------
\* A list may be given as a function.
LEMMA ListFromFunction ==
  ASSUME NEW S, NEW m \in Nat, NEW f \in [1 .. m -> S] PROVE f \in Seq(S)
BY SeqDef

\* The list with a new handler at its head.
LEMMA Prepended ==
  ASSUME NEW q \in Seq([owner : Owners, fd : Fds]), NEW r \in [owner : Owners, fd : Fds]
  PROVE  LET t == <<r>> \o q
         IN  /\ t \in Seq([owner : Owners, fd : Fds]) /\ Len(t) = Len(q) + 1
             /\ DOMAIN t = 1 .. Len(q) + 1
             /\ \A k \in 1 .. Len(q) + 1 : t[k] = IF k = 1 THEN r ELSE q[k - 1]
<1> DEFINE t == <<r>> \o q
           H == [owner : Owners, fd : Fds]
<1>1. <<r>> \in Seq(H) /\ Len(<<r>>) = 1 /\ <<r>>[1] = r /\ Len(q) \in Nat
  BY LenProperties
<1> HIDE DEF H
<1>2. /\ t \in Seq(H) /\ Len(t) = 1 + Len(q)
      /\ \A k \in 1 .. 1 + Len(q) : t[k] = IF k <= 1 THEN <<r>>[k] ELSE q[k - 1]
  <2>1. <<r>> \in Seq(H) /\ q \in Seq(H)
    BY <1>1 DEF H
  <2>2. /\ t \in Seq(H) /\ Len(t) = Len(<<r>>) + Len(q)
        /\ \A k \in 1 .. Len(<<r>>) + Len(q) : t[k] = IF k <= Len(<<r>>) THEN <<r>>[k] ELSE q[k - Len(<<r>>)]
    BY <2>1, ConcatProperties
  <2> HIDE DEF t
  <2> QED BY <1>1, <2>2
<1>3. DOMAIN t = 1 .. Len(t)
  BY <1>2, LenProperties
<1> HIDE DEF t
<1>4. Len(t) = Len(q) + 1 /\ DOMAIN t = 1 .. Len(q) + 1
  BY <1>1, <1>2, <1>3
<1>5. \A k \in 1 .. Len(q) + 1 : t[k] = IF k = 1 THEN r ELSE q[k - 1]
  BY <1>1, <1>2
<1> QED BY <1>2, <1>4, <1>5 DEF t, H

\* The list without the handler at place n.
LEMMA WithoutOne ==
  ASSUME NEW q \in Seq([owner : Owners, fd : Fds]), NEW n \in 1 .. Len(q)
  PROVE  LET t == SubSeq(q, 1, n - 1) \o SubSeq(q, n + 1, Len(q))
         IN  /\ t \in Seq([owner : Owners, fd : Fds]) /\ Len(t) = Len(q) - 1
             /\ DOMAIN t = 1 .. Len(q) - 1
             /\ \A k \in 1 .. Len(q) - 1 : t[k] = IF k < n THEN q[k] ELSE q[k + 1]
<1> DEFINE H == [owner : Owners, fd : Fds]
           a == SubSeq(q, 1, n - 1)
           b == SubSeq(q, n + 1, Len(q))
           t == a \o b
<1>0. Len(q) \in Nat /\ q \in Seq(H)
  BY LenProperties
<1> HIDE DEF H
<1>1. a \in Seq(H) /\ Len(a) = n - 1 /\ \A k \in 1 .. n - 1 : a[k] = q[k]
  <2>1. \A k \in 1 .. n - 1 : q[k] \in H
    <3>1. \A k \in 1 .. n - 1 : k \in 1 .. Len(q)
      BY <1>0
    <3> QED BY <1>0, <3>1, ElementOfSeq
  <2> QED BY <1>0, <2>1, SubSeqProperties
<1>2. b \in Seq(H) /\ Len(b) = Len(q) - n /\ \A k \in 1 .. Len(q) - n : b[k] = q[n + k]
  <2>1. \A k \in n + 1 .. Len(q) : q[k] \in H
    <3>1. \A k \in n + 1 .. Len(q) : k \in 1 .. Len(q)
      BY <1>0
    <3> QED BY <1>0, <3>1, ElementOfSeq
  <2>2. /\ b \in Seq(H) /\ Len(b) = (IF n + 1 <= Len(q) THEN Len(q) - (n + 1) + 1 ELSE 0)
        /\ \A k \in 1 .. Len(q) - (n + 1) + 1 : b[k] = q[n + 1 + k - 1]
    BY <1>0, <2>1, SubSeqProperties
  <2> HIDE DEF b
  <2>3. Len(b) = Len(q) - n
    BY <1>0, <2>2
  <2>4. \A k \in 1 .. Len(q) - n : k \in 1 .. Len(q) - (n + 1) + 1 /\ n + 1 + k - 1 = n + k
    BY <1>0
  <2> QED BY <2>2, <2>3, <2>4
<1> HIDE DEF a, b
<1>3. /\ t \in Seq(H) /\ Len(t) = Len(a) + Len(b)
      /\ \A k \in 1 .. Len(a) + Len(b) : t[k] = IF k <= Len(a) THEN a[k] ELSE b[k - Len(a)]
  BY <1>1, <1>2, ConcatProperties
<1>4. DOMAIN t = 1 .. Len(t)
  BY <1>3, LenProperties
<1> HIDE DEF t
<1>5. Len(t) = Len(q) - 1
  BY <1>0, <1>1, <1>2, <1>3
<1>6. \A k \in 1 .. Len(q) - 1 : t[k] = IF k < n THEN q[k] ELSE q[k + 1]
  <2> TAKE k \in 1 .. Len(q) - 1
  <2>0. k \in 1 .. Len(a) + Len(b)
    BY <1>3, <1>5
  <2>1. CASE k < n
    <3>1. k \in 1 .. n - 1 /\ k <= Len(a)
      BY <1>0, <1>1, <2>1
    <3> QED BY <1>1, <1>3, <2>0, <2>1, <3>1
  <2>2. CASE ~ (k < n)
    <3>1. ~ (k <= Len(a)) /\ k - Len(a) \in 1 .. Len(q) - n /\ n + (k - Len(a)) = k + 1
      BY <1>0, <1>1, <2>2
    <3> QED BY <1>2, <1>3, <2>0, <2>2, <3>1
  <2> QED BY <2>1, <2>2
<1>7. DOMAIN t = 1 .. Len(q) - 1
  BY <1>4, <1>5
<1> QED BY <1>3, <1>5, <1>6, <1>7 DEF t, a, b, H

-----------------------------------------------------------------------------
\* The process ends: nothing is open any more.
LEMMA ExitDesc ==
  ASSUME DescInv, Exit, UNCHANGED <<left, rfds, retry, losses>> PROVE DescInv'
<1>1. /\ alive' = FALSE /\ behind' = [d \in Fds |-> Free] /\ handlers' = <<>> /\ fds' = {} /\ maxfd' = 0
      /\ visit' = [at |-> None, called |-> FALSE, next |-> None]
  BY DEF Exit
<1>2. DOMAIN handlers' = {} /\ handlers' \in Seq([owner : Owners, fd : Fds])
  BY <1>1, EmptySeq
<1>3. DescTypes'
  BY <1>1, <1>2 DEF DescTypes, DescInv
<1>4. HandlersOwn'
  BY <1>1, <1>2 DEF HandlersOwn
<1>5. WatchedHave'
  BY <1>1, <1>2 DEF WatchedHave, WatchedIsHeard, DescInv
<1>6. PassOK'
  BY <1>1 DEF PassOK
<1> QED BY <1>3, <1>4, <1>5, <1>6 DEF DescInv

\* When a callback returns the pass goes on behind it.  Later places of the
\* list hold what they held, for connections that the callback did not read.
LEMMA ReturnPass ==
  ASSUME DescInv, NEW n \in DOMAIN handlers, PassAt(n), visit.called, Return, UNCHANGED rfds,
         \A k \in DOMAIN handlers : k > n /\ handlers[k].owner \in readable => handlers[k].owner \in readable',
         NEW m \in Nat, \A k \in DOMAIN handlers' : k >= m =>
                          \E i \in DOMAIN handlers : i > n /\ handlers'[k] = handlers[i],
         n < Len(handlers) => m \in DOMAIN handlers' /\ handlers'[m] = handlers[n + 1]
  PROVE  PassOK'
<1>1. visit' = [at |-> visit.next, called |-> FALSE, next |-> None]
  BY DEF Return
<1>2. /\ visit'.at = visit.next /\ ~visit'.called /\ visit'.next = None
      /\ visit.next = IF n < Len(handlers) THEN handlers[n + 1].owner ELSE None
  BY <1>1 DEF PassAt
<1>3. CASE n < Len(handlers)
  <2>1. /\ m \in DOMAIN handlers' /\ handlers'[m].owner = visit'.at
    BY <1>2, <1>3
  <2>2. \A k \in DOMAIN handlers' : k >= m /\ handlers'[k].fd \in rfds' => handlers'[k].owner \in readable'
    <3> SUFFICES ASSUME NEW k \in DOMAIN handlers', k >= m, handlers'[k].fd \in rfds'
                 PROVE  handlers'[k].owner \in readable'
      OBVIOUS
    <3>1. PICK i \in DOMAIN handlers : i > n /\ handlers'[k] = handlers[i]
      OBVIOUS
    <3>2. i >= n
      BY <3>1, ListIs DEF DescInv
    <3>3. handlers[i].owner \in readable
      BY <3>1, <3>2 DEF PassAt
    <3> QED BY <3>1, <3>3
  <2>3. PassAt(m)'
    BY <1>2, <2>1, <2>2 DEF PassAt
  <2> QED BY <1>2, <2>1, <2>3 DEF PassOK
<1>4. CASE ~ (n < Len(handlers))
  BY <1>2, <1>4 DEF PassOK
<1> QED BY <1>3, <1>4

\* A callback runs: the pass is at the place of its handler.
LEMMA CalledAt ==
  ASSUME DescInv, NEW o \in Owners, Called(o)
  PROVE  \E n \in DOMAIN handlers : PassAt(n) /\ handlers[n].owner = o /\ HandlerOf(o) = handlers[n]
<1>1. visit.at = o /\ visit.at # None
  BY OwnersDiffer DEF Called
<1>2. PICK n \in DOMAIN handlers : PassAt(n)
  BY <1>1 DEF DescInv, PassOK
<1>3. handlers[n].owner = o
  BY <1>1, <1>2 DEF PassAt
<1> QED BY <1>2, <1>3, HandlerIs DEF DescInv

\* select() returns: the pass begins at the head of the list.
LEMMA SelectDesc == ASSUME DescInv, select PROVE DescInv'
<1> USE DEF DescInv
<1>1. /\ alive /\ rfds' = {d \in fds : d <= maxfd /\ behind[d] \in readable}
      /\ visit' = [at |-> handlers[1].owner, called |-> FALSE, next |-> None]
      /\ UNCHANGED <<behind, handlers, fds, maxfd, readable, left, retry, losses, alive>>
  BY DEF select
<1>2. /\ Len(handlers) \in Nat /\ DOMAIN handlers = 1 .. Len(handlers)
      /\ \A k \in DOMAIN handlers : /\ handlers[k].owner \in Owners /\ handlers[k].fd \in Fds
  BY ListIs
<1>3. fds \subseteq Fds
  BY <1>2 DEF WatchedHave
<1>4. DescTypes'
  BY <1>1, <1>3 DEF DescTypes
<1>5. HandlersOwn' /\ WatchedHave'
  BY <1>1 DEF HandlersOwn, WatchedHave, WatchedIsHeard
<1>6. 1 \in DOMAIN handlers
  <2>1. PICK k \in DOMAIN handlers : handlers[k].owner = Listener
    BY <1>1 DEF HandlersOwn
  <2> QED BY <1>2, <2>1
<1>7. visit'.at = handlers[1].owner /\ ~visit'.called /\ visit'.next = None /\ visit'.at # None
  BY <1>1, <1>2, <1>6, OwnersDiffer
<1>8. \A k \in DOMAIN handlers : handlers[k].fd \in rfds' => handlers[k].owner \in readable
  BY <1>1 DEF HandlersOwn
<1>9. PassAt(1)'
  BY <1>1, <1>7, <1>8 DEF PassAt
<1> QED BY <1>1, <1>4, <1>5, <1>6, <1>7, <1>9 DEF PassOK

\* The pass comes to a handler.
LEMMA NextHandlerDesc == ASSUME DescInv, next_handler PROVE DescInv'
<1> USE DEF DescInv
<1>1. /\ UNCHANGED <<behind, handlers, fds, maxfd, readable, left, rfds, retry, losses, alive>>
      /\ visit.at # None /\ ~visit.called
      /\ visit' = IF HandlerOf(visit.at).fd \in rfds
                  THEN [at |-> visit.at, called |-> TRUE, next |-> After(visit.at)]
                  ELSE [at |-> After(visit.at), called |-> FALSE, next |-> None]
  BY DEF next_handler, Idle
<1>2. PICK n \in DOMAIN handlers : PassAt(n)
  BY <1>1 DEF PassOK
<1>3. handlers[n].owner = visit.at /\ HandlerOf(visit.at) = handlers[n]
  BY <1>2, HandlerIs DEF PassAt
<1> DEFINE following == IF n < Len(handlers) THEN handlers[n + 1].owner ELSE None
<1>4. After(visit.at) = following
  BY <1>3, AfterIs
<1>5. /\ Len(handlers) \in Nat /\ DOMAIN handlers = 1 .. Len(handlers)
      /\ \A k \in DOMAIN handlers : handlers[k].owner \in Owners
  BY ListIs
<1>6. DescTypes' /\ HandlersOwn' /\ WatchedHave'
  BY <1>1 DEF DescTypes, HandlersOwn, WatchedHave, WatchedIsHeard
<1>7. CASE handlers[n].fd \in rfds
  <2>1. visit' = [at |-> visit.at, called |-> TRUE, next |-> following]
    BY <1>1, <1>3, <1>4, <1>7
  <2> HIDE DEF following
  <2>2. visit'.at = visit.at /\ visit'.called /\ visit'.next = following
    BY <2>1
  <2>3. PassAt(n)'
    BY <1>1, <1>2, <1>7, <2>2 DEF PassAt, following
  <2> QED BY <1>1, <1>6, <2>2, <2>3 DEF PassOK
<1>8. CASE handlers[n].fd \notin rfds
  <2>1. visit' = [at |-> following, called |-> FALSE, next |-> None]
    BY <1>1, <1>3, <1>4, <1>8
  <2>2. visit'.at = following /\ ~visit'.called /\ visit'.next = None
    BY <2>1
  <2>3. CASE n < Len(handlers)
    <3>1. n + 1 \in DOMAIN handlers /\ \A k \in DOMAIN handlers : k >= n + 1 => k >= n
      BY <1>5, <2>3
    <3>2. visit'.at = handlers[n + 1].owner /\ visit'.at # None
      BY <1>5, <2>2, <2>3, <3>1, OwnersDiffer
    <3>3. PassAt(n + 1)'
      BY <1>1, <1>2, <2>2, <3>1, <3>2 DEF PassAt
    <3> QED BY <1>1, <1>6, <3>1, <3>2, <3>3 DEF PassOK
  <2>4. CASE ~ (n < Len(handlers))
    BY <1>6, <2>2, <2>4 DEF PassOK
  <2> QED BY <2>3, <2>4
<1> QED BY <1>7, <1>8

\* A console that calls gets a descriptor and a handler at the head.
LEMMA ListenDesc == ASSUME DescInv, remoteadm_listen_callback PROVE DescInv'
<1> USE DEF DescInv
<1>1. UNCHANGED <<left, rfds, retry, losses>> /\ Called(Listener)
  BY DEF remoteadm_listen_callback
<1>2. CASE Exit
  BY <1>1, <1>2, ExitDesc
<1>3. ASSUME NEW c \in Consoles, c \in Callers, FreeFds # {},
             behind' = [behind EXCEPT ![LowestFree] = c],
             readable' = readable \ ({c} \cup IF Callers = {c} THEN {Listener} ELSE {}),
             add_input_descriptor(c, LowestFree), Return, UNCHANGED <<feedback, alive>>
      PROVE  DescInv'
  <2> DEFINE d == LowestFree
             r == [owner |-> c, fd |-> d]
  <2>1. d \in Fds /\ behind[d] = Free
    BY <1>3, LowestIsFree
  <2>2. /\ handlers' = <<r>> \o handlers
        /\ maxfd' = (IF d > maxfd THEN d ELSE maxfd) /\ fds' = fds \cup {d}
    BY <1>3 DEF add_input_descriptor
  <2>3. behind' = [behind EXCEPT ![d] = c] /\ behind \in [Fds -> Owners \cup {Feedback, Free}]
    BY <1>3 DEF DescTypes
  <2>4. c \in Owners /\ c # Listener /\ c \notin Sources /\ \A e \in Fds : behind[e] # c
    BY <1>3, OwnersDiffer DEF Callers, Owners
  <2> HIDE DEF d
  <2>5. r \in [owner : Owners, fd : Fds] /\ r.owner = c /\ r.fd = d
    BY <2>1, <2>4
  <2>6. /\ Len(handlers) \in Nat /\ DOMAIN handlers = 1 .. Len(handlers)
        /\ handlers \in Seq([owner : Owners, fd : Fds])
        /\ \A k \in DOMAIN handlers : handlers[k].owner \in Owners /\ handlers[k].fd \in Fds
    BY ListIs DEF DescTypes
  <2> HIDE DEF r
  <2>7. /\ handlers' \in Seq([owner : Owners, fd : Fds]) /\ Len(handlers') = Len(handlers) + 1
        /\ DOMAIN handlers' = 1 .. Len(handlers) + 1
        /\ \A k \in 1 .. Len(handlers) + 1 : handlers'[k] = IF k = 1 THEN r ELSE handlers[k - 1]
    BY <2>2, <2>5, <2>6, Prepended
  <2>8. \A k \in DOMAIN handlers' : k # 1 => k - 1 \in DOMAIN handlers /\ handlers'[k] = handlers[k - 1]
    BY <2>6, <2>7
  <2>9. 1 \in DOMAIN handlers' /\ handlers'[1] = r
    BY <2>6, <2>7
  <2>10. \A k \in DOMAIN handlers : k + 1 \in DOMAIN handlers' /\ handlers'[k + 1] = handlers[k]
    <3> TAKE k \in DOMAIN handlers
    <3>1. k + 1 \in 1 .. Len(handlers) + 1 /\ k + 1 # 1 /\ (k + 1) - 1 = k
      BY <2>6
    <3> QED BY <2>7, <3>1
  <2>11. \A k \in DOMAIN handlers : handlers[k].fd # d /\ handlers[k].owner # c /\ behind'[handlers[k].fd] = handlers[k].owner
    <3> TAKE k \in DOMAIN handlers
    <3>1. behind[handlers[k].fd] = handlers[k].owner /\ handlers[k].fd \in Fds /\ handlers[k].owner # Free
      BY <2>6, OwnersDiffer DEF HandlersOwn
    <3> QED BY <2>1, <2>3, <2>4, <3>1
  <2>12. behind' \in [Fds -> Owners \cup {Feedback, Free}] /\ behind'[d] = c
    BY <2>1, <2>3, <2>4
  <2>13. DescTypes'
    <3>1. maxfd' \in Fds \cup {0}
      BY <2>1, <2>2 DEF DescTypes
    <3> QED BY <1>1, <2>7, <2>12, <3>1 DEF DescTypes
  <2>14. HandlersOwn'
    <3>1. \A j, k \in DOMAIN handlers' : j # k => handlers'[j].owner # handlers'[k].owner
      <4> SUFFICES ASSUME NEW j \in DOMAIN handlers', NEW k \in DOMAIN handlers', j # k
                   PROVE  handlers'[j].owner # handlers'[k].owner
        OBVIOUS
      <4>1. CASE j = 1
        BY <2>5, <2>8, <2>9, <2>11, <4>1
      <4>2. CASE k = 1
        BY <2>5, <2>8, <2>9, <2>11, <4>2
      <4>3. CASE j # 1 /\ k # 1
        <5>1. j - 1 # k - 1
          BY <2>7, <4>3
        <5> QED BY <2>8, <4>3, <5>1 DEF HandlersOwn
      <4> QED BY <4>1, <4>2, <4>3
    <3>2. \A k \in DOMAIN handlers' : behind'[handlers'[k].fd] = handlers'[k].owner
      <4> TAKE k \in DOMAIN handlers'
      <4>1. CASE k = 1
        BY <2>5, <2>9, <2>12, <4>1
      <4>2. CASE k # 1
        <5>1. k - 1 \in DOMAIN handlers /\ handlers'[k] = handlers[k - 1]
          BY <2>8, <4>2
        <5>2. behind'[handlers[k - 1].fd] = handlers[k - 1].owner
          BY <2>11, <5>1
        <5> QED BY ONLY <5>1, <5>2
      <4> QED BY <4>1, <4>2
    <3>3. alive' => \A s \in Sources \cup {Listener} : \E k \in DOMAIN handlers' : handlers'[k].owner = s
      BY <1>1, <2>10 DEF HandlersOwn, Called
    <3> QED BY <3>1, <3>2, <3>3 DEF HandlersOwn
  <2>15. WatchedHave'
    <3>1. \A e \in fds' : \E k \in DOMAIN handlers' : handlers'[k].fd = e
      <4> TAKE e \in fds'
      <4>1. CASE e = d
        BY ONLY <2>5, <2>9, <4>1
      <4>2. CASE e \in fds
        <5>1. PICK k \in DOMAIN handlers : handlers[k].fd = e
          BY <4>2 DEF WatchedHave
        <5> QED BY ONLY <2>10, <5>1
      <4> QED BY <2>2, <4>1, <4>2
    <3>2. WatchedIsHeard'
      <4> SUFFICES ASSUME NEW e \in fds' PROVE e <= maxfd' \/ (behind'[e] \in Sources /\ losses > 0)
        BY <1>1 DEF WatchedIsHeard
      <4>0. d \in Nat /\ maxfd \in Nat
        BY <2>1, DescriptorsAreOpened DEF Fds, DescTypes
      <4>1. CASE e = d
        BY <2>2, <4>0, <4>1
      <4>2. CASE e \in fds /\ e # d
        <5>1. e <= maxfd \/ (behind[e] \in Sources /\ losses > 0)
          BY <4>2 DEF WatchedHave, WatchedIsHeard
        <5>2. PICK k \in DOMAIN handlers : handlers[k].fd = e
          BY <4>2 DEF WatchedHave
        <5>3. e \in Fds /\ e \in Nat /\ behind'[e] = behind[e]
          BY <2>3, <2>6, <4>2, <5>2, DescriptorsAreOpened DEF Fds
        <5>4. e <= maxfd => e <= maxfd'
          BY <2>2, <4>0, <5>3
        <5> QED BY <5>1, <5>3, <5>4
      <4> QED BY <2>2, <4>1, <4>2
    <3>3. retry' # {} \/ left' \cap Sources # {} => losses' > 0
      BY <1>1 DEF WatchedHave
    <3>4. \A k \in DOMAIN handlers' : handlers'[k].owner \in retry' => handlers'[k].fd \notin fds'
      <4>1. c \notin retry
        BY <2>4 DEF DescTypes
      <4> QED BY <1>1, <2>2, <2>5, <2>8, <2>9, <2>11, <4>1 DEF WatchedHave
    <3> QED BY <3>1, <3>2, <3>3, <3>4 DEF WatchedHave
  <2>16. PassOK'
    <3>1. PICK n \in DOMAIN handlers : PassAt(n) /\ handlers[n].owner = Listener
      BY <1>1, CalledAt, OwnersDiffer
    <3>2. visit.called
      BY <1>1 DEF Called
    <3>3. \A k \in DOMAIN handlers : k > n /\ handlers[k].owner \in readable => handlers[k].owner \in readable'
      <4> SUFFICES ASSUME NEW k \in DOMAIN handlers, k > n, handlers[k].owner \in readable
                   PROVE  handlers[k].owner \in readable'
        OBVIOUS
      <4>1. k # n
        BY <2>6
      <4>2. handlers[k].owner # Listener /\ handlers[k].owner # c
        BY <2>11, <3>1, <4>1 DEF HandlersOwn
      <4> QED BY <1>3, <4>2
    <3>4. n + 2 \in Nat /\ \A k \in DOMAIN handlers' : k >= n + 2 =>
                             k # 1 /\ k - 1 > n
      BY <2>6, <2>7
    <3>5. \A k \in DOMAIN handlers' : k >= n + 2 => \E i \in DOMAIN handlers : i > n /\ handlers'[k] = handlers[i]
      BY <2>8, <3>4
    <3>6. n < Len(handlers) => n + 2 \in DOMAIN handlers' /\ handlers'[n + 2] = handlers[n + 1]
      <4> SUFFICES ASSUME n < Len(handlers) PROVE n + 2 \in DOMAIN handlers' /\ handlers'[n + 2] = handlers[n + 1]
        OBVIOUS
      <4>1. n + 1 \in DOMAIN handlers /\ (n + 1) + 1 = n + 2
        BY <2>6
      <4> QED BY <2>10, <4>1
    <3>7. Return /\ UNCHANGED rfds
      BY <1>1, <1>3
    <3> HIDE DEF DescInv
    <3>8. DescInv
      OBVIOUS
    <3> QED BY <3>1, <3>2, <3>3, <3>4, <3>5, <3>6, <3>7, <3>8, ReturnPass
  <2> QED BY <2>13, <2>14, <2>15, <2>16
<1> QED BY <1>2, <1>3 DEF remoteadm_listen_callback

\* A console answers, and its handler stays: nothing changes but for what the
\* feedback is connected to.
LEMMA AnswerDesc ==
  ASSUME DescInv, NEW c \in Consoles, Called(c), UNCHANGED <<handlers, fds, maxfd, left, rfds, retry, losses, alive>>,
         readable' = readable \ {c}, Return,
         behind' \in [Fds -> Owners \cup {Feedback, Free}],
         \A d \in Fds : behind[d] \in Owners => behind'[d] = behind[d]
  PROVE  DescInv'
<1> USE DEF DescInv
<1>1. c \in Owners
  BY DEF Owners
<1>2. /\ Len(handlers) \in Nat /\ DOMAIN handlers = 1 .. Len(handlers)
      /\ \A k \in DOMAIN handlers : handlers[k].owner \in Owners /\ handlers[k].fd \in Fds
  BY ListIs
<1>3. \A k \in DOMAIN handlers : behind'[handlers[k].fd] = handlers[k].owner
  BY <1>2 DEF HandlersOwn
<1>4. DescTypes'
  BY DEF DescTypes
<1>5. HandlersOwn'
  BY <1>3 DEF HandlersOwn
<1>6. \A d \in fds : behind'[d] = behind[d]
  <2> TAKE d \in fds
  <2>1. PICK k \in DOMAIN handlers : handlers[k].fd = d
    BY DEF WatchedHave
  <2> QED BY <1>3, <2>1 DEF HandlersOwn
<1>7. WatchedHave'
  BY <1>6 DEF WatchedHave, WatchedIsHeard
<1>8. PassOK'
  <2>1. PICK n \in DOMAIN handlers : PassAt(n) /\ handlers[n].owner = c
    BY <1>1, CalledAt
  <2>2. \A k \in DOMAIN handlers : k > n /\ handlers[k].owner \in readable => handlers[k].owner \in readable'
    <3> SUFFICES ASSUME NEW k \in DOMAIN handlers, k > n, handlers[k].owner \in readable
                 PROVE  handlers[k].owner \in readable'
      OBVIOUS
    <3>1. k # n
      BY <1>2
    <3> QED BY <2>1, <3>1 DEF HandlersOwn
  <2>3. n + 1 \in Nat /\ \A k \in DOMAIN handlers' : k >= n + 1 => k > n
    BY <1>2
  <2>4. n < Len(handlers) => n + 1 \in DOMAIN handlers'
    BY <1>2
  <2>5. visit.called
    BY DEF Called
  <2>6. \A k \in DOMAIN handlers' : k >= n + 1 => \E i \in DOMAIN handlers : i > n /\ handlers'[k] = handlers[i]
    BY <2>3
  <2>7. n < Len(handlers) => n + 1 \in DOMAIN handlers' /\ handlers'[n + 1] = handlers[n + 1]
    BY <2>4
  <2> HIDE DEF DescInv
  <2> QED BY <2>1, <2>2, <2>3, <2>5, <2>6, <2>7, ReturnPass
<1> QED BY <1>4, <1>5, <1>7, <1>8

\* radm_cmd_exit(): the first handler of the descriptor is that of the console.
LEMMA ClosedDesc ==
  ASSUME DescInv, NEW c \in Consoles, Called(c), radm_cmd_exit(HandlerOf(c).fd),
         readable' = readable \ {c}, Return, UNCHANGED <<left, rfds, retry, losses, alive>>
  PROVE  DescInv'
<1> USE DEF DescInv
<1>1. c \in Owners /\ c \notin Sources /\ c # Listener
  BY OwnersDiffer DEF Owners
<1>2. PICK n \in DOMAIN handlers : PassAt(n) /\ handlers[n].owner = c /\ HandlerOf(c) = handlers[n]
  BY <1>1, CalledAt
<1>3. /\ Len(handlers) \in Nat /\ DOMAIN handlers = 1 .. Len(handlers)
      /\ handlers \in Seq([owner : Owners, fd : Fds])
      /\ \A k \in DOMAIN handlers : handlers[k].owner \in Owners /\ handlers[k].fd \in Fds
  BY ListIs DEF DescTypes
<1> DEFINE d == handlers[n].fd
           first == CHOOSE k \in DOMAIN handlers : handlers[k].fd = d /\ \A j \in 1..k - 1 : handlers[j].fd # d
<1>4. first = n
  <2>1. \A k \in DOMAIN handlers : handlers[k].fd = d => k = n
    BY FdsDistinct DEF OneHandlerEach
  <2>2. \A j \in 1..n - 1 : handlers[j].fd # d
    <3> TAKE j \in 1..n - 1
    <3>1. j \in DOMAIN handlers /\ j # n
      BY <1>3
    <3> QED BY <2>1, <3>1
  <2> QED BY <2>1, <2>2
<1>5. /\ handlers' = SubSeq(handlers, 1, first - 1) \o SubSeq(handlers, first + 1, Len(handlers))
      /\ fds' = fds \ {d} /\ UNCHANGED maxfd /\ behind' = [behind EXCEPT ![d] = Free]
  BY <1>2 DEF radm_cmd_exit, del_input_descriptor
<1> HIDE DEF first
<1>6. /\ handlers' \in Seq([owner : Owners, fd : Fds]) /\ Len(handlers') = Len(handlers) - 1
      /\ DOMAIN handlers' = 1 .. Len(handlers) - 1
      /\ \A k \in 1 .. Len(handlers) - 1 : handlers'[k] = IF k < n THEN handlers[k] ELSE handlers[k + 1]
  BY <1>3, <1>4, <1>5, WithoutOne
<1> DEFINE was(k) == IF k < n THEN k ELSE k + 1
<1>7. \A k \in DOMAIN handlers' : was(k) \in DOMAIN handlers /\ was(k) # n /\ handlers'[k] = handlers[was(k)]
  BY <1>3, <1>6
<1>8. \A j, k \in DOMAIN handlers' : j # k => was(j) # was(k)
  BY <1>6
<1>9. \A i \in DOMAIN handlers : i # n => \E k \in DOMAIN handlers' : handlers'[k] = handlers[i]
  <2> SUFFICES ASSUME NEW i \in DOMAIN handlers, i # n PROVE \E k \in DOMAIN handlers' : handlers'[k] = handlers[i]
    OBVIOUS
  <2>1. CASE i < n
    BY <1>3, <1>6, <2>1
  <2>2. CASE i > n
    <3>1. i - 1 \in DOMAIN handlers' /\ ~ (i - 1 < n) /\ (i - 1) + 1 = i
      BY <1>3, <1>6, <2>2
    <3> QED BY <1>6, <3>1
  <2> QED BY <1>3, <2>1, <2>2
<1>10. d \in Fds /\ behind[d] = c
  BY <1>2, <1>3 DEF HandlersOwn
<1>11. \A i \in DOMAIN handlers : i # n => handlers[i].fd # d /\ behind'[handlers[i].fd] = handlers[i].owner
  <2> SUFFICES ASSUME NEW i \in DOMAIN handlers, i # n
               PROVE  handlers[i].fd # d /\ behind'[handlers[i].fd] = handlers[i].owner
    OBVIOUS
  <2>1. handlers[i].fd # d
    BY FdsDistinct DEF OneHandlerEach
  <2>2. behind[handlers[i].fd] = handlers[i].owner /\ handlers[i].fd \in Fds
    BY <1>3 DEF HandlersOwn
  <2> QED BY <1>5, <2>1, <2>2 DEF DescTypes
<1> HIDE DEF d, was
<1>12. DescTypes'
  <2>1. behind' \in [Fds -> Owners \cup {Feedback, Free}]
    BY <1>5, <1>10 DEF DescTypes
  <2> QED BY <1>5, <1>6, <2>1 DEF DescTypes
<1>13. HandlersOwn'
  <2>1. \A j, k \in DOMAIN handlers' : j # k => handlers'[j].owner # handlers'[k].owner
    BY <1>7, <1>8 DEF HandlersOwn
  <2>2. \A k \in DOMAIN handlers' : behind'[handlers'[k].fd] = handlers'[k].owner
    BY <1>7, <1>11
  <2>3. alive' => \A s \in Sources \cup {Listener} : \E k \in DOMAIN handlers' : handlers'[k].owner = s
    <3> SUFFICES ASSUME NEW s \in Sources \cup {Listener} PROVE \E k \in DOMAIN handlers' : handlers'[k].owner = s
      OBVIOUS
    <3>1. PICK i \in DOMAIN handlers : handlers[i].owner = s
      BY DEF HandlersOwn, Called
    <3>2. i # n
      BY <1>1, <1>2, <3>1
    <3> QED BY <1>9, <3>1, <3>2
  <2> QED BY <2>1, <2>2, <2>3 DEF HandlersOwn
<1>14. WatchedHave'
  <2>1. \A e \in fds' : \E k \in DOMAIN handlers' : handlers'[k].fd = e
    <3> TAKE e \in fds'
    <3>1. PICK i \in DOMAIN handlers : handlers[i].fd = e
      BY <1>5 DEF WatchedHave
    <3>2. i # n
      BY <1>5, <3>1 DEF d
    <3> QED BY <1>9, <3>1, <3>2
  <2>2. \A e \in fds' : behind'[e] = behind[e] /\ e \in fds
    <3> TAKE e \in fds'
    <3>1. PICK i \in DOMAIN handlers : handlers[i].fd = e
      BY <1>5 DEF WatchedHave
    <3>2. i # n
      BY <1>5, <3>1 DEF d
    <3> QED BY <1>5, <1>11, <3>1, <3>2 DEF HandlersOwn
  <2>3. WatchedIsHeard'
    BY <1>5, <2>2 DEF WatchedHave, WatchedIsHeard
  <2>4. \A k \in DOMAIN handlers' : handlers'[k].owner \in retry' => handlers'[k].fd \notin fds'
    BY <1>5, <1>7 DEF WatchedHave
  <2>5. retry' # {} \/ left' \cap Sources # {} => losses' > 0
    BY DEF WatchedHave
  <2> QED BY <2>1, <2>3, <2>4, <2>5 DEF WatchedHave
<1>15. PassOK'
  <2>1. \A k \in DOMAIN handlers : k > n /\ handlers[k].owner \in readable => handlers[k].owner \in readable'
    <3> SUFFICES ASSUME NEW k \in DOMAIN handlers, k > n, handlers[k].owner \in readable
                 PROVE  handlers[k].owner \in readable'
      OBVIOUS
    <3>1. k # n
      BY <1>3
    <3> QED BY <1>2, <3>1 DEF HandlersOwn
  <2>2. n \in Nat /\ \A k \in DOMAIN handlers' : k >= n =>
                       k + 1 \in DOMAIN handlers /\ k + 1 > n /\ handlers'[k] = handlers[k + 1]
    BY <1>3, <1>6
  <2>3. n < Len(handlers) => n \in DOMAIN handlers' /\ handlers'[n] = handlers[n + 1]
    BY <1>3, <1>6
  <2>4. \A k \in DOMAIN handlers' : k >= n => \E i \in DOMAIN handlers : i > n /\ handlers'[k] = handlers[i]
    BY <2>2
  <2>5. visit.called
    BY DEF Called
  <2> HIDE DEF DescInv
  <2> QED BY <1>2, <2>1, <2>2, <2>3, <2>4, <2>5, ReturnPass
<1> QED BY <1>12, <1>13, <1>14, <1>15

\* radm_cmd_feedback() closes and opens only what the feedback is connected to.
LEMMA FeedbackKeeps ==
  ASSUME DescTypes, radm_cmd_feedback
  PROVE  /\ behind' \in [Fds -> Owners \cup {Feedback, Free}]
         /\ \A d \in Fds : behind[d] \in Owners => behind'[d] = behind[d]
         /\ UNCHANGED <<handlers, fds, maxfd>>
<1> DEFINE old == {d \in Fds : behind[d] = Feedback}
           lowest == CHOOSE d \in FreeFds \cup old : \A e \in FreeFds \cup old : d <= e
           closed == [d \in Fds |-> IF d \in old THEN Free ELSE behind[d]]
<1>0. behind \in [Fds -> Owners \cup {Feedback, Free}]
  BY DEF DescTypes
<1>1. /\ closed \in [Fds -> Owners \cup {Feedback, Free}]
      /\ \A d \in Fds : behind[d] \in Owners => closed[d] = behind[d]
  BY <1>0, OwnersDiffer
<1>2. UNCHANGED <<handlers, fds, maxfd>>
  BY DEF radm_cmd_feedback
<1>3. \/ behind' = closed
      \/ FreeFds \cup old # {} /\ behind' = [closed EXCEPT ![lowest] = Feedback]
  BY DEF radm_cmd_feedback
<1>4. CASE behind' = closed
  BY <1>1, <1>2, <1>4
<1>5. CASE FreeFds \cup old # {} /\ behind' = [closed EXCEPT ![lowest] = Feedback]
  <2> DEFINE may == FreeFds \cup old
  <2>1. may \in SUBSET Nat /\ may # {}
    BY <1>5, DescriptorsAreOpened DEF FreeFds, Fds
  <2>2. \E d \in may : \A e \in may : d <= e
    <3> HIDE DEF may
    <3> QED BY <2>1, LeastNatural
  <2>3. lowest \in may
    BY <2>2
  <2>4. lowest \in Fds /\ behind[lowest] \in {Feedback, Free}
    BY <2>3 DEF FreeFds
  <2>5. behind' = [closed EXCEPT ![lowest] = Feedback]
    BY <1>5
  <2>6. behind[lowest] \notin Owners
    BY <2>4, OwnersDiffer
  <2> HIDE DEF closed, lowest, old
  <2> QED BY <1>1, <1>2, <2>4, <2>5, <2>6
<1> HIDE DEF closed, lowest, old
<1> QED BY <1>3, <1>4, <1>5

LEMMA ClientDesc == ASSUME DescInv, remoteadm_client_callback PROVE DescInv'
<1>1. PICK c \in Consoles :
        /\ Called(c)
        /\ \/ Exit
           \/ /\ \/ radm_cmd_exit(HandlerOf(c).fd)
                 \/ c \notin left /\ UNCHANGED <<behind, handlers, fds, maxfd, feedback>>
                 \/ c \notin left /\ radm_cmd_feedback
              /\ readable' = readable \ {c}
              /\ Return /\ UNCHANGED alive
        /\ UNCHANGED <<left, rfds, retry, losses>>
  BY DEF remoteadm_client_callback
<1>2. CASE Exit
  BY <1>1, <1>2, ExitDesc
<1>3. CASE ~Exit
  <2>1. readable' = readable \ {c} /\ Return /\ UNCHANGED alive
    BY <1>1, <1>3
  <2>2. CASE radm_cmd_exit(HandlerOf(c).fd)
    BY <1>1, <2>1, <2>2, ClosedDesc
  <2>3. CASE UNCHANGED <<behind, handlers, fds, maxfd, feedback>>
    <3>1. /\ behind' \in [Fds -> Owners \cup {Feedback, Free}]
          /\ \A d \in Fds : behind[d] \in Owners => behind'[d] = behind[d]
      BY <2>3 DEF DescInv, DescTypes
    <3> QED BY <1>1, <2>1, <2>3, <3>1, AnswerDesc
  <2>4. CASE radm_cmd_feedback
    <3>1. /\ behind' \in [Fds -> Owners \cup {Feedback, Free}]
          /\ \A d \in Fds : behind[d] \in Owners => behind'[d] = behind[d]
          /\ UNCHANGED <<handlers, fds, maxfd>>
      BY <2>4, FeedbackKeeps DEF DescInv
    <3> QED BY <1>1, <2>1, <3>1, AnswerDesc
  <2> QED BY <1>1, <1>3, <2>2, <2>3, <2>4
<1> QED BY <1>2, <1>3

\* A source sends, or is lost: then its descriptor is no longer watched.
LEMMA SocketDesc == ASSUME DescInv, textsocket_callback PROVE DescInv'
<1> USE DEF DescInv
<1>1. PICK s \in Sources :
        /\ Called(s) /\ readable' = readable \ {s}
        /\ IF s \in left THEN retry' = retry \cup {s} /\ fds' = fds \ {HandlerOf(s).fd}
           ELSE UNCHANGED <<retry, fds>>
        /\ Return
        /\ UNCHANGED <<behind, handlers, maxfd, left, rfds, feedback, losses, alive>>
  BY DEF textsocket_callback
<1>2. s \in Owners
  BY DEF Owners
<1>3. PICK n \in DOMAIN handlers : PassAt(n) /\ handlers[n].owner = s /\ HandlerOf(s) = handlers[n]
  BY <1>1, <1>2, CalledAt
<1>4. /\ Len(handlers) \in Nat /\ DOMAIN handlers = 1 .. Len(handlers)
      /\ \A k \in DOMAIN handlers : handlers[k].owner \in Owners /\ handlers[k].fd \in Fds
  BY ListIs
<1>5. fds' \subseteq fds /\ retry' \subseteq retry \cup {s}
  BY <1>1
<1>6. DescTypes'
  BY <1>1, <1>5 DEF DescTypes
<1>7. HandlersOwn'
  BY <1>1 DEF HandlersOwn
<1>8. WatchedHave'
  <2>1. \A e \in fds' : \E k \in DOMAIN handlers' : handlers'[k].fd = e
    BY <1>1, <1>5 DEF WatchedHave
  <2>2. WatchedIsHeard'
    BY <1>1, <1>5 DEF WatchedHave, WatchedIsHeard
  <2>3. retry' # {} \/ left' \cap Sources # {} => losses' > 0
    BY <1>1 DEF WatchedHave
  <2>4. \A k \in DOMAIN handlers' : handlers'[k].owner \in retry' => handlers'[k].fd \notin fds'
    <3> SUFFICES ASSUME NEW k \in DOMAIN handlers, handlers[k].owner \in retry' PROVE handlers[k].fd \notin fds'
      BY <1>1
    <3>1. CASE handlers[k].owner \in retry
      BY <1>5, <3>1 DEF WatchedHave
    <3>2. CASE handlers[k].owner \notin retry
      <4>1. handlers[k].owner = s /\ s \in left
        BY <1>1, <3>2
      <4>2. k = n
        BY <1>3, <4>1 DEF HandlersOwn
      <4> QED BY <1>1, <1>3, <4>1, <4>2
    <3> QED BY <3>1, <3>2
  <2> QED BY <2>1, <2>2, <2>3, <2>4 DEF WatchedHave
<1>9. PassOK'
  <2>1. \A k \in DOMAIN handlers : k > n /\ handlers[k].owner \in readable => handlers[k].owner \in readable'
    <3> SUFFICES ASSUME NEW k \in DOMAIN handlers, k > n, handlers[k].owner \in readable
                 PROVE  handlers[k].owner \in readable'
      OBVIOUS
    <3>1. k # n
      BY <1>4
    <3> QED BY <1>1, <1>3, <3>1 DEF HandlersOwn
  <2>2. n + 1 \in Nat /\ \A k \in DOMAIN handlers' : k >= n + 1 => k > n
    BY <1>1, <1>4
  <2>3. \A k \in DOMAIN handlers' : k >= n + 1 => \E i \in DOMAIN handlers : i > n /\ handlers'[k] = handlers[i]
    BY <1>1, <2>2
  <2>4. n < Len(handlers) => n + 1 \in DOMAIN handlers' /\ handlers'[n + 1] = handlers[n + 1]
    BY <1>1, <1>4
  <2>5. visit.called /\ Return /\ UNCHANGED rfds
    BY <1>1 DEF Called
  <2> HIDE DEF DescInv
  <2> QED BY <1>3, <2>1, <2>2, <2>3, <2>4, <2>5, ReturnPass
<1> QED BY <1>6, <1>7, <1>8, <1>9

\* A source that was lost gets another descriptor, in the place of the old one.
LEMMA ReconnectDesc == ASSUME DescInv, textsocket_try_reconnect PROVE DescInv'
<1> USE DEF DescInv
<1> DEFINE d == LowestFree
<1>1. PICK s \in retry :
        /\ alive /\ Idle /\ FreeFds # {}
        /\ behind' = [behind EXCEPT ![d] = s]
        /\ left' = left \ {s}
        /\ reincarnate_fd(HandlerOf(s).fd, d)
        /\ retry' = retry \ {s}
        /\ UNCHANGED <<readable, rfds, visit, feedback, losses, alive>>
  BY DEF textsocket_try_reconnect
<1>2. d \in Fds /\ behind[d] = Free
  BY <1>1, LowestIsFree
<1> HIDE DEF d
<1>3. s \in Sources /\ s \in Owners /\ losses > 0
  BY DEF DescTypes, Owners, WatchedHave
<1>4. PICK n \in DOMAIN handlers : handlers[n].owner = s
  BY <1>1, <1>3 DEF HandlersOwn
<1>5. HandlerOf(s) = handlers[n]
  BY <1>4, HandlerIs
<1> DEFINE old == handlers[n].fd
<1>6. /\ handlers' = [k \in DOMAIN handlers |->
                        IF handlers[k].fd = old THEN [handlers[k] EXCEPT !.fd = d] ELSE handlers[k]]
      /\ fds' = fds \cup {d} /\ UNCHANGED maxfd
  BY <1>1, <1>5 DEF reincarnate_fd, substitute_fd
<1>7. /\ Len(handlers) \in Nat /\ DOMAIN handlers = 1 .. Len(handlers)
      /\ \A k \in DOMAIN handlers : /\ handlers[k] \in [owner : Owners, fd : Fds]
                                    /\ handlers[k].owner \in Owners /\ handlers[k].fd \in Fds
  BY ListIs
<1>8. \A k \in DOMAIN handlers : handlers[k].fd = old <=> k = n
  BY FdsDistinct DEF OneHandlerEach
<1> HIDE DEF old
<1>9. [handlers[n] EXCEPT !.fd = d] = [owner |-> s, fd |-> d]
  BY <1>4, <1>7
<1>10. /\ DOMAIN handlers' = DOMAIN handlers
       /\ \A k \in DOMAIN handlers : handlers'[k] = IF k = n THEN [owner |-> s, fd |-> d] ELSE handlers[k]
  BY <1>6, <1>8, <1>9
<1>11. handlers' \in Seq([owner : Owners, fd : Fds])
  <2>1. [owner |-> s, fd |-> d] \in [owner : Owners, fd : Fds]
    BY <1>2, <1>3
  <2>2. handlers' = [k \in 1 .. Len(handlers) |-> IF k = n THEN [owner |-> s, fd |-> d] ELSE handlers[k]]
    BY <1>6, <1>7, <1>8, <1>9
  <2>3. handlers' \in [1 .. Len(handlers) -> [owner : Owners, fd : Fds]]
    BY <1>7, <2>1, <2>2
  <2> QED BY <1>7, <2>3, ListFromFunction
<1>12. \A k \in DOMAIN handlers : /\ handlers'[k].owner = handlers[k].owner
                                  /\ handlers'[k].fd = IF k = n THEN d ELSE handlers[k].fd
  BY <1>4, <1>10
<1>13. behind' \in [Fds -> Owners \cup {Feedback, Free}] /\ behind'[d] = s
       /\ \A e \in Fds : e # d => behind'[e] = behind[e]
  BY <1>1, <1>2, <1>3 DEF DescTypes
<1>14. \A k \in DOMAIN handlers : handlers[k].fd # d /\ behind'[handlers[k].fd] = handlers[k].owner
  <2> TAKE k \in DOMAIN handlers
  <2>1. behind[handlers[k].fd] = handlers[k].owner /\ handlers[k].owner # Free
    BY <1>7, OwnersDiffer DEF HandlersOwn
  <2> QED BY <1>2, <1>7, <1>13, <2>1
<1>15. DescTypes'
  BY <1>1, <1>6, <1>11, <1>13 DEF DescTypes
<1>16. HandlersOwn'
  <2>1. \A j, k \in DOMAIN handlers' : j # k => handlers'[j].owner # handlers'[k].owner
    BY <1>10, <1>12 DEF HandlersOwn
  <2>2. \A k \in DOMAIN handlers' : behind'[handlers'[k].fd] = handlers'[k].owner
    <3> TAKE k \in DOMAIN handlers'
    <3>1. CASE k = n
      BY <1>4, <1>10, <1>12, <1>13, <3>1
    <3>2. CASE k # n
      BY <1>10, <1>12, <1>14, <3>2
    <3> QED BY <3>1, <3>2
  <2>3. alive' => \A o \in Sources \cup {Listener} : \E k \in DOMAIN handlers' : handlers'[k].owner = o
    BY <1>1, <1>10, <1>12 DEF HandlersOwn
  <2> QED BY <2>1, <2>2, <2>3 DEF HandlersOwn
<1>17. WatchedHave'
  <2>1. old \notin fds
    BY <1>4 DEF WatchedHave, old
  <2>2. \A e \in fds' : \E k \in DOMAIN handlers' : handlers'[k].fd = e
    <3> TAKE e \in fds'
    <3>1. CASE e = d
      BY <1>10, <1>12, <3>1
    <3>2. CASE e # d
      <4>1. e \in fds
        BY <1>6, <3>2
      <4>2. PICK k \in DOMAIN handlers : handlers[k].fd = e
        BY <4>1 DEF WatchedHave
      <4>3. k # n
        BY <2>1, <4>1, <4>2 DEF old
      <4> QED BY <1>10, <1>12, <4>2, <4>3
    <3> QED BY <3>1, <3>2
  <2>3. WatchedIsHeard'
    <3> SUFFICES ASSUME NEW e \in fds' PROVE e <= maxfd \/ (behind'[e] \in Sources /\ losses > 0)
      BY <1>1, <1>6 DEF WatchedIsHeard
    <3>1. CASE e = d
      BY <1>3, <1>13, <3>1
    <3>2. CASE e # d
      <4>1. e \in fds
        BY <1>6, <3>2
      <4>2. e \in Fds
        BY <1>7, <4>1 DEF WatchedHave
      <4> QED BY <1>13, <3>2, <4>1, <4>2 DEF WatchedHave, WatchedIsHeard
    <3> QED BY <3>1, <3>2
  <2>4. retry' # {} \/ left' \cap Sources # {} => losses' > 0
    BY <1>1, <1>3
  <2>5. \A k \in DOMAIN handlers' : handlers'[k].owner \in retry' => handlers'[k].fd \notin fds'
    <3> SUFFICES ASSUME NEW k \in DOMAIN handlers, handlers'[k].owner \in retry' PROVE handlers'[k].fd \notin fds'
      BY <1>10
    <3>1. handlers[k].owner \in retry /\ k # n
      BY <1>1, <1>4, <1>12
    <3>2. handlers'[k].fd = handlers[k].fd /\ handlers[k].fd \notin fds /\ handlers[k].fd # d
      BY <1>12, <1>14, <3>1 DEF WatchedHave
    <3> QED BY <1>6, <3>2
  <2> QED BY <2>2, <2>3, <2>4, <2>5 DEF WatchedHave
<1>18. PassOK'
  BY <1>1 DEF PassOK, Idle
<1> QED BY <1>15, <1>16, <1>17, <1>18

\* The other sides: there is more to read, and more are lost.
LEMMA PeersDesc == ASSUME DescInv, Peers PROVE DescInv'
<1> USE DEF DescInv
<1>1. /\ UNCHANGED <<behind, handlers, fds, maxfd, rfds, visit, retry, feedback, alive>>
      /\ readable \subseteq readable'
      /\ losses' \in Nat /\ losses' >= losses
      /\ left' \cap Sources # left \cap Sources => losses' > losses
  <2>1. losses \in Nat /\ losses' \in Nat
    BY DEF Peers, DescTypes
  <2>2. PICK x \in Consoles \cup Sources :
          \/ (Call(x) \/ Send(x)) /\ UNCHANGED losses
          \/ Leave(x) /\ IF x \in Sources THEN losses < MaxLosses /\ losses' = losses + 1 ELSE UNCHANGED losses
    BY DEF Peers
  <2>3. UNCHANGED <<behind, handlers, fds, maxfd, rfds, visit, retry, feedback, alive>>
    BY DEF Peers
  <2>4. CASE (Call(x) \/ Send(x)) /\ UNCHANGED losses
    BY <2>1, <2>3, <2>4 DEF Call, Send
  <2>5. CASE Leave(x) /\ x \in Sources /\ losses' = losses + 1
    BY <2>1, <2>3, <2>5 DEF Leave
  <2>6. CASE Leave(x) /\ x \notin Sources /\ UNCHANGED losses
    <3>1. left' = left \cup {x} /\ readable' = readable \cup {x}
      BY <2>6 DEF Leave
    <3> QED BY <2>1, <2>3, <2>6, <3>1
  <2> QED BY <2>2, <2>4, <2>5, <2>6
<1>2. losses \in Nat
  BY DEF DescTypes
<1>3. DescTypes' /\ HandlersOwn'
  BY <1>1 DEF DescTypes, HandlersOwn
<1>4. WatchedHave'
  <2>1. losses > 0 => losses' > 0
    BY <1>1, <1>2
  <2>2. WatchedIsHeard'
    BY <1>1, <2>1 DEF WatchedHave, WatchedIsHeard
  <2>3. retry' # {} \/ left' \cap Sources # {} => losses' > 0
    <3>1. losses' > losses => losses' > 0
      BY <1>1, <1>2
    <3> QED BY <1>1, <2>1, <3>1 DEF WatchedHave
  <2> QED BY <1>1, <2>2, <2>3 DEF WatchedHave
<1>5. PassOK'
  <2>1. \A n : PassAt(n) => PassAt(n)'
    BY <1>1 DEF PassAt
  <2> QED BY <1>1, <2>1 DEF PassOK
<1> QED BY <1>3, <1>4, <1>5

LEMMA NextDesc == ASSUME DescInv, [DescNext]_descVars PROVE DescInv'
<1>1. CASE UNCHANGED descVars
  BY <1>1 DEF descVars, DescInv, DescTypes, HandlersOwn, WatchedHave, WatchedIsHeard, PassOK, PassAt
<1> QED BY <1>1, SelectDesc, NextHandlerDesc, ListenDesc, ClientDesc, SocketDesc, ReconnectDesc, PeersDesc DEF DescNext

\* add_input_file() gives every source a handler, radm_postconfig() the listening
\* socket, in the order of their descriptors.
LEMMA InitDesc == ASSUME DescInit PROVE DescInv
<1> DEFINE n == Cardinality(Sources)
<1>1. n \in Nat /\ IsFiniteSet(Sources) /\ Limit \in Nat /\ n + 3 <= Limit
  BY DescriptorsAreOpened, FS_CardinalityType
<1>2. PICK order \in [1..n -> Sources] :
        /\ \A i, j \in DOMAIN order : i # j => order[i] # order[j]
        /\ behind = [d \in Fds |-> IF d - 2 \in DOMAIN order THEN order[d - 2]
                                   ELSE IF d = Len(order) + 3 THEN Listener ELSE Free]
        /\ handlers = [k \in 1..Len(order) + 1 |-> IF k = 1 THEN [owner |-> Listener, fd |-> Len(order) + 3]
                         ELSE [owner |-> order[Len(order) + 2 - k], fd |-> Len(order) + 4 - k]]
        /\ fds = 3..Len(order) + 3 /\ maxfd = Len(order) + 3
        /\ readable = {} /\ left = {} /\ rfds = {}
        /\ visit = [at |-> None, called |-> FALSE, next |-> None]
        /\ retry = {} /\ feedback = "off" /\ losses = 0 /\ alive = TRUE
  BY DEF DescInit
<1> HIDE DEF n
<1>3. Len(order) = n /\ DOMAIN order = 1 .. n
  <2>1. order \in Seq(Sources)
    BY <1>1, SeqDef
  <2> QED BY <1>1, <2>1, LenProperties
<1>4. /\ DOMAIN handlers = 1 .. n + 1
      /\ \A k \in 1 .. n + 1 : handlers[k] = IF k = 1 THEN [owner |-> Listener, fd |-> n + 3]
                                             ELSE [owner |-> order[n + 2 - k], fd |-> n + 4 - k]
  BY <1>2, <1>3
<1>5. \A k \in 1 .. n + 1 : k # 1 => n + 2 - k \in 1 .. n /\ n + 4 - k \in Fds /\ (n + 4 - k) - 2 = n + 2 - k
  BY <1>1 DEF Fds
<1>6. n + 3 \in Fds /\ ~ ((n + 3) - 2 \in 1 .. n)
  BY <1>1 DEF Fds
<1>7. \A k \in 1 .. n + 1 :
        /\ handlers[k].owner = IF k = 1 THEN Listener ELSE order[n + 2 - k]
        /\ handlers[k].fd = IF k = 1 THEN n + 3 ELSE n + 4 - k
        /\ handlers[k] \in [owner : Owners, fd : Fds]
  <2> TAKE k \in 1 .. n + 1
  <2>1. CASE k = 1
    BY <1>4, <1>6, <2>1 DEF Owners
  <2>2. CASE k # 1
    <3>1. order[n + 2 - k] \in Sources
      BY <1>5, <2>2
    <3> QED BY <1>4, <1>5, <2>2, <3>1 DEF Owners
  <2> QED BY <2>1, <2>2
<1>8. handlers \in Seq([owner : Owners, fd : Fds])
  <2>1. handlers \in [1 .. n + 1 -> [owner : Owners, fd : Fds]]
    BY <1>2, <1>3, <1>7
  <2>2. n + 1 \in Nat
    BY <1>1
  <2> QED BY <2>1, <2>2, ListFromFunction
<1>9. \A d \in Fds : behind[d] = IF d - 2 \in 1 .. n THEN order[d - 2] ELSE IF d = n + 3 THEN Listener ELSE Free
  BY <1>2, <1>3
<1>10. DescTypes
  <2>1. behind \in [Fds -> Owners \cup {Feedback, Free}]
    <3>1. behind = [d \in Fds |-> IF d - 2 \in 1 .. n THEN order[d - 2] ELSE IF d = n + 3 THEN Listener ELSE Free]
      BY <1>2, <1>3
    <3>2. \A d \in Fds : (IF d - 2 \in 1 .. n THEN order[d - 2] ELSE IF d = n + 3 THEN Listener ELSE Free)
                           \in Owners \cup {Feedback, Free}
      BY DEF Owners
    <3> QED BY <3>1, <3>2
  <2> QED BY <1>2, <1>3, <1>6, <1>8, <2>1 DEF DescTypes
<1>11. HandlersOwn
  <2>1. \A j, k \in DOMAIN handlers : j # k => handlers[j].owner # handlers[k].owner
    <3> SUFFICES ASSUME NEW j \in 1 .. n + 1, NEW k \in 1 .. n + 1, j # k
                 PROVE  handlers[j].owner # handlers[k].owner
      BY <1>4
    <3>1. \A i \in 1 .. n : order[i] \in Sources /\ order[i] # Listener
      BY OwnersDiffer
    <3>2. CASE j = 1 \/ k = 1
      BY <1>5, <1>7, <3>1, <3>2
    <3>3. CASE j # 1 /\ k # 1
      <4>1. n + 2 - j # n + 2 - k
        BY <1>1
      <4>2. n + 2 - j \in DOMAIN order /\ n + 2 - k \in DOMAIN order
        BY <1>3, <1>5, <3>3
      <4>3. order[n + 2 - j] # order[n + 2 - k]
        BY <1>2, <4>1, <4>2
      <4> QED BY <1>7, <3>3, <4>3
    <3> QED BY <3>2, <3>3
  <2>2. \A k \in DOMAIN handlers : behind[handlers[k].fd] = handlers[k].owner
    <3> SUFFICES ASSUME NEW k \in 1 .. n + 1 PROVE behind[handlers[k].fd] = handlers[k].owner
      BY <1>4
    <3>1. CASE k = 1
      <4>1. handlers[k].owner = Listener /\ handlers[k].fd = n + 3
        BY <1>7, <3>1
      <4>2. behind[n + 3] = Listener
        <5> DEFINE e == n + 3
        <5>1. e \in Fds /\ ~ (e - 2 \in 1 .. n) /\ e = n + 3
          BY <1>6
        <5> HIDE DEF e
        <5>2. behind[e] = (IF e - 2 \in 1 .. n THEN order[e - 2] ELSE IF e = n + 3 THEN Listener ELSE Free)
          BY ONLY <1>9, <5>1
        <5>3. behind[e] = Listener
          BY ONLY <5>1, <5>2
        <5> QED BY ONLY <5>1, <5>3
      <4> QED BY <4>1, <4>2
    <3>2. CASE k # 1
      <4>1. n + 4 - k \in Fds /\ (n + 4 - k) - 2 = n + 2 - k /\ n + 2 - k \in 1 .. n
        BY <1>5, <3>2
      <4>2. behind[n + 4 - k] = order[n + 2 - k]
        BY <1>9, <4>1
      <4> QED BY <1>7, <3>2, <4>2
    <3> QED BY <3>1, <3>2
  <2>3. \A s \in Sources : \E i \in 1 .. n : order[i] = s
    <3>1. order \in Injection(1 .. n, Sources)
      BY <1>2, <1>3 DEF Injection, IsInjective
    <3>2. IsFiniteSet(1 .. n) /\ Cardinality(1 .. n) = n
      BY <1>1, FS_Interval
    <3>3. order \in Surjection(1 .. n, Sources)
      BY <1>1, <3>1, <3>2, FS_Injection DEF n
    <3> QED BY <3>3 DEF Surjection
  <2>4. \A s \in Sources \cup {Listener} : \E k \in DOMAIN handlers : handlers[k].owner = s
    <3> TAKE s \in Sources \cup {Listener}
    <3>1. CASE s = Listener
      <4>1. 1 \in 1 .. n + 1
        BY <1>1
      <4> QED BY <1>4, <1>7, <3>1, <4>1
    <3>2. CASE s \in Sources
      <4>1. PICK i \in 1 .. n : order[i] = s
        BY <2>3, <3>2
      <4>2. n + 2 - i \in 1 .. n + 1 /\ n + 2 - i # 1 /\ n + 2 - (n + 2 - i) = i
        BY <1>1
      <4> QED BY <1>4, <1>7, <4>1, <4>2
    <3> QED BY <3>1, <3>2
  <2> QED BY <2>1, <2>2, <2>4 DEF HandlersOwn
<1>12. WatchedHave
  <2>1. \A d \in fds : \E k \in DOMAIN handlers : handlers[k].fd = d
    <3> SUFFICES ASSUME NEW d \in 3 .. n + 3 PROVE \E k \in 1 .. n + 1 : handlers[k].fd = d
      BY <1>2, <1>3, <1>4
    <3>1. n + 4 - d \in 1 .. n + 1 /\ (n + 4 - d = 1 => d = n + 3) /\ n + 4 - (n + 4 - d) = d
      BY <1>1
    <3> QED BY <1>7, <3>1
  <2>2. WatchedIsHeard
    BY <1>1, <1>2, <1>3 DEF WatchedIsHeard
  <2> QED BY <1>2, <2>1, <2>2 DEF WatchedHave
<1>13. PassOK
  BY <1>2 DEF PassOK
<1> QED BY <1>10, <1>11, <1>12, <1>13 DEF DescInv

\* The invariant has everything that DescriptorsSound says.
LEMMA InvDescriptors == ASSUME DescInv PROVE DescriptorsSound
<1> USE DEF DescInv
<1>1. /\ Len(handlers) \in Nat /\ DOMAIN handlers = 1 .. Len(handlers)
      /\ \A k \in DOMAIN handlers : handlers[k].owner \in Owners /\ handlers[k].fd \in Fds
  BY ListIs
<1>2. DescTypeOK
  BY <1>1 DEF DescTypeOK, DescTypes, WatchedHave
<1>3. NoCrossTalk
  <2> SUFFICES ASSUME visit.called
               PROVE  behind[HandlerOf(visit.at).fd] = visit.at /\ visit.at \in readable
    BY DEF NoCrossTalk
  <2>1. PICK n \in DOMAIN handlers : PassAt(n)
    BY DEF PassOK
  <2>2. handlers[n].owner = visit.at /\ HandlerOf(visit.at) = handlers[n] /\ handlers[n].fd \in rfds
    BY <2>1, HandlerIs DEF PassAt
  <2>3. n >= n
    BY <1>1
  <2> QED BY <2>1, <2>2, <2>3 DEF PassAt, HandlersOwn
<1>4. PassStaysInList
  <2> SUFFICES ASSUME NEW o \in {visit.at, visit.next}, o # None
               PROVE  \E k \in DOMAIN handlers : handlers[k].owner = o
    BY DEF PassStaysInList
  <2>1. visit.at # None
    BY DEF PassOK
  <2>2. PICK n \in DOMAIN handlers : PassAt(n)
    BY <2>1 DEF PassOK
  <2>3. CASE o = visit.at
    BY <2>2, <2>3 DEF PassAt
  <2>4. CASE o = visit.next
    <3>1. n < Len(handlers) /\ o = handlers[n + 1].owner
      BY <2>2, <2>4 DEF PassAt
    <3>2. n + 1 \in DOMAIN handlers
      BY <1>1, <3>1
    <3> QED BY <3>1, <3>2
  <2> QED BY <2>3, <2>4
<1> QED BY <1>2, <1>3, <1>4, FdsDistinct DEF DescriptorsSound, WatchedHave

\* For any consoles, sources and limit, whatever the callbacks of a pass close
\* and open: every callback gets a descriptor of its own connection with
\* something to read, and the pass stays in the list.
THEOREM DescriptorsAlwaysSound == DescSpec => []DescriptorsSound
<1>1. DescInit => DescInv
  BY InitDesc
<1>2. DescInv /\ [DescNext]_descVars => DescInv'
  BY NextDesc
<1>3. DescInv => DescriptorsSound
  BY InvDescriptors
<1> QED BY <1>1, <1>2, <1>3, PTL DEF DescSpec

-----------------------------------------------------------------------------
(* The lines that are posted.                                               *)

\* The last character of the stream that was taken out of the buffer.
ReadPos == Len(received) - Unread

\* The buffer starts behind the end of a line, nothing that was parsed since
\* ends one, and the flag is set only for a line that is too long already.
LineInv ==
    /\ Unread <= Len(received)
    /\ LinesPosted
    /\ ReadPos = 0 \/ received[ReadPos] = Newline
    /\ \A j \in ReadPos + 1 .. Parsed : received[j] # Newline
    /\ too_long => p - read_off > MAX_LINE_SZ

\* The same property as one of a set of ends of lines.
StartIn(ends, j) ==
    IF \E i \in ends : i < j
    THEN 1 + CHOOSE i \in ends : i < j /\ \A k \in ends : k < j => k <= i
    ELSE 1
GoodIn(ends) == {j \in ends : j - StartIn(ends, j) < MAX_LINE_SZ}
LineOf(ends, j) == [i \in 1 .. j - StartIn(ends, j) + 1 |-> StartIn(ends, j) + i - 1]
EventOf(ends, n, e) ==
    \E j \in GoodIn(ends) :
      /\ n = Cardinality({k \in GoodIn(ends) : k <= j})
      /\ e.num = Cardinality({k \in ends : k <= j})
      /\ e.text = LineOf(ends, j)
PostedIs(ends, l, q) ==
    /\ l = Cardinality(ends)
    /\ Len(q) = Cardinality(GoodIn(ends))
    /\ \A n \in DOMAIN q : EventOf(ends, n, q[n])

LEMMA LinesAre == LinesPosted <=> PostedIs(Ends, line, posted)
BY DEF LinesPosted, PostedIs, EventOf, LineOf, GoodEnds, GoodIn, Start, StartIn

LEMMA LinesWillBe == LinesPosted' <=> PostedIs(Ends', line', posted')
BY DEF LinesPosted, PostedIs, EventOf, LineOf, GoodEnds, GoodIn, Start, StartIn

\* Where the buffer is in the stream.
LEMMA StreamIs ==
  ASSUME Inv, Unread <= Len(received)
  PROVE  /\ ReadPos \in Nat /\ Parsed \in Nat /\ ReadPos <= Parsed /\ Parsed <= Len(received)
         /\ Parsed = ReadPos + (p - read_off) /\ Len(received) = ReadPos + (write_off - read_off)
         /\ \A n \in read_off .. write_off - 1 : buf[n] = ReadPos + (n - read_off) + 1
<1>1. \A n \in read_off .. write_off - 1 : buf[n] = Len(received) - (write_off - n) + 1
  BY DEF Inv, BufferHoldsUnread
<1>2. write_off - read_off <= Len(received)
  BY DEF Unread
<1>3. ReadPos = Len(received) - (write_off - read_off) /\ Parsed = Len(received) - (write_off - p)
  BY DEF ReadPos, Parsed, Unread
<1>4. /\ ReadPos \in Nat /\ Parsed \in Nat /\ ReadPos <= Parsed /\ Parsed <= Len(received)
      /\ Parsed = ReadPos + (p - read_off) /\ Len(received) = ReadPos + (write_off - read_off)
  <2> DEFINE l == Len(received)
  <2>1. /\ l \in Nat /\ read_off \in Nat /\ p \in Nat /\ write_off \in Nat
        /\ read_off <= p /\ p <= write_off
    BY Numbers
  <2>2. ReadPos = l - (write_off - read_off) /\ Parsed = l - (write_off - p) /\ write_off - read_off <= l
    BY <1>2, <1>3
  <2> HIDE DEF l
  <2>3. /\ ReadPos \in Nat /\ Parsed \in Nat /\ ReadPos <= Parsed /\ Parsed <= l
        /\ Parsed = ReadPos + (p - read_off) /\ l = ReadPos + (write_off - read_off)
    BY ONLY <2>1, <2>2
  <2> QED BY <2>3 DEF l
<1>5. \A n \in read_off .. write_off - 1 : Len(received) - (write_off - n) + 1 = ReadPos + (n - read_off) + 1
  <2> DEFINE l == Len(received)
  <2>1. l \in Nat /\ read_off \in Nat /\ write_off \in Nat /\ ReadPos = l - (write_off - read_off)
    BY <1>3, Numbers
  <2> HIDE DEF l
  <2>2. \A n \in read_off .. write_off - 1 : l - (write_off - n) + 1 = ReadPos + (n - read_off) + 1
    BY ONLY <2>1
  <2> QED BY <2>2 DEF l
<1> QED BY <1>1, <1>4, <1>5

\* The ends of lines are finitely many places of the stream.
LEMMA EndsAre ==
  ASSUME Inv, Unread <= Len(received)
  PROVE  /\ IsFiniteSet(Ends) /\ Ends \subseteq Nat \ {0}
         /\ \A k \in Ends : k <= Parsed /\ received[k] = Newline
<1>1. Parsed \in Nat
  BY StreamIs
<1>2. IsFiniteSet(1 .. Parsed)
  BY <1>1, FS_Interval
<1>3. Ends \subseteq 1 .. Parsed
  BY DEF Ends
<1> QED BY <1>1, <1>2, <1>3, FS_Subset DEF Ends

\* The line of a place starts behind the last end before it.
LEMMA StartAfter ==
  ASSUME NEW ends \in SUBSET Nat, NEW j \in Nat, NEW m \in ends, m < j, \A k \in ends : k < j => k <= m
  PROVE  StartIn(ends, j) = m + 1
<1>1. \A i \in ends : (i < j /\ \A k \in ends : k < j => k <= i) => i = m
  BY Z3
<1>2. (CHOOSE i \in ends : i < j /\ \A k \in ends : k < j => k <= i) = m
  BY <1>1
<1> DEFINE x == CHOOSE i \in ends : i < j /\ \A k \in ends : k < j => k <= i
<1> HIDE DEF x
<1>3. StartIn(ends, j) = 1 + x
  BY DEF StartIn, x
<1>4. x = m
  BY <1>2 DEF x
<1> QED BY <1>3, <1>4

LEMMA StartFirst ==
  ASSUME NEW ends, NEW j, ~ \E i \in ends : i < j PROVE StartIn(ends, j) = 1
BY DEF StartIn

\* An end behind all others does not change their lines.
LEMMA StartStays ==
  ASSUME NEW ends \in SUBSET Nat, NEW j \in Nat, \A k \in ends : k < j, NEW h \in ends \cup {j}
  PROVE  StartIn(ends \cup {j}, h) = StartIn(ends, h)
<1>1. h <= j /\ h \in Nat
  OBVIOUS
<1>2. {i \in ends \cup {j} : i < h} = {i \in ends : i < h}
  BY <1>1
<1> DEFINE both == ends \cup {j}
<1>3. \A x : (x \in both /\ x < h) <=> (x \in ends /\ x < h)
  BY <1>2
<1> HIDE DEF both
<1>4. \A x : (x \in both /\ x < h /\ \A k \in both : k < h => k <= x)
         <=> (x \in ends /\ x < h /\ \A k \in ends : k < h => k <= x)
  BY <1>3
<1>5. (CHOOSE i : i \in both /\ (i < h /\ \A k \in both : k < h => k <= i))
       = (CHOOSE i : i \in ends /\ (i < h /\ \A k \in ends : k < h => k <= i))
  BY <1>4
<1>6. (CHOOSE i \in both : i < h /\ \A k \in both : k < h => k <= i)
       = (CHOOSE i \in ends : i < h /\ \A k \in ends : k < h => k <= i)
  BY <1>5
<1>7. (\E i \in both : i < h) <=> (\E i \in ends : i < h)
  BY <1>3
<1>8. StartIn(both, h) = StartIn(ends, h)
  <2> DEFINE x == CHOOSE i \in both : i < h /\ \A k \in both : k < h => k <= i
             y == CHOOSE i \in ends : i < h /\ \A k \in ends : k < h => k <= i
  <2>1. x = y
    BY <1>6
  <2>2. StartIn(both, h) = IF \E i \in both : i < h THEN 1 + x ELSE 1
    BY DEF StartIn
  <2>3. StartIn(ends, h) = IF \E i \in ends : i < h THEN 1 + y ELSE 1
    BY DEF StartIn
  <2> HIDE DEF x, y
  <2> QED BY <1>7, <2>1, <2>2, <2>3
<1> QED BY <1>8 DEF both

\* One more line, which ends behind all others: it is numbered, and posted
\* when it is not too long.
LEMMA OneMoreLine ==
  ASSUME NEW ends \in SUBSET Nat, IsFiniteSet(ends), NEW j \in Nat, \A k \in ends : k < j,
         NEW l, NEW q \in Seq([num : Nat, text : Seq(Nat)]), PostedIs(ends, l, q),
         NEW e \in [num : Nat, text : Seq(Nat)], e.num = l + 1, e.text = LineOf(ends, j)
  PROVE  /\ ~ (j - StartIn(ends, j) < MAX_LINE_SZ) => PostedIs(ends \cup {j}, l + 1, q)
         /\ j - StartIn(ends, j) < MAX_LINE_SZ => PostedIs(ends \cup {j}, l + 1, Append(q, e))
<1> DEFINE both == ends \cup {j}
           good == GoodIn(ends)
           all == GoodIn(both)
           short == j - StartIn(ends, j) < MAX_LINE_SZ
<1>1. \A h \in both : StartIn(both, h) = StartIn(ends, h)
  BY StartStays
<1>2. all = IF short THEN good \cup {j} ELSE good
  <2>1. all = {h \in both : h - StartIn(ends, h) < MAX_LINE_SZ}
    BY <1>1 DEF GoodIn
  <2> QED BY <2>1 DEF GoodIn
<1>3. j \notin ends /\ good \subseteq ends /\ j \notin good
  BY DEF GoodIn
<1>4. IsFiniteSet(good) /\ Cardinality(good) \in Nat /\ Cardinality(ends) \in Nat
  BY <1>3, FS_Subset, FS_CardinalityType
<1>5. Cardinality(both) = Cardinality(ends) + 1
  BY <1>3, FS_AddElement
<1>6. short => Cardinality(all) = Cardinality(good) + 1
  BY <1>2, <1>3, <1>4, FS_AddElement
<1>7. l = Cardinality(ends) /\ Len(q) = Cardinality(good) /\ \A n \in DOMAIN q : EventOf(ends, n, q[n])
  BY DEF PostedIs
<1>8. \A h \in both : LineOf(both, h) = LineOf(ends, h)
  BY <1>1 DEF LineOf
<1>9. \A n \in DOMAIN q : EventOf(both, n, q[n])
  <2> TAKE n \in DOMAIN q
  <2>1. PICK h \in good : /\ n = Cardinality({k \in good : k <= h})
                          /\ q[n].num = Cardinality({k \in ends : k <= h})
                          /\ q[n].text = LineOf(ends, h)
    BY <1>7 DEF EventOf
  <2>2. h < j /\ h \in Nat /\ h \in both
    BY <1>3
  <2>3. {k \in both : k <= h} = {k \in ends : k <= h}
    BY <2>2
  <2>4. {k \in all : k <= h} = {k \in good : k <= h}
    BY <1>2, <2>2
  <2>5. h \in all
    BY <1>2
  <2>6. LineOf(both, h) = LineOf(ends, h)
    BY <1>8, <2>2
  <2> HIDE DEF both, good
  <2> QED BY <2>1, <2>3, <2>4, <2>5, <2>6 DEF EventOf
<1>10. CASE ~ short
  <2>1. all = good
    BY <1>2, <1>10
  <2> HIDE DEF both, good
  <2>2. PostedIs(both, l + 1, q)
    BY <1>5, <1>7, <1>9, <2>1 DEF PostedIs
  <2> QED BY <1>10, <2>2 DEF both
<1>11. CASE short
  <2> DEFINE t == Append(q, e)
  <2>1. /\ Len(t) = Len(q) + 1 /\ t[Len(q) + 1] = e /\ \A n \in 1 .. Len(q) : t[n] = q[n]
        /\ t \in Seq([num : Nat, text : Seq(Nat)])
    BY AppendProperties
  <2>2. DOMAIN t = 1 .. Len(q) + 1 /\ DOMAIN q = 1 .. Len(q) /\ Len(q) \in Nat
    BY <2>1, LenProperties
  <2> HIDE DEF t
  <2>3. {k \in both : k <= j} = both /\ {k \in all : k <= j} = all
    <3>1. \A k \in both : k <= j
      OBVIOUS
    <3>2. all \subseteq both
      BY DEF GoodIn
    <3> QED BY <3>1, <3>2
  <2>4. j \in all
    BY <1>2, <1>11
  <2>5. LineOf(both, j) = LineOf(ends, j)
    BY <1>8
  <2> HIDE DEF both, good, short
  <2>6. EventOf(both, Len(q) + 1, e)
    BY <1>5, <1>6, <1>7, <1>11, <2>3, <2>4, <2>5 DEF EventOf
  <2>7. \A n \in DOMAIN t : EventOf(both, n, t[n])
    <3> TAKE n \in DOMAIN t
    <3>1. CASE n = Len(q) + 1
      BY <2>1, <2>6, <3>1
    <3>2. CASE n # Len(q) + 1
      <4> DEFINE m == Len(q)
      <4>0. m \in Nat /\ n \in 1 .. m + 1 /\ n # m + 1
        BY <2>2, <3>2
      <4> HIDE DEF m
      <4>2. n \in 1 .. m
        BY ONLY <4>0
      <4>1. n \in DOMAIN q /\ n \in 1 .. Len(q)
        BY <2>2, <4>2 DEF m
      <4> QED BY <1>9, <2>1, <4>1
    <3> QED BY <3>1, <3>2
  <2>8. PostedIs(both, l + 1, t)
    BY <1>5, <1>6, <1>7, <1>11, <2>1, <2>7 DEF PostedIs
  <2> QED BY <1>11, <2>8 DEF both, short, t
<1> QED BY <1>10, <1>11

\* The line that is being received starts behind what was taken out of the
\* buffer, since the last end is there.
LEMMA BehindRead ==
  ASSUME Inv, LineInv, NEW j \in Nat, j > Parsed
  PROVE  StartIn(Ends, j) = ReadPos + 1 /\ \A k \in Ends : k <= ReadPos /\ k < j
<1>1. /\ ReadPos \in Nat /\ Parsed \in Nat /\ ReadPos <= Parsed
      /\ Ends \subseteq Nat \ {0} /\ \A k \in Ends : k <= Parsed /\ received[k] = Newline
  BY StreamIs, EndsAre DEF LineInv
<1>2. \A k \in Ends : k <= ReadPos
  <2> TAKE k \in Ends
  <2>1. CASE ~ (k <= ReadPos)
    <3>1. k \in ReadPos + 1 .. Parsed
      BY <1>1, <2>1
    <3> QED BY <1>1, <3>1 DEF LineInv
  <2> QED BY <2>1
<1>3. \A k \in Ends : k < j
  BY <1>1
<1>4. CASE ReadPos = 0
  <2>1. Ends = {}
    BY <1>1, <1>2, <1>4
  <2> QED BY <1>2, <1>3, <1>4, <2>1, StartFirst
<1>5. CASE ReadPos # 0
  <2>1. ReadPos \in Ends
    BY <1>1, <1>5 DEF LineInv, Ends
  <2>2. Ends \in SUBSET Nat /\ ReadPos < j
    BY <1>1
  <2>3. StartIn(Ends, j) = ReadPos + 1
    BY <1>2, <2>1, <2>2, StartAfter
  <2> QED BY <1>2, <1>3, <2>3
<1> QED BY <1>4, <1>5

\* More of the stream is parsed, and no line ends there.
LEMMA NoLineEnds ==
  ASSUME Inv, LineInv, UNCHANGED <<line, posted>>, ReadPos' = ReadPos, Unread' <= Len(received'),
         Parsed' \in Nat, Parsed <= Parsed',
         \A k \in 1 .. Parsed : received'[k] = received[k],
         \A k \in Parsed + 1 .. Parsed' : received'[k] # Newline,
         too_long' => p' - read_off' > MAX_LINE_SZ
  PROVE  LineInv'
<1>1. ReadPos \in Nat /\ Parsed \in Nat /\ ReadPos <= Parsed
  BY StreamIs DEF LineInv
<1>2. Ends' = Ends
  <2>1. \A k \in 1 .. Parsed' : received'[k] = Newline <=> k \in 1 .. Parsed /\ received[k] = Newline
    BY <1>1
  <2>2. 1 .. Parsed \subseteq 1 .. Parsed'
    BY <1>1
  <2> QED BY <2>1, <2>2 DEF Ends
<1>3. LinesPosted'
  <2>1. PostedIs(Ends, line, posted)
    BY LinesAre DEF LineInv
  <2> QED BY <1>2, <2>1, LinesWillBe
<1>4. ReadPos' = 0 \/ received'[ReadPos'] = Newline
  <2>1. ReadPos # 0 => ReadPos \in 1 .. Parsed
    BY <1>1
  <2> QED BY <2>1 DEF LineInv
<1>5. \A k \in ReadPos' + 1 .. Parsed' : received'[k] # Newline
  <2> TAKE k \in ReadPos' + 1 .. Parsed'
  <2>1. CASE k <= Parsed
    <3>1. k \in ReadPos + 1 .. Parsed /\ k \in 1 .. Parsed
      BY <1>1, <2>1
    <3> QED BY <3>1 DEF LineInv
  <2>2. CASE ~ (k <= Parsed)
    <3>1. k \in Parsed + 1 .. Parsed'
      BY <1>1, <2>2
    <3> QED BY <3>1
  <2> QED BY <2>1, <2>2
<1> QED BY <1>3, <1>4, <1>5 DEF LineInv

\* A chunk is put behind the unread data.
LEMMA ReadLines == ASSUME Inv, LineInv, NEW chunk \in Chunks, Read(chunk) PROVE LineInv'
<1> DEFINE l == Len(received)
           c == Len(chunk)
<1>1. chunk \in Seq(Character) /\ c \in Nat /\ received \in Seq(Character) /\ l \in Nat
  <2>1. PICK k \in 1 .. buf_sz : chunk \in [1 .. k -> Character]
    BY DEF Chunks
  <2>2. k \in Nat /\ chunk \in [1 .. k -> Character]
    BY <2>1, Numbers
  <2>3. chunk \in Seq(Character)
    BY ONLY <2>2, ListFromFunction
  <2> QED BY <2>3, Numbers, LenProperties DEF Inv, TypeOK
<1>2. /\ p = write_off /\ received' = received \o chunk
      /\ read_off' = Moved.read_off /\ write_off' = Moved.write_off + c /\ p' = Moved.write_off
      /\ UNCHANGED <<too_long, line, posted>>
  BY DEF Read, Inv, IdleIsParsed
<1>3. Len(received') = l + c /\ \A k \in 1 .. l : received'[k] = received[k]
  <2>1. /\ Len(received \o chunk) = l + c
        /\ \A k \in 1 .. l + c : (received \o chunk)[k] = IF k <= l THEN received[k] ELSE chunk[k - l]
    BY <1>1, ConcatProperties
  <2>2. \A k \in 1 .. l : k \in 1 .. l + c /\ k <= l
    BY <1>1
  <2> QED BY <1>2, <2>1, <2>2
<1>4. /\ Moved.read_off \in Nat /\ Moved.write_off \in Nat /\ Moved.write_off - Moved.read_off = Unread
      /\ Unread \in Nat /\ Unread = write_off - read_off /\ read_off \in Nat /\ write_off \in Nat
      /\ Unread <= l
  BY MovedKeeps, Numbers DEF LineInv
<1>5. ReadPos = l - Unread /\ Parsed = l
  <2>1. write_off - p = 0
    BY <1>2, <1>4
  <2> QED BY <1>1, <2>1 DEF ReadPos, Parsed
<1>6. Unread' = Unread + c
  <2> DEFINE w == Moved.write_off
             o == Moved.read_off
  <2>1. Unread' = (w + c) - o
    BY <1>2 DEF Unread
  <2>2. w \in Nat /\ o \in Nat /\ c \in Nat /\ w - o = Unread /\ Unread \in Nat
    BY <1>1, <1>4
  <2> HIDE DEF w, o, c
  <2>3. (w + c) - o = (w - o) + c
    BY ONLY <2>2
  <2> QED BY ONLY <2>1, <2>2, <2>3
<1>7. ReadPos' = (l + c) - (Unread + c) /\ Parsed' = (l + c) - ((Moved.write_off + c) - Moved.write_off)
  BY <1>2, <1>3, <1>6 DEF ReadPos, Parsed
<1> HIDE DEF l, c
<1>8. ReadPos' = ReadPos /\ Parsed' = l
  BY <1>1, <1>4, <1>5, <1>7
<1>9. Unread' <= Len(received')
  BY <1>1, <1>3, <1>4, <1>6
<1>10. too_long' => p' - read_off' > MAX_LINE_SZ
  <2>1. p' - read_off' = p - read_off
    BY <1>2, <1>4
  <2> QED BY <1>2, <2>1 DEF LineInv
<1>11. \A k \in 1 .. Parsed : received'[k] = received[k]
  BY <1>3, <1>5
<1>12. Parsed' \in Nat /\ Parsed <= Parsed' /\ \A k \in Parsed + 1 .. Parsed' : received'[k] # Newline
  BY <1>1, <1>5, <1>8
<1> QED BY <1>2, <1>8, <1>9, <1>10, <1>11, <1>12, NoLineEnds

\* The unread data are moved, and nothing comes.
LEMMA MoveLines == ASSUME Inv, LineInv, pc = "idle", MoveOnly PROVE LineInv'
<1> DEFINE l == Len(received)
<1>1. /\ l \in Nat
      /\ Moved.read_off \in Nat /\ Moved.write_off \in Nat /\ Moved.write_off - Moved.read_off = Unread
      /\ Unread \in Nat /\ Unread = write_off - read_off /\ read_off \in Nat /\ write_off \in Nat
      /\ Unread <= l
  BY MovedKeeps, Numbers DEF LineInv
<1>2. /\ p = write_off
      /\ read_off' = Moved.read_off /\ write_off' = Moved.write_off /\ p' = Moved.write_off
      /\ UNCHANGED <<received, too_long, line, posted>>
  BY DEF MoveOnly, Inv, IdleIsParsed
<1>3. Unread' = Unread
  BY <1>1, <1>2 DEF Unread
<1>4. write_off - p = 0 /\ write_off' - p' = 0
  BY <1>1, <1>2
<1>5. ReadPos' = ReadPos /\ Parsed = l /\ Parsed' = l
  BY <1>1, <1>2, <1>3, <1>4 DEF ReadPos, Parsed
<1>6. too_long' => p' - read_off' > MAX_LINE_SZ
  <2>1. p' - read_off' = p - read_off
    BY <1>1, <1>2
  <2> QED BY <1>2, <2>1 DEF LineInv
<1>7. Unread' <= Len(received')
  BY <1>1, <1>2, <1>3
<1> HIDE DEF l
<1>8. Parsed' \in Nat /\ Parsed <= Parsed' /\ \A k \in Parsed + 1 .. Parsed' : received'[k] # Newline
  BY <1>1, <1>5
<1> QED BY <1>2, <1>5, <1>6, <1>7, <1>8, NoLineEnds

\* What is left is a line without an end.
LEMMA RestLines == ASSUME Inv, LineInv, ParseRest PROVE LineInv'
<1>1. /\ \A n \in p .. write_off - 1 : ~ IsNewline(n)
      /\ too_long' = (too_long \/ Unread > MAX_LINE_SZ) /\ p' = write_off
      /\ UNCHANGED <<read_off, write_off, line, received, posted>>
  BY DEF ParseRest
<1>2. /\ ReadPos \in Nat /\ Parsed \in Nat /\ ReadPos <= Parsed /\ Parsed <= Len(received)
      /\ Parsed = ReadPos + (p - read_off) /\ Len(received) = ReadPos + (write_off - read_off)
      /\ \A n \in read_off .. write_off - 1 : buf[n] = ReadPos + (n - read_off) + 1
      /\ Unread <= Len(received)
  BY StreamIs DEF LineInv
<1>3. /\ read_off \in Nat /\ p \in Nat /\ write_off \in Nat /\ read_off <= p /\ p <= write_off
      /\ Len(received) \in Nat /\ MAX_LINE_SZ \in Nat /\ Unread = write_off - read_off
  BY Numbers
<1>4. ReadPos' = ReadPos /\ Unread' = Unread
  BY <1>1 DEF ReadPos, Unread
<1>5. Parsed' = Len(received)
  <2>1. write_off' - p' = 0
    BY <1>1, <1>3
  <2> QED BY <1>1, <1>3, <2>1 DEF Parsed
<1>6. \A k \in Parsed + 1 .. Len(received) : received[k] # Newline
  <2> SUFFICES ASSUME NEW k \in Parsed + 1 .. Len(received) PROVE received[k] # Newline
    OBVIOUS
  <2> DEFINE n == read_off + (k - ReadPos) - 1
  <2>1. n \in p .. write_off - 1 /\ n \in read_off .. write_off - 1 /\ ReadPos + (n - read_off) + 1 = k
    BY <1>2, <1>3
  <2> HIDE DEF n
  <2>2. buf[n] = k
    BY <1>2, <2>1
  <2> QED BY <1>1, <2>1, <2>2 DEF IsNewline
<1>7. too_long' => p' - read_off' > MAX_LINE_SZ
  <2>1. too_long => p - read_off > MAX_LINE_SZ
    BY DEF LineInv
  <2>2. p' - read_off' = write_off - read_off
    BY <1>1
  <2> HIDE DEF ReadPos
  <2>3. write_off - read_off >= p - read_off /\ p - read_off \in Nat /\ write_off - read_off \in Nat
    BY <1>3
  <2>4. CASE too_long
    BY <1>3, <2>1, <2>2, <2>3, <2>4
  <2>5. CASE Unread > MAX_LINE_SZ
    BY <1>3, <2>2, <2>5
  <2> QED BY <1>1, <2>4, <2>5
<1>8. Parsed' \in Nat /\ Parsed <= Parsed'
  BY <1>2, <1>3, <1>5
<1> QED BY <1>1, <1>2, <1>4, <1>5, <1>6, <1>7, <1>8, NoLineEnds

\* A line ends at the first newline that was not parsed yet; the flag tells
\* nothing that its length does not tell.
LEMMA EndLines == ASSUME Inv, LineInv, NEW n \in 1 .. buf_sz, ParseLine(n) PROVE LineInv'
<1> DEFINE j == ReadPos + (n - read_off)
           e == [num |-> line + 1, text |-> Text(n)]
<1>1. /\ n \in p + 1 .. write_off /\ IsNewline(n - 1) /\ \A m \in p .. n - 2 : ~ IsNewline(m)
      /\ line' = line + 1 /\ posted' = Posted(n) /\ read_off' = n /\ p' = n /\ too_long' = FALSE
      /\ UNCHANGED <<buf, write_off, received>>
  BY DEF ParseLine, EndsLine
<1>2. /\ ReadPos \in Nat /\ Parsed \in Nat /\ ReadPos <= Parsed /\ Parsed <= Len(received)
      /\ Parsed = ReadPos + (p - read_off) /\ Len(received) = ReadPos + (write_off - read_off)
      /\ \A m \in read_off .. write_off - 1 : buf[m] = ReadPos + (m - read_off) + 1
  BY StreamIs DEF LineInv
<1>3. /\ read_off \in Nat /\ p \in Nat /\ write_off \in Nat /\ read_off <= p /\ p <= write_off
      /\ Len(received) \in Nat /\ MAX_LINE_SZ \in Nat
  BY Numbers
<1>4. n \in Nat /\ p < n /\ n <= write_off /\ read_off < n
  BY <1>1, <1>3
<1>5. j \in Nat \ {0} /\ Parsed < j /\ j <= Len(received) /\ ReadPos < j
  BY <1>2, <1>3, <1>4
<1>6. Unread' = write_off - n /\ ReadPos' = j /\ Parsed' = j
  <2>1. Unread' = write_off - n /\ ReadPos' = Len(received) - (write_off - n) /\ Parsed' = Len(received) - (write_off - n)
    BY <1>1 DEF Unread, ReadPos, Parsed
  <2> DEFINE l == Len(received)
  <2>2. l \in Nat /\ l = ReadPos + (write_off - read_off)
    BY <1>2, <1>3
  <2> HIDE DEF l
  <2>3. l - (write_off - n) = ReadPos + (n - read_off)
    BY ONLY <1>2, <1>3, <1>4, <2>2
  <2> QED BY <2>1, <2>3 DEF l
<1>7. received[j] = Newline
  <2>1. n - 1 \in read_off .. write_off - 1 /\ ReadPos + ((n - 1) - read_off) + 1 = j
    BY <1>2, <1>3, <1>4
  <2>2. buf[n - 1] = j
    BY <1>2, <2>1
  <2> QED BY <1>1, <2>2 DEF IsNewline
<1>8. \A k \in Parsed + 1 .. j - 1 : received[k] # Newline
  <2> SUFFICES ASSUME NEW k \in Parsed + 1 .. j - 1 PROVE received[k] # Newline
    OBVIOUS
  <2> DEFINE m == read_off + (k - ReadPos) - 1
  <2>1. m \in p .. n - 2 /\ m \in read_off .. write_off - 1 /\ ReadPos + (m - read_off) + 1 = k
    BY <1>2, <1>3, <1>4
  <2> HIDE DEF m
  <2>2. buf[m] = k
    BY <1>2, <2>1
  <2> QED BY <1>1, <2>1, <2>2 DEF IsNewline
<1>9. Text(n) = [i \in 1 .. n - read_off |-> ReadPos + i]
  <2> SUFFICES ASSUME NEW i \in 1 .. n - read_off PROVE buf[read_off + i - 1] = ReadPos + i
    BY DEF Text
  <2> DEFINE m == read_off + i - 1
  <2>1. m \in read_off .. write_off - 1 /\ ReadPos + (m - read_off) + 1 = ReadPos + i
    BY <1>2, <1>3, <1>4
  <2> HIDE DEF m
  <2>2. buf[m] = ReadPos + i
    BY <1>2, <2>1
  <2> QED BY <2>2 DEF m
<1>10. j - (ReadPos + 1) + 1 = n - read_off /\ (j - (ReadPos + 1) < MAX_LINE_SZ <=> ~ (n - read_off > MAX_LINE_SZ))
  BY <1>2, <1>3, <1>4
<1> HIDE DEF j
<1>11. StartIn(Ends, j) = ReadPos + 1 /\ \A k \in Ends : k < j
  BY <1>5, BehindRead
<1>12. Text(n) = LineOf(Ends, j)
  <2>1. LineOf(Ends, j) = [i \in 1 .. n - read_off |-> ReadPos + 1 + i - 1]
    BY <1>10, <1>11 DEF LineOf
  <2>2. \A i \in 1 .. n - read_off : ReadPos + 1 + i - 1 = ReadPos + i
    BY <1>2, <1>3, <1>4
  <2> QED BY <1>9, <2>1, <2>2
<1>13. e \in [num : Nat, text : Seq(Nat)] /\ e.num = line + 1 /\ e.text = LineOf(Ends, j)
  <2>1. line + 1 \in Nat
    BY DEF Inv, TypeOK
  <2>2. Text(n) \in Seq(Nat)
    <3>1. n - read_off \in Nat
      BY <1>3, <1>4
    <3>2. \A i \in 1 .. n - read_off : ReadPos + i \in Nat
      BY <1>2, <3>1
    <3>3. Text(n) \in [1 .. n - read_off -> Nat]
      BY <1>9, <3>2
    <3> QED BY ONLY <3>1, <3>3, ListFromFunction
  <2> QED BY <1>12, <2>1, <2>2
<1>14. Posted(n) = IF n - read_off > MAX_LINE_SZ THEN posted ELSE Append(posted, e)
  <2>1. too_long => n - read_off > MAX_LINE_SZ
    <3>1. n - read_off > p - read_off /\ n - read_off \in Nat /\ p - read_off \in Nat
      BY <1>3, <1>4
    <3>2. too_long => p - read_off > MAX_LINE_SZ
      BY DEF LineInv
    <3> QED BY <1>3, <3>1, <3>2
  <2> QED BY <2>1 DEF Posted
<1> HIDE DEF e
<1>15. Ends' = Ends \cup {j}
  <2>1. \A k \in 1 .. j : received[k] = Newline <=> (k \in 1 .. Parsed /\ received[k] = Newline) \/ k = j
    <3> TAKE k \in 1 .. j
    <3>1. CASE k \in 1 .. Parsed
      BY <1>7, <3>1
    <3>2. CASE k = j
      BY <1>7, <3>2
    <3>3. CASE k \in Parsed + 1 .. j - 1
      BY <1>2, <1>5, <1>8, <3>3
    <3> QED BY <1>2, <1>5, <3>1, <3>2, <3>3
  <2>2. 1 .. Parsed \subseteq 1 .. j /\ j \in 1 .. j
    BY <1>2, <1>5
  <2>3. Ends' = {k \in 1 .. j : received[k] = Newline}
    BY <1>1, <1>6 DEF Ends
  <2> QED BY <2>1, <2>2, <2>3 DEF Ends
<1>16. LinesPosted'
  <2>1. PostedIs(Ends, line, posted) /\ posted \in Seq([num : Nat, text : Seq(Nat)])
    BY LinesAre DEF LineInv, Inv, TypeOK
  <2>2. Ends \in SUBSET Nat /\ IsFiniteSet(Ends) /\ j \in Nat
    BY <1>5, EndsAre DEF LineInv
  <2>3. /\ ~ (j - StartIn(Ends, j) < MAX_LINE_SZ) => PostedIs(Ends \cup {j}, line + 1, posted)
        /\ j - StartIn(Ends, j) < MAX_LINE_SZ => PostedIs(Ends \cup {j}, line + 1, Append(posted, e))
    BY <1>11, <1>13, <2>1, <2>2, OneMoreLine
  <2>4. PostedIs(Ends \cup {j}, line + 1, Posted(n))
    BY <1>10, <1>11, <1>14, <2>3
  <2> QED BY <1>1, <1>15, <2>4, LinesWillBe
<1>17. Unread' <= Len(received')
  BY <1>1, <1>2, <1>3, <1>4, <1>6
<1>18. \A k \in ReadPos' + 1 .. Parsed' : received'[k] # Newline
  <2>1. j + 1 .. j = {}
    BY <1>5
  <2> QED BY <1>6, <2>1
<1>19. received'[ReadPos'] = Newline
  BY <1>1, <1>6, <1>7
<1> QED BY <1>1, <1>16, <1>17, <1>18, <1>19 DEF LineInv

LEMMA InitLines == ASSUME Init PROVE LineInv
<1>1. /\ received = <<>> /\ Len(received) = 0 /\ Unread = 0 /\ line = 0 /\ posted = <<>> /\ ~ too_long
      /\ read_off = 0 /\ write_off = 0 /\ p = 0
  BY DEF Init, Unread
<1>2. ReadPos = 0 /\ Parsed = 0
  BY <1>1 DEF ReadPos, Parsed
<1>3. Ends = {}
  BY <1>2 DEF Ends
<1>4. GoodEnds = {}
  BY <1>3 DEF GoodEnds
<1>5. LinesPosted
  BY <1>1, <1>3, <1>4, FS_EmptySet DEF LinesPosted
<1> QED BY <1>1, <1>2, <1>5 DEF LineInv

LEMMA NextLines == ASSUME Inv, LineInv, [Next]_vars PROVE LineInv'
<1>1. CASE ReadFails \/ Lose
  BY <1>1, MoveLines DEF ReadFails, Lose
<1>2. CASE UNCHANGED <<buf, read_off, write_off, too_long, line, p, received, posted>>
  <2>1. Unread' = Unread /\ ReadPos' = ReadPos /\ Parsed' = Parsed
    BY <1>2 DEF Unread, ReadPos, Parsed
  <2>2. Ends' = Ends
    BY <1>2, <2>1 DEF Ends
  <2>3. LinesPosted'
    BY <1>2, <2>2, LinesAre, LinesWillBe DEF LineInv
  <2> QED BY <1>2, <2>1, <2>3 DEF LineInv
<1>3. Reconnect \/ PeerCloses \/ UNCHANGED vars => UNCHANGED <<buf, read_off, write_off, too_long, line, p, received, posted>>
  BY DEF Reconnect, PeerCloses, vars
<1> QED BY <1>1, <1>2, <1>3, ReadLines, RestLines, EndLines DEF Next

\* textsocket_callback(): for every MAX_LINE_SZ and every stream, however it
\* is cut into chunks, moved in the buffer, lost and continued, each complete line that
\* is not too long is posted once, whole, in order and with its number, and
\* no other line is.
THEOREM LinesAlwaysPosted == Spec => []LinesPosted
<1>1. Init => LineInv
  BY InitLines
<1>2. Inv /\ LineInv /\ [Next]_vars => LineInv'
  BY NextLines
<1>3. LineInv => LinesPosted
  BY DEF LineInv
<1> QED BY <1>1, <1>2, <1>3, Invariance, PTL DEF Spec
=============================================================================
