---------------------------- MODULE EvtMgrProofs ----------------------------
(***************************************************************************)
(* Proofs about the event manager, for every set of actions, every period, *)
(* every set of delays and every bound of the clock.                       *)
(***************************************************************************)
EXTENDS EvtMgr, TLAPS, FiniteSetTheorems, SequenceTheorems, WellFoundedInduction

\* Every nonempty set of natural numbers has a least element: the walk of
\* register_rtaction() stops at the first place where it may.
LEMMA LeastNatural ==
  ASSUME NEW T \in SUBSET Nat, T # {}
  PROVE  \E n \in T : \A m \in T : n <= m
<1> DEFINE U == {1 .. n : n \in T}
<1> DEFINE R == StrictSubsetOrdering(Nat)
<1> DEFINE F == FiniteSubsetsOf(Nat)
<1>1. IsWellFoundedOn(R, F)
  BY FS_StrictSubsetOrderingWellFounded
<1>2. U \subseteq F
  <2> SUFFICES ASSUME NEW n \in T PROVE 1 .. n \in F
    OBVIOUS
  <2>1. IsFiniteSet(1 .. n)
    BY FS_Interval
  <2> QED BY <2>1 DEF FiniteSubsetsOf
<1>3. U # {}
  OBVIOUS
<1>4. PICK x \in U : \A y \in U : ~ (<< y, x >> \in R)
  <2> HIDE DEF U, R, F
  <2> QED BY <1>1, <1>2, <1>3, WFMin
<1>5. PICK n \in T : x = 1 .. n
  OBVIOUS
<1>6. ASSUME NEW m \in T, m < n PROVE FALSE
  <2>1. 1 .. m \in U
    OBVIOUS
  <2>2. 1 .. m \subseteq 1 .. n /\ 1 .. m # 1 .. n
    BY <1>6
  <2>3. << 1 .. m, 1 .. n >> \in R
    BY <2>2, <1>2, <2>1, <1>5 DEF StrictSubsetOrdering, FiniteSubsetsOf
  <2> QED BY <2>1, <2>3, <1>4, <1>5
<1> QED BY <1>6

-----------------------------------------------------------------------------
\* The date of a real-time action is a number.
LEMMA ActionDate == \A a \in Action : a.date \in Nat
BY DEF Action

\* The walk through a list that is not empty stops inside of it.
LEMMA StopExists ==
  ASSUME NEW q \in Seq(Action), q # << >>, NEW a \in Action
  PROVE  /\ Stop(q, a) \in 1 .. Len(q)
         /\ StopsAt(q, a, Stop(q, a))
         /\ \A m \in 1 .. Stop(q, a) - 1 : ~ StopsAt(q, a, m)
<1> DEFINE T == {n \in 1 .. Len(q) : StopsAt(q, a, n)}
<1>1. DOMAIN q = 1 .. Len(q) /\ Len(q) \in Nat /\ Len(q) >= 1
  BY EmptySeq
<1>2. Len(q) \in T
  BY <1>1 DEF StopsAt
<1>3. T \in SUBSET Nat /\ T # {}
  BY <1>1, <1>2
<1>4. PICK n \in T : \A m \in T : n <= m
  BY <1>3, LeastNatural
<1>5. \A m \in 1 .. n - 1 : ~ StopsAt(q, a, m)
  BY <1>1, <1>4
<1> QED BY <1>1, <1>4, <1>5 DEF Stop

\* InsertBefore shifts the rest of the list.
LEMMA InsertBeforeShape ==
  ASSUME NEW q \in Seq(Action), NEW a \in Action, NEW n \in 1 .. Len(q)
  PROVE  LET p == InsertBefore(q, n, a)
         IN  /\ p \in Seq(Action)
             /\ Len(p) = Len(q) + 1
             /\ \A i \in 1 .. Len(q) + 1 :
                  p[i] = IF i < n THEN q[i] ELSE IF i = n THEN a ELSE q[i - 1]
<1> DEFINE l == SubSeq(q, 1, n - 1)
           r == SubSeq(q, n, Len(q))
<1>0. Len(q) \in Nat /\ \A i \in 1 .. Len(q) : q[i] \in Action
  BY LenProperties
<1>1. l \in Seq(Action) /\ Len(l) = n - 1 /\ \A i \in 1 .. n - 1 : l[i] = q[i]
  BY <1>0, SubSeqProperties
<1>2. /\ r \in Seq(Action) /\ Len(r) = Len(q) - n + 1
      /\ \A i \in 1 .. Len(q) - n + 1 : r[i] = q[n + i - 1]
  BY <1>0, SubSeqProperties
<1> HIDE DEF l, r
<1>3. << a >> \in Seq(Action) /\ Len(<< a >>) = 1 /\ << a >>[1] = a
  OBVIOUS
<1> DEFINE m == l \o << a >>
<1>4. /\ m \in Seq(Action) /\ Len(m) = n
      /\ \A i \in 1 .. n : m[i] = IF i <= n - 1 THEN l[i] ELSE a
  BY <1>0, <1>1, <1>3, ConcatProperties
<1> HIDE DEF m
<1>5. /\ m \o r \in Seq(Action) /\ Len(m \o r) = Len(q) + 1
      /\ \A i \in 1 .. Len(q) + 1 : (m \o r)[i] = IF i <= n THEN m[i] ELSE r[i - n]
  <2>1. m \in Seq(Action) /\ r \in Seq(Action)
    BY <1>2, <1>4
  <2>2. /\ m \o r \in Seq(Action) /\ Len(m \o r) = Len(m) + Len(r)
        /\ \A i \in 1 .. Len(m) + Len(r) :
             (m \o r)[i] = IF i <= Len(m) THEN m[i] ELSE r[i - Len(m)]
    BY <2>1, ConcatProperties
  <2>3. Len(m) = n /\ Len(m) + Len(r) = Len(q) + 1
    BY <1>0, <1>2, <1>4
  <2> QED BY <2>2, <2>3
<1>6. InsertBefore(q, n, a) = m \o r
  BY DEF InsertBefore, l, r, m
<1> QED BY <1>0, <1>1, <1>2, <1>4, <1>5, <1>6 DEF m

\* register_rtaction() puts the action at a place n where everything before is
\* not later and everything after is not earlier, and keeps the rest.
LEMMA RegisterShape ==
  ASSUME NEW q \in Seq(Action), NEW a \in Action
  PROVE  /\ Register(q, a) \in Seq(Action)
         /\ Len(Register(q, a)) = Len(q) + 1
         /\ \E n \in 1 .. Len(q) + 1 :
              /\ \A i \in 1 .. Len(q) + 1 : Register(q, a)[i] =
                   IF i < n THEN q[i] ELSE IF i = n THEN a ELSE q[i - 1]
              /\ \A m \in 1 .. n - 1 : q[m].date <= a.date
              /\ n <= Len(q) => a.date <= q[n].date
<1>0. /\ Len(q) \in Nat /\ \A i \in 1 .. Len(q) : q[i] \in Action /\ q[i].date \in Nat
      /\ a.date \in Nat
  BY LenProperties, ActionDate
<1>1. CASE q = << >>
  BY <1>1 DEF Register
<1>2. CASE q # << >> /\ Stop(q, a) = Len(q) /\ a.date > q[Len(q)].date
  <2>1. /\ Len(q) >= 1
        /\ \A m \in 1 .. Len(q) - 1 : ~ StopsAt(q, a, m)
    BY <1>2, StopExists, EmptySeq
  <2>2. \A m \in 1 .. Len(q) : q[m].date <= a.date
    BY <1>0, <1>2, <2>1 DEF StopsAt
  <2>3. Register(q, a) = Append(q, a)
    BY <1>2 DEF Register
  <2>4. /\ Append(q, a) \in Seq(Action) /\ Len(Append(q, a)) = Len(q) + 1
        /\ \A i \in 1 .. Len(q) : Append(q, a)[i] = q[i]
        /\ Append(q, a)[Len(q) + 1] = a
    BY AppendProperties
  <2>5. \A i \in 1 .. Len(q) + 1 : Append(q, a)[i] =
          IF i < Len(q) + 1 THEN q[i] ELSE IF i = Len(q) + 1 THEN a ELSE q[i - 1]
    BY <1>0, <2>4
  <2>6. Len(q) + 1 \in 1 .. Len(q) + 1 /\ ~ (Len(q) + 1 <= Len(q))
    BY <1>0
  <2>7. \A m \in 1 .. Len(q) + 1 - 1 : q[m].date <= a.date
    BY <1>0, <2>2
  <2> QED BY <2>3, <2>4, <2>5, <2>6, <2>7
<1>3. CASE q # << >> /\ ~ (Stop(q, a) = Len(q) /\ a.date > q[Len(q)].date)
  <2> DEFINE n == Stop(q, a)
  <2>1. /\ n \in 1 .. Len(q)
        /\ StopsAt(q, a, n)
        /\ \A m \in 1 .. n - 1 : ~ StopsAt(q, a, m)
    BY <1>3, StopExists
  <2>2. Register(q, a) = InsertBefore(q, n, a)
    BY <1>3 DEF Register
  <2> HIDE DEF n
  <2>3. \A m \in 1 .. n - 1 : q[m].date <= a.date
    BY <1>0, <2>1 DEF StopsAt
  <2>4. a.date <= q[n].date
    BY <1>0, <1>3, <2>1 DEF StopsAt, n
  <2>5. n \in 1 .. Len(q) + 1
    BY <1>0, <2>1
  <2>6. /\ InsertBefore(q, n, a) \in Seq(Action)
        /\ Len(InsertBefore(q, n, a)) = Len(q) + 1
        /\ \A i \in 1 .. Len(q) + 1 : InsertBefore(q, n, a)[i] =
             IF i < n THEN q[i] ELSE IF i = n THEN a ELSE q[i - 1]
    BY <2>1, InsertBeforeShape
  <2> QED BY <2>2, <2>3, <2>4, <2>5, <2>6
<1> QED BY <1>1, <1>2, <1>3

-----------------------------------------------------------------------------
Sorted(q) == \A m, n \in DOMAIN q : m <= n => q[m].date <= q[n].date

\* A list of actions in the order of their dates.
Queue == {q \in Seq(Action) : Sorted(q)}

\* register_rtaction() keeps the order.
LEMMA RegisterSorted ==
  ASSUME NEW q \in Queue, NEW a \in Action
  PROVE  Register(q, a) \in Queue
<1> DEFINE p == Register(q, a)
<1>1. q \in Seq(Action) /\ Sorted(q)
  BY DEF Queue
<1>2. PICK n \in 1 .. Len(q) + 1 :
        /\ \A i \in 1 .. Len(q) + 1 : p[i] =
             IF i < n THEN q[i] ELSE IF i = n THEN a ELSE q[i - 1]
        /\ \A m \in 1 .. n - 1 : q[m].date <= a.date
        /\ n <= Len(q) => a.date <= q[n].date
  BY <1>1, RegisterShape
<1>3. p \in Seq(Action) /\ Len(p) = Len(q) + 1
  BY <1>1, RegisterShape
<1>4. /\ Len(q) \in Nat /\ DOMAIN q = 1 .. Len(q) /\ DOMAIN p = 1 .. Len(q) + 1
      /\ \A i \in 1 .. Len(q) : q[i].date \in Nat
      /\ a.date \in Nat
  BY <1>1, <1>3, LenProperties, ActionDate
<1> HIDE DEF p
<1>5. ASSUME NEW i \in 1 .. Len(q) + 1, NEW j \in 1 .. Len(q) + 1, i <= j
      PROVE  p[i].date <= p[j].date
  <2>0. \A k, l \in 1 .. Len(q) : k <= l => q[k].date <= q[l].date
    BY <1>1, <1>4 DEF Sorted
  <2>1. CASE j < n
    <3>1. i \in 1 .. Len(q) /\ j \in 1 .. Len(q) /\ p[i] = q[i] /\ p[j] = q[j]
      BY <2>1, <1>2, <1>4, <1>5
    <3> QED BY <2>0, <3>1, <1>5
  <2>2. CASE j = n
    <3>1. p[j] = a /\ (i = n \/ i \in 1 .. n - 1)
      BY <2>2, <1>2, <1>4, <1>5
    <3>2. i \in 1 .. n - 1 => p[i] = q[i] /\ q[i].date <= a.date
      BY <1>2, <1>4
    <3>3. i = n => p[i] = a
      BY <1>2, <1>4
    <3> QED BY <3>1, <3>2, <3>3, <1>4
  <2>3. CASE j > n /\ i < n
    <3>1. /\ i \in 1 .. Len(q) /\ j - 1 \in 1 .. Len(q) /\ i <= j - 1
          /\ p[i] = q[i] /\ p[j] = q[j - 1]
      BY <2>3, <1>2, <1>4, <1>5
    <3> QED BY <2>0, <3>1
  <2>4. CASE j > n /\ i = n
    <3>1. /\ n \in 1 .. Len(q) /\ j - 1 \in 1 .. Len(q) /\ n <= j - 1
          /\ p[i] = a /\ p[j] = q[j - 1] /\ a.date <= q[n].date
      BY <2>4, <1>2, <1>4
    <3>2. q[n].date <= q[j - 1].date
      BY <2>0, <3>1
    <3> QED BY <3>1, <3>2, <1>4
  <2>5. CASE j > n /\ i > n
    <3>1. /\ i - 1 \in 1 .. Len(q) /\ j - 1 \in 1 .. Len(q) /\ i - 1 <= j - 1
          /\ p[i] = q[i - 1] /\ p[j] = q[j - 1]
      BY <2>5, <1>2, <1>4, <1>5
    <3> QED BY <2>0, <3>1
  <2> QED BY <1>4, <2>1, <2>2, <2>3, <2>4, <2>5
<1> QED BY <1>3, <1>4, <1>5 DEF Queue, Sorted, p

-----------------------------------------------------------------------------
(***************************************************************************)
(* The invariant.  What the branch of the timeout relies on is settled     *)
(* when select() is called: it gets a timeout only if there is an action,  *)
(* and then the timeout is not before the date of the action, because      *)
(* cur_loop_time, from which the wait is computed, is never in the future. *)
(***************************************************************************)
Timing ==
  /\ cur_loop_time <= now
  /\ pc = "config" => held = NoAction
  /\ pc = "select" =>
       IF held = NoAction THEN deadline = Forever
       ELSE deadline # Forever /\ held.date <= deadline
  /\ pc = "timeout" => held # NoAction /\ held.date <= cur_loop_time

Inv == TypeOK /\ ListSorted /\ Timing

\* The list of the running event manager is a sorted list of actions.
LEMMA InvQueue == Inv => rtactionlist \in Queue
BY DEF Inv, TypeOK, ListSorted, Queue, Sorted

\* The first action leaves a list as sorted as it was.
LEMMA TailSorted ==
  ASSUME NEW q \in Queue, q # << >>
  PROVE  Head(q) \in Action /\ Tail(q) \in Queue
<1>1. /\ Head(q) \in Action /\ Tail(q) \in Seq(Action) /\ Len(Tail(q)) = Len(q) - 1
      /\ \A i \in 1 .. Len(Tail(q)) : Tail(q)[i] = q[i + 1]
  BY HeadTailProperties DEF Queue
<1>2. /\ Len(q) \in Nat /\ Len(q) >= 1 /\ DOMAIN q = 1 .. Len(q)
      /\ DOMAIN Tail(q) = 1 .. Len(q) - 1
  BY <1>1, EmptySeq, LenProperties DEF Queue
<1>3. \A k, l \in 1 .. Len(q) : k <= l => q[k].date <= q[l].date
  BY <1>2 DEF Queue, Sorted
<1>4. ASSUME NEW i \in 1 .. Len(q) - 1, NEW j \in 1 .. Len(q) - 1, i <= j
      PROVE  Tail(q)[i].date <= Tail(q)[j].date
  <2>1. Tail(q)[i] = q[i + 1] /\ Tail(q)[j] = q[j + 1]
    BY <1>1, <1>2
  <2>2. i + 1 \in 1 .. Len(q) /\ j + 1 \in 1 .. Len(q) /\ i + 1 <= j + 1
    BY <1>2, <1>4
  <2> QED BY <1>3, <2>1, <2>2
<1> QED BY <1>1, <1>2, <1>4 DEF Queue, Sorted

\* The rules that an event wakes up leave a sorted list.
LEMMA RulesRegisterSorted ==
  ASSUME NEW q \in Queue, NEW busy, cur_loop_time \in Nat
  PROVE  RulesRegister(q, busy) \subseteq Queue
<1>1. ASSUME NEW id \in Once, NEW delay \in Delays
      PROVE  Timed(id, delay) \in Action
  BY TimesAssumption DEF Timed, Action, Actions
<1> QED BY <1>1, RegisterSorted DEF RulesRegister

\* What every callback leaves behind.
LEMMA CallbackTypes ==
  ASSUME Inv, NEW a \in Action, NEW o \in Callback(a)
  PROVE  o.list \in Queue /\ o.fds \subseteq Fds /\ o.backlog \in Nat
<1>0. /\ rtactionlist \in Queue /\ cur_loop_time \in Nat /\ fds \subseteq Fds
      /\ backlog \in Nat /\ a.date \in Nat /\ a.id \in Actions
      /\ Period \in Nat /\ poll_period \in Nat
  BY InvQueue, TimesAssumption DEF Inv, TypeOK, Action
<1>1. \A d \in Nat : Timed(a.id, d) \in Action /\ [a EXCEPT !.date = @ + d] \in Action
  BY <1>0 DEF Timed, Action
<1>2. CASE a.id \in Once
  <2>1. o \in OnceCallback(a)
    BY <1>2, KindsAssumption DEF Callback
  <2> QED BY <2>1, <1>0, RulesRegisterSorted DEF OnceCallback, Outcome
<1>3. CASE a.id \in Pollers
  <2>1. o \in PollerCallback(a)
    BY <1>3, KindsAssumption DEF Callback
  <2>2. Register(rtactionlist, [a EXCEPT !.date = @ + Period]) \in Queue
    BY <1>0, <1>1, RegisterSorted
  <2> QED BY <2>1, <2>2, <1>0 DEF PollerCallback, Outcome
<1>4. CASE a.id \in Readers
  <2>1. o \in ReaderCallback(a)
    BY <1>4, KindsAssumption DEF Callback
  <2>2. Register(rtactionlist, Timed(a.id, poll_period)) \in Queue
    BY <1>0, <1>1, RegisterSorted
  <2>3. \A q \in RulesRegister(rtactionlist, PendingIds) :
          Register(q, Timed(a.id, 0)) \in Queue
    BY <1>0, <1>1, RulesRegisterSorted, RegisterSorted
  <2> QED BY <2>1, <2>2, <2>3, <1>0 DEF ReaderCallback, Outcome
<1>5. CASE a.id \in Socks
  <2>1. o \in ReconnectCallback(a)
    BY <1>5, KindsAssumption DEF Callback
  <2>2. \A d \in {1, 5} : Register(rtactionlist, [a EXCEPT !.date = @ + d]) \in Queue
    BY <1>0, <1>1, RegisterSorted
  <2> QED BY <2>1, <2>2, <1>0, <1>5, KindsAssumption DEF ReconnectCallback, Outcome
<1> QED BY <1>0, <1>2, <1>3, <1>4, <1>5 DEF Actions

\* e->cb(ctx, e); e = get_next_rtaction(ctx): a sorted list remains, and the
\* loop holds an action or NULL.
LEMMA FireTypes ==
  ASSUME Inv, held # NoAction, Fire
  PROVE  /\ rtactionlist' \in Queue
         /\ held' \in Action \cup {NoAction}
         /\ fds' \subseteq Fds
         /\ backlog' \in Nat
<1>0. held \in Action
  BY DEF Inv, TypeOK
<1>1. PICK o \in Callback(held) :
        /\ Get_next_rtaction(o.list)
        /\ fds' = o.fds
        /\ backlog' = o.backlog
  BY DEF Fire
<1>2. o.list \in Queue /\ o.fds \subseteq Fds /\ o.backlog \in Nat
  BY <1>0, CallbackTypes
<1>3. CASE o.list = << >>
  BY <1>1, <1>2, <1>3 DEF Get_next_rtaction
<1>4. CASE o.list # << >>
  BY <1>1, <1>2, <1>4, TailSorted DEF Get_next_rtaction
<1> QED BY <1>1, <1>2, <1>3, <1>4

\* The event manager starts in a state of the invariant.
LEMMA InitInv == Init => Inv
<1> SUFFICES ASSUME Init PROVE Inv
  OBVIOUS
<1>1. TypeOK
  BY TimesAssumption DEF Init, TypeOK
<1>2. ListSorted
  BY DEF Init, ListSorted
<1>3. Timing
  BY DEF Init, Timing
<1> QED BY <1>1, <1>2, <1>3 DEF Inv

\* A step that only replaces the list by a sorted one, and serves descriptors,
\* keeps the invariant.
LEMMA ListStepInv ==
  ASSUME Inv, rtactionlist' \in Queue, fds' \subseteq Fds, ready' \subseteq Fds,
         poll_period' \in Nat, pc # "select",
         UNCHANGED << held, now, cur_loop_time, deadline, backlog, pc, conf >>
  PROVE  Inv'
<1>1. TypeOK'
  BY DEF Inv, TypeOK, Queue
<1>2. ListSorted'
  BY DEF Queue, Sorted, ListSorted
<1>3. Timing'
  BY DEF Inv, Timing
<1> QED BY <1>1, <1>2, <1>3 DEF Inv

\* Every step of the main loop and of its environment keeps the invariant.
LEMMA NextInv == Inv /\ [Next]_vars => Inv'
<1> SUFFICES ASSUME Inv, [Next]_vars PROVE Inv'
  OBVIOUS
<1>0. /\ rtactionlist \in Queue
      /\ now \in Nat /\ cur_loop_time \in Nat /\ backlog \in Nat
      /\ held \in Action \cup {NoAction}
      /\ fds \subseteq Fds /\ ready \subseteq Fds
      /\ Period \in Nat /\ poll_period \in Nat /\ Forever \notin Nat
  BY InvQueue, TimesAssumption DEF Inv, TypeOK
<1>1. ASSUME NEW id \in Pollers \cup Readers, NEW delay \in {0, Period},
             StartModule(id, delay)
      PROVE  Inv'
  <2>1. Timed(id, delay) \in Action
    BY <1>0 DEF Timed, Action, Actions
  <2>2. rtactionlist' \in Queue
    BY <1>0, <1>1, <2>1, RegisterSorted DEF StartModule
  <2> QED BY <1>0, <1>1, <2>2, ListStepInv DEF StartModule
<1>2. CASE EnterMainLoop
  <2>1. rtactionlist' \in Queue /\ held' \in Action \cup {NoAction}
    <3>1. CASE rtactionlist = << >>
      BY <1>0, <1>2, <3>1 DEF EnterMainLoop, Get_next_rtaction
    <3>2. CASE rtactionlist # << >>
      BY <1>0, <1>2, <3>2, TailSorted DEF EnterMainLoop, Get_next_rtaction
    <3> QED BY <3>1, <3>2
  <2>2. TypeOK'
    BY <1>2, <2>1 DEF Inv, TypeOK, Queue, EnterMainLoop
  <2>3. ListSorted'
    BY <2>1 DEF Queue, Sorted, ListSorted
  <2>4. Timing'
    BY <1>2 DEF Inv, Timing, EnterMainLoop
  <2> QED BY <2>2, <2>3, <2>4 DEF Inv
<1>3. CASE LoopTop
  <2>1. TypeOK' /\ ListSorted'
    BY <1>3 DEF Inv, TypeOK, ListSorted, LoopTop
  <2>2. Timing'
    BY <1>0, <1>3 DEF Timing, LoopTop
  <2> QED BY <2>1, <2>2 DEF Inv
<1>4. CASE FirePast
  <2>1. /\ rtactionlist' \in Queue /\ held' \in Action \cup {NoAction}
        /\ fds' \subseteq Fds /\ backlog' \in Nat
    BY <1>4, FireTypes DEF FirePast, Due
  <2>2. TypeOK'
    BY <1>4, <2>1 DEF Inv, TypeOK, Queue, FirePast
  <2>3. ListSorted'
    BY <2>1 DEF Queue, Sorted, ListSorted
  <2>4. Timing'
    BY <1>4 DEF Inv, Timing, FirePast
  <2> QED BY <2>2, <2>3, <2>4 DEF Inv
<1>5. CASE Select
  <2>1. CASE held = NoAction
    <3>1. TypeOK' /\ ListSorted'
      BY <1>5, <2>1 DEF Inv, TypeOK, ListSorted, Select
    <3>2. Timing'
      BY <1>5, <2>1 DEF Inv, Timing, Select
    <3> QED BY <3>1, <3>2 DEF Inv
  <2>2. CASE held # NoAction
    <3>1. /\ held.date \in Nat /\ cur_loop_time < held.date /\ cur_loop_time <= now
          /\ deadline' = now + (held.date - cur_loop_time)
      BY <1>0, <1>5, <2>2, ActionDate DEF Inv, Timing, Select, Due
    <3>2. deadline' \in Nat /\ held.date <= deadline'
      BY <1>0, <3>1
    <3>3. TypeOK' /\ ListSorted'
      BY <1>5, <3>2 DEF Inv, TypeOK, ListSorted, Select
    <3>4. Timing'
      BY <1>0, <1>5, <2>2, <3>2 DEF Inv, Timing, Select
    <3> QED BY <3>3, <3>4 DEF Inv
  <2> QED BY <2>1, <2>2
<1>6. ASSUME NEW R \in SUBSET Fds, InputReady(R) PROVE Inv'
  <2>1. TypeOK' /\ ListSorted'
    BY <1>6 DEF Inv, TypeOK, ListSorted, InputReady
  <2>2. Timing'
    BY <1>6 DEF Inv, Timing, InputReady
  <2> QED BY <2>1, <2>2 DEF Inv
<1>7. ASSUME NEW fd \in Fds, ReadInput(fd) PROVE Inv'
  <2>1. rtactionlist' \in Queue
    BY <1>0, <1>7, RulesRegisterSorted DEF ReadInput
  <2> QED BY <1>0, <1>7, <2>1, ListStepInv DEF ReadInput
<1>8. ASSUME NEW fd \in Fds, LoseConnection(fd) PROVE Inv'
  <2>1. PollPeriodOnLoss \in Nat /\ Timed(fd, PollPeriodOnLoss) \in Action
    BY <1>0, <1>8 DEF PollPeriodOnLoss, LoseConnection, Timed, Action, Actions
  <2>2. rtactionlist' \in Queue
    BY <1>0, <1>8, <2>1, RegisterSorted DEF LoseConnection
  <2> QED BY <1>0, <1>8, <2>1, <2>2, ListStepInv DEF LoseConnection
<1>9. CASE EndOfInput
  <2>1. TypeOK' /\ ListSorted'
    BY <1>9 DEF Inv, TypeOK, ListSorted, EndOfInput
  <2>2. Timing'
    BY <1>9 DEF Inv, Timing, EndOfInput
  <2> QED BY <2>1, <2>2 DEF Inv
<1>10. CASE Timeout
  <2>1. /\ held # NoAction /\ held.date <= deadline /\ deadline \in Nat /\ deadline <= now
    BY <1>10 DEF Inv, Timing, TypeOK, Timeout
  <2>2. held.date <= now
    BY <1>0, <2>1, ActionDate
  <2>3. TypeOK' /\ ListSorted'
    BY <1>10 DEF Inv, TypeOK, ListSorted, Timeout
  <2>4. Timing'
    BY <1>0, <1>10, <2>1, <2>2 DEF Timing, Timeout
  <2> QED BY <2>3, <2>4 DEF Inv
<1>11. CASE FireTimeout
  <2>1. /\ rtactionlist' \in Queue /\ held' \in Action \cup {NoAction}
        /\ fds' \subseteq Fds /\ backlog' \in Nat
    BY <1>11, FireTypes DEF FireTimeout
  <2>2. TypeOK'
    BY <1>11, <2>1 DEF Inv, TypeOK, Queue, FireTimeout
  <2>3. ListSorted'
    BY <2>1 DEF Queue, Sorted, ListSorted
  <2>4. Timing'
    BY <1>11 DEF Inv, Timing, FireTimeout
  <2> QED BY <2>2, <2>3, <2>4 DEF Inv
<1>12. CASE Tick
  <2>1. TypeOK' /\ ListSorted'
    BY <1>0, <1>12 DEF Inv, TypeOK, ListSorted, Tick
  <2>2. Timing'
    BY <1>0, <1>12 DEF Inv, Timing, Tick
  <2> QED BY <2>1, <2>2 DEF Inv
<1>13. CASE UNCHANGED vars
  BY <1>13 DEF vars, Inv, TypeOK, ListSorted, Timing
<1> QED
  BY <1>1, <1>2, <1>3, <1>4, <1>5, <1>6, <1>7, <1>8, <1>9, <1>10, <1>11, <1>12, <1>13
  DEF Next, LoopStep

-----------------------------------------------------------------------------
\* The invariant holds in every state that the event manager reaches.
THEOREM Invariance == Spec => []Inv
BY InitInv, NextInv, PTL DEF Spec

\* The list holds actions, the loop an action or NULL, and no clock or counter
\* of the event manager becomes negative.
THEOREM TypeCorrect == Spec => []TypeOK
<1>1. Inv => TypeOK
  BY DEF Inv
<1> QED BY <1>1, Invariance, PTL

\* register_rtaction() keeps the list in the order of the dates, whatever the
\* callbacks register while the main loop holds the first action.
THEOREM AlwaysSorted == Spec => []ListSorted
<1>1. Inv => ListSorted
  BY DEF Inv
<1> QED BY <1>1, Invariance, PTL

\* The branch of the timeout never calls through a null pointer.
THEOREM TimeoutSafe == Spec => []TimeoutHasAction
<1>1. Inv => TimeoutHasAction
  BY DEF Inv, Timing, TimeoutHasAction
<1> QED BY <1>1, Invariance, PTL

\* What the walk of register_rtaction() and the branches of the main loop rely
\* on.
THEOREM ListAlwaysSound == Spec => []ListSound
BY TypeCorrect, AlwaysSorted, TimeoutSafe, PTL DEF ListSound

\* No callback runs before its date, in the branch of the timeout either, which
\* does not look at the date.
THEOREM NoEarlyCallback == Spec => NeverEarly
<1>1. Inv /\ [Next]_vars
        => [held # NoAction /\ held' # held => held.date <= now]_vars
  <2> SUFFICES ASSUME Inv, Next, held # NoAction, held' # held
               PROVE  held.date <= now
    BY DEF vars
  <2>0. /\ held.date \in Nat /\ cur_loop_time \in Nat /\ now \in Nat
        /\ cur_loop_time <= now
    BY ActionDate DEF Inv, TypeOK, Timing
  <2>1. CASE EnterMainLoop
    BY <2>1 DEF Inv, Timing, EnterMainLoop
  <2>2. CASE FirePast
    BY <2>0, <2>2 DEF FirePast, Due
  <2>3. CASE FireTimeout
    BY <2>0, <2>3 DEF Inv, Timing, FireTimeout
  <2>4. CASE ~ (EnterMainLoop \/ FirePast \/ FireTimeout)
    BY <2>4 DEF Next, LoopStep, StartModule, LoopTop, Select, InputReady, ReadInput,
                LoseConnection, EndOfInput, Timeout, Tick
  <2> QED BY <2>1, <2>2, <2>3, <2>4
<1> QED BY <1>1, Invariance, PTL DEF Spec, NeverEarly

-----------------------------------------------------------------------------
(***************************************************************************)
(* No action is registered twice, and a socket is watched or pending.      *)
(***************************************************************************)
Ids(q) == {q[n].id : n \in DOMAIN q}
DistinctIds(q) == \A m, n \in DOMAIN q : q[m].id = q[n].id => m = n
HeldIds == IF held = NoAction THEN {} ELSE {held.id}

\* A descriptor that is ready is watched, and only configured ones are, or wait
\* to be reconnected.
Scheduling ==
  /\ DistinctIds(rtactionlist)
  /\ Ids(rtactionlist) \cap HeldIds = {}
  /\ \A fd \in Fds : (fd \in fds \/ fd \in PendingIds) => fd \in conf
  /\ \A fd \in conf \cap Fds : fd \in fds <=> fd \notin PendingIds
  /\ ready \subseteq fds

\* What is pending is in the list or held.
LEMMA PendingIs == PendingIds = Ids(rtactionlist) \cup HeldIds
BY DEF PendingIds, Pending, Ids, HeldIds

\* A new action is registered once.
LEMMA RegisterIds ==
  ASSUME NEW q \in Seq(Action), DistinctIds(q), NEW a \in Action, a.id \notin Ids(q)
  PROVE  DistinctIds(Register(q, a)) /\ Ids(Register(q, a)) = Ids(q) \cup {a.id}
<1> DEFINE p == Register(q, a)
<1>1. PICK n \in 1 .. Len(q) + 1 :
        /\ \A i \in 1 .. Len(q) + 1 : p[i] =
             IF i < n THEN q[i] ELSE IF i = n THEN a ELSE q[i - 1]
        /\ \A m \in 1 .. n - 1 : q[m].date <= a.date
        /\ n <= Len(q) => a.date <= q[n].date
  BY RegisterShape
<1>2. p \in Seq(Action) /\ Len(p) = Len(q) + 1
  BY RegisterShape
<1>3. Len(q) \in Nat /\ DOMAIN q = 1 .. Len(q) /\ DOMAIN p = 1 .. Len(q) + 1
  BY <1>2, LenProperties
<1> HIDE DEF p
<1> DEFINE Old(i) == IF i < n THEN i ELSE i - 1
<1>4. \A i \in DOMAIN p : i # n => Old(i) \in DOMAIN q /\ p[i] = q[Old(i)]
  <2> SUFFICES ASSUME NEW i \in DOMAIN p, i # n PROVE Old(i) \in DOMAIN q /\ p[i] = q[Old(i)]
    OBVIOUS
  <2>1. CASE i < n
    BY <1>1, <1>3, <2>1
  <2>2. CASE i > n
    BY <1>1, <1>3, <2>2
  <2> QED BY <1>3, <2>1, <2>2
<1>5. \A i, j \in DOMAIN p : i # n /\ j # n /\ Old(i) = Old(j) => i = j
  BY <1>3
<1>6. n \in DOMAIN p /\ p[n] = a
  BY <1>1, <1>3
<1>7. \A m \in DOMAIN q : IF m < n THEN m \in DOMAIN p /\ p[m] = q[m]
                          ELSE m + 1 \in DOMAIN p /\ p[m + 1] = q[m]
  <2> SUFFICES ASSUME NEW m \in DOMAIN q
               PROVE  IF m < n THEN m \in DOMAIN p /\ p[m] = q[m]
                      ELSE m + 1 \in DOMAIN p /\ p[m + 1] = q[m]
    OBVIOUS
  <2>1. CASE m < n
    BY <1>1, <1>3, <2>1
  <2>2. CASE ~ (m < n)
    <3>1. m + 1 \in 1 .. Len(q) + 1 /\ ~ (m + 1 < n) /\ m + 1 # n /\ (m + 1) - 1 = m
      BY <1>3, <2>2
    <3>2. p[m + 1] = q[(m + 1) - 1]
      BY <1>1, <3>1
    <3> QED BY <1>3, <2>2, <3>1, <3>2
  <2> QED BY <2>1, <2>2
<1> HIDE DEF Old
<1>8. \A i \in DOMAIN p : i # n => p[i].id \in Ids(q) /\ p[i].id # a.id
  BY <1>4 DEF Ids
<1>9. DistinctIds(p)
  <2> SUFFICES ASSUME NEW i \in DOMAIN p, NEW j \in DOMAIN p, p[i].id = p[j].id
               PROVE  i = j
    BY DEF DistinctIds
  <2>1. i = n <=> j = n
    BY <1>6, <1>8
  <2> QED BY <1>4, <1>5, <2>1 DEF DistinctIds
<1>10. Ids(p) = Ids(q) \cup {a.id}
  <2>1. \A m \in DOMAIN q : q[m].id \in Ids(p)
    BY <1>7 DEF Ids
  <2>2. a.id \in Ids(p)
    BY <1>6 DEF Ids
  <2>3. Ids(q) \subseteq Ids(p)
    BY <2>1 DEF Ids
  <2>4. \A x \in Ids(p) : x \in Ids(q) \cup {a.id}
    BY <1>6, <1>8 DEF Ids
  <2> QED BY <2>2, <2>3, <2>4
<1> QED BY <1>9, <1>10 DEF p

\* The loop takes the first action: what is pending stays pending.
LEMMA NextActionIds ==
  ASSUME NEW q \in Seq(Action), DistinctIds(q), Get_next_rtaction(q)
  PROVE  /\ DistinctIds(rtactionlist') /\ PendingIds' = Ids(q)
         /\ Ids(rtactionlist') \cap HeldIds' = {}
<1>1. CASE q = << >>
  <2>1. rtactionlist' = << >> /\ held' = NoAction
    BY <1>1 DEF Get_next_rtaction
  <2>2. DistinctIds(rtactionlist') /\ Ids(rtactionlist') = {} /\ HeldIds' = {} /\ Ids(q) = {}
    BY <1>1, <2>1 DEF DistinctIds, Ids, HeldIds
  <2>3. PendingIds' = Ids(rtactionlist') \cup HeldIds'
    BY <2>1, <2>2 DEF PendingIds, Pending, Ids, HeldIds
  <2> QED BY <2>2, <2>3
<1>2. CASE q # << >>
  <2> DEFINE p == Tail(q)
             h == Head(q)
  <2>1. /\ p \in Seq(Action) /\ Len(p) = Len(q) - 1 /\ h = q[1] /\ h \in Action
        /\ \A i \in 1 .. Len(p) : p[i] = q[i + 1]
    BY <1>2, HeadTailProperties
  <2>2. /\ Len(q) \in Nat \ {0} /\ DOMAIN q = 1 .. Len(q) /\ DOMAIN p = 1 .. Len(q) - 1
    BY <1>2, <2>1, EmptySeq, LenProperties
  <2>3. rtactionlist' = p /\ held' = h /\ h # NoAction
    BY <1>2, <2>1, TimesAssumption DEF Get_next_rtaction, Action
  <2> HIDE DEF p, h
  <2>4. \A i \in DOMAIN p : i + 1 \in DOMAIN q /\ i + 1 # 1 /\ p[i] = q[i + 1]
    BY <2>1, <2>2
  <2>5. 1 \in DOMAIN q /\ \A i \in DOMAIN q : i # 1 => i - 1 \in DOMAIN p /\ p[i - 1] = q[i]
    <3>1. 1 \in DOMAIN q
      BY <2>2
    <3>2. ASSUME NEW i \in DOMAIN q, i # 1
          PROVE  i - 1 \in DOMAIN p /\ p[i - 1] = q[i]
      <4>1. i - 1 \in DOMAIN p /\ (i - 1) + 1 = i
        BY <2>2, <3>2
      <4>2. p[i - 1] = q[(i - 1) + 1]
        BY <2>4, <4>1
      <4> QED BY <4>1, <4>2
    <3> QED BY <3>1, <3>2
  <2>6. DistinctIds(p)
    <3> SUFFICES ASSUME NEW i \in DOMAIN p, NEW j \in DOMAIN p, p[i].id = p[j].id
                 PROVE  i = j
      BY DEF DistinctIds
    <3>1. i + 1 = j + 1
      BY <2>4 DEF DistinctIds
    <3> QED BY <2>2, <3>1
  <2>7. h.id \notin Ids(p)
    <3>1. \A i \in DOMAIN p : p[i].id # q[1].id
      BY <2>4, <2>5 DEF DistinctIds
    <3> QED BY <2>1, <3>1 DEF Ids
  <2>8. Ids(q) = Ids(p) \cup {h.id}
    <3>1. \A i \in DOMAIN q : q[i].id \in Ids(p) \cup {h.id}
      BY <2>1, <2>5 DEF Ids
    <3>2. \A i \in DOMAIN p : p[i].id \in Ids(q)
      BY <2>4 DEF Ids
    <3>3. h.id \in Ids(q)
      BY <2>1, <2>5 DEF Ids
    <3> QED BY <3>1, <3>2, <3>3 DEF Ids
  <2>9. HeldIds' = {h.id}
    BY <2>3 DEF HeldIds
  <2>10. PendingIds' = Ids(p) \cup {h.id}
    BY <2>3 DEF PendingIds, Pending, Ids
  <2> QED BY <2>3, <2>6, <2>7, <2>8, <2>9, <2>10
<1> QED BY <1>1, <1>2

\* A date can be moved, the identifier stays.
LEMMA MovedAction ==
  ASSUME NEW a \in Action, NEW d \in Nat
  PROVE  [a EXCEPT !.date = @ + d] \in Action /\ [a EXCEPT !.date = @ + d].id = a.id
BY DEF Action

\* register_rtcallback() makes an action of its identifier.
LEMMA TimedAction ==
  ASSUME cur_loop_time \in Nat, NEW id \in Actions, NEW d \in Nat
  PROVE  Timed(id, d) \in Action /\ Timed(id, d).id = id
BY DEF Timed, Action

\* The rules that an event wakes up register, at most, an action that is not
\* pending.
LEMMA RulesRegisterIds ==
  ASSUME Inv, Scheduling, NEW q \in RulesRegister(rtactionlist, PendingIds)
  PROVE  /\ q \in Seq(Action) /\ DistinctIds(q)
         /\ \A x : x \notin Once => (x \in Ids(q) <=> x \in Ids(rtactionlist))
         /\ Ids(q) \cap HeldIds = {}
<1>0. rtactionlist \in Seq(Action) /\ DistinctIds(rtactionlist) /\ cur_loop_time \in Nat
  BY DEF Inv, TypeOK, Scheduling
<1>1. CASE q = rtactionlist
  BY <1>0, <1>1 DEF Scheduling
<1>2. CASE q # rtactionlist
  <2>1. PICK id \in Once \ PendingIds, delay \in Delays :
          q = Register(rtactionlist, Timed(id, delay))
    BY <1>2 DEF RulesRegister
  <2>2. Timed(id, delay) \in Action /\ Timed(id, delay).id = id
    BY <1>0, TimedAction, TimesAssumption DEF Actions
  <2>3. id \notin Ids(rtactionlist) /\ id \notin HeldIds
    BY <2>1, PendingIs
  <2>4. DistinctIds(q) /\ Ids(q) = Ids(rtactionlist) \cup {id}
    BY <1>0, <2>1, <2>2, <2>3, RegisterIds
  <2>5. q \in Seq(Action)
    BY <1>0, <2>1, <2>2, RegisterShape
  <2> QED BY <2>3, <2>4, <2>5 DEF Scheduling
<1> QED BY <1>1, <1>2

\* No callback registers an action twice, and the one of a socket either
\* reconnects it or registers itself again.
LEMMA CallbackIds ==
  ASSUME Inv, Scheduling, held # NoAction, NEW o \in Callback(held)
  PROVE  /\ o.list \in Seq(Action) /\ DistinctIds(o.list)
         /\ fds \subseteq o.fds
         /\ \A fd \in Fds : (fd \in o.fds \/ fd \in Ids(o.list))
                              <=> (fd \in fds \/ fd \in PendingIds)
         /\ \A fd \in conf \cap Fds : fd \in o.fds <=> fd \notin Ids(o.list)
<1> DEFINE h == held.id
<1>0. /\ held \in Action /\ h \in Actions /\ HeldIds = {h}
      /\ rtactionlist \in Seq(Action) /\ cur_loop_time \in Nat /\ poll_period \in Nat
      /\ Period \in Nat
  BY TimesAssumption DEF Inv, TypeOK, Action, HeldIds
<1>1. /\ h \notin Ids(rtactionlist) /\ PendingIds = Ids(rtactionlist) \cup {h}
      /\ DistinctIds(rtactionlist)
  BY <1>0, PendingIs DEF Scheduling
<1>2. \A q \in RulesRegister(rtactionlist, PendingIds) :
        /\ q \in Seq(Action) /\ DistinctIds(q) /\ h \notin Ids(q)
        /\ \A fd \in Fds : fd \in Ids(q) <=> fd \in Ids(rtactionlist)
  BY <1>0, RulesRegisterIds, KindsAssumption
<1>3. ASSUME NEW q \in Seq(Action), DistinctIds(q), h \notin Ids(q),
             NEW a \in Action, a.id = h
      PROVE  /\ Register(q, a) \in Seq(Action) /\ DistinctIds(Register(q, a))
             /\ Ids(Register(q, a)) = Ids(q) \cup {h}
  BY ZenonT(60), <1>3, RegisterIds, RegisterShape
<1>4. ASSUME NEW d \in Nat
      PROVE  /\ [held EXCEPT !.date = @ + d] \in Action /\ [held EXCEPT !.date = @ + d].id = h
             /\ Timed(h, d) \in Action /\ Timed(h, d).id = h
  BY <1>0, <1>4, MovedAction, TimedAction
<1> HIDE DEF h
<1>5. CASE h \in Once
  <2>1. o \in OnceCallback(held)
    BY <1>5, KindsAssumption DEF Callback, h
  <2>2. o.list \in RulesRegister(rtactionlist, PendingIds) /\ o.fds = fds
    BY <2>1 DEF OnceCallback, Outcome
  <2>3. h \notin Fds
    BY <1>5, KindsAssumption
  <2> QED BY <1>1, <1>2, <2>2, <2>3 DEF Scheduling
<1>6. CASE h \in Pollers
  <2>1. o \in PollerCallback(held)
    BY <1>6, KindsAssumption DEF Callback, h
  <2>2. o.list = Register(rtactionlist, [held EXCEPT !.date = @ + Period]) /\ o.fds = fds
    BY <2>1 DEF PollerCallback, Outcome
  <2>3. /\ o.list \in Seq(Action) /\ DistinctIds(o.list)
        /\ Ids(o.list) = Ids(rtactionlist) \cup {h}
    BY <1>0, <1>1, <1>3, <1>4, <2>2
  <2> QED BY <1>1, <2>2, <2>3 DEF Scheduling
<1>7. CASE h \in Readers
  <2>1. o \in ReaderCallback(held)
    BY <1>7, KindsAssumption DEF Callback, h
  <2>2. /\ o.fds = fds
        /\ \/ o.list = Register(rtactionlist, Timed(h, poll_period))
           \/ \E q \in RulesRegister(rtactionlist, PendingIds) : o.list = Register(q, Timed(h, 0))
    BY <2>1 DEF ReaderCallback, Outcome, h
  <2>3. /\ o.list \in Seq(Action) /\ DistinctIds(o.list)
        /\ \A fd \in Fds : fd \in Ids(o.list) <=> fd \in Ids(rtactionlist) \cup {h}
    <3>1. CASE o.list = Register(rtactionlist, Timed(h, poll_period))
      BY <1>0, <1>1, <1>3, <1>4, <3>1
    <3>2. CASE o.list # Register(rtactionlist, Timed(h, poll_period))
      <4>1. PICK q \in RulesRegister(rtactionlist, PendingIds) : o.list = Register(q, Timed(h, 0))
        BY <2>2, <3>2
      <4>2. o.list \in Seq(Action) /\ DistinctIds(o.list) /\ Ids(o.list) = Ids(q) \cup {h}
        BY <1>2, <1>3, <1>4, <4>1
      <4> QED BY <1>2, <4>1, <4>2
    <3> QED BY <3>1, <3>2
  <2> QED BY <1>1, <2>2, <2>3 DEF Scheduling
<1>8. CASE h \in Socks
  <2>0. h \in Fds /\ h \in conf /\ h \notin fds
    BY <1>1, <1>8, KindsAssumption DEF Scheduling
  <2>1. o \in ReconnectCallback(held)
    BY <1>8, KindsAssumption DEF Callback, h
  <2>2. CASE o = Outcome(rtactionlist, fds \cup {h}, backlog)
    <3>1. o.list = rtactionlist /\ o.fds = fds \cup {h}
      BY <2>2 DEF Outcome
    <3> QED BY <1>0, <1>1, <2>0, <3>1 DEF Scheduling
  <2>3. CASE o # Outcome(rtactionlist, fds \cup {h}, backlog)
    <3>1. PICK d \in {1, 5} :
            o = Outcome(Register(rtactionlist, [held EXCEPT !.date = @ + d]), fds, backlog)
      BY <2>1, <2>3 DEF ReconnectCallback, h
    <3>2. o.list = Register(rtactionlist, [held EXCEPT !.date = @ + d]) /\ o.fds = fds
      BY <3>1 DEF Outcome
    <3>3. /\ o.list \in Seq(Action) /\ DistinctIds(o.list)
          /\ Ids(o.list) = Ids(rtactionlist) \cup {h}
      <4> DEFINE a == [held EXCEPT !.date = @ + d]
      <4>1. a \in Action /\ a.id = h
        BY <1>4
      <4> HIDE DEF a
      <4>2. /\ Register(rtactionlist, a) \in Seq(Action)
            /\ DistinctIds(Register(rtactionlist, a))
            /\ Ids(Register(rtactionlist, a)) = Ids(rtactionlist) \cup {h}
        BY <1>0, <1>1, <1>3, <4>1
      <4> QED BY <3>2, <4>2 DEF a
    <3> QED BY <1>1, <2>0, <3>2, <3>3 DEF Scheduling
  <2> QED BY <2>2, <2>3
<1> QED BY <1>0, <1>5, <1>6, <1>7, <1>8 DEF Actions

\* The loop runs the callback of its action and takes the next one.
LEMMA FireSchedules ==
  ASSUME Inv, Scheduling, held # NoAction, Fire, UNCHANGED << conf, ready >>
  PROVE  Scheduling'
<1>1. PICK o \in Callback(held) :
        /\ Get_next_rtaction(o.list)
        /\ fds' = o.fds
        /\ backlog' = o.backlog
  BY DEF Fire
<1>2. /\ o.list \in Seq(Action) /\ DistinctIds(o.list)
      /\ fds \subseteq o.fds
      /\ \A fd \in Fds : (fd \in o.fds \/ fd \in Ids(o.list)) <=> (fd \in fds \/ fd \in PendingIds)
      /\ \A fd \in conf \cap Fds : fd \in o.fds <=> fd \notin Ids(o.list)
  BY CallbackIds
<1>3. /\ DistinctIds(rtactionlist') /\ PendingIds' = Ids(o.list)
      /\ Ids(rtactionlist') \cap HeldIds' = {}
  BY <1>1, <1>2, NextActionIds
<1>4. DistinctIds(rtactionlist)' /\ Ids(rtactionlist)' \cap HeldIds' = {}
  BY <1>3 DEF DistinctIds, Ids
<1> QED BY <1>1, <1>2, <1>3, <1>4 DEF Scheduling

\* A step that registers an action that was not pending, or that changes
\* neither the list nor the held action.
LEMMA ListIds ==
  ASSUME Inv, Scheduling, NEW X, X \subseteq Actions \ PendingIds, held' = held,
         DistinctIds(rtactionlist'), Ids(rtactionlist') = Ids(rtactionlist) \cup X
  PROVE  /\ DistinctIds(rtactionlist)' /\ Ids(rtactionlist)' \cap HeldIds' = {}
         /\ PendingIds' = PendingIds \cup X
<1>1. DistinctIds(rtactionlist)' /\ Ids(rtactionlist)' = Ids(rtactionlist') /\ HeldIds' = HeldIds
  BY DEF DistinctIds, Ids, HeldIds
<1>2. PendingIds' = Ids(rtactionlist)' \cup HeldIds'
  BY DEF PendingIds, Pending, Ids, HeldIds
<1> QED BY <1>1, <1>2, PendingIs DEF Scheduling

\* Every step of the event manager keeps the sockets scheduled.
LEMMA NextScheduling == Inv /\ Scheduling /\ [Next]_vars => Scheduling'
<1> SUFFICES ASSUME Inv, Scheduling, [Next]_vars PROVE Scheduling'
  OBVIOUS
<1>0. /\ rtactionlist \in Seq(Action) /\ DistinctIds(rtactionlist)
      /\ cur_loop_time \in Nat /\ poll_period \in Nat /\ Period \in Nat
  BY TimesAssumption DEF Inv, TypeOK, Scheduling
<1>1. ASSUME NEW id \in Pollers \cup Readers, NEW delay \in {0, Period}, StartModule(id, delay)
      PROVE  Scheduling'
  <2>1. id \in Actions \ PendingIds /\ id \notin Fds /\ id \notin Ids(rtactionlist)
    BY <1>1, PendingIs, KindsAssumption DEF StartModule, Actions
  <2>2. Timed(id, delay) \in Action /\ Timed(id, delay).id = id
    BY <1>0, <2>1, TimedAction
  <2>3. DistinctIds(rtactionlist') /\ Ids(rtactionlist') = Ids(rtactionlist) \cup {id}
    BY <1>0, <1>1, <2>1, <2>2, RegisterIds DEF StartModule
  <2>4. held' = held /\ UNCHANGED << conf, fds, ready >>
    BY <1>1 DEF StartModule
  <2>5. /\ DistinctIds(rtactionlist)' /\ Ids(rtactionlist)' \cap HeldIds' = {}
        /\ PendingIds' = PendingIds \cup {id}
    BY <2>1, <2>3, <2>4, ListIds
  <2> QED BY <2>1, <2>4, <2>5 DEF Scheduling
<1>2. CASE EnterMainLoop
  <2>1. /\ held = NoAction /\ Get_next_rtaction(rtactionlist) /\ UNCHANGED << conf, fds, ready >>
    BY <1>2 DEF Inv, Timing, EnterMainLoop
  <2>2. PendingIds = Ids(rtactionlist)
    BY <2>1, PendingIs DEF HeldIds
  <2>3. /\ DistinctIds(rtactionlist') /\ PendingIds' = PendingIds
        /\ Ids(rtactionlist') \cap HeldIds' = {}
    BY <1>0, <2>1, <2>2, NextActionIds
  <2>4. DistinctIds(rtactionlist)' /\ Ids(rtactionlist)' \cap HeldIds' = {}
    BY <2>3 DEF DistinctIds, Ids
  <2> QED BY <2>1, <2>3, <2>4 DEF Scheduling
<1>3. CASE FirePast
  BY <1>3, FireSchedules DEF FirePast, Due
<1>4. CASE FireTimeout
  BY <1>4, FireSchedules DEF FireTimeout
<1>5. ASSUME NEW fd \in Fds, ReadInput(fd) PROVE Scheduling'
  <2>1. /\ rtactionlist' \in RulesRegister(rtactionlist, PendingIds)
        /\ UNCHANGED << held, conf, fds >> /\ ready' \subseteq ready
    BY <1>5 DEF ReadInput
  <2>2. /\ DistinctIds(rtactionlist') /\ Ids(rtactionlist') \cap HeldIds = {}
        /\ \A x : x \notin Once => (x \in Ids(rtactionlist') <=> x \in Ids(rtactionlist))
    BY <2>1, RulesRegisterIds
  <2>3. DistinctIds(rtactionlist)' /\ Ids(rtactionlist)' = Ids(rtactionlist') /\ HeldIds' = HeldIds
    BY <2>1, <2>2 DEF DistinctIds, Ids, HeldIds
  <2>4. PendingIds' = Ids(rtactionlist)' \cup HeldIds'
    BY DEF PendingIds, Pending, Ids, HeldIds
  <2>5. \A x \in Fds : x \in PendingIds' <=> x \in PendingIds
    BY <2>2, <2>3, <2>4, PendingIs, KindsAssumption
  <2> QED BY <2>1, <2>2, <2>3, <2>5 DEF Scheduling
<1>6. ASSUME NEW fd \in Fds, LoseConnection(fd) PROVE Scheduling'
  <2>1. /\ fd \in ready /\ fds' = fds \ {fd} /\ ready' = ready \ {fd}
        /\ UNCHANGED << held, conf >> /\ fd \in Socks
    BY <1>6 DEF LoseConnection
  <2>2. fd \in fds /\ fd \in conf /\ fd \notin PendingIds /\ fd \in Actions
    BY <2>1 DEF Scheduling, Actions
  <2>3. fd \notin Ids(rtactionlist)
    BY <2>2, PendingIs
  <2>4. PollPeriodOnLoss \in Nat
    BY <1>0 DEF PollPeriodOnLoss
  <2>5. Timed(fd, PollPeriodOnLoss) \in Action /\ Timed(fd, PollPeriodOnLoss).id = fd
    BY <1>0, <2>2, <2>4, TimedAction
  <2>6. DistinctIds(rtactionlist') /\ Ids(rtactionlist') = Ids(rtactionlist) \cup {fd}
    BY <1>0, <1>6, <2>3, <2>5, RegisterIds DEF LoseConnection
  <2>7. /\ DistinctIds(rtactionlist)' /\ Ids(rtactionlist)' \cap HeldIds' = {}
        /\ PendingIds' = PendingIds \cup {fd}
    BY ZenonT(60), <2>1, <2>2, <2>6, ListIds
  <2> QED BY <2>1, <2>2, <2>7 DEF Scheduling
<1>7. ASSUME UNCHANGED << rtactionlist, held, conf, fds >>, ready' = ready \/ ready' \subseteq fds
      PROVE  Scheduling'
  <2>1. PendingIds' = PendingIds /\ HeldIds' = HeldIds
    BY <1>7 DEF PendingIds, Pending, HeldIds
  <2> QED BY <1>7, <2>1 DEF Scheduling
<1>8. CASE LoopTop \/ Select \/ EndOfInput \/ Timeout \/ Tick \/ UNCHANGED vars
  <2>1. UNCHANGED << rtactionlist, held, conf, fds, ready >>
    BY <1>8 DEF LoopTop, Select, EndOfInput, Timeout, Tick, vars
  <2> QED BY <1>7, <2>1
<1>9. ASSUME NEW R \in SUBSET Fds, InputReady(R) PROVE Scheduling'
  <2>1. UNCHANGED << rtactionlist, held, conf, fds >> /\ ready' \subseteq fds
    BY <1>9 DEF InputReady
  <2> QED BY <1>7, <2>1
<1> QED BY <1>1, <1>2, <1>3, <1>4, <1>5, <1>6, <1>8, <1>9 DEF Next, LoopStep

\* Distinct identifiers are as many as the actions of the list.
LEMMA IdsCounted ==
  ASSUME NEW q \in Seq(Action), DistinctIds(q)
  PROVE  IsFiniteSet(Ids(q)) /\ Cardinality(Ids(q)) = Len(q)
<1> DEFINE f == [n \in 1 .. Len(q) |-> q[n].id]
<1>1. Len(q) \in Nat /\ DOMAIN q = 1 .. Len(q)
  BY LenProperties
<1>2. f \in [1 .. Len(q) -> Ids(q)]
  BY <1>1 DEF Ids
<1>3. \A m, n \in 1 .. Len(q) : f[m] = f[n] => m = n
  BY <1>1 DEF DistinctIds
<1>4. \A x \in Ids(q) : \E n \in 1 .. Len(q) : f[n] = x
  BY <1>1 DEF Ids
<1> HIDE DEF f
<1>5. f \in Bijection(1 .. Len(q), Ids(q))
  BY <1>2, <1>3, <1>4 DEF Bijection, Injection, Surjection, IsInjective
<1>6. ExistsBijection(1 .. Len(q), Ids(q))
  BY <1>5 DEF ExistsBijection
<1>7. IsFiniteSet(1 .. Len(q))
  BY <1>1, FS_Interval
<1> QED BY <1>1, <1>6, <1>7, FS_CountingElements, FS_Bijection

\* What the invariant says of the sockets and of the number of actions.
LEMMA SchedulingScheduled == Inv /\ Scheduling => ReconnectScheduled
<1> SUFFICES ASSUME Inv, Scheduling PROVE ReconnectScheduled
  OBVIOUS
<1>1. /\ IsFiniteSet(Ids(rtactionlist)) /\ Cardinality(Ids(rtactionlist)) = Len(rtactionlist)
      /\ Len(rtactionlist) \in Nat
  BY IdsCounted, LenProperties DEF Inv, TypeOK, Scheduling
<1>2. CASE held = NoAction
  <2>1. PendingIds = Ids(rtactionlist)
    BY <1>2, PendingIs DEF HeldIds
  <2> QED BY <1>1, <1>2, <2>1 DEF ReconnectScheduled, Scheduling
<1>3. CASE held # NoAction
  <2>1. PendingIds = Ids(rtactionlist) \cup {held.id} /\ held.id \notin Ids(rtactionlist)
    BY <1>3, PendingIs DEF HeldIds, Scheduling
  <2>2. Cardinality(PendingIds) = Len(rtactionlist) + 1
    BY <1>1, <2>1, FS_AddElement
  <2> QED BY <1>3, <2>2 DEF ReconnectScheduled, Scheduling
<1> QED BY <1>2, <1>3

\* At the start the configured descriptors are watched and nothing is pending.
LEMMA InitScheduling == Init => Scheduling
<1> SUFFICES ASSUME Init PROVE Scheduling
  OBVIOUS
<1>1. Ids(rtactionlist) = {} /\ HeldIds = {} /\ DistinctIds(rtactionlist)
  BY DEF Init, Ids, HeldIds, DistinctIds
<1>2. PendingIds = {}
  BY <1>1, PendingIs
<1> QED BY <1>1, <1>2 DEF Init, Scheduling

\* A socket of the text file module that is configured is watched, or its
\* reconnection is pending, never both and never neither, whatever is lost,
\* retried or registered meanwhile; no action is registered twice.
THEOREM ReconnectsAlwaysScheduled == Spec => []ReconnectScheduled
<1>1. Spec => []Scheduling
  BY InitScheduling, NextScheduling, Invariance, PTL DEF Spec
<1> QED BY <1>1, Invariance, SchedulingScheduled, PTL
=============================================================================
