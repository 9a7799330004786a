-------------------------- MODULE EngineLockProofs --------------------------
(***************************************************************************)
(* Proofs about the locks of synchronized rules, on top of those about the *)
(* pointers and counters of the engine and from the same hypothesis.       *)
(*                                                                         *)
(* A lock is found again by the key that its owner's environment leads to, *)
(* when the rule instance ends.  So the argument is about environments: an *)
(* environment points to an event without counting the reference, and the  *)
(* event must not be freed, and its key not be forgotten, before.          *)
(***************************************************************************)
EXTENDS EngineProofs

-----------------------------------------------------------------------------
(* The parts of the invariant.                                              *)

LockShape ==
  /\ rules \in Seq(Rule)
  /\ \A t \in ThreadId : thr[t].once \in BOOLEAN
  /\ \A s \in StateId : si[s].env \in {NULL} \cup EventId
  /\ \A i \in InstId : ri[i].locks \subseteq StateId /\ ri[i].rule \in {0} \cup RuleId
  /\ \A e \in EventId : evt[e].key \in Keys \cup {NoKey}
  /\ sync_lock \in [RuleId -> [Keys -> {NULL} \cup StateId]]

\* An initial thread lives in one call of inject_event() and in the queue that
\* is processed last; all others are those of an instance that was started.
\* The simulation of the evt-loop is that of the thread at the head.
Started ==
  /\ pc = "idle" => \A t \in Threads : ~ thr[t].once
  /\ pc = "loop" \/ phase = "loop" => \A t \in Threads : thr[t].once => t \in Elems(cur)
  /\ \A t \in Threads : ~ thr[t].once => ri[InstOf(t)].created
  /\ \A i \in Insts : ri[i].linked => ri[i].threads > 0
  /\ phase = "init" => ~ ri[Subject].created
  /\ phase = "loop" => si[subject].event = active_event_cur /\ ri[Subject].created

\* An environment points to an event that its own rule instance refers to, or
\* to the current one when no event started the instance.
Backed(s) == \E u \in States : si[u].inst = si[s].inst /\ si[u].event = si[s].env
EnvironmentOK(s) ==
  si[s].env # NULL =>
    IF ri[si[s].inst].created THEN Backed(s)
    ELSE pc # "idle" /\ si[s].env = active_event_cur
Environments == \A s \in States : EnvironmentOK(s)

\* The table of locks and the locks that the rule instances know of.
EnvKey(s) == KeyOf(si[s].env)
RuleOf(s) == ri[si[s].inst].rule
Owned ==
  /\ \A r \in RuleId, k \in Keys, s \in StateId :
       sync_lock[r][k] = s =>
         s \in States /\ RuleOf(s) = r /\ EnvKey(s) = k /\ s \in ri[si[s].inst].locks
  /\ \A i \in Insts : \A s \in ri[i].locks :
       /\ s \in States /\ si[s].inst = i
       /\ EnvKey(s) \in Keys /\ sync_lock[ri[i].rule][EnvKey(s)] = s

\* The instance of a state holds the lock that the state leads to.
Held(s) ==
  rules[RuleOf(s)].sync /\ EnvKey(s) # NoKey =>
    \E o \in States : sync_lock[RuleOf(s)][EnvKey(s)] = o /\ si[o].inst = si[s].inst

\* Who waits in a state has entered it, and a state that is being entered is
\* known to nobody.
Entered ==
  /\ \A t \in Threads, s \in States : thr[t].si = s /\ ~ thr[t].once => Held(s)
  /\ \A j \in DOMAIN stack, s \in States :
       phase = "loop" /\ stack[j].si = s /\ stack[j].t > 0 => Held(s)
  /\ \A j \in DOMAIN stack : j < Len(stack) => stack[j].t > 0
Fresh ==
  Entering =>
    /\ \A t \in Threads : thr[t].si # Top.si
    /\ \A i \in Insts : Top.si \notin ri[i].locks
    /\ \A j \in DOMAIN stack : j < Len(stack) => stack[j].si # Top.si

LockInv == LockShape /\ Started /\ Environments /\ Owned /\ Entered /\ Fresh

-----------------------------------------------------------------------------
(* What the invariant says.                                                 *)

\* The parts of the invariant give the property that the runs check.
LEMMA OwnedConsequence == ASSUME Inv, LockInv PROVE LocksConsistent
<1>1. LocksOwned
  <2> SUFFICES ASSUME NEW r \in RuleId, NEW k \in Keys, sync_lock[r][k] # NULL
               PROVE  LET s == sync_lock[r][k]
                      IN  /\ s \in States
                          /\ ri[si[s].inst].rule = r
                          /\ KeyOf(si[s].env) = k
                          /\ s \in ri[si[s].inst].locks
    BY DEF LocksOwned
  <2>1. sync_lock[r][k] \in StateId
    BY DEF LockInv, LockShape
  <2> QED BY <2>1 DEF LockInv, Owned, RuleOf, EnvKey
<1>2. SyncExclusive
  <2> SUFFICES ASSUME NEW t \in Threads, NEW u \in Threads,
                      NEW r, r = ri[InstOf(t)].rule, NEW k, k = KeyOf(si[thr[t].si].env),
                      rules[r].sync, k # NoKey, ~ thr[t].once, ~ thr[u].once,
                      ri[InstOf(u)].rule = r, KeyOf(si[thr[u].si].env) = k
               PROVE  InstOf(t) = InstOf(u)
    BY DEF SyncExclusive
  <2>1. thr[t].si \in States /\ thr[u].si \in States
    BY DEF Inv, Live
  <2>2. Held(thr[t].si) /\ Held(thr[u].si)
    BY <2>1 DEF LockInv, Entered
  <2>3. /\ RuleOf(thr[t].si) = r /\ RuleOf(thr[u].si) = r
        /\ EnvKey(thr[t].si) = k /\ EnvKey(thr[u].si) = k
    BY DEF RuleOf, EnvKey, InstOf
  <2>4. si[sync_lock[r][k]].inst = si[thr[t].si].inst
    BY <2>2, <2>3 DEF Held
  <2>5. si[sync_lock[r][k]].inst = si[thr[u].si].inst
    BY <2>2, <2>3 DEF Held
  <2> QED BY <2>4, <2>5 DEF InstOf
<1> QED BY <1>1, <1>2 DEF LocksConsistent

-----------------------------------------------------------------------------
(* Steps that leave the environments and the locks of what is there alone.  *)

LockFrame ==
  /\ rules' = rules /\ sync_lock' = sync_lock /\ States \subseteq States'
  /\ \A s \in States : si'[s].inst = si[s].inst
  /\ \A i \in Insts : /\ i \in Insts' /\ ri'[i].rule = ri[i].rule /\ ri'[i].locks = ri[i].locks
                      /\ \A s \in ri[i].locks : EnvKey(s)' = EnvKey(s)
  /\ \A i \in Insts' : i \in Insts \/ ri'[i].locks = {}

\* A step that keeps locks, instances and keys keeps what is said of the locks.
LEMMA LocksStay ==
  ASSUME Inv, LockInv, LockFrame
  PROVE  Owned' /\ \A s \in States : EnvKey(s)' = EnvKey(s) /\ Held(s) => Held(s)'
<1>1. \A s \in States : /\ si[s].inst \in Insts /\ si'[s].inst = si[s].inst
                        /\ RuleOf(s)' = RuleOf(s) /\ s \in States'
  BY DEF LockFrame, Inv, Live, RuleOf
<1>2. sync_lock' = sync_lock /\ rules' = rules /\ RuleId' = RuleId
  BY DEF LockFrame, RuleId
<1>3. ASSUME NEW r \in RuleId, NEW k \in Keys, NEW s \in StateId, sync_lock[r][k] = s
      PROVE  s \in States' /\ RuleOf(s)' = r /\ EnvKey(s)' = k /\ s \in ri'[si'[s].inst].locks
  <2>1. s \in States /\ RuleOf(s) = r /\ EnvKey(s) = k /\ s \in ri[si[s].inst].locks
    BY <1>3 DEF LockInv, Owned
  <2>2. EnvKey(s)' = EnvKey(s)
    BY <1>1, <2>1 DEF LockFrame
  <2> QED BY <1>1, <2>1, <2>2 DEF LockFrame
<1>4. ASSUME NEW i \in Insts', NEW s \in ri'[i].locks
      PROVE  /\ s \in States' /\ si'[s].inst = i
             /\ EnvKey(s)' \in Keys /\ sync_lock[ri'[i].rule][EnvKey(s)'] = s
  <2>1. i \in Insts /\ s \in ri[i].locks /\ ri'[i].rule = ri[i].rule /\ EnvKey(s)' = EnvKey(s)
    BY DEF LockFrame
  <2>2. /\ s \in States /\ si[s].inst = i
        /\ EnvKey(s) \in Keys /\ sync_lock[ri[i].rule][EnvKey(s)] = s
    BY <2>1 DEF LockInv, Owned
  <2> QED BY <1>1, <2>1, <2>2
<1>5. Owned'
  BY <1>2, <1>3, <1>4 DEF Owned
<1>6. ASSUME NEW s \in States, Held(s), EnvKey(s)' = EnvKey(s)
      PROVE  Held(s)'
  <2>1. \A o \in States : si'[o].inst = si[o].inst /\ o \in States'
    BY <1>1
  <2> QED BY <1>1, <1>2, <1>6, <2>1 DEF Held
<1> QED BY <1>5, <1>6

\* What an event and an instance must keep for the environments to stay right.
LEMMA EnvironmentsStay ==
  ASSUME Inv, LockInv, States \subseteq States',
         \A s \in States : /\ si'[s].inst = si[s].inst /\ si'[s].event = si[s].event
                           /\ si'[s].env = si[s].env,
         \A i \in Insts : ri'[i].created = ri[i].created,
         active_event_cur' = active_event_cur, pc # "idle" => pc' # "idle"
  PROVE  \A s \in States : EnvironmentOK(s)'
<1> TAKE s \in States
<1>1. Backed(s) => Backed(s)'
  BY DEF Backed
<1>2. ri'[si'[s].inst].created = ri[si[s].inst].created
  BY DEF Inv, Live
<1>3. EnvironmentOK(s)
  BY DEF LockInv, Environments
<1> QED BY <1>1, <1>2, <1>3 DEF EnvironmentOK

\* The keys of events that are kept.
LEMMA KeysStay ==
  ASSUME Inv, LockInv, \A s \in States : si'[s].env = si[s].env,
         \A e \in EventId : evt'[e].key = evt[e].key
  PROVE  \A s \in States : EnvKey(s)' = EnvKey(s)
<1> TAKE s \in States
<1>1. si[s].env = NULL \/ si[s].env \in EventId
  BY DEF LockInv, LockShape, States
<1> QED BY <1>1 DEF EnvKey, KeyOf

\* Steps that write nothing of what the locks' argument is about in the heap.
SameLockHeap ==
  /\ rules' = rules /\ sync_lock' = sync_lock /\ active_event_cur' = active_event_cur
  /\ \A t \in ThreadId : thr'[t].si = thr[t].si /\ thr'[t].once = thr[t].once
  /\ \A s \in StateId : /\ si'[s].inst = si[s].inst /\ si'[s].event = si[s].event
                        /\ si'[s].env = si[s].env
  /\ \A i \in InstId : /\ ri'[i].rule = ri[i].rule /\ ri'[i].locks = ri[i].locks
                       /\ ri'[i].created = ri[i].created
  /\ \A e \in EventId : evt'[e].key = evt[e].key

\* A step that changes nothing that a lock depends on.
LEMMA LockHeapStays ==
  ASSUME Inv, LockInv, SameLockHeap, pc # "idle" => pc' # "idle"
  PROVE  /\ LockShape' /\ Environments' /\ Owned' /\ \A s \in States : Held(s) => Held(s)'
         /\ States' = States /\ Threads' = Threads /\ Insts' = Insts
         /\ \A t \in Threads : InstOf(t)' = InstOf(t) /\ InstOf(t) \in InstId
<1>1. States' = States /\ Threads' = Threads /\ Insts' = Insts /\ RuleId' = RuleId
  BY DEF SameLockHeap, States, Threads, Insts, RuleId
<1>2. \A s \in States : /\ s \in StateId /\ si'[s].inst = si[s].inst /\ si'[s].event = si[s].event
                        /\ si'[s].env = si[s].env
  BY DEF SameLockHeap, States
<1>3. \A i \in Insts : /\ ri'[i].rule = ri[i].rule /\ ri'[i].locks = ri[i].locks
                       /\ ri'[i].created = ri[i].created
  BY DEF SameLockHeap, Insts
<1>4. \A s \in States : EnvKey(s)' = EnvKey(s)
  BY <1>2, KeysStay DEF SameLockHeap
<1>5. LockFrame
  <2>1. \A i \in Insts : \A s \in ri[i].locks : s \in States
    BY DEF LockInv, Owned
  <2> QED BY <1>1, <1>2, <1>3, <1>4, <2>1 DEF LockFrame, SameLockHeap
<1>6. Environments'
  <2>1. \A s \in States : EnvironmentOK(s)'
    BY <1>1, <1>2, <1>3, EnvironmentsStay DEF SameLockHeap
  <2> QED BY <1>1, <2>1 DEF Environments
<1>7. LockShape'
  BY <1>1 DEF LockInv, LockShape, SameLockHeap
<1>8. \A t \in Threads : InstOf(t)' = InstOf(t) /\ InstOf(t) \in InstId
  BY <1>2 DEF SameLockHeap, Threads, InstOf, Inv, Live, Insts
<1> QED BY <1>1, <1>4, <1>5, <1>6, <1>7, <1>8, LocksStay

\* What a thread waits for is kept, and so is who stands where on the stack.
LEMMA EnteredStays ==
  ASSUME Inv, LockInv, States' = States, Threads' \subseteq Threads,
         \A t \in Threads' : thr'[t].si = thr[t].si /\ thr'[t].once = thr[t].once,
         \A s \in States : Held(s) => Held(s)',
         \A j \in DOMAIN stack', s \in States :
           phase' = "loop" /\ stack'[j].si = s /\ stack'[j].t > 0 => Held(s)',
         \A j \in DOMAIN stack' : j < Len(stack') => stack'[j].t > 0
  PROVE  Entered'
<1>1. \A t \in Threads', s \in States : thr'[t].si = s /\ ~ thr'[t].once => Held(s)'
  BY DEF LockInv, Entered
<1> QED BY <1>1 DEF Entered

\* The simulation goes on in the same instance.
LEMMA SimulationStarted ==
  ASSUME Inv, LockInv, pc = "simul", pc' \in {"simul", "ret"}, UNCHANGED << phase, subject, cur >>,
         active_event_cur' = active_event_cur,
         \A t \in ThreadId : thr'[t].si = thr[t].si /\ thr'[t].once = thr[t].once,
         \A s \in States : si'[s].inst = si[s].inst /\ si'[s].event = si[s].event,
         \A i \in InstId : /\ ri'[i].rule = ri[i].rule /\ ri'[i].threads = ri[i].threads
                           /\ ri'[i].created = ri[i].created /\ ri'[i].linked = ri[i].linked
  PROVE  Started'
<1>1. Threads' = Threads /\ Insts' = Insts
  BY DEF Threads, Insts
<1>2. subject \in States /\ Subject' = Subject /\ Subject \in InstId
  BY DEF Inv, Control, States, Subject, Live, Insts
<1>3. \A t \in Threads : /\ t \in ThreadId /\ thr'[t].once = thr[t].once
                         /\ InstOf(t)' = InstOf(t) /\ InstOf(t) \in InstId
  BY DEF Threads, InstOf, Inv, Live, States, Insts
<1>4. \A i \in Insts : ri'[i].linked = ri[i].linked /\ ri'[i].threads = ri[i].threads
  BY DEF Insts
<1>5. \A t \in Threads' : ~ thr'[t].once => ri'[InstOf(t)'].created
  BY <1>1, <1>3 DEF LockInv, Started
<1> QED BY <1>1, <1>2, <1>3, <1>4, <1>5 DEF LockInv, Started, Elems

-----------------------------------------------------------------------------
(* The stack.                                                               *)

\* The call that goes on is the innermost one.
LEMMA AdvanceAt ==
  ASSUME Inv, pc = "simul", stack' = Advance
  PROVE  /\ Len(stack) \in Nat \ {0} /\ Len(stack') = Len(stack) /\ DOMAIN stack' = DOMAIN stack
         /\ DOMAIN stack = 1 .. Len(stack)
         /\ \A j \in DOMAIN stack : /\ stack'[j].si = stack[j].si
                                    /\ j # Len(stack) => stack'[j] = stack[j]
         /\ stack'[Len(stack)].t = Top.t + 1 /\ Top.t \in Nat /\ stack # << >>
<1>1. stack # << >> /\ stack \in Seq([si : StateId, t : Nat])
  BY DEF Inv, Control, Shape
<1>2. /\ Len(stack) \in Nat \ {0} /\ Advance \in Seq([si : StateId, t : Nat])
      /\ Len(Advance) = Len(stack)
      /\ \A j \in DOMAIN stack : /\ Advance[j].si = stack[j].si
                                 /\ j # Len(stack) => Advance[j] = stack[j]
      /\ Advance[Len(stack)].t = Top.t + 1
  BY <1>1, AdvanceIs DEF Inv
<1>3. DOMAIN Advance = DOMAIN stack /\ DOMAIN stack = 1 .. Len(stack)
  BY <1>1, <1>2, LenProperties
<1>4. Len(stack) \in 1 .. Len(stack)
  BY <1>2
<1>5. stack[Len(stack)] \in [si : StateId, t : Nat]
  BY <1>1, <1>4, ElementOfSeq
<1>6. Top.t \in Nat
  BY <1>5 DEF Top
<1> QED BY <1>1, <1>2, <1>3, <1>6

\* The call that returns is the innermost one.
LEMMA PoppedStack ==
  ASSUME Inv, stack # << >>, stack' = SubSeq(stack, 1, Len(stack) - 1)
  PROVE  /\ Len(stack) \in Nat \ {0} /\ Len(stack') = Len(stack) - 1
         /\ DOMAIN stack = 1 .. Len(stack) /\ DOMAIN stack' = 1 .. Len(stack) - 1
         /\ \A j \in DOMAIN stack' : stack'[j] = stack[j]
<1> DEFINE n == Len(stack) - 1
           S == [si : StateId, t : Nat]
<1>1. stack \in Seq(S)
  BY DEF Inv, Shape
<1>2. Len(stack) \in Nat \ {0} /\ DOMAIN stack = 1 .. Len(stack)
  BY <1>1, EmptySeq, LenProperties
<1>3. n \in Nat /\ n < Len(stack) /\ n = Len(stack) - 1 /\ stack' = SubSeq(stack, 1, n)
  BY <1>2
<1> HIDE DEF n, S
<1>4. \A j \in 1 .. n : stack[j] \in S
  BY <1>1, <1>2, <1>3, ElementOfSeq
<1>5. /\ SubSeq(stack, 1, n) \in Seq(S) /\ Len(SubSeq(stack, 1, n)) = IF 1 <= n THEN n - 1 + 1 ELSE 0
      /\ \A j \in 1 .. n - 1 + 1 : SubSeq(stack, 1, n)[j] = stack[1 + j - 1]
  BY <1>1, <1>3, <1>4, SubSeqProperties
<1>6. Len(stack') = n /\ stack' \in Seq(S) /\ \A j \in 1 .. n : stack'[j] = stack[j]
  BY <1>3, <1>5
<1>7. DOMAIN stack' = 1 .. n
  BY <1>6, LenProperties
<1> QED BY <1>2, <1>3, <1>6, <1>7

-----------------------------------------------------------------------------
(* The simulation, except for the actions of the states.                    *)

\* The innermost call goes on, in a state that was entered.
LEMMA GoesOn ==
  ASSUME Inv, LockInv, AtTransition, stack' = Advance, UNCHANGED << pc, phase >>, States' = States,
         \A s \in States : Held(s) => Held(s)'
  PROVE  /\ \A j \in DOMAIN stack', s \in States' :
              phase' = "loop" /\ stack'[j].si = s /\ stack'[j].t > 0 => Held(s)'
         /\ \A j \in DOMAIN stack' : j < Len(stack') => stack'[j].t > 0
         /\ Fresh'
<1>1. /\ Len(stack) \in Nat \ {0} /\ Len(stack') = Len(stack) /\ DOMAIN stack' = DOMAIN stack
      /\ \A j \in DOMAIN stack : /\ stack'[j].si = stack[j].si
                                 /\ j # Len(stack) => stack'[j] = stack[j]
      /\ stack'[Len(stack)].t = Top.t + 1 /\ Top.t > 0 /\ Top.t \in Nat
      /\ DOMAIN stack = 1 .. Len(stack)
  BY AdvanceAt DEF AtTransition
<1>2. \A j \in DOMAIN stack' : j < Len(stack') => stack'[j].t > 0
  BY <1>1 DEF LockInv, Entered
<1>3. \A j \in DOMAIN stack', s \in States' :
        phase' = "loop" /\ stack'[j].si = s /\ stack'[j].t > 0 => Held(s)'
  <2> SUFFICES ASSUME NEW j \in DOMAIN stack, NEW s \in States, phase = "loop", stack[j].si = s
               PROVE  Held(s)'
    BY <1>1
  <2>1. stack[j].t > 0
    BY <1>1 DEF LockInv, Entered, Top
  <2> QED BY <2>1 DEF LockInv, Entered
<1>4. Fresh'
  <2>1. Top'.t = Top.t + 1
    BY <1>1 DEF Top
  <2> QED BY <1>1, <2>1 DEF Fresh, Entering
<1> QED BY <1>2, <1>3, <1>4

\* A condition that is false takes no lock and moves nobody.
LEMMA SkipLocks == ASSUME Inv, LockInv, rules' = rules, SkipETransition PROVE LockInv'
<1>1. /\ thr' = thr /\ si' = si /\ ri' = ri /\ evt' = evt /\ sync_lock' = sync_lock
      /\ active_event_cur' = active_event_cur /\ stack' = Advance /\ AtTransition /\ cur' = cur
      /\ UNCHANGED << pc, phase, subject >> /\ pc = "simul"
  BY DEF SkipETransition, AtTransition, heap, queue
<1>2. SameLockHeap
  BY <1>1 DEF SameLockHeap
<1>3. /\ LockShape' /\ Environments' /\ Owned' /\ \A s \in States : Held(s) => Held(s)'
      /\ States' = States /\ Threads' = Threads
  BY <1>1, <1>2, LockHeapStays
<1>4. Started'
  BY <1>1, SimulationStarted
<1>5. Fresh'
  BY <1>1, <1>3, GoesOn
<1>6. Entered'
  BY <1>1, <1>3, GoesOn, EnteredStays
<1> QED BY <1>3, <1>4, <1>5, <1>6 DEF LockInv

\* The caller goes on behind the e-transition that it followed.
LEMMA ReturnLocks == ASSUME Inv, LockInv, rules' = rules, ReturnFromSimulate PROVE LockInv'
<1>1. /\ thr' = thr /\ si' = si /\ ri' = ri /\ evt' = evt /\ sync_lock' = sync_lock /\ cur' = cur
      /\ active_event_cur' = active_event_cur /\ stack' = SubSeq(stack, 1, Len(stack) - 1)
      /\ UNCHANGED << phase, subject >> /\ pc = "simul" /\ pc' \in {"simul", "ret"}
      /\ Len(stack) = 1 => pc' = "ret"
  BY DEF ReturnFromSimulate, heap, queue
<1>2. SameLockHeap
  BY <1>1 DEF SameLockHeap
<1>3. /\ LockShape' /\ Environments' /\ Owned' /\ \A s \in States : Held(s) => Held(s)'
      /\ States' = States /\ Threads' = Threads
  BY <1>1, <1>2, LockHeapStays
<1>4. Started'
  BY <1>1, SimulationStarted
<1>5. /\ Len(stack) \in Nat \ {0} /\ Len(stack') = Len(stack) - 1
      /\ DOMAIN stack = 1 .. Len(stack) /\ DOMAIN stack' = 1 .. Len(stack) - 1
      /\ \A j \in DOMAIN stack' : stack'[j] = stack[j]
  BY <1>1, PoppedStack DEF Inv, Shape, Control
<1>6. \A j \in DOMAIN stack' : j \in DOMAIN stack /\ j < Len(stack) /\ stack'[j] = stack[j]
  BY <1>5
<1>7. \A j \in DOMAIN stack' : j < Len(stack') => stack'[j].t > 0
  BY <1>6 DEF LockInv, Entered
<1>8. \A j \in DOMAIN stack', s \in States :
        phase' = "loop" /\ stack'[j].si = s /\ stack'[j].t > 0 => Held(s)'
  BY <1>1, <1>3, <1>6 DEF LockInv, Entered
<1>9. Entered'
  BY <1>1, <1>3, <1>7, <1>8, EnteredStays
<1>10. Fresh'
  <2>1. Len(stack) # 1 => Len(stack') \in DOMAIN stack'
    BY <1>5
  <2>2. Len(stack) # 1 => Top'.t > 0
    BY <1>6, <2>1 DEF LockInv, Entered, Top
  <2> QED BY <1>1, <2>2 DEF Fresh, Entering
<1> QED BY <1>3, <1>4, <1>9, <1>10 DEF LockInv

-----------------------------------------------------------------------------
(* The actions of the states.                                               *)

\* What entering a state writes, besides the lock.  Only the environment of the
\* state that is entered changes.
RunsAction(S) ==
  /\ Entering /\ RunAction /\ thr' = Kill(thr, S) /\ rules' = rules /\ evt' = evt
  /\ active_event_cur' = active_event_cur /\ pc' \in {"simul", "ret"}
  /\ UNCHANGED << phase, subject, cur >>
  /\ \A i \in InstId : /\ ri'[i].rule = ri[i].rule /\ ri'[i].threads = ri[i].threads
                       /\ ri'[i].created = ri[i].created /\ ri'[i].linked = ri[i].linked

\* The environments stay right: that of the state that is entered points to the
\* current event, to which the instance refers if an event started it.
LEMMA ActionEnvironments ==
  ASSUME Inv, LockInv, NEW S, RunsAction(S), NEW s, s = Top.si
  PROVE  /\ States' = States /\ Threads' = Threads /\ Insts' = Insts
         /\ s \in States /\ s \in StateId /\ si[s].inst \in Insts
         /\ \A t \in ThreadId : thr'[t].si = thr[t].si /\ thr'[t].once = thr[t].once
         /\ \A x \in StateId : /\ si'[x].inst = si[x].inst
                               /\ x # s => si'[x].env = si[x].env
         /\ \A x \in States : x # s => EnvKey(x)' = EnvKey(x)
         /\ EnvKey(s)' = LockKey(s) /\ LockKey(s) \in Keys \cup {NoKey}
         /\ si'[s].env \in {NULL} \cup EventId
         /\ Environments' /\ Started'
<1>1. /\ s \in States /\ s \in StateId /\ si[s].inst = Subject /\ Subject \in Insts
      /\ \A t \in ThreadId : thr'[t].si = thr[t].si
      /\ \A x \in StateId : si'[x].inst = si[x].inst /\ si'[x].event = si[x].event
  BY EnteringKeeps DEF RunsAction
<1>2. \A t \in ThreadId : thr'[t].once = thr[t].once
  BY KillKeeps DEF RunsAction, Inv
<1>3. \A x \in StateId : si'[x].env = IF x = s THEN ActionEnv(s) ELSE si[x].env
  BY <1>1, ActionKeeps DEF RunsAction, Inv
<1>4. States' = States /\ Threads' = Threads /\ Insts' = Insts
  BY <1>1 DEF States, Threads, Insts, RunsAction
<1>5. ActionEnv(s) = active_event_cur \/ ActionEnv(s) = si[s].env
  BY DEF ActionEnv
<1>6. ActionEnv(s) \in {NULL} \cup EventId
  BY <1>1, <1>5 DEF Inv, Shape, LockInv, LockShape
<1>7. \A x \in States : EnvKey(x)' = IF x = s THEN LockKey(s) ELSE EnvKey(x)
  BY <1>3 DEF EnvKey, KeyOf, RunsAction, LockKey, States
<1>8. LockKey(s) \in Keys \cup {NoKey}
  BY <1>6 DEF LockKey, KeyOf, LockInv, LockShape
<1>9. pc = "simul" /\ phase \in {"init", "loop"} /\ subject \in States
  BY DEF RunsAction, Entering, Inv, Control
<1>10. Environments'
  <2> SUFFICES ASSUME NEW x \in States, si'[x].env # NULL
               PROVE  IF ri'[si'[x].inst].created THEN Backed(x)'
                      ELSE pc' # "idle" /\ si'[x].env = active_event_cur
    BY <1>4 DEF Environments, EnvironmentOK, RunsAction
  <2>1. /\ si'[x].inst = si[x].inst /\ si[x].inst \in Insts /\ x \in StateId
        /\ ri'[si[x].inst].created = ri[si[x].inst].created
    BY <1>1 DEF RunsAction, Inv, Live, States, Insts
  <2>2. ASSUME NEW u \in States, si[u].inst = si[x].inst, si[u].event = si'[x].env
        PROVE  Backed(x)'
    BY <1>1, <1>4, <2>2 DEF Backed, States
  <2>3. CASE si'[x].env = si[x].env
    <3>1. EnvironmentOK(x)
      BY DEF LockInv, Environments
    <3> QED BY <2>1, <2>2, <2>3, <3>1 DEF EnvironmentOK, Backed, RunsAction
  <2>4. CASE x = s /\ si'[x].env = active_event_cur
    <3>1. CASE phase = "init"
      BY <1>1, <2>1, <2>4, <3>1 DEF LockInv, Started, RunsAction
    <3>2. CASE phase = "loop"
      <4>1. si[subject].event = active_event_cur /\ si[subject].inst = si[x].inst
        BY <1>1, <2>4, <3>2 DEF LockInv, Started, Subject
      <4> QED BY <1>1, <1>9, <2>1, <2>2, <2>4, <3>2, <4>1 DEF LockInv, Started
    <3> QED BY <1>9, <3>1, <3>2
  <2> QED BY <1>3, <1>5, <2>1, <2>3, <2>4
<1>11. Started'
  BY <1>1, <1>2, <1>9, SimulationStarted DEF RunsAction, States
<1> QED BY <1>1, <1>2, <1>3, <1>4, <1>6, <1>7, <1>8, <1>10, <1>11

\* A run that ends here takes no lock and nobody waits in the state.
LEMMA UnwindLocks ==
  ASSUME Inv, LockInv, NEW S, RunsAction(S), Unwind, sync_lock' = sync_lock,
         \A i \in InstId : ri'[i].locks = ri[i].locks
  PROVE  LockInv'
<1> PICK s : s = Top.si
  OBVIOUS
<1>1. /\ States' = States /\ Threads' = Threads /\ Insts' = Insts
      /\ s \in States /\ s \in StateId /\ si[s].inst \in Insts
      /\ \A t \in ThreadId : thr'[t].si = thr[t].si /\ thr'[t].once = thr[t].once
      /\ \A x \in StateId : /\ si'[x].inst = si[x].inst
                            /\ x # s => si'[x].env = si[x].env
      /\ \A x \in States : x # s => EnvKey(x)' = EnvKey(x)
      /\ si'[s].env \in {NULL} \cup EventId
      /\ Environments' /\ Started'
  BY ActionEnvironments
<1>2. /\ \A t \in Threads : thr[t].si # s
      /\ \A i \in Insts : s \notin ri[i].locks
  BY DEF LockInv, Fresh, RunsAction
<1>3. LockFrame
  <2>1. \A i \in Insts : \A x \in ri[i].locks : EnvKey(x)' = EnvKey(x)
    BY <1>1, <1>2 DEF LockInv, Owned
  <2> QED BY <1>1, <2>1 DEF LockFrame, RunsAction, States, Insts
<1>4. Owned' /\ \A x \in States : EnvKey(x)' = EnvKey(x) /\ Held(x) => Held(x)'
  BY <1>3, LocksStay
<1>5. stack' = << >> /\ pc' = "ret" /\ DOMAIN << >> = {}
  BY DEF Unwind
<1>6. Entered'
  <2>1. \A t \in Threads', x \in States' : thr'[t].si = x /\ ~ thr'[t].once => Held(x)'
    BY <1>1, <1>2, <1>4 DEF LockInv, Entered, Threads
  <2> QED BY <1>5, <2>1 DEF Entered
<1>7. Fresh'
  BY <1>5 DEF Fresh, Entering
<1>8. LockShape'
  <2>1. \A t \in ThreadId : thr'[t].once \in BOOLEAN
    BY <1>1 DEF LockInv, LockShape
  <2>2. \A x \in StateId : si'[x].env \in {NULL} \cup EventId
    BY <1>1 DEF LockInv, LockShape
  <2> QED BY <2>1, <2>2 DEF LockInv, LockShape, RunsAction, RuleId
<1> QED BY <1>1, <1>4, <1>6, <1>7, <1>8 DEF LockInv

\* A terminal state takes no lock.
LEMMA TerminalLocks == ASSUME Inv, LockInv, rules' = rules, EnterTerminalState PROVE LockInv'
<1> DEFINE i == si[Top.si].inst
<1>1. PICK S : thr' = Kill(thr, S)
  BY DEF EnterTerminalState
<1>2. ri' = [ri EXCEPT ![i].killed = TRUE]
  BY DEF EnterTerminalState
<1>3. \A j \in InstId : /\ ri'[j].rule = ri[j].rule /\ ri'[j].threads = ri[j].threads
                        /\ ri'[j].linked = ri[j].linked /\ ri'[j].created = ri[j].created
                        /\ ri'[j].locks = ri[j].locks
  <2> HIDE DEF i
  <2> QED BY <1>2 DEF Inv, Shape, IsInst
<1>4. RunsAction(S) /\ Unwind /\ sync_lock' = sync_lock
  BY <1>1, <1>3 DEF RunsAction, EnterTerminalState, queue, Unwind
<1> QED BY <1>3, <1>4, UnwindLocks

\* Who is locked out takes no lock.
LEMMA PruneLocks == ASSUME Inv, LockInv, rules' = rules, PruneState PROVE LockInv'
<1>1. PICK S : thr' = Kill(thr, S)
  BY DEF PruneState
<1>2. RunsAction(S) /\ Unwind /\ sync_lock' = sync_lock /\ ri' = ri
  BY <1>1 DEF RunsAction, PruneState, queue, Unwind
<1> QED BY <1>2, UnwindLocks

\* The lock is taken where nobody has it, and whoever goes on has it.
LEMMA EnterLocks == ASSUME Inv, LockInv, rules' = rules, EnterState PROVE LockInv'
<1> PICK s : s = Top.si
  OBVIOUS
<1> PICK k : k = LockKey(s)
  OBVIOUS
<1> PICK i : i = si[s].inst
  OBVIOUS
<1> PICK r : r = ri[i].rule
  BY SMTT(60)
<1>1. PICK S : thr' = Kill(thr, S)
  BY SMTT(60) DEF EnterState
<1>2. /\ Entering /\ RunAction /\ evt' = evt /\ active_event_cur' = active_event_cur
      /\ ~ LockedOut(s) /\ pc = "simul" /\ stack' = Advance
      /\ UNCHANGED << pc, phase, subject, cur >>
      /\ IF TakesLock(s)
         THEN /\ sync_lock' = [sync_lock EXCEPT ![r][k] = s]
              /\ ri' = [ri EXCEPT ![i].locks = @ \cup {s}]
         ELSE sync_lock' = sync_lock /\ ri' = ri
  BY DEF EnterState, queue, Entering
<1>3. \A j \in InstId : /\ ri'[j].rule = ri[j].rule /\ ri'[j].threads = ri[j].threads
                        /\ ri'[j].linked = ri[j].linked /\ ri'[j].created = ri[j].created
                        /\ ri'[j].locks = IF TakesLock(s) /\ j = i THEN ri[j].locks \cup {s}
                                          ELSE ri[j].locks
  <2>1. CASE TakesLock(s)
    <3>1. ri' = [ri EXCEPT ![i].locks = @ \cup {s}]
      BY <1>2, <2>1
    <3> QED BY <2>1, <3>1 DEF Inv, Shape, IsInst
  <2>2. CASE ~ TakesLock(s)
    BY <1>2, <2>2
  <2> QED BY <2>1, <2>2
<1>a. \A j \in InstId : \A x \in ri'[j].locks :
        x \in ri[j].locks \/ (TakesLock(s) /\ j = i /\ x = s)
  <2> SUFFICES ASSUME NEW j \in InstId, NEW x \in ri'[j].locks, x \notin ri[j].locks
               PROVE  TakesLock(s) /\ j = i /\ x = s
    OBVIOUS
  <2>1. ri'[j].locks = IF TakesLock(s) /\ j = i THEN ri[j].locks \cup {s} ELSE ri[j].locks
    BY SMTT(60), <1>3
  <2> QED BY <2>1
<1>4. RunsAction(S)
  BY <1>1, <1>2, <1>3 DEF RunsAction
<1>5. /\ States' = States /\ Threads' = Threads /\ Insts' = Insts
      /\ s \in States /\ s \in StateId /\ i \in Insts
      /\ \A t \in ThreadId : thr'[t].si = thr[t].si /\ thr'[t].once = thr[t].once
      /\ \A x \in StateId : /\ si'[x].inst = si[x].inst
                            /\ x # s => si'[x].env = si[x].env
      /\ \A x \in States : x # s => EnvKey(x)' = EnvKey(x)
      /\ EnvKey(s)' = k /\ k \in Keys \cup {NoKey}
      /\ si'[s].env \in {NULL} \cup EventId
      /\ Environments' /\ Started'
  BY <1>4, ActionEnvironments
<1>6. /\ \A t \in Threads : thr[t].si # s
      /\ \A j \in Insts : s \notin ri[j].locks
      /\ \A j \in DOMAIN stack : j < Len(stack) => stack[j].si # s
  BY <1>2 DEF LockInv, Fresh
<1>7. /\ r \in RuleId /\ i \in InstId /\ r = RuleOf(s) /\ RuleId' = RuleId /\ s # NULL
  <2>1. r \in {0} \cup RuleId /\ i \in InstId /\ r # 0
    BY <1>5 DEF LockInv, LockShape, Insts
  <2> QED BY <1>5, <2>1, NullIsNone DEF RuleOf, RuleId
<1>8. \A x \in States : RuleOf(x)' = RuleOf(x) /\ si'[x].inst = si[x].inst
  <2>1. \A x \in States : si'[x].inst = si[x].inst /\ si[x].inst \in InstId
    BY <1>5 DEF States, Inv, Live, Insts
  <2>2. \A j \in InstId : ri'[j].rule = ri[j].rule
    BY <1>3
  <2> QED BY <2>1, <2>2 DEF RuleOf
<1>9. TakesLock(s) => k \in Keys /\ sync_lock[r][k] = NULL /\ rules[r].sync
  BY <1>5, <1>7 DEF TakesLock, IsSync, LockOf, RuleOf
<1>10. \A p \in RuleId, q \in Keys :
         sync_lock'[p][q] = IF TakesLock(s) /\ p = r /\ q = k THEN s ELSE sync_lock[p][q]
  <2>1. CASE TakesLock(s)
    BY <1>2, <1>7, <1>9, <2>1 DEF LockInv, LockShape
  <2>2. CASE ~ TakesLock(s)
    BY <1>2, <2>2
  <2> QED BY <2>1, <2>2
<1>11. sync_lock' \in [RuleId' -> [Keys -> {NULL} \cup StateId]]
  BY <1>2, <1>5, <1>7, <1>9 DEF LockInv, LockShape
<1>12. LockShape'
  <2>1. \A t \in ThreadId : thr'[t].once \in BOOLEAN
    BY <1>5 DEF LockInv, LockShape
  <2>2. \A x \in StateId : si'[x].env \in {NULL} \cup EventId
    BY <1>5 DEF LockInv, LockShape
  <2>3. \A j \in InstId : ri'[j].locks \subseteq StateId /\ ri'[j].rule \in {0} \cup RuleId
    <3> TAKE j \in InstId
    <3>1. ri[j].locks \subseteq StateId /\ ri[j].rule \in {0} \cup RuleId /\ ri'[j].rule = ri[j].rule
      BY <1>3 DEF LockInv, LockShape
    <3>2. \A x \in ri'[j].locks : x \in ri[j].locks \/ x = s
      BY <1>a
    <3> QED BY <1>5, <3>1, <3>2
  <2> QED BY <1>2, <1>7, <1>11, <2>1, <2>2, <2>3 DEF LockInv, LockShape
<1>13. Owned'
  <2>1. ASSUME NEW p \in RuleId, NEW q \in Keys, NEW x \in StateId, sync_lock'[p][q] = x
        PROVE  /\ x \in States /\ RuleOf(x)' = p /\ EnvKey(x)' = q /\ x \in ri'[si'[x].inst].locks
    <3>1. CASE TakesLock(s) /\ p = r /\ q = k
      <4>1. x = s /\ i \in InstId /\ si'[s].inst = i
        BY <1>5, <1>7, <1>10, <2>1, <3>1
      <4>2. s \in ri'[i].locks
        BY <1>3, <3>1, <4>1
      <4> QED BY <1>5, <1>7, <1>8, <3>1, <4>1, <4>2
    <3>2. CASE ~ (TakesLock(s) /\ p = r /\ q = k)
      <4>1. sync_lock[p][q] = x
        BY <1>10, <2>1, <3>2
      <4>2. x \in States /\ RuleOf(x) = p /\ EnvKey(x) = q /\ x \in ri[si[x].inst].locks
        BY <4>1 DEF LockInv, Owned
      <4>3. si[x].inst \in Insts /\ si[x].inst \in InstId /\ x # s
        BY <1>6, <4>2 DEF Inv, Live, Insts
      <4>4. x \in ri'[si[x].inst].locks
        BY <1>3, <4>2, <4>3
      <4> QED BY <1>5, <1>8, <4>2, <4>3, <4>4
    <3> QED BY <3>1, <3>2
  <2>2. ASSUME NEW j \in Insts, NEW x \in ri'[j].locks
        PROVE  /\ x \in States /\ si'[x].inst = j
               /\ EnvKey(x)' \in Keys /\ sync_lock'[ri'[j].rule][EnvKey(x)'] = x
    <3>0. j \in InstId /\ ri'[j].rule = ri[j].rule /\ ri[j].rule \in RuleId
      <4>1. j \in InstId /\ ri[j].rule # 0
        BY DEF Insts
      <4>2. ri[j].rule \in {0} \cup RuleId
        BY <4>1 DEF LockInv, LockShape
      <4> QED BY <1>3, <4>1, <4>2
    <3>1. CASE x \in ri[j].locks
      <4>1. /\ x \in States /\ si[x].inst = j
            /\ EnvKey(x) \in Keys /\ sync_lock[ri[j].rule][EnvKey(x)] = x
        BY <3>1 DEF LockInv, Owned
      <4>2. x # s /\ x \in StateId
        BY <1>6, <3>1, <4>1 DEF States
      <4>3. x # NULL
        BY <4>2, NullIsNone
      <4>4. ~ (TakesLock(s) /\ ri[j].rule = r /\ EnvKey(x) = k)
        BY <1>9, <4>1, <4>3
      <4>5. sync_lock'[ri[j].rule][EnvKey(x)] = x
        BY <1>10, <3>0, <4>1, <4>4
      <4> QED BY <1>5, <1>8, <3>0, <4>1, <4>2, <4>5
    <3>2. CASE x \notin ri[j].locks
      <4>1. TakesLock(s) /\ j = i /\ x = s
        BY <1>a, <3>0, <3>2
      <4>2. ri[j].rule = r
        BY <4>1
      <4> QED BY <1>5, <1>8, <1>9, <1>10, <3>0, <4>1, <4>2
    <3> QED BY <3>1, <3>2
  <2> QED BY <1>5, <1>7, <2>1, <2>2 DEF Owned
<1>14. \A x \in States : x # s /\ Held(x) => Held(x)'
  <2> SUFFICES ASSUME NEW x \in States, x # s, Held(x)
               PROVE  Held(x)'
    OBVIOUS
  <2>a. /\ RuleOf(x)' = RuleOf(x) /\ EnvKey(x)' = EnvKey(x) /\ si'[x].inst = si[x].inst
        /\ NoKey' = NoKey /\ States' = States
    BY <1>5, <1>8
  <2>b. \A o \in States : si'[o].inst = si[o].inst
    BY <1>8
  <2> SUFFICES ASSUME rules[RuleOf(x)].sync, EnvKey(x) # NoKey
               PROVE  \E o \in States : /\ sync_lock'[RuleOf(x)][EnvKey(x)] = o
                                        /\ si[o].inst = si[x].inst
    BY <2>a, <2>b DEF Held
  <2>1. PICK o \in States : sync_lock[RuleOf(x)][EnvKey(x)] = o /\ si[o].inst = si[x].inst
    BY DEF Held
  <2>2. o # NULL
    BY NullIsNone DEF States
  <2>3. RuleOf(x) \in RuleId
    <3>1. si[x].inst \in InstId /\ RuleOf(x) # 0
      BY DEF Inv, Live, Insts, RuleOf
    <3> QED BY <3>1 DEF LockInv, LockShape, RuleOf
  <2>4. EnvKey(x) \in Keys
    <3>1. si[x].env \in {NULL} \cup EventId
      BY DEF LockInv, LockShape, States
    <3> QED BY <3>1 DEF LockInv, LockShape, EnvKey, KeyOf
  <2>5. ~ (TakesLock(s) /\ RuleOf(x) = r /\ EnvKey(x) = k)
    BY SMTT(60), <1>9, <2>1, <2>2
  <2> QED BY <1>10, <2>1, <2>3, <2>4, <2>5
<1>15. Held(s)' \/ phase # "loop"
  <2> SUFFICES ASSUME phase = "loop", rules[r].sync, k # NoKey
               PROVE  \E o \in States : sync_lock'[r][k] = o /\ si[o].inst = i
    BY <1>2, <1>5, <1>7, <1>8 DEF Held
  <2>1. IsSync(s) /\ k \in Keys /\ LockOf(s) = sync_lock[r][k]
    BY <1>5 DEF IsSync, LockOf
  <2>2. CASE sync_lock[r][k] = NULL
    <3>1. TakesLock(s)
      BY <2>1, <2>2 DEF TakesLock
    <3> QED BY <1>5, <1>7, <1>10, <2>1, <3>1
  <2>3. CASE sync_lock[r][k] # NULL
    <3>1. sync_lock[r][k] \in StateId
      BY <1>7, <2>1, <2>3 DEF LockInv, LockShape
    <3>2. sync_lock[r][k] \in States
      BY <1>7, <2>1, <3>1 DEF LockInv, Owned
    <3>3. si[sync_lock[r][k]].inst = i
      BY <1>2, <2>1, <2>3 DEF LockedOut
    <3>4. ~ TakesLock(s)
      BY <2>1, <2>3 DEF TakesLock
    <3> QED BY <1>2, <3>2, <3>3, <3>4
  <2> QED BY <2>2, <2>3
<1>16. /\ Len(stack) \in Nat \ {0} /\ Len(stack') = Len(stack) /\ DOMAIN stack' = DOMAIN stack
       /\ \A j \in DOMAIN stack : /\ stack'[j].si = stack[j].si
                                  /\ j # Len(stack) => stack'[j] = stack[j]
       /\ stack'[Len(stack)].t = Top.t + 1 /\ Top.t \in Nat /\ stack[Len(stack)].si = s
       /\ DOMAIN stack = 1 .. Len(stack)
  BY <1>2, AdvanceAt DEF Top
<1>17. \A j \in DOMAIN stack' : j < Len(stack') => stack'[j].t > 0
  BY <1>16 DEF LockInv, Entered
<1>18. Entered'
  <2>1. \A t \in Threads', x \in States' : thr'[t].si = x /\ ~ thr'[t].once => Held(x)'
    BY <1>5, <1>6, <1>14 DEF LockInv, Entered, Threads
  <2>2. ASSUME NEW j \in DOMAIN stack, NEW x \in States, phase = "loop", stack[j].si = x
        PROVE  Held(x)'
    <3>1. CASE j = Len(stack)
      BY <1>15, <1>16, <2>2, <3>1
    <3>2. CASE j # Len(stack)
      <4>1. j < Len(stack)
        BY <1>16, <3>2
      <4>2. x # s /\ stack[j].t > 0
        BY SMTT(60), <1>6, <2>2, <4>1 DEF LockInv, Entered
      <4> QED BY <1>14, <2>2, <4>2 DEF LockInv, Entered
    <3> QED BY <3>1, <3>2
  <2>3. \A j \in DOMAIN stack', x \in States' :
          phase' = "loop" /\ stack'[j].si = x /\ stack'[j].t > 0 => Held(x)'
    BY <1>2, <1>5, <1>16, <2>2
  <2> QED BY <1>17, <2>1, <2>3 DEF Entered
<1>19. Fresh'
  <2>1. Top'.t = Top.t + 1
    BY <1>16 DEF Top
  <2> QED BY <1>16, <2>1 DEF Fresh, Entering
<1> QED BY <1>5, <1>12, <1>13, <1>18, <1>19 DEF LockInv

-----------------------------------------------------------------------------
(* Steps that allocate.                                                     *)

\* A state instance is created, and nobody knows it yet.
LEMMA StateAdded ==
  ASSUME Inv, LockInv, NEW f \in StateId, si[f].inst = NULL, NEW i \in InstId, NEW e,
         NewState(f, i, e), si'[f].env \in {NULL} \cup EventId,
         \A x \in StateId : x # f => si'[x].env = si[x].env,
         rules' = rules, sync_lock' = sync_lock, i \in Insts', Insts \subseteq Insts',
         \A d \in EventId : evt'[d].key = evt[d].key,
         \A j \in Insts : ri'[j].rule = ri[j].rule /\ ri'[j].locks = ri[j].locks,
         \A j \in Insts' : j \in Insts \/ ri'[j].locks = {}
  PROVE  /\ States' = States \cup {f} /\ f \notin States /\ Owned'
         /\ \A s \in States : Held(s) => Held(s)'
         /\ \A s \in States : /\ s \in StateId /\ si'[s].inst = si[s].inst
                              /\ si'[s].event = si[s].event /\ si'[s].env = si[s].env
         /\ \A s \in StateId : si'[s].env \in {NULL} \cup EventId
         /\ \A t \in Threads : thr[t].si # f
         /\ \A j \in Insts' : f \notin ri'[j].locks
         /\ \A j \in DOMAIN stack : stack[j].si # f \/ pc # "simul"
<1>1. f \notin States /\ States' = States \cup {f}
  BY NullIsNone DEF States, NewState
<1>2. \A s \in States : /\ s \in StateId /\ si'[s].inst = si[s].inst
                        /\ si'[s].event = si[s].event /\ si'[s].env = si[s].env
  BY <1>1 DEF States, NewState
<1>3. \A s \in States : EnvKey(s)' = EnvKey(s)
  BY <1>2, KeysStay
<1>4. LockFrame
  <2>1. \A j \in Insts : \A s \in ri[j].locks : s \in States
    BY DEF LockInv, Owned
  <2> QED BY <1>1, <1>2, <1>3, <2>1 DEF LockFrame
<1>5. Owned' /\ \A s \in States : Held(s) => Held(s)'
  BY <1>3, <1>4, LocksStay
<1>6. \A s \in StateId : si'[s].env \in {NULL} \cup EventId
  BY DEF LockInv, LockShape
<1>7. \A t \in Threads : thr[t].si # f
  BY <1>1 DEF Inv, Live
<1>8. \A j \in Insts' : f \notin ri'[j].locks
  BY <1>1 DEF LockInv, Owned
<1>9. \A j \in DOMAIN stack : stack[j].si # f \/ pc # "simul"
  BY <1>1 DEF Inv, Control
<1> QED BY <1>1, <1>2, <1>5, <1>6, <1>7, <1>8, <1>9

\* The child of an e-transition has the environment of its parent.
LEMMA PassLocks == ASSUME Inv, LockInv, rules' = rules, PassETransition PROVE LockInv'
<1> PICK f : f = FreeState
  OBVIOUS
<1> PICK s : s = Top.si
  OBVIOUS
<1>1. /\ pc = "simul" /\ AtTransition /\ States # StateId
      /\ \E dest : si' = WithChild(s, dest, NULL)
      /\ stack' = Append(Advance, [si |-> f, t |-> 0])
      /\ UNCHANGED << thr, ri, evt, sync_lock, active_event_cur, cur, pc, phase, subject >>
  BY DEF PassETransition, AtTransition, queue
<1>2. /\ stack # << >> /\ stack \in Seq([si : StateId, t : Nat]) /\ Len(stack) \in Nat \ {0}
      /\ Advance \in Seq([si : StateId, t : Nat]) /\ Len(Advance) = Len(stack)
      /\ \A j \in DOMAIN stack : /\ Advance[j].si = stack[j].si
                                 /\ j # Len(stack) => Advance[j] = stack[j]
      /\ Advance[Len(stack)].t = Top.t + 1 /\ DOMAIN stack = 1 .. Len(stack)
  BY <1>1, AdvanceIs, LenProperties DEF Inv, Shape, Control
<1>3. s \in States /\ si[s].inst = Subject /\ Subject \in Insts /\ Subject \in InstId
  BY <1>1, <1>2 DEF Inv, Control, Top, Live, Insts
<1>4. f \in StateId /\ f \notin States /\ si[f].inst = NULL
  BY <1>1, MallocState
<1>5. /\ NewState(f, Subject, NULL)
      /\ \A x \in StateId : si'[x].env = IF x = f THEN si[s].env ELSE si[x].env
  BY <1>1, <1>3, ChildIs DEF Inv, NewState
<1>6. Insts' = Insts /\ Threads' = Threads
  BY <1>1 DEF Insts, Threads
<1>7. si'[f].env \in {NULL} \cup EventId
  <2>1. si[s].env \in {NULL} \cup EventId
    BY <1>3 DEF LockInv, LockShape, States
  <2> QED BY <1>4, <1>5, <2>1
<1>8. /\ States' = States \cup {f} /\ Owned'
      /\ \A x \in States : Held(x) => Held(x)'
      /\ \A x \in States : /\ x \in StateId /\ si'[x].inst = si[x].inst
                           /\ si'[x].event = si[x].event /\ si'[x].env = si[x].env
      /\ \A x \in StateId : si'[x].env \in {NULL} \cup EventId
      /\ \A t \in Threads : thr[t].si # f
      /\ \A j \in Insts' : f \notin ri'[j].locks
      /\ \A j \in DOMAIN stack : stack[j].si # f
  BY <1>1, <1>3, <1>4, <1>5, <1>6, <1>7, StateAdded
<1>9. LockShape'
  BY <1>1, <1>8 DEF LockInv, LockShape, RuleId
<1>10. Started'
  BY <1>1, <1>8, SimulationStarted
<1>11. Environments'
  <2>1. \A x \in States : EnvironmentOK(x)'
    BY <1>1, <1>8, EnvironmentsStay
  <2>2. EnvironmentOK(f)'
    <3>1. si'[f].env = si[s].env /\ si'[f].inst = si[s].inst
      BY <1>3, <1>4, <1>5 DEF NewState
    <3>2. si'[s].env = si[s].env /\ si'[s].inst = si[s].inst
      BY <1>3, <1>8
    <3> QED BY <1>3, <2>1, <3>1, <3>2 DEF EnvironmentOK, Backed
  <2> QED BY <1>8, <2>1, <2>2 DEF Environments
<1>12. /\ Len(stack') = Len(stack) + 1 /\ DOMAIN stack' = 1 .. Len(stack) + 1
       /\ \A j \in DOMAIN stack : stack'[j] = Advance[j]
       /\ stack'[Len(stack) + 1].si = f /\ stack'[Len(stack) + 1].t = 0
  <2> DEFINE fr == [si |-> f, t |-> 0]
             S == [si : StateId, t : Nat]
  <2>1. fr \in S /\ fr.si = f /\ fr.t = 0
    BY <1>4
  <2>2. Advance \in Seq(S) /\ stack' = Append(Advance, fr)
    BY <1>1, <1>2
  <2> HIDE DEF fr, S
  <2>3. /\ stack' \in Seq(S) /\ Len(stack') = Len(Advance) + 1
        /\ \A j \in 1 .. Len(Advance) : stack'[j] = Advance[j]
        /\ stack'[Len(Advance) + 1] = fr
    BY <2>1, <2>2, AppendProperties
  <2> QED BY <1>2, <2>1, <2>3, LenProperties
<1>13. Top.t > 0 /\ Top.t \in Nat /\ \A j \in DOMAIN stack : stack[j].t > 0
  <2>1. Top.t \in Nat
    <3>1. Len(stack) \in 1 .. Len(stack)
      BY <1>2
    <3>2. stack[Len(stack)] \in [si : StateId, t : Nat]
      BY <1>2, <3>1, ElementOfSeq
    <3> QED BY <3>2 DEF Top
  <2> QED BY <1>1, <1>2, <2>1 DEF AtTransition, Top, LockInv, Entered
<1>14. \A j \in DOMAIN stack : stack'[j].t > 0 /\ stack'[j].si = stack[j].si
  BY <1>2, <1>12, <1>13
<1>15. Entered'
  <2>1. \A t \in Threads', x \in States' : thr'[t].si = x /\ ~ thr'[t].once => Held(x)'
    BY <1>1, <1>6, <1>8 DEF LockInv, Entered
  <2>2. ASSUME NEW j \in DOMAIN stack', NEW x \in States', phase' = "loop", stack'[j].si = x,
               stack'[j].t > 0
        PROVE  Held(x)'
    <3>1. j \in DOMAIN stack
      BY <1>2, <1>12, <2>2
    <3>2. stack[j].si = x /\ x \in States
      BY <1>1, <1>14, <2>2, <3>1 DEF Inv, Control
    <3> QED BY <1>1, <1>8, <1>13, <2>2, <3>1, <3>2 DEF LockInv, Entered
  <2>3. \A j \in DOMAIN stack' : j < Len(stack') => stack'[j].t > 0
    BY <1>2, <1>12, <1>14
  <2> QED BY <2>1, <2>2, <2>3 DEF Entered
<1>16. Fresh'
  <2>1. Top'.si = f
    BY <1>12 DEF Top
  <2>2. \A j \in DOMAIN stack' : j < Len(stack') => stack'[j].si # f
    BY <1>2, <1>8, <1>12, <1>14
  <2> QED BY <1>1, <1>6, <1>8, <2>1, <2>2 DEF Fresh
<1> QED BY <1>8, <1>9, <1>10, <1>11, <1>15, <1>16 DEF LockInv

\* A thread that waits has entered the state; an initial one has no lock.
LEMMA ThreadLocks == ASSUME Inv, LockInv, rules' = rules, CreateThread PROVE LockInv'
<1> PICK f : f = FreeThread
  OBVIOUS
<1> PICK s : s = Top.si
  OBVIOUS
<1> PICK i : i = si[s].inst
  OBVIOUS
<1>1. /\ pc = "simul" /\ AtTransition /\ stack' = Advance /\ Threads # ThreadId
      /\ thr' = [thr EXCEPT ![f] = NewThread]
      /\ ri' = [ri EXCEPT ![i].threads = @ + 1]
      /\ UNCHANGED << evt, sync_lock, active_event_cur, cur, pc, phase, subject >>
      /\ \E l : si' = [si EXCEPT ![s].thread_list = l]
  BY DEF CreateThread, AtTransition, InThreadList
<1>2. /\ s \in States /\ s \in StateId /\ i = Subject /\ i \in Insts /\ i \in InstId
  <2>1. /\ stack # << >> /\ Len(stack) \in DOMAIN stack
    BY <1>1, AdvanceAt
  <2> QED BY <1>1, <2>1 DEF Inv, Control, Top, Live, Insts, States
<1>3. f \in ThreadId /\ f \notin Threads /\ f # NULL /\ s # NULL
  BY <1>1, <1>2, MallocThread, NullIsNone
<1>4. \A t \in ThreadId : t # f => thr'[t] = thr[t]
  BY <1>1, <1>3 DEF Inv, Shape
<1>5. thr'[f].si = s /\ thr'[f].once = (phase = "init")
  <2>1. thr'[f] = NewThread
    BY <1>1, <1>3 DEF Inv, Shape
  <2> QED BY <2>1 DEF NewThread
<1>6. Threads' = Threads \cup {f}
  BY <1>3, <1>4, <1>5 DEF Threads
<1>7. \A x \in StateId : /\ si'[x].inst = si[x].inst /\ si'[x].event = si[x].event
                         /\ si'[x].env = si[x].env
  <2>1. PICK list : si' = [si EXCEPT ![s].thread_list = list]
    BY <1>1
  <2>2. si' = [x \in StateId |-> IF x = s THEN [si[x] EXCEPT !.thread_list = list] ELSE si[x]]
    BY <1>2, <2>1 DEF Inv, Shape
  <2>3. \A x \in StateId : IsState(si[x])
    BY DEF Inv, Shape
  <2>4. \A x \in StateId : \/ si'[x] = si[x]
                           \/ si'[x] = [si[x] EXCEPT !.thread_list = list]
    BY <2>2
  <2> QED BY ONLY <2>3, <2>4 DEF IsState
<1>8. \A j \in InstId : /\ ri'[j].rule = ri[j].rule /\ ri'[j].locks = ri[j].locks
                        /\ ri'[j].created = ri[j].created /\ ri'[j].linked = ri[j].linked
                        /\ (ri'[j].threads = ri[j].threads \/ ri'[j].threads = ri[j].threads + 1)
  <2>1. ri' = [j \in InstId |-> IF j = i THEN [ri[j] EXCEPT !.threads = @ + 1] ELSE ri[j]]
    BY <1>1, <1>2 DEF Inv, Shape
  <2>2. \A j \in InstId : IsInst(ri[j])
    BY DEF Inv, Shape
  <2>3. \A j \in InstId : \/ ri'[j] = ri[j]
                          \/ ri'[j] = [ri[j] EXCEPT !.threads = @ + 1]
    BY <2>1
  <2> QED BY ONLY <2>2, <2>3 DEF IsInst
<1>9. States' = States /\ Insts' = Insts
  BY <1>7, <1>8 DEF States, Insts
<1>10. \A x \in States : EnvKey(x)' = EnvKey(x)
  BY <1>1, <1>7, KeysStay DEF States
<1>11. Owned' /\ \A x \in States : Held(x) => Held(x)'
  <2>1. \A j \in Insts : \A x \in ri[j].locks : x \in States
    BY DEF LockInv, Owned
  <2>2. LockFrame
    BY <1>1, <1>7, <1>8, <1>9, <1>10, <2>1 DEF LockFrame, States, Insts
  <2> QED BY <1>10, <2>2, LocksStay
<1>12. Environments'
  <2>1. \A x \in States : EnvironmentOK(x)'
    BY <1>1, <1>7, <1>8, <1>9, EnvironmentsStay DEF States, Insts
  <2> QED BY <1>9, <2>1 DEF Environments
<1>13. LockShape'
  <2>1. \A t \in ThreadId : thr'[t].once \in BOOLEAN
    BY <1>4, <1>5 DEF LockInv, LockShape
  <2> QED BY <1>1, <1>7, <1>8, <2>1 DEF LockInv, LockShape, RuleId
<1>14. Started'
  <2>1. \A t \in Threads : /\ t # f /\ t \in ThreadId /\ thr'[t] = thr[t] /\ InstOf(t)' = InstOf(t)
                           /\ InstOf(t) \in InstId
    BY <1>3, <1>4, <1>7 DEF Threads, InstOf, Inv, Live, States, Insts
  <2>2. phase \in {"init", "loop"} /\ subject \in States
    BY <1>1 DEF Inv, Control
  <2>3. Subject' = Subject
    BY <1>1, <1>7, <2>2 DEF Subject, States
  <2>4. InstOf(f)' = i
    BY <1>2, <1>5, <1>7 DEF InstOf
  <2>5. \A t \in Threads' : ~ thr'[t].once => ri'[InstOf(t)'].created
    <3>1. \A t \in Threads : ~ thr'[t].once => ri'[InstOf(t)'].created
      BY <1>8, <2>1 DEF LockInv, Started
    <3>2. ~ thr'[f].once => ri'[i].created
      BY <1>2, <1>5, <1>8, <2>2 DEF LockInv, Started
    <3> QED BY <1>6, <2>4, <3>1, <3>2
  <2>6. \A j \in Insts' : ri'[j].linked => ri'[j].threads > 0
    <3>1. \A j \in Insts : j \in InstId /\ ri[j].threads \in Nat
      BY DEF Insts, Inv, Shape
    <3> QED BY <1>8, <1>9, <3>1 DEF LockInv, Started
  <2>7. phase' = "loop" => \A t \in Threads' : thr'[t].once => t \in Elems(cur')
    BY <1>1, <1>5, <1>6, <2>1 DEF LockInv, Started
  <2>8. phase' = "init" => ~ ri'[Subject'].created
    BY <1>1, <1>2, <1>8, <2>3 DEF LockInv, Started
  <2>9. phase' = "loop" => si'[subject'].event = active_event_cur' /\ ri'[Subject'].created
    BY <1>1, <1>2, <1>7, <1>8, <2>2, <2>3 DEF LockInv, Started, States
  <2> QED BY <1>1, <2>5, <2>6, <2>7, <2>8, <2>9 DEF Started
<1>15. Fresh'
  BY <1>1, <1>9, <1>11, GoesOn
<1>16. Entered'
  <2>1. \A t \in Threads, x \in States : thr'[t].si = x /\ ~ thr'[t].once => Held(x)'
    BY <1>3, <1>4, <1>11 DEF LockInv, Entered, Threads
  <2>2. ~ thr'[f].once => Held(s)'
    <3>1. Len(stack) \in DOMAIN stack /\ Top.t > 0
      BY <1>1, AdvanceAt DEF AtTransition
    <3>2. phase = "loop" => Held(s)
      BY <1>2, <3>1 DEF LockInv, Entered, Top
    <3>3. phase \in {"init", "loop"}
      BY <1>1 DEF Inv, Control
    <3> QED BY <1>2, <1>5, <1>11, <3>2, <3>3
  <2>3. \A t \in Threads', x \in States' : thr'[t].si = x /\ ~ thr'[t].once => Held(x)'
    BY <1>5, <1>6, <1>9, <2>1, <2>2
  <2> QED BY <1>1, <1>9, <1>11, <2>3, GoesOn DEF Entered
<1> QED BY <1>11, <1>12, <1>13, <1>14, <1>15, <1>16 DEF LockInv

\* The simulation of the state instance f is about to begin, in a call that has
\* no callers.
LEMMA CallEntered ==
  ASSUME Inv, LockInv, NEW f \in StateId, f \notin States, NEW caller, Simulate(f, caller),
         Threads' = Threads, States' = States \cup {f},
         \A t \in Threads : thr'[t].si = thr[t].si /\ thr'[t].once = thr[t].once,
         \A s \in States : Held(s) => Held(s)', \A t \in Threads : thr[t].si # f,
         \A j \in Insts' : f \notin ri'[j].locks
  PROVE  Entered' /\ Fresh' /\ pc' = "simul" /\ phase' = caller /\ subject' = f
<1>1. /\ stack' = << [si |-> f, t |-> 0] >> /\ phase' = caller /\ pc' = "simul" /\ subject' = f
  BY DEF Simulate
<1>2. /\ DOMAIN stack' = {1} /\ Len(stack') = 1 /\ stack'[1].si = f /\ stack'[1].t = 0
  BY <1>1
<1>3. \A t \in Threads', x \in States' : thr'[t].si = x /\ ~ thr'[t].once => Held(x)'
  BY DEF LockInv, Entered
<1>4. Entered'
  BY <1>2, <1>3 DEF Entered
<1>5. Fresh'
  BY <1>2 DEF Fresh, Top
<1> QED BY <1>1, <1>4, <1>5

\* A fresh instance has an empty environment and no locks.
LEMMA CreateInitialLocks ==
  ASSUME Inv, LockInv, rules' = rules, CreateInitialInstance PROVE LockInv'
<1> PICK f : f = FreeState
  OBVIOUS
<1> PICK g : g = FreeInst
  OBVIOUS
<1>1. f \in StateId /\ f \notin States /\ si[f].inst = NULL
  BY MallocState DEF CreateInitialInstance
<1>2. g \in InstId /\ g \notin Insts /\ ri[g].rule = 0
  BY MallocInst DEF CreateInitialInstance
<1>3. /\ pc = "init" /\ Simulate(f, "init") /\ rulePos <= Len(rules)
      /\ si' = [si EXCEPT ![f] = [NullState EXCEPT !.inst = g, !.state = 1]]
      /\ ri' = [ri EXCEPT ![g] = [NullInst EXCEPT !.rule = rulePos, !.born = events]]
      /\ thr' = thr /\ evt' = evt /\ active_event_cur' = active_event_cur
      /\ sync_lock' = sync_lock /\ cur' = cur
  BY DEF CreateInitialInstance, queue
<1>4. /\ NewState(f, g, NULL)
      /\ \A x \in StateId : si'[x].env = IF x = f THEN NULL ELSE si[x].env
  <2> DEFINE new == [NullState EXCEPT !.inst = g, !.state = 1]
  <2>1. IsState(new) /\ new.inst = g /\ new.event = NULL /\ new.env = NULL
    BY DEF NullState, IsState
  <2> HIDE DEF new
  <2> QED BY <1>1, <1>3, <2>1 DEF Inv, Shape, NewState, new
<1>5. /\ \A i \in InstId : i # g => ri'[i] = ri[i]
      /\ ri'[g].rule = rulePos /\ ri'[g].linked = FALSE /\ ri'[g].created = FALSE
      /\ ri'[g].locks = {}
  <2> DEFINE new == [NullInst EXCEPT !.rule = rulePos, !.born = events]
  <2>1. new.rule = rulePos /\ new.linked = FALSE /\ new.created = FALSE /\ new.locks = {}
    BY DEF NullInst
  <2> HIDE DEF new
  <2> QED BY <1>2, <1>3, <2>1 DEF Inv, Shape, new
<1>6. rulePos \in Nat \ {0} /\ rulePos \in RuleId
  BY <1>3, LenProperties DEF Inv, Shape, LockInv, LockShape, RuleId
<1>7. Insts' = Insts \cup {g} /\ \A i \in Insts : i # g /\ i \in InstId /\ ri'[i] = ri[i]
  BY <1>2, <1>5, <1>6 DEF Insts
<1>8. /\ States' = States \cup {f} /\ Owned'
      /\ \A x \in States : Held(x) => Held(x)'
      /\ \A x \in States : /\ x \in StateId /\ si'[x].inst = si[x].inst
                           /\ si'[x].event = si[x].event /\ si'[x].env = si[x].env
      /\ \A x \in StateId : si'[x].env \in {NULL} \cup EventId
      /\ \A t \in Threads : thr[t].si # f
      /\ \A j \in Insts' : f \notin ri'[j].locks
  <2>1. \A j \in Insts : ri'[j].rule = ri[j].rule /\ ri'[j].locks = ri[j].locks
    BY <1>7
  <2>2. \A j \in Insts' : j \in Insts \/ ri'[j].locks = {}
    BY <1>5, <1>7
  <2>3. sync_lock' = sync_lock /\ \A d \in EventId : evt'[d].key = evt[d].key
    BY <1>3
  <2>4. si'[f].env \in {NULL} \cup EventId /\ g \in Insts' /\ Insts \subseteq Insts'
    BY <1>1, <1>4, <1>7
  <2> QED BY <1>1, <1>2, <1>4, <2>1, <2>2, <2>3, <2>4, StateAdded
<1>9. Threads' = Threads
  BY <1>3 DEF Threads
<1>10. Entered' /\ Fresh' /\ pc' = "simul" /\ phase' = "init" /\ subject' = f
  BY <1>1, <1>3, <1>8, <1>9, CallEntered
<1>11. LockShape'
  <2>1. \A i \in InstId : ri'[i].locks \subseteq StateId /\ ri'[i].rule \in {0} \cup RuleId
    BY <1>5, <1>6 DEF LockInv, LockShape
  <2> QED BY <1>3, <1>8, <2>1 DEF LockInv, LockShape, RuleId
<1>12. Environments'
  <2>1. \A x \in States : EnvironmentOK(x)'
    BY <1>3, <1>7, <1>8, <1>10, EnvironmentsStay
  <2>2. EnvironmentOK(f)'
    BY <1>1, <1>4 DEF EnvironmentOK
  <2> QED BY <1>8, <2>1, <2>2 DEF Environments
<1>13. Started'
  <2>1. \A t \in Threads : /\ thr'[t] = thr[t] /\ InstOf(t)' = InstOf(t) /\ InstOf(t) \in Insts
    BY <1>3, <1>8 DEF InstOf, Inv, Live
  <2>2. \A t \in Threads' : ~ thr'[t].once => ri'[InstOf(t)'].created
    BY <1>7, <1>9, <2>1 DEF LockInv, Started
  <2>3. \A i \in Insts' : ri'[i].linked => ri'[i].threads > 0
    BY <1>5, <1>7 DEF LockInv, Started
  <2>4. Subject' = g
    BY <1>1, <1>4, <1>10 DEF Subject, NewState
  <2> QED BY <1>5, <1>10, <2>2, <2>3, <2>4 DEF Started
<1> QED BY <1>8, <1>10, <1>11, <1>12, <1>13 DEF LockInv

\* A match starts the instance; what its environments point to is the event that
\* the new state instance refers to.
LEMMA MatchLocks == ASSUME Inv, LockInv, rules' = rules, ThreadMatches PROVE LockInv'
<1>a. PICK f : f = FreeState
  OBVIOUS
<1>b. PICK t : t = Head(cur)
  OBVIOUS
<1>c. PICK i : i = InstOf(t)
  OBVIOUS
<1>d. PICK e : e = active_event_cur
  OBVIOUS
<1>e. PICK s : s = thr[t].si
  OBVIOUS
<1>1. f \in StateId /\ f \notin States /\ si[f].inst = NULL
  BY <1>a, MallocState DEF ThreadMatches
<1>2. /\ pc = "loop" /\ cur # << >> /\ Simulate(f, "loop") /\ States # StateId
      /\ \E dest : si' = WithChild(s, dest, e)
      /\ evt' = [evt EXCEPT ![e].refs = @ + 1]
      /\ thr' = thr /\ active_event_cur' = active_event_cur /\ cur' = cur
      /\ sync_lock' = sync_lock
  BY <1>a, <1>b, <1>c, <1>d, <1>e DEF ThreadMatches, InLoop
<1>3. t \in Threads /\ s \in States /\ i \in Insts /\ i \in InstId /\ si[s].inst = i
  BY <1>b, <1>c, <1>e, <1>2, HeadLives DEF InstOf
<1>4. e \in EventId
  BY <1>d, <1>2 DEF Inv, Referred
<1>5. NewState(f, i, e) /\ \A x \in StateId : si'[x].env = IF x = f THEN si[s].env ELSE si[x].env
  BY <1>a, <1>2, <1>3, ChildIs DEF Inv, NewState
<1>6. /\ \A j \in InstId : /\ ri'[j].rule = ri[j].rule /\ ri'[j].threads = ri[j].threads
                           /\ ri'[j].linked = ri[j].linked /\ ri'[j].locks = ri[j].locks
                           /\ j # i => ri'[j].created = ri[j].created
      /\ ri'[i].created
  <2> PICK b : b = (ri[i].created \/ thr[t].once)
    OBVIOUS
  <2>0. ri' = [ri EXCEPT ![i].created = b]
    BY <1>b, <1>c DEF ThreadMatches
  <2>1. ri' = [j \in InstId |-> IF j = i THEN [ri[j] EXCEPT !.created = b] ELSE ri[j]]
    BY <1>3, <2>0 DEF Inv, Shape
  <2>2. \A j \in InstId : IsInst(ri[j])
    BY DEF Inv, Shape
  <2>3. \A j \in InstId : IF j = i THEN ri'[j] = [ri[j] EXCEPT !.created = b] ELSE ri'[j] = ri[j]
    BY <2>1
  <2>4. \A j \in InstId : /\ ri'[j].rule = ri[j].rule /\ ri'[j].threads = ri[j].threads
                          /\ ri'[j].linked = ri[j].linked /\ ri'[j].locks = ri[j].locks
                          /\ j # i => ri'[j].created = ri[j].created
    BY ONLY <2>2, <2>3 DEF IsInst
  <2>5. ri'[i].created = b
    BY ONLY <1>3, <2>2, <2>3 DEF IsInst
  <2>6. thr[t].once \/ ri[i].created
    BY <1>c, <1>3 DEF LockInv, Started
  <2> QED BY <2>4, <2>5, <2>6
<1>7. Insts' = Insts /\ Threads' = Threads
  BY <1>2, <1>6 DEF Insts, Threads
<1>8. \A d \in EventId : evt'[d].key = evt[d].key
  BY <1>2, <1>4 DEF Inv, Shape, IsEvent
<1>9. si'[f].env \in {NULL} \cup EventId
  <2>1. si[s].env \in {NULL} \cup EventId
    BY <1>3 DEF LockInv, LockShape, States
  <2> QED BY <1>1, <1>5, <2>1
<1>10. /\ States' = States \cup {f} /\ Owned'
       /\ \A x \in States : Held(x) => Held(x)'
       /\ \A x \in States : /\ x \in StateId /\ si'[x].inst = si[x].inst
                            /\ si'[x].event = si[x].event /\ si'[x].env = si[x].env
       /\ \A x \in StateId : si'[x].env \in {NULL} \cup EventId
       /\ \A u \in Threads : thr[u].si # f
       /\ \A j \in Insts' : f \notin ri'[j].locks
  <2>1. \A j \in Insts : ri'[j].rule = ri[j].rule /\ ri'[j].locks = ri[j].locks
    BY <1>6 DEF Insts
  <2>2. \A j \in Insts' : j \in Insts
    BY <1>7
  <2>3. sync_lock' = sync_lock
    BY <1>2
  <2> QED BY <1>1, <1>3, <1>5, <1>7, <1>8, <1>9, <2>1, <2>2, <2>3, StateAdded
<1>11. Entered' /\ Fresh' /\ pc' = "simul" /\ phase' = "loop" /\ subject' = f
  BY <1>1, <1>2, <1>7, <1>10, CallEntered
<1>12. LockShape'
  BY <1>2, <1>6, <1>8, <1>10 DEF LockInv, LockShape, RuleId
<1>13. si'[f].inst = i /\ si'[f].event = e /\ f \in States'
  BY <1>1, <1>5, <1>10 DEF NewState
<1>14. Environments'
  <2>1. ASSUME NEW x \in States, si[x].env # NULL
        PROVE  IF ri'[si[x].inst].created
               THEN \E u \in States' : si'[u].inst = si[x].inst /\ si'[u].event = si[x].env
               ELSE pc' # "idle" /\ si[x].env = active_event_cur'
    <3>0. EnvironmentOK(x) /\ si[x].inst \in InstId
      BY DEF LockInv, Environments, Inv, Live, Insts
    <3>1. CASE ri[si[x].inst].created
      <4>1. PICK u \in States : si[u].inst = si[x].inst /\ si[u].event = si[x].env
        BY <2>1, <3>0, <3>1 DEF EnvironmentOK, Backed
      <4>2. ri'[si[x].inst].created
        BY <1>6, <3>0, <3>1
      <4> QED BY <1>10, <4>1, <4>2
    <3>2. CASE ~ ri[si[x].inst].created
      <4>1. si[x].env = e
        BY <1>d, <2>1, <3>0, <3>2 DEF EnvironmentOK
      <4>2. CASE si[x].inst = i
        BY <1>6, <1>13, <4>1, <4>2
      <4>3. CASE si[x].inst # i
        <5>1. ~ ri'[si[x].inst].created
          BY <1>6, <3>0, <3>2, <4>3
        <5> QED BY <1>d, <1>2, <1>11, <4>1, <5>1
      <4> QED BY <4>2, <4>3
    <3> QED BY <3>1, <3>2
  <2>2. \A x \in States : EnvironmentOK(x)'
    BY <1>10, <2>1 DEF EnvironmentOK, Backed
  <2>3. EnvironmentOK(f)'
    <3>1. si'[f].env = si[s].env
      BY <1>1, <1>5
    <3> QED BY <1>3, <1>13, <2>1, <3>1 DEF EnvironmentOK, Backed
  <2> QED BY <1>10, <2>2, <2>3 DEF Environments
<1>15. Started'
  <2>1. \A u \in Threads : /\ thr'[u] = thr[u] /\ InstOf(u)' = InstOf(u) /\ InstOf(u) \in InstId
    BY <1>2, <1>10 DEF InstOf, Inv, Live, Insts
  <2>2. \A u \in Threads' : ~ thr'[u].once => ri'[InstOf(u)'].created
    BY <1>6, <1>7, <2>1 DEF LockInv, Started
  <2>3. \A j \in Insts' : ri'[j].linked => ri'[j].threads > 0
    BY <1>6, <1>7 DEF LockInv, Started, Insts
  <2>4. Subject' = i
    BY <1>11, <1>13 DEF Subject
  <2>5. \A u \in Threads' : thr'[u].once => u \in Elems(cur')
    BY <1>2, <1>7 DEF LockInv, Started
  <2> QED BY <1>d, <1>2, <1>6, <1>11, <1>13, <2>2, <2>3, <2>4, <2>5 DEF Started
<1> QED BY <1>10, <1>11, <1>12, <1>14, <1>15 DEF LockInv

-----------------------------------------------------------------------------
(* inject_event() around the simulations.                                   *)

\* An event that an environment points to is referred to, or it is the current
\* one: it is not free.
LEMMA EnvironmentsReferred ==
  ASSUME Inv, LockInv, NEW s \in States, si[s].env # NULL
  PROVE  LET e == si[s].env
         IN  /\ e \in EventId /\ evt[e].status # "free"
             /\ \/ ri[si[s].inst].created /\ Backed(s) /\ evt[e].refs > 0
                \/ ~ ri[si[s].inst].created /\ pc # "idle" /\ e = active_event_cur
<1>a. PICK e : e = si[s].env
  OBVIOUS
<1>1. e \in EventId /\ e # NULL
  BY <1>a DEF LockInv, LockShape, States
<1>2. EnvironmentOK(s)
  BY DEF LockInv, Environments
<1>3. CASE ri[si[s].inst].created
  <2>1. PICK u \in States : si[u].event = e
    BY <1>2, <1>3, <1>a DEF EnvironmentOK, Backed
  <2>2. u \in Refs(e) /\ IsFiniteSet(Refs(e))
    BY <2>1, FiniteParts DEF Refs, States
  <2>3. Cardinality(Refs(e)) # 0 /\ Cardinality(Refs(e)) \in Nat
    BY <2>2, FS_EmptySet, FS_CardinalityType
  <2>4. evt[e].refs = Cardinality(Refs(e)) /\ (evt[e].status = "free" => evt[e].refs = 0)
    BY <1>1 DEF Inv, Referred
  <2>5. evt[e].refs > 0 /\ evt[e].status # "free"
    BY <2>3, <2>4
  <2> QED BY <1>1, <1>2, <1>3, <1>a, <2>5 DEF EnvironmentOK
<1>4. CASE ~ ri[si[s].inst].created
  <2>1. pc # "idle" /\ e = active_event_cur
    BY <1>2, <1>4, <1>a DEF EnvironmentOK
  <2>2. evt[e].status = "current"
    BY <1>1, <2>1 DEF Inv, Referred
  <2> QED BY <1>1, <1>4, <1>a, <2>1, <2>2
<1> QED BY <1>3, <1>4

\* Without initial threads every rule instance is one that an event started.
LEMMA AllStarted ==
  ASSUME Inv, LockInv, phase # "init", \A t \in Threads : ~ thr[t].once
  PROVE  \A i \in Insts : ri[i].created
<1> TAKE i \in Insts
<1>1. ri[i].threads > 0 /\ ri[i].threads = Cardinality(ThreadsOf(i))
  BY DEF Inv, Initial, Counted, ThreadsCounted, LockInv, Started
<1>2. ThreadsOf(i) # {}
  BY <1>1, FS_EmptySet
<1>3. PICK t \in Threads : InstOf(t) = i
  BY <1>2 DEF ThreadsOf
<1> QED BY <1>3 DEF LockInv, Started

\* No simulation runs.
LEMMA NoCall ==
  ASSUME stack' = << >>, pc' # "simul",
         \A t \in Threads', s \in States' : thr'[t].si = s /\ ~ thr'[t].once => Held(s)'
  PROVE  Entered' /\ Fresh'
<1>1. DOMAIN stack' = {}
  OBVIOUS
<1> QED BY <1>1 DEF Entered, Fresh, Entering

\* A new event is nobody's environment.
LEMMA InjectLocks ==
  ASSUME Inv, LockInv, rules' = rules, NEW k \in Keys \cup {NoKey}, InjectEvent(k)
  PROVE  LockInv'
<1>a. PICK f : f = FreeEvent
  OBVIOUS
<1>1. f \in EventId /\ f \notin Events /\ evt[f].status = "free"
  BY <1>a, MallocEvent DEF InjectEvent
<1>2. /\ pc = "idle" /\ evt' = [evt EXCEPT ![f] = [key |-> k, refs |-> 0, status |-> "current"]]
      /\ active_event_cur' = f /\ pc' = "init" /\ cur' = cur
      /\ thr' = thr /\ si' = si /\ ri' = ri /\ sync_lock' = sync_lock
      /\ phase' = phase /\ stack' = stack /\ subject' = subject
  BY <1>a DEF InjectEvent, queue, call
<1>3. /\ \A d \in EventId : d # f => evt'[d] = evt[d]
      /\ evt'[f].key = k
  BY <1>1, <1>2 DEF Inv, Shape
<1>4. /\ Threads' = Threads /\ States' = States /\ Insts' = Insts /\ RuleId' = RuleId
      /\ \A t \in Threads : InstOf(t)' = InstOf(t)
  BY <1>2 DEF Threads, States, Insts, RuleId, InstOf
<1>5. phase = "none" /\ stack = << >>
  BY <1>2 DEF Inv, Control
<1>6. \A i \in Insts : ri[i].created
  BY <1>2, <1>5, AllStarted DEF LockInv, Started
<1>7. ASSUME NEW s \in States PROVE EnvKey(s)' = EnvKey(s)
  <2>1. CASE si[s].env = NULL
    BY <1>2, <2>1 DEF EnvKey, KeyOf
  <2>2. CASE si[s].env # NULL
    <3>1. si[s].env \in EventId /\ evt[si[s].env].status # "free"
      BY <2>2, EnvironmentsReferred
    <3>2. evt'[si[s].env] = evt[si[s].env]
      BY <1>1, <1>3, <3>1
    <3> QED BY <1>2, <3>2 DEF EnvKey, KeyOf
  <2> QED BY <2>1, <2>2
<1>8. LockFrame
  <2>1. \A i \in Insts : \A s \in ri[i].locks : EnvKey(s)' = EnvKey(s)
    BY <1>7 DEF LockInv, Owned
  <2> QED BY <1>2, <1>4, <2>1 DEF LockFrame
<1>9. Owned' /\ \A s \in States : Held(s) => Held(s)'
  BY <1>7, <1>8, LocksStay
<1>10. Environments'
  <2>1. ASSUME NEW s \in States PROVE EnvironmentOK(s)'
    <3>1. EnvironmentOK(s) /\ ri[si[s].inst].created
      BY <1>6 DEF LockInv, Environments, Inv, Live
    <3> QED BY <1>2, <1>4, <3>1 DEF EnvironmentOK, Backed
  <2> QED BY <1>4, <2>1 DEF Environments
<1>11. Started'
  BY <1>2, <1>4, <1>5 DEF LockInv, Started
<1>12. Entered' /\ Fresh'
  <2>1. \A t \in Threads', s \in States' : thr'[t].si = s /\ ~ thr'[t].once => Held(s)'
    BY <1>2, <1>4, <1>9 DEF LockInv, Entered
  <2> QED BY <1>2, <1>5, <2>1, NoCall
<1>13. LockShape'
  <2>1. \A e \in EventId : evt'[e].key \in Keys \cup {NoKey}
    BY <1>3 DEF LockInv, LockShape
  <2> QED BY <1>2, <1>4, <2>1 DEF LockInv, LockShape
<1> QED BY <1>9, <1>10, <1>11, <1>12, <1>13 DEF LockInv

\* An instance that is linked has as many threads as the simulation returned.
LEMMA LinkLocks ==
  ASSUME Inv, LockInv, rules' = rules, LinkInitialInstance PROVE LockInv'
<1>a. PICK g : g = Subject
  OBVIOUS
<1>1. /\ pc = "ret" /\ phase = "init" /\ ret > 0 /\ pc' = "init"
      /\ ri' = [ri EXCEPT ![g].threads = ret, ![g].linked = TRUE]
      /\ thr' = IF newq = << >> THEN thr ELSE [thr EXCEPT ![newq[Len(newq)]].bump = TRUE]
      /\ si' = si /\ evt' = evt /\ sync_lock' = sync_lock /\ cur' = cur
      /\ active_event_cur' = active_event_cur /\ stack' = << >> /\ phase' = "none"
  BY <1>a DEF LinkInitialInstance, InitReturned, Subject, queue, Returned
<1>2. g \in InstId
  BY <1>a, <1>1 DEF Inv, Control, Live, Subject, Insts
<1>3. \A j \in InstId : /\ ri'[j].rule = ri[j].rule /\ ri'[j].locks = ri[j].locks
                        /\ ri'[j].created = ri[j].created
                        /\ IF j = g THEN ri'[j].threads = ret
                           ELSE ri'[j].threads = ri[j].threads /\ ri'[j].linked = ri[j].linked
  <2>1. ri' = [j \in InstId |-> IF j = g THEN [ri[j] EXCEPT !.threads = ret, !.linked = TRUE]
                                ELSE ri[j]]
    BY <1>1, <1>2 DEF Inv, Shape
  <2>2. \A j \in InstId : IsInst(ri[j])
    BY DEF Inv, Shape
  <2>3. \A j \in InstId : ri'[j] = IF j = g THEN [ri[j] EXCEPT !.threads = ret, !.linked = TRUE]
                                   ELSE ri[j]
    BY <2>1
  <2> QED BY ONLY <2>2, <2>3 DEF IsInst
<1>4. \A t \in ThreadId : thr'[t].si = thr[t].si /\ thr'[t].once = thr[t].once
  <2>1. ASSUME NEW u, thr' = [thr EXCEPT ![u].bump = TRUE]
        PROVE  \A t \in ThreadId : thr'[t].si = thr[t].si /\ thr'[t].once = thr[t].once
    <3>1. \A t \in ThreadId : thr'[t] = IF t = u THEN [thr[t] EXCEPT !.bump = TRUE] ELSE thr[t]
      BY <2>1 DEF Inv, Shape
    <3>2. \A t \in ThreadId : IsThread(thr[t])
      BY DEF Inv, Shape
    <3> QED BY ONLY <3>1, <3>2 DEF IsThread
  <2>2. CASE thr' = thr
    BY <2>2
  <2> QED BY <1>1, <2>1, <2>2
<1>5. SameLockHeap
  BY <1>1, <1>3, <1>4 DEF SameLockHeap
<1>6. /\ LockShape' /\ Environments' /\ Owned' /\ \A s \in States : Held(s) => Held(s)'
      /\ States' = States /\ Threads' = Threads /\ Insts' = Insts
      /\ \A t \in Threads : InstOf(t)' = InstOf(t) /\ InstOf(t) \in InstId
  BY <1>1, <1>5, LockHeapStays
<1>7. Entered' /\ Fresh'
  <2>1. \A t \in Threads', s \in States' : thr'[t].si = s /\ ~ thr'[t].once => Held(s)'
    BY <1>4, <1>6 DEF LockInv, Entered, Threads
  <2> QED BY <1>1, <2>1, NoCall
<1>8. Started'
  <2>1. \A i \in Insts' : ri'[i].linked => ri'[i].threads > 0
    BY <1>1, <1>3, <1>6 DEF LockInv, Started, Insts
  <2>2. \A t \in Threads' : ~ thr'[t].once => ri'[InstOf(t)'].created
    BY <1>3, <1>4, <1>6 DEF LockInv, Started, Threads
  <2> QED BY <1>1, <2>1, <2>2 DEF Started
<1> QED BY <1>6, <1>7, <1>8 DEF LockInv

\* The evt-loop begins with all threads in its queue.
LEMMA MergeLocks == ASSUME Inv, LockInv, rules' = rules, MergeQueues PROVE LockInv'
<1>1. /\ pc = "init" /\ pc' = "loop"
      /\ thr' = thr /\ si' = si /\ ri' = ri /\ evt' = evt /\ sync_lock' = sync_lock
      /\ active_event_cur' = active_event_cur /\ stack' = stack /\ phase' = phase
      /\ newq' = << >> /\ retrig' = << >>
  BY DEF MergeQueues, heap, call
<1>2. phase = "none" /\ stack = << >>
  BY <1>1 DEF Inv, Control
<1>3. SameLockHeap
  BY <1>1 DEF SameLockHeap
<1>4. /\ LockShape' /\ Environments' /\ Owned' /\ \A s \in States : Held(s) => Held(s)'
      /\ States' = States /\ Threads' = Threads /\ Insts' = Insts
      /\ \A t \in Threads : InstOf(t)' = InstOf(t)
  BY <1>1, <1>3, LockHeapStays
<1>5. Entered' /\ Fresh'
  <2>1. \A t \in Threads', s \in States' : thr'[t].si = s /\ ~ thr'[t].once => Held(s)'
    BY <1>1, <1>4 DEF LockInv, Entered
  <2> QED BY <1>1, <1>2, <2>1, NoCall
<1>6. Elems(cur') = Threads'
  <2>1. Elems(cur') \cup Elems(retrig') \cup Elems(newq') = Threads'
    BY MergeStep DEF Inv, Queued
  <2>2. Elems(retrig') = {} /\ Elems(newq') = {}
    BY <1>1 DEF Elems
  <2> QED BY <2>1, <2>2
<1>7. Started'
  BY <1>1, <1>2, <1>4, <1>6 DEF LockInv, Started
<1> QED BY <1>4, <1>5, <1>7 DEF LockInv

\* The event that is freed after the loop is nobody's environment.
LEMMA FinishLocks == ASSUME Inv, LockInv, rules' = rules, FinishEvent PROVE LockInv'
<1>a. PICK e : e = active_event_cur
  OBVIOUS
<1>1. /\ pc = "loop" /\ cur = << >> /\ pc' = "idle"
      /\ \/ evt[e].refs = 0 /\ evt' = [evt EXCEPT ![e] = NullEvent]
         \/ evt' = [evt EXCEPT ![e].status = "active"]
      /\ thr' = thr /\ si' = si /\ ri' = ri /\ sync_lock' = sync_lock
      /\ phase' = phase /\ stack' = stack
  BY <1>a DEF FinishEvent, call
<1>2. phase = "none" /\ stack = << >> /\ e \in EventId
  BY <1>a, <1>1 DEF Inv, Control, Referred
<1>3. /\ Threads' = Threads /\ States' = States /\ Insts' = Insts /\ RuleId' = RuleId
      /\ \A t \in Threads : InstOf(t)' = InstOf(t)
  BY <1>1 DEF Threads, States, Insts, RuleId, InstOf
<1>4. \A t \in Threads : ~ thr[t].once
  BY <1>1 DEF LockInv, Started, Elems
<1>5. \A i \in Insts : ri[i].created
  BY <1>2, <1>4, AllStarted
<1>6. \A d \in EventId : /\ d # e => evt'[d] = evt[d]
                         /\ evt[e].refs # 0 => evt'[d].key = evt[d].key
                         /\ evt'[d].key \in Keys \cup {NoKey}
  <2>1. \A d \in EventId : IsEvent(evt[d]) /\ evt[d].key \in Keys \cup {NoKey}
    BY DEF Inv, Shape, LockInv, LockShape
  <2>2. NullEvent.key = NoKey
    BY DEF NullEvent
  <2>3. CASE evt[e].refs = 0 /\ evt' = [evt EXCEPT ![e] = NullEvent]
    <3> HIDE DEF NullEvent
    <3> QED BY <1>2, <2>1, <2>2, <2>3 DEF Inv, Shape
  <2>4. CASE evt' = [evt EXCEPT ![e].status = "active"]
    <3>1. \A d \in EventId : evt'[d] = IF d = e THEN [evt[d] EXCEPT !.status = "active"] ELSE evt[d]
      BY <2>4 DEF Inv, Shape
    <3> QED BY ONLY <2>1, <3>1 DEF IsEvent
  <2> QED BY <1>1, <2>3, <2>4
<1>7. ASSUME NEW s \in States PROVE EnvKey(s)' = EnvKey(s)
  <2>1. CASE si[s].env = NULL
    BY <1>1, <2>1 DEF EnvKey, KeyOf
  <2>2. CASE si[s].env # NULL
    <3>1. si[s].env \in EventId /\ evt[si[s].env].refs > 0
      <4>1. ri[si[s].inst].created
        BY <1>5 DEF Inv, Live
      <4> QED BY <2>2, <4>1, EnvironmentsReferred
    <3>2. evt'[si[s].env].key = evt[si[s].env].key
      BY <1>6, <3>1
    <3> QED BY <1>1, <3>2 DEF EnvKey, KeyOf
  <2> QED BY <2>1, <2>2
<1>8. LockFrame
  <2>1. \A i \in Insts : \A s \in ri[i].locks : EnvKey(s)' = EnvKey(s)
    BY <1>7 DEF LockInv, Owned
  <2> QED BY <1>1, <1>3, <2>1 DEF LockFrame
<1>9. Owned' /\ \A s \in States : Held(s) => Held(s)'
  BY <1>7, <1>8, LocksStay
<1>10. Environments'
  <2>1. ASSUME NEW s \in States PROVE EnvironmentOK(s)'
    <3>1. EnvironmentOK(s) /\ ri[si[s].inst].created
      BY <1>5 DEF LockInv, Environments, Inv, Live
    <3> QED BY <1>1, <1>3, <3>1 DEF EnvironmentOK, Backed
  <2> QED BY <1>3, <2>1 DEF Environments
<1>11. Started'
  BY <1>1, <1>2, <1>3, <1>4 DEF LockInv, Started
<1>12. Entered' /\ Fresh'
  <2>1. \A t \in Threads', s \in States' : thr'[t].si = s /\ ~ thr'[t].once => Held(s)'
    BY <1>1, <1>3, <1>9 DEF LockInv, Entered
  <2> QED BY <1>1, <1>2, <2>1, NoCall
<1>13. LockShape'
  BY <1>1, <1>3, <1>6 DEF LockInv, LockShape
<1> QED BY <1>9, <1>10, <1>11, <1>12, <1>13 DEF LockInv

\* Time passes, or nothing happens.
LEMMA StutterLocks ==
  ASSUME Inv, LockInv, rules' = rules,
         UNCHANGED << heap, queue, stats, call, active_event_cur, pc, rulePos >>
  PROVE  LockInv'
<1>1. /\ thr' = thr /\ si' = si /\ ri' = ri /\ evt' = evt /\ sync_lock' = sync_lock
      /\ active_event_cur' = active_event_cur /\ stack' = stack /\ phase' = phase
      /\ subject' = subject /\ pc' = pc /\ cur' = cur
  BY DEF heap, queue, call
<1>2. SameLockHeap
  BY <1>1 DEF SameLockHeap
<1>3. /\ LockShape' /\ Environments' /\ Owned' /\ \A s \in States : Held(s) => Held(s)'
      /\ States' = States /\ Threads' = Threads /\ Insts' = Insts
      /\ \A t \in Threads : InstOf(t)' = InstOf(t)
  BY <1>1, <1>2, LockHeapStays
<1>4. Started'
  BY <1>1, <1>3 DEF LockInv, Started, Subject
<1>5. Entered'
  BY <1>1, <1>3 DEF LockInv, Entered
<1>6. Fresh'
  <2>1. Top' = Top
    BY <1>1 DEF Top
  <2> QED BY <1>1, <1>3, <2>1 DEF LockInv, Fresh, Entering
<1> QED BY <1>3, <1>4, <1>5, <1>6 DEF LockInv

\* At first there is nothing.
LEMMA LocksInitially == ASSUME Init PROVE LockInv
<1>1. Threads = {} /\ States = {} /\ Insts = {}
  BY DEF Init, Threads, States, Insts, NullThread, NullState, NullInst
<1>2. rules \in Seq(Rule)
  BY RulesAssumption DEF Init
<1>3. \A s \in StateId : s # NULL
  BY NullIsNone
<1>4. LockShape
  <2>1. sync_lock \in [RuleId -> [Keys -> {NULL} \cup StateId]]
    BY DEF Init
  <2>2. \A t \in ThreadId : thr[t].once \in BOOLEAN
    BY DEF Init, NullThread
  <2>3. \A s \in StateId : si[s].env \in {NULL} \cup EventId
    BY DEF Init, NullState
  <2>4. \A i \in InstId : ri[i].locks \subseteq StateId /\ ri[i].rule \in {0} \cup RuleId
    BY DEF Init, NullInst
  <2>5. \A e \in EventId : evt[e].key \in Keys \cup {NoKey}
    BY DEF Init, NullEvent
  <2> QED BY <1>2, <2>1, <2>2, <2>3, <2>4, <2>5 DEF LockShape
<1>5. Owned
  <2>1. \A r \in RuleId, k \in Keys : sync_lock[r][k] = NULL
    BY DEF Init
  <2> QED BY <1>1, <1>3, <2>1 DEF Owned
<1>6. Started
  BY <1>1 DEF Init, Started
<1>7. Environments
  BY <1>1 DEF Environments
<1>8. Entered /\ Fresh
  <2>1. stack = << >> /\ DOMAIN stack = {} /\ pc = "idle"
    BY DEF Init
  <2> QED BY <1>1, <2>1 DEF Entered, Fresh, Entering
<1> QED BY <1>4, <1>5, <1>6, <1>7, <1>8 DEF LockInv

-----------------------------------------------------------------------------
(* The end of a rule instance.                                              *)

\* free_rule_instance() takes away the locks of the instance, all of them and
\* no other, although it looks them up by keys; and the events that it frees are
\* not those that the environments of other instances lead to.
LEMMA InstanceLocks ==
  ASSUME Inv, LockInv, rules' = rules, NEW i \in Insts, NEW n, FreeRuleInstance(i, n),
         pc # "idle", pc' # "idle", active_event_cur' = active_event_cur
  PROVE  /\ States' = {s \in States : si[s].inst # i} /\ Insts' = Insts \ {i}
         /\ \A j \in InstId : j # i => ri'[j] = ri[j]
         /\ \A s \in States' : si'[s] = si[s]
         /\ \A r \in RuleId, k \in Keys :
              sync_lock'[r][k] = IF sync_lock[r][k] \in StatesOf(i) THEN NULL ELSE sync_lock[r][k]
         /\ Environments' /\ Owned' /\ \A s \in States' : Held(s) => Held(s)'
         /\ (\A t \in ThreadId : thr'[t].once \in BOOLEAN) => LockShape'
<1>a. PICK r : r = ri[i].rule
  OBVIOUS
<1>b. PICK keys : keys = {KeyOf(si[s].env) : s \in ri[i].locks}
  OBVIOUS
<1>1. /\ si' = FreedStates(i) /\ evt' = FreedEvents(i) /\ ri' = [ri EXCEPT ![i] = NullInst]
      /\ sync_lock' = [sync_lock EXCEPT ![r] = [k \in Keys |-> IF k \in keys THEN NULL ELSE @[k]]]
  BY <1>a, <1>b DEF FreeRuleInstance, FreedLocks
<1>2. i \in InstId /\ i # NULL /\ r \in RuleId
  BY <1>a, NullIsNone DEF Insts, LockInv, LockShape
<1>3. \A s \in StateId : IF si[s].inst = i THEN si'[s].inst = NULL /\ si'[s].env = NULL
                         ELSE si'[s] = si[s]
  BY <1>1 DEF FreedStates, NullState
<1>4. /\ \A j \in InstId : j # i => ri'[j] = ri[j]
      /\ ri'[i].rule = 0 /\ ri'[i].locks = {}
  <2>1. NullInst.rule = 0 /\ NullInst.locks = {}
    BY DEF NullInst
  <2> HIDE DEF NullInst
  <2> QED BY <1>1, <1>2, <2>1 DEF Inv, Shape
<1>5. /\ States' = {s \in States : si[s].inst # i} /\ Insts' = Insts \ {i} /\ RuleId' = RuleId
      /\ \A s \in States' : s \in States /\ si'[s] = si[s] /\ si[s].inst # i /\ s \in StateId
  <2>1. States' = {s \in States : si[s].inst # i} /\ RuleId' = RuleId
    BY <1>3 DEF States, RuleId
  <2>2. Insts' = Insts \ {i}
    BY <1>2, <1>4 DEF Insts
  <2> QED BY <1>3, <2>1, <2>2 DEF States
<1>6. \A s \in States' : /\ si[s].inst \in Insts /\ ri'[si[s].inst] = ri[si[s].inst]
                         /\ RuleOf(s)' = RuleOf(s) /\ RuleOf(s) \in RuleId
  BY <1>4, <1>5 DEF Inv, Live, Insts, RuleOf, LockInv, LockShape
<1>7. \A e \in EventId : IF IsLastRef(i, e) THEN evt'[e].status = "free" /\ evt'[e].key = NoKey
                         ELSE evt'[e].key = evt[e].key
  <2>1. evt' = [e \in EventId |-> IF IsLastRef(i, e) THEN NullEvent
                                  ELSE [evt[e] EXCEPT !.refs = evt[e].refs - RefsFrom(i, e)]]
    BY <1>1 DEF FreedEvents
  <2>2. NullEvent.status = "free" /\ NullEvent.key = NoKey
    BY DEF NullEvent
  <2>3. \A e \in EventId : IsEvent(evt[e])
    BY DEF Inv, Shape
  <2> HIDE DEF NullEvent
  <2>4. ASSUME NEW e \in EventId, ~ IsLastRef(i, e)
        PROVE  evt'[e].key = evt[e].key
    <3>1. PICK m : evt'[e] = [evt[e] EXCEPT !.refs = m]
      BY <2>1, <2>4
    <3>2. IsEvent(evt[e])
      BY <2>3
    <3> QED BY ONLY <3>1, <3>2 DEF IsEvent
  <2> QED BY <2>1, <2>2, <2>4
<1>8. ASSUME NEW s \in States'
      PROVE  EnvKey(s)' = EnvKey(s) /\ EnvironmentOK(s)' /\ EnvKey(s) \in Keys \cup {NoKey}
  <2>a. PICK e : e = si[s].env
    OBVIOUS
  <2>1. s \in States /\ si'[s] = si[s]
    BY <1>5
  <2>2. CASE e = NULL
    BY <2>1, <2>2, <2>a DEF EnvKey, KeyOf, EnvironmentOK
  <2>3. CASE e # NULL
    <3>1. /\ e \in EventId
          /\ \/ ri[si[s].inst].created /\ Backed(s)
             \/ ~ ri[si[s].inst].created /\ e = active_event_cur
      BY <2>1, <2>3, <2>a, EnvironmentsReferred
    <3>2. ~ IsLastRef(i, e) /\ EnvironmentOK(s)'
      <4>1. CASE ri[si[s].inst].created /\ Backed(s)
        <5>1. PICK u \in States : si[u].inst = si[s].inst /\ si[u].event = e
          BY <2>a, <4>1 DEF Backed
        <5>2. u \in States' /\ si'[u] = si[u] /\ u \in StateId
          BY <1>5, <2>1, <5>1
        <5>3. u \in Refs(e)' /\ IsFiniteSet(Refs(e)')
          BY <5>1, <5>2, FiniteParts DEF Refs
        <5>4. Cardinality(Refs(e)') # 0
          BY <5>3, FS_EmptySet
        <5>5. evt'[e].refs = Cardinality(Refs(e)') /\ (evt'[e].status = "free" => evt'[e].refs = 0)
          BY <1>1, <1>2, <3>1, EventsFreed
        <5>6. ~ IsLastRef(i, e)
          BY <1>7, <3>1, <5>4, <5>5
        <5> QED BY <2>1, <2>a, <1>6, <4>1, <5>1, <5>2, <5>6 DEF EnvironmentOK, Backed
      <4>2. CASE ~ ri[si[s].inst].created /\ e = active_event_cur
        BY <1>6, <2>1, <2>a, <4>2 DEF EnvironmentOK, IsLastRef
      <4> QED BY <3>1, <4>1, <4>2
    <3>3. evt'[e].key = evt[e].key
      BY <1>7, <3>1, <3>2
    <3>4. evt[e].key \in Keys \cup {NoKey}
      BY <3>1 DEF LockInv, LockShape
    <3> QED BY <2>1, <2>3, <2>a, <3>2, <3>3, <3>4 DEF EnvKey, KeyOf
  <2> QED BY <2>2, <2>3
<1>9. \A q \in RuleId, k \in Keys :
        sync_lock'[q][k] = IF q = r /\ k \in keys THEN NULL ELSE sync_lock[q][k]
  BY <1>1, <1>2 DEF LockInv, LockShape
<1>10. ASSUME NEW q \in RuleId, NEW k \in Keys
       PROVE  q = r /\ k \in keys <=> sync_lock[q][k] \in StatesOf(i)
  <2>1. ASSUME q = r, k \in keys PROVE sync_lock[q][k] \in StatesOf(i)
    <3>1. PICK s \in ri[i].locks : k = EnvKey(s)
      BY <1>b, <2>1 DEF EnvKey
    <3>2. s \in States /\ si[s].inst = i /\ sync_lock[r][k] = s
      BY <1>a, <3>1 DEF LockInv, Owned
    <3> QED BY <2>1, <3>2 DEF StatesOf, States
  <2>2. ASSUME sync_lock[q][k] \in StatesOf(i) PROVE q = r /\ k \in keys
    <3>1. PICK s \in StateId : s = sync_lock[q][k] /\ si[s].inst = i
      BY <2>2 DEF StatesOf
    <3>2. RuleOf(s) = q /\ EnvKey(s) = k /\ s \in ri[i].locks
      BY <3>1 DEF LockInv, Owned
    <3> QED BY <1>a, <1>b, <3>1, <3>2 DEF RuleOf, EnvKey
  <2> QED BY <2>1, <2>2
<1>11. \A q \in RuleId, k \in Keys :
         sync_lock'[q][k] = IF sync_lock[q][k] \in StatesOf(i) THEN NULL ELSE sync_lock[q][k]
  BY <1>9, <1>10
<1>12. Owned'
  <2>1. ASSUME NEW q \in RuleId, NEW k \in Keys, NEW s \in StateId, sync_lock'[q][k] = s
        PROVE  s \in States' /\ RuleOf(s)' = q /\ EnvKey(s)' = k /\ s \in ri'[si'[s].inst].locks
    <3>1. s \notin StatesOf(i) /\ sync_lock[q][k] = s
      BY <1>11, <2>1, NullIsNone
    <3>2. s \in States /\ RuleOf(s) = q /\ EnvKey(s) = k /\ s \in ri[si[s].inst].locks
      BY <3>1 DEF LockInv, Owned
    <3>3. s \in States' /\ si'[s] = si[s]
      BY <1>5, <3>1, <3>2 DEF StatesOf
    <3> QED BY <1>6, <1>8, <3>2, <3>3
  <2>2. ASSUME NEW j \in Insts', NEW s \in ri'[j].locks
        PROVE  /\ s \in States' /\ si'[s].inst = j
               /\ EnvKey(s)' \in Keys /\ sync_lock'[ri'[j].rule][EnvKey(s)'] = s
    <3>1. j \in Insts /\ j # i /\ ri'[j] = ri[j] /\ ri[j].rule \in RuleId
      BY <1>4, <1>5 DEF Insts, LockInv, LockShape
    <3>2. /\ s \in States /\ si[s].inst = j
          /\ EnvKey(s) \in Keys /\ sync_lock[ri[j].rule][EnvKey(s)] = s
      BY <3>1 DEF LockInv, Owned
    <3>3. s \in States' /\ si'[s] = si[s] /\ s \notin StatesOf(i)
      BY <1>5, <3>1, <3>2 DEF StatesOf
    <3>4. EnvKey(s)' = EnvKey(s)
      BY <1>8, <3>3
    <3> QED BY <1>11, <3>1, <3>2, <3>3, <3>4
  <2> QED BY <1>5, <2>1, <2>2 DEF Owned
<1>13. ASSUME NEW s \in States', Held(s) PROVE Held(s)'
  <2>1. /\ RuleOf(s)' = RuleOf(s) /\ RuleOf(s) \in RuleId /\ EnvKey(s)' = EnvKey(s)
        /\ EnvKey(s) \in Keys \cup {NoKey} /\ si'[s] = si[s] /\ si[s].inst # i
    BY <1>5, <1>6, <1>8
  <2>2. CASE rules[RuleOf(s)].sync /\ EnvKey(s) # NoKey
    <3>1. PICK o \in States : sync_lock[RuleOf(s)][EnvKey(s)] = o /\ si[o].inst = si[s].inst
      BY <1>13, <2>2 DEF Held
    <3>2. o \in States' /\ si'[o] = si[o] /\ o \notin StatesOf(i)
      BY <1>5, <2>1, <3>1 DEF StatesOf
    <3>3. sync_lock'[RuleOf(s)][EnvKey(s)] = o
      BY <1>11, <2>1, <2>2, <3>1, <3>2
    <3> QED BY <2>1, <3>1, <3>2, <3>3 DEF Held
  <2>3. CASE ~ (rules[RuleOf(s)].sync /\ EnvKey(s) # NoKey)
    BY <2>1, <2>3 DEF Held
  <2> QED BY <2>2, <2>3
<1>14. Environments'
  BY <1>8 DEF Environments
<1>15. ASSUME \A t \in ThreadId : thr'[t].once \in BOOLEAN PROVE LockShape'
  <2>1. \A s \in StateId : si'[s].env \in {NULL} \cup EventId
    BY <1>3 DEF LockInv, LockShape
  <2>2. \A j \in InstId : ri'[j].locks \subseteq StateId /\ ri'[j].rule \in {0} \cup RuleId
    BY <1>4 DEF LockInv, LockShape
  <2>3. \A e \in EventId : evt'[e].key \in Keys \cup {NoKey}
    BY <1>7 DEF LockInv, LockShape
  <2>4. sync_lock' \in [RuleId -> [Keys -> {NULL} \cup StateId]]
    BY <1>1, <1>2 DEF LockInv, LockShape
  <2> QED BY <1>5, <1>15, <2>1, <2>2, <2>3, <2>4 DEF LockInv, LockShape
<1> QED BY <1>4, <1>5, <1>11, <1>12, <1>13, <1>14, <1>15

\* An initial instance that is freed on the spot has no thread.
LEMMA DropLocks ==
  ASSUME Inv, LockInv, NoInitialThreads, rules' = rules, DropInitialInstance PROVE LockInv'
<1>a. PICK i : i = Subject
  OBVIOUS
<1>1. /\ pc = "ret" /\ phase = "init" /\ FreeRuleInstance(i, ctx.threads) /\ ret <= 0
      /\ pc' = "init" /\ thr' = thr /\ cur' = cur /\ active_event_cur' = active_event_cur
      /\ stack' = << >> /\ phase' = "none"
  BY <1>a DEF DropInitialInstance, InitReturned, Subject, queue, Returned
<1>2. i \in Insts
  BY <1>a, <1>1 DEF Inv, Control, Live, Subject
<1>3. \A t \in Threads : InstOf(t) # i
  BY <1>a, <1>1 DEF NoInitialThreads, InitReturned, Subject, ThreadsOf
<1>4. /\ States' = {s \in States : si[s].inst # i} /\ Insts' = Insts \ {i}
      /\ \A j \in InstId : j # i => ri'[j] = ri[j]
      /\ \A s \in States' : si'[s] = si[s]
      /\ Environments' /\ Owned' /\ \A s \in States' : Held(s) => Held(s)'
      /\ (\A t \in ThreadId : thr'[t].once \in BOOLEAN) => LockShape'
  BY <1>1, <1>2, InstanceLocks
<1>5. Threads' = Threads
  BY <1>1 DEF Threads
<1>6. \A t \in Threads : /\ InstOf(t) \in InstId /\ InstOf(t) \in Insts
                         /\ InstOf(t)' = InstOf(t) /\ ri'[InstOf(t)] = ri[InstOf(t)]
  BY <1>1, <1>3, <1>4 DEF Inv, Live, InstOf, Insts
<1>7. Started'
  <2>1. \A t \in Threads' : ~ thr'[t].once => ri'[InstOf(t)'].created
    BY <1>1, <1>5, <1>6 DEF LockInv, Started
  <2>2. \A j \in Insts' : ri'[j].linked => ri'[j].threads > 0
    BY <1>4 DEF LockInv, Started, Insts
  <2> QED BY <1>1, <2>1, <2>2 DEF Started
<1>8. Entered' /\ Fresh'
  <2>1. \A t \in Threads', s \in States' : thr'[t].si = s /\ ~ thr'[t].once => Held(s)'
    BY <1>1, <1>4, <1>5 DEF LockInv, Entered
  <2> QED BY <1>1, <2>1, NoCall
<1>9. LockShape'
  BY <1>1, <1>4 DEF LockInv, LockShape
<1> QED BY <1>4, <1>7, <1>8, <1>9 DEF LockInv

-----------------------------------------------------------------------------
(* The threads of the evt-loop.                                             *)

\* Some threads are marked, and none becomes or ceases to be an initial one.
LockMarks(th) == Marks(th) /\ \A t \in ThreadId : th[t].once = thr[t].once

\* THREAD_BUMP and THREAD_KILLED are such marks.
LEMMA MarksKept ==
  ASSUME Inv
  PROVE  /\ \A th, q : LockMarks(th) => LockMarks(Bumped(th, q))
         /\ \A S : LockMarks(Kill(thr, S))
         /\ LockMarks(thr)
<1>1. ASSUME NEW th, NEW q, LockMarks(th) PROVE LockMarks(Bumped(th, q))
  <2>1. Marks(Bumped(th, q))
    BY <1>1, BumpedMarks DEF LockMarks
  <2>2. ASSUME NEW t \in ThreadId PROVE Bumped(th, q)[t].once = thr[t].once
    <3>a. PICK x : x = Bumped(th, q)[t]
      OBVIOUS
    <3>1. x = th[t] \/ x = [th[t] EXCEPT !.bump = TRUE]
      BY <3>a DEF Bumped
    <3>2. IsThread(th[t]) /\ th[t].once = thr[t].once
      BY <1>1 DEF LockMarks, Marks
    <3>3. x.once = th[t].once
      BY ONLY <3>1, <3>2 DEF IsThread
    <3> QED BY <3>a, <3>2, <3>3
  <2> QED BY <2>1, <2>2 DEF LockMarks
<1>2. ASSUME NEW S PROVE LockMarks(Kill(thr, S))
  BY KillMarks, KillKeeps DEF LockMarks, Inv
<1>3. LockMarks(thr)
  BY KillMarks DEF LockMarks
<1> QED BY <1>1, <1>2, <1>3

\* The loop looks at a thread: the initial ones are still in its queue.
AtHead == cur # << >> /\ phase # "init" /\ pc # "idle" /\ (pc = "loop" \/ phase = "loop")

\* A thread leaves the loop for ever.
LEMMA ReapLocks ==
  ASSUME Inv, LockInv, rules' = rules, AtHead, LoopGoesOn,
         NEW th, LockMarks(th), Reap(Head(cur), th)
  PROVE  LockInv'
<1>a. PICK t : t = Head(cur)
  OBVIOUS
<1>b. PICK i : i = InstOf(t)
  OBVIOUS
<1>1. t \in Threads /\ t \in ThreadId /\ i \in Insts /\ i \in InstId /\ thr[t].si \in StateId
  BY <1>a, <1>b, HeadLives DEF AtHead
<1>2. /\ cur' = Tail(cur) /\ thr' = [th EXCEPT ![t] = NullThread]
      /\ IF ri[i].threads - 1 = 0 /\ ri[i].linked
         THEN FreeRuleInstance(i, ctx.threads - 1)
         ELSE /\ ri' = [ri EXCEPT ![i].threads = @ - 1,
                                 ![i].killed = @ \/ ri[i].threads = 1]
              /\ si' = IF ri[i].threads = 1 THEN si
                       ELSE [si EXCEPT ![thr[t].si].thread_list = Unlinked(t)]
              /\ evt' = evt /\ sync_lock' = sync_lock
  BY <1>a, <1>b DEF Reap
<1>3. \A u \in ThreadId : /\ thr'[u].si = IF u = t THEN NULL ELSE thr[u].si
                          /\ thr'[u].once = IF u = t THEN FALSE ELSE thr[u].once
  <2>1. NullThread.once = FALSE /\ NullThread.si = NULL
    BY DEF NullThread
  <2> HIDE DEF NullThread
  <2> QED BY <1>1, <1>2, <2>1 DEF LockMarks, Marks
<1>4. /\ Threads' = Threads \ {t} /\ \A j \in Insts' : ri'[j].linked
      /\ \A u \in Threads' : thr'[u].si \in States'
  <2>1. phase # "init" /\ pc # "idle" /\ pc' # "idle" /\ active_event_cur' = active_event_cur
        /\ cur # << >> /\ Marks(th) /\ Reap(t, th)
    BY <1>a DEF AtHead, LoopGoesOn, LockMarks
  <2> QED BY <1>a, <2>1, ThreadFreed DEF Live
<1>5. \A u \in Threads' : /\ u \in Threads /\ u # t /\ thr'[u].si = thr[u].si
                          /\ thr'[u].once = thr[u].once
  BY <1>3, <1>4 DEF Threads
<1>6. cur \in Seq(ThreadId) /\ Distinct(cur) /\ cur # << >>
  BY DEF Inv, Shape, Queued, AtHead
<1>7. Elems(cur') = Elems(cur) \ {t}
  BY <1>a, <1>2, <1>6, TailOf
<1>8. \A u \in Threads' : thr'[u].once => u \in Elems(cur')
  BY <1>5, <1>7 DEF LockInv, Started, AtHead
<1>9. \A u \in ThreadId : thr'[u].once \in BOOLEAN
  BY <1>3 DEF LockInv, LockShape
<1>10. /\ LockShape' /\ Environments' /\ Owned' /\ States' \subseteq States
       /\ \A s \in States' : Held(s) => Held(s)'
       /\ \A u \in Threads' : ~ thr'[u].once => ri'[InstOf(u)'].created
       /\ \A j \in Insts' : ri'[j].linked => ri'[j].threads > 0
  <2>1. CASE ri[i].threads - 1 = 0
    <3>1. FreeRuleInstance(i, ctx.threads - 1)
      BY <1>1, <1>2, <2>1 DEF Inv, Initial, AtHead
    <3>2. /\ States' = {s \in States : si[s].inst # i} /\ Insts' = Insts \ {i}
          /\ \A j \in InstId : j # i => ri'[j] = ri[j]
          /\ \A s \in States' : si'[s] = si[s]
          /\ Environments' /\ Owned' /\ \A s \in States' : Held(s) => Held(s)'
          /\ (\A u \in ThreadId : thr'[u].once \in BOOLEAN) => LockShape'
      BY <1>1, <3>1, InstanceLocks DEF AtHead, LoopGoesOn
    <3>3. \A u \in Threads' : /\ InstOf(u)' = InstOf(u) /\ InstOf(u) \in InstId
                              /\ ri'[InstOf(u)] = ri[InstOf(u)]
      BY <1>4, <1>5, <3>2 DEF InstOf, Inv, Live, Insts
    <3>4. \A u \in Threads' : ~ thr'[u].once => ri'[InstOf(u)'].created
      BY <1>5, <3>3 DEF LockInv, Started
    <3>5. \A j \in Insts' : ri'[j].linked => ri'[j].threads > 0
      BY <3>2 DEF LockInv, Started, Insts
    <3> QED BY <1>9, <3>2, <3>4, <3>5
  <2>2. CASE ri[i].threads - 1 # 0
    <3>1. /\ ri' = [ri EXCEPT ![i].threads = @ - 1, ![i].killed = @ \/ ri[i].threads = 1]
          /\ \E list : si' = [si EXCEPT ![thr[t].si].thread_list = list]
          /\ evt' = evt /\ sync_lock' = sync_lock
      <4>1. ri[i].threads # 1
        BY <2>2
      <4> QED BY <1>2, <2>2, <4>1
    <3>2. \A j \in InstId : /\ ri'[j].rule = ri[j].rule /\ ri'[j].locks = ri[j].locks
                            /\ ri'[j].created = ri[j].created
                            /\ ri'[j].threads = IF j = i THEN ri[j].threads - 1 ELSE ri[j].threads
      <4>1. \A j \in InstId :
              ri'[j] = IF j = i
                       THEN [ri[j] EXCEPT !.threads = @ - 1, !.killed = @ \/ ri[i].threads = 1]
                       ELSE ri[j]
        BY <1>1, <3>1 DEF Inv, Shape
      <4>2. \A j \in InstId : IsInst(ri[j])
        BY DEF Inv, Shape
      <4>3. ASSUME NEW j \in InstId
            PROVE  /\ ri'[j].rule = ri[j].rule /\ ri'[j].locks = ri[j].locks
                   /\ ri'[j].created = ri[j].created
                   /\ ri'[j].threads = IF j = i THEN ri[j].threads - 1 ELSE ri[j].threads
        <5>1. ri'[j] = IF j = i
                       THEN [ri[j] EXCEPT !.threads = @ - 1, !.killed = @ \/ ri[i].threads = 1]
                       ELSE ri[j]
          BY <4>1
        <5>2. IsInst(ri[j])
          BY <4>2
        <5> QED BY ONLY <5>1, <5>2 DEF IsInst
      <4> QED BY <4>3
    <3>3. \A x \in StateId : /\ si'[x].inst = si[x].inst /\ si'[x].event = si[x].event
                             /\ si'[x].env = si[x].env
      <4>1. PICK list : si' = [si EXCEPT ![thr[t].si].thread_list = list]
        BY <3>1
      <4>2. \A x \in StateId : \/ si'[x] = si[x]
                               \/ si'[x] = [si[x] EXCEPT !.thread_list = list]
        BY <1>1, <4>1 DEF Inv, Shape
      <4>3. \A x \in StateId : IsState(si[x])
        BY DEF Inv, Shape
      <4> QED BY ONLY <4>2, <4>3 DEF IsState
    <3>4. Insts' = Insts /\ States' = States /\ RuleId' = RuleId
      BY <3>2, <3>3 DEF Insts, States, RuleId
    <3>5. \A s \in States : /\ si'[s].inst = si[s].inst /\ si'[s].event = si[s].event
                            /\ si'[s].env = si[s].env
      BY <3>3 DEF States
    <3>6. \A s \in States : EnvKey(s)' = EnvKey(s)
      BY <3>1, <3>5, KeysStay
    <3>7. \A j \in Insts : /\ ri'[j].rule = ri[j].rule /\ ri'[j].locks = ri[j].locks
                           /\ ri'[j].created = ri[j].created
      BY <3>2 DEF Insts
    <3>8. LockFrame
      <4>1. \A j \in Insts : \A s \in ri[j].locks : EnvKey(s)' = EnvKey(s)
        BY <3>6 DEF LockInv, Owned
      <4> QED BY <3>1, <3>4, <3>5, <3>7, <4>1 DEF LockFrame
    <3>9. Owned' /\ \A s \in States : Held(s) => Held(s)'
      BY <3>6, <3>8, LocksStay
    <3>10. Environments'
      <4>1. \A s \in States : EnvironmentOK(s)'
        BY <3>4, <3>5, <3>7, EnvironmentsStay DEF LoopGoesOn
      <4> QED BY <3>4, <4>1 DEF Environments
    <3>11. LockShape'
      BY <1>9, <3>1, <3>2, <3>3, <3>4 DEF LockInv, LockShape
    <3>12. \A u \in Threads' : ~ thr'[u].once => ri'[InstOf(u)'].created
      <4>1. \A u \in Threads' : InstOf(u)' = InstOf(u) /\ InstOf(u) \in Insts
        BY <1>5, <3>5 DEF InstOf, Inv, Live
      <4> QED BY <1>5, <3>7, <4>1 DEF LockInv, Started
    <3>13. \A j \in Insts' : ri'[j].linked => ri'[j].threads > 0
      <4>1. \A j \in Insts : ri[j].linked /\ ri[j].threads > 0 /\ ri[j].threads \in Nat /\ j \in InstId
        BY DEF Inv, Initial, AtHead, LockInv, Started, Shape, Insts
      <4> QED BY <2>2, <3>2, <3>4, <4>1
    <3> QED BY <3>4, <3>9, <3>10, <3>11, <3>12, <3>13
  <2> QED BY <2>1, <2>2
<1>11. Started'
  BY <1>8, <1>10 DEF Started, LoopGoesOn
<1>12. Entered' /\ Fresh'
  <2>1. \A u \in Threads', s \in States' : thr'[u].si = s /\ ~ thr'[u].once => Held(s)'
    BY <1>5, <1>10 DEF LockInv, Entered
  <2> QED BY <2>1, NoCall DEF LoopGoesOn
<1> QED BY <1>10, <1>11, <1>12 DEF LockInv

\* A thread waits again; it is no initial one.
LEMMA RetriggerLocks ==
  ASSUME Inv, LockInv, rules' = rules, AtHead, LoopGoesOn,
         NEW th, LockMarks(th), Retrigger(Head(cur), th)
  PROVE  LockInv'
<1>a. PICK t : t = Head(cur)
  OBVIOUS
<1>1. t \in Threads /\ t \in ThreadId
  BY <1>a, HeadLives DEF AtHead
<1>2. /\ cur' = Tail(cur) /\ ~ th[t].once
      /\ (\E q : thr' = Bumped(th, q)) \/ thr' = th
      /\ si' = si /\ ri' = ri /\ evt' = evt /\ sync_lock' = sync_lock
  BY <1>a DEF Retrigger
<1>3. LockMarks(thr')
  BY <1>2, MarksKept
<1>4. \A u \in ThreadId : thr'[u].si = thr[u].si /\ thr'[u].once = thr[u].once
  BY <1>3 DEF LockMarks, Marks
<1>5. SameLockHeap
  BY <1>2, <1>4 DEF SameLockHeap, LoopGoesOn
<1>6. /\ LockShape' /\ Environments' /\ Owned' /\ \A s \in States : Held(s) => Held(s)'
      /\ States' = States /\ Threads' = Threads /\ Insts' = Insts
      /\ \A u \in Threads : InstOf(u)' = InstOf(u) /\ u \in ThreadId
  <2>1. pc' # "idle"
    BY DEF LoopGoesOn
  <2> QED BY <1>5, <2>1, LockHeapStays DEF Threads
<1>7. cur \in Seq(ThreadId) /\ Distinct(cur) /\ cur # << >>
  BY DEF Inv, Shape, Queued, AtHead
<1>8. Elems(cur') = Elems(cur) \ {t}
  BY <1>a, <1>2, <1>7, TailOf
<1>9. \A u \in Threads : thr[u].once => u \in Elems(cur) /\ u # t
  BY <1>1, <1>2 DEF LockInv, Started, AtHead, LockMarks
<1>10. \A u \in Threads' : thr'[u].once => u \in Elems(cur')
  BY <1>4, <1>6, <1>8, <1>9
<1>11. Started'
  <2>1. \A u \in Threads' : ~ thr'[u].once => ri'[InstOf(u)'].created
    BY <1>2, <1>4, <1>6 DEF LockInv, Started
  <2>2. \A j \in Insts' : ri'[j].linked => ri'[j].threads > 0
    BY <1>2, <1>6 DEF LockInv, Started
  <2> QED BY <1>10, <2>1, <2>2 DEF Started, LoopGoesOn
<1>12. Entered' /\ Fresh'
  <2>1. \A u \in Threads', s \in States' : thr'[u].si = s /\ ~ thr'[u].once => Held(s)'
    BY <1>4, <1>6 DEF LockInv, Entered
  <2> QED BY <2>1, NoCall DEF LoopGoesOn
<1> QED BY <1>6, <1>11, <1>12 DEF LockInv

\* The rest of an iteration, whether the thread matched or not.
LEMMA IterationLocks ==
  ASSUME Inv, LockInv, rules' = rules, AtHead, LoopGoesOn, NEW th, LockMarks(th),
         ReapInitialThread(Head(cur), th) \/ Retrigger(Head(cur), th)
  PROVE  LockInv'
<1>1. ReapInitialThread(Head(cur), th)
        => Reap(Head(cur), Bumped(th, retrig)) \/ Reap(Head(cur), th)
  BY DEF ReapInitialThread
<1>2. LockMarks(Bumped(th, retrig))
  BY MarksKept
<1> QED BY <1>1, <1>2, ReapLocks, RetriggerLocks

\* The thread that is killed or expired.
LEMMA ReapKilledLocks ==
  ASSUME Inv, LockInv, rules' = rules, ReapKilledThread PROVE LockInv'
<1>1. /\ pc = "loop" /\ cur # << >> /\ Reap(Head(cur), thr)
      /\ UNCHANGED << phase, stack, created, ret, active_event_cur, pc, rulePos >>
  BY DEF ReapKilledThread, InLoop, call
<1>2. phase = "none" /\ stack = << >> /\ created \in Nat /\ ret \in Int
  BY <1>1 DEF Inv, Control, Shape
<1>3. LoopGoesOn /\ AtHead
  BY <1>1, <1>2 DEF LoopGoesOn, AtHead
<1> QED BY <1>1, <1>3, MarksKept, ReapLocks

\* A thread that does not match.
LEMMA FailsLocks == ASSUME Inv, LockInv, rules' = rules, ThreadFails PROVE LockInv'
<1>1. /\ pc = "loop" /\ cur # << >>
      /\ ReapInitialThread(Head(cur), thr) \/ Retrigger(Head(cur), thr)
      /\ UNCHANGED << phase, stack, created, ret, active_event_cur, pc, rulePos >>
  BY DEF ThreadFails, InLoop, call
<1>2. phase = "none" /\ stack = << >> /\ created \in Nat /\ ret \in Int
  BY <1>1 DEF Inv, Control, Shape
<1>3. LoopGoesOn /\ AtHead
  BY <1>1, <1>2 DEF LoopGoesOn, AtHead
<1> QED BY <1>1, <1>3, MarksKept, IterationLocks

\* A thread that matched, after its simulation returned.
LEMMA AfterMatchLocks == ASSUME Inv, LockInv, rules' = rules, AfterMatch PROVE LockInv'
<1> DEFINE th == IF BacktrackIsNotNeeded(Head(cur)) THEN Kill(thr, {Head(cur)}) ELSE thr
<1>1. /\ pc = "ret" /\ phase = "loop" /\ Returned /\ pc' = "loop"
      /\ ReapInitialThread(Head(cur), th) \/ Retrigger(Head(cur), th)
      /\ active_event_cur' = active_event_cur /\ rulePos' = rulePos
  BY DEF AfterMatch
<1>2. cur # << >>
  BY <1>1 DEF Inv, Control
<1>3. LoopGoesOn /\ AtHead
  BY <1>1, <1>2, CallEnds DEF LoopGoesOn, AtHead
<1>4. LockMarks(th)
  BY MarksKept
<1> HIDE DEF th
<1> QED BY <1>1, <1>3, <1>4, IterationLocks

-----------------------------------------------------------------------------
(* The invariant.                                                           *)

\* Every step of the engine and of its environment.
LEMMA LocksInductive ==
  ASSUME Inv, LockInv, NoInitialThreads, [Next]_vars PROVE LockInv'
<1>1. rules' = rules
  BY DEF Next, EngineStep, EnvironmentStep, vars
<1>2. CASE SimulateStep
  BY <1>1, <1>2, TerminalLocks, PruneLocks, EnterLocks, PassLocks, SkipLocks, ThreadLocks,
     ReturnLocks DEF SimulateStep
<1>3. CASE InitialThreadsStep
  BY <1>1, <1>3, CreateInitialLocks, LinkLocks, DropLocks, MergeLocks DEF InitialThreadsStep
<1>4. CASE EvtLoopStep
  BY <1>1, <1>4, ReapKilledLocks, FailsLocks, MatchLocks, AfterMatchLocks, FinishLocks
     DEF EvtLoopStep
<1>5. CASE Tick
  BY <1>1, <1>5, StutterLocks DEF Tick
<1>6. CASE \E k \in Keys \cup {NoKey} : InjectEvent(k)
  BY <1>1, <1>6, InjectLocks
<1>7. CASE UNCHANGED vars
  BY <1>1, <1>7, StutterLocks DEF vars
<1> QED BY <1>2, <1>3, <1>4, <1>5, <1>6, <1>7 DEF Next, EngineStep, EnvironmentStep

\* The table of locks and the waiting threads agree (engine.c): a lock has a live
\* owner that knows of it, and no second instance of a synchronized rule waits with
\* its key.
THEOREM LocksAlwaysConsistent == Spec /\ []NoInitialThreads => []LocksConsistent
<1>1. Init => Inv /\ LockInv
  BY Initially, LocksInitially
<1>2. Inv /\ LockInv /\ NoInitialThreads /\ [Next]_vars => Inv' /\ LockInv'
  BY Inductive, LocksInductive
<1>3. Inv /\ LockInv => LocksConsistent
  BY OwnedConsequence
<1> QED BY <1>1, <1>2, <1>3, PTL DEF Spec

\* Environments are not counted, and yet none leads to an event that was freed.
THEOREM EnvironmentsAlwaysAlive == Spec /\ []NoInitialThreads => []EnvironmentAlive
<1>1. Init => Inv /\ LockInv
  BY Initially, LocksInitially
<1>2. Inv /\ LockInv /\ NoInitialThreads /\ [Next]_vars => Inv' /\ LockInv'
  BY Inductive, LocksInductive
<1>3. Inv /\ LockInv => EnvironmentAlive
  <2> SUFFICES ASSUME Inv, LockInv, NEW s \in States
               PROVE  {si[s].env, si[s].event} \subseteq {NULL} \cup Events
    BY DEF EnvironmentAlive
  <2>1. si[s].env # NULL => si[s].env \in Events
    BY EnvironmentsReferred DEF Events
  <2>2. ASSUME si[s].event # NULL PROVE si[s].event \in Events
    <3>a. PICK e : e = si[s].event
      OBVIOUS
    <3>1. e \in EventId /\ s \in Refs(e) /\ IsFiniteSet(Refs(e))
      BY <3>a, <2>2, FiniteParts DEF Inv, Shape, States, Refs
    <3>2. Cardinality(Refs(e)) # 0
      BY <3>1, FS_EmptySet
    <3> QED BY <3>a, <3>1, <3>2 DEF Inv, Referred, Events
  <2> QED BY <2>1, <2>2
<1> QED BY <1>1, <1>2, <1>3, PTL DEF Spec

-----------------------------------------------------------------------------
(* Who takes a lock away.                                                   *)

\* A lock that changes is one whose owner is freed in that step.
ByOwner ==
  \A r \in RuleId, k \in Keys :
    sync_lock[r][k] # NULL /\ sync_lock'[r][k] # sync_lock[r][k]
      => si'[sync_lock[r][k]].inst = NULL

\* free_rule_instance() takes away the locks of the instance that it frees.
LEMMA FreedByOwner ==
  ASSUME Inv, LockInv, rules' = rules, NEW i \in Insts, NEW n, FreeRuleInstance(i, n),
         pc # "idle", pc' # "idle", active_event_cur' = active_event_cur
  PROVE  ByOwner
<1> SUFFICES ASSUME NEW r \in RuleId, NEW k \in Keys, NEW s, s = sync_lock[r][k],
                    s # NULL, sync_lock'[r][k] # s
             PROVE  si'[s].inst = NULL
  BY DEF ByOwner
<1>1. /\ States' = {x \in States : si[x].inst # i}
      /\ sync_lock'[r][k] = IF s \in StatesOf(i) THEN NULL ELSE s
  BY InstanceLocks
<1>2. s \in StateId /\ si[s].inst = i
  BY <1>1 DEF StatesOf
<1> QED BY <1>1, <1>2 DEF States

\* A lock is taken only where there is none.
LEMMA TakenWhenFree == ASSUME Inv, LockInv, EnterState PROVE ByOwner
<1>a. PICK s : s = Top.si
  OBVIOUS
<1>b. PICK q : q = RuleOf(s)
  OBVIOUS
<1>c. PICK x : x = LockKey(s)
  BY SMTT(60)
<1>1. \/ sync_lock' = sync_lock
      \/ sync_lock[q][x] = NULL /\ sync_lock' = [sync_lock EXCEPT ![q][x] = s]
  BY <1>a, <1>b, <1>c DEF EnterState, TakesLock, LockOf, RuleOf
<1>2. \A r \in RuleId, k \in Keys : (r = q /\ k = x) \/ sync_lock'[r][k] = sync_lock[r][k]
  BY <1>1 DEF LockInv, LockShape
<1> QED BY <1>1, <1>2 DEF ByOwner

\* Every other step leaves the locks alone or frees a rule instance.
LEMMA StepByOwner == ASSUME Inv, LockInv, [Next]_vars PROVE ByOwner
<1>1. rules' = rules
  BY DEF Next, EngineStep, EnvironmentStep, vars
<1>2. ASSUME sync_lock' = sync_lock PROVE ByOwner
  BY <1>2 DEF ByOwner
<1>3. ASSUME NEW th, AtHead, pc' # "idle", active_event_cur' = active_event_cur, Reap(Head(cur), th)
      PROVE  ByOwner
  <2>1. InstOf(Head(cur)) \in Insts
    BY <1>3, HeadLives DEF AtHead
  <2>2. FreeRuleInstance(InstOf(Head(cur)), ctx.threads - 1) \/ sync_lock' = sync_lock
    BY <1>3 DEF Reap
  <2> QED BY <1>1, <1>2, <1>3, <2>1, <2>2, FreedByOwner DEF AtHead
<1>4. ASSUME NEW th, AtHead, pc' # "idle", active_event_cur' = active_event_cur,
             ReapInitialThread(Head(cur), th) \/ Retrigger(Head(cur), th)
      PROVE  ByOwner
  <2>1. CASE ReapInitialThread(Head(cur), th)
    BY <1>3, <1>4, <2>1 DEF ReapInitialThread
  <2>2. CASE Retrigger(Head(cur), th)
    BY <1>2, <2>2 DEF Retrigger
  <2> QED BY <1>4, <2>1, <2>2
<1>5. CASE SimulateStep
  <2>1. EnterState \/ sync_lock' = sync_lock
    BY <1>5 DEF SimulateStep, EnterTerminalState, PruneState, PassETransition, SkipETransition,
                CreateThread, ReturnFromSimulate, heap
  <2> QED BY <1>2, <2>1, TakenWhenFree
<1>6. CASE InitialThreadsStep
  <2>1. DropInitialInstance \/ sync_lock' = sync_lock
    BY <1>6 DEF InitialThreadsStep, CreateInitialInstance, LinkInitialInstance, MergeQueues, heap
  <2>2. ASSUME DropInitialInstance PROVE ByOwner
    <3>1. /\ pc = "ret" /\ phase = "init" /\ pc' = "init" /\ active_event_cur' = active_event_cur
          /\ FreeRuleInstance(Subject, ctx.threads)
      BY <2>2 DEF DropInitialInstance, InitReturned, Subject
    <3>2. Subject \in Insts
      BY <3>1 DEF Inv, Control, Live, Subject
    <3> QED BY <1>1, <3>1, <3>2, FreedByOwner
  <2> QED BY <1>2, <2>1, <2>2
<1>7. CASE EvtLoopStep
  <2>1. CASE ReapKilledThread
    <3>1. /\ pc = "loop" /\ cur # << >> /\ Reap(Head(cur), thr)
          /\ UNCHANGED << active_event_cur, pc >>
      BY <2>1 DEF ReapKilledThread, InLoop
    <3>2. AtHead
      BY <3>1 DEF AtHead, Inv, Control
    <3> QED BY <1>3, <3>1, <3>2
  <2>2. CASE ThreadFails
    <3>1. /\ pc = "loop" /\ cur # << >> /\ UNCHANGED << active_event_cur, pc >>
          /\ ReapInitialThread(Head(cur), thr) \/ Retrigger(Head(cur), thr)
      BY <2>2 DEF ThreadFails, InLoop
    <3>2. AtHead
      BY <3>1 DEF AtHead, Inv, Control
    <3> QED BY <1>4, <3>1, <3>2
  <2>3. CASE AfterMatch
    <3>1. /\ pc = "ret" /\ phase = "loop" /\ active_event_cur' = active_event_cur /\ pc' = "loop"
          /\ \E th : ReapInitialThread(Head(cur), th) \/ Retrigger(Head(cur), th)
      BY <2>3 DEF AfterMatch
    <3>2. AtHead
      BY <3>1 DEF AtHead, Inv, Control
    <3> QED BY <1>4, <3>1, <3>2
  <2>4. CASE ThreadMatches
    BY <1>2, <2>4 DEF ThreadMatches
  <2>5. CASE FinishEvent
    BY <1>2, <2>5 DEF FinishEvent
  <2> QED BY <1>7, <2>1, <2>2, <2>3, <2>4, <2>5 DEF EvtLoopStep
<1>8. CASE EnvironmentStep
  BY <1>2, <1>8 DEF EnvironmentStep, Tick, InjectEvent, heap
<1>9. CASE UNCHANGED vars
  BY <1>2, <1>9 DEF vars, heap
<1> QED BY <1>5, <1>6, <1>7, <1>8, <1>9 DEF Next, EngineStep

\* Only the end of its owner's rule instance takes a lock away (engine.c,
\* free_rule_instance()).
THEOREM LocksReleasedByOwners == Spec /\ []NoInitialThreads => LockReleasedByOwner
<1>1. Init => Inv /\ LockInv
  BY Initially, LocksInitially
<1>2. Inv /\ LockInv /\ NoInitialThreads /\ [Next]_vars => Inv' /\ LockInv'
  BY Inductive, LocksInductive
<1>3. Inv /\ LockInv /\ [Next]_vars => [ByOwner]_vars
  BY StepByOwner
<1>4. Spec /\ []NoInitialThreads => [][ByOwner]_vars
  BY <1>1, <1>2, <1>3, PTL DEF Spec
<1> QED BY <1>4 DEF LockReleasedByOwner, ByOwner
=============================================================================
