---------------------------- MODULE EngineProofs ----------------------------
(***************************************************************************)
(* Proofs about the engine, for every set of rules, every pool and every   *)
(* number of events, of which only one thing is taken for granted: that    *)
(* create_rule_initial_threads() drops no instance that has a thread,      *)
(* which the code takes for granted too.                                   *)
(***************************************************************************)
EXTENDS Engine, FiniteSetTheorems, SequenceTheorems, TLAPS

-----------------------------------------------------------------------------
(* Shapes: that every field is there, and the values of those that the      *)
(* argument is about.                                                       *)

IsThread(x) ==
  x \in [si : {x.si}, trans : {x.trans}, once : {x.once}, killed : {x.killed},
         bump : {x.bump}, timeout : {x.timeout}]
IsState(x) ==
  x \in [inst : {x.inst}, state : {x.state}, event : {x.event}, env : {x.env},
         parent : {x.parent}, first_child : {x.first_child},
         next_sibling : {x.next_sibling}, thread_list : {x.thread_list},
         mark : {x.mark}, extptr : {x.extptr}]
IsInst(x) ==
  x \in [rule : {x.rule}, threads : {x.threads}, killed : {x.killed},
         created : {x.created}, linked : {x.linked}, locks : {x.locks}, born : {x.born}]
IsEvent(x) == x \in [key : {x.key}, refs : {x.refs}, status : {x.status}]
IsCtx(x) ==
  x \in [threads : Nat, state_instances : {x.state_instances},
         rule_instances : {x.rule_instances}, active_events : Int]

Shape ==
  /\ thr = [t \in ThreadId |-> thr[t]]
  /\ \A t \in ThreadId : IsThread(thr[t]) /\ thr[t].si \in {NULL} \cup StateId
  /\ si = [s \in StateId |-> si[s]]
  /\ \A s \in StateId :
       /\ IsState(si[s]) /\ si[s].inst \in {NULL} \cup InstId
       /\ si[s].event \in {NULL} \cup EventId
       /\ si[s].inst = NULL => si[s].event = NULL
  /\ ri = [i \in InstId |-> ri[i]]
  /\ \A i \in InstId : IsInst(ri[i]) /\ ri[i].threads \in Nat
  /\ evt = [e \in EventId |-> evt[e]]
  /\ \A e \in EventId :
       /\ IsEvent(evt[e]) /\ evt[e].refs \in Nat
       /\ evt[e].status \in {"free", "current", "active"}
  /\ {cur, retrig, newq} \subseteq Seq(ThreadId)
  /\ stack \in Seq([si : StateId, t : Nat])
  /\ active_event_cur \in {NULL} \cup EventId
  /\ IsCtx(ctx)
  /\ created \in Nat /\ ret \in Int /\ rulePos \in Nat \ {0}
  /\ pc \in {"idle", "init", "simul", "ret", "loop"}
  /\ phase \in {"none", "init", "loop"}

-----------------------------------------------------------------------------
(* The parts of the invariant.                                              *)

\* Nothing refers to what was freed.
Live ==
  /\ \A t \in Threads : thr[t].si \in States
  /\ \A s \in States : si[s].inst \in Insts

\* A queue holds no thread twice, and two queues none in common.
Distinct(q) == \A m, n \in DOMAIN q : q[m] = q[n] => m = n
Disjoint(p, q) == Elems(p) \cap Elems(q) = {}
Queued ==
  /\ Elems(cur) \cup Elems(retrig) \cup Elems(newq) = Threads
  /\ Distinct(cur) /\ Distinct(retrig) /\ Distinct(newq)
  /\ Disjoint(cur, retrig) /\ Disjoint(cur, newq) /\ Disjoint(retrig, newq)
  /\ Len(cur) + Len(retrig) + Len(newq) = Cardinality(Threads)

Pointers == {cur_retrig_qh, current_tail} \subseteq {NULL} \cup Threads

\* The counters of threads, that of the running simulation included.
Subject == si[subject].inst
Counted ==
  /\ ThreadsCounted
  /\ phase = "init" /\ pc = "simul" => created = Cardinality(ThreadsOf(Subject))
  /\ phase = "init" /\ pc = "ret" /\ ret > 0 => ret = Cardinality(ThreadsOf(Subject))

\* The references to an event, and its state.
Refs(e) == {s \in StateId : si[s].event = e}
Referred ==
  /\ \A e \in EventId :
       /\ evt[e].refs = Cardinality(Refs(e))
       /\ evt[e].status = "free" => evt[e].refs = 0
       /\ evt[e].status = "active" => evt[e].refs > 0
       /\ (evt[e].status = "current") <=> (pc # "idle" /\ e = active_event_cur)
  /\ pc # "idle" => active_event_cur \in EventId
  /\ ctx.active_events = Cardinality({e \in EventId : evt[e].status = "active"})

\* Where inject_event() is.
Control ==
  /\ pc \in {"idle", "init", "loop"} => phase = "none" /\ stack = << >>
  /\ pc \in {"simul", "ret"} => phase \in {"init", "loop"} /\ subject \in States
  /\ pc = "simul" => stack # << >>
  /\ \A j \in DOMAIN stack : stack[j].si \in States /\ si[stack[j].si].inst = Subject
  /\ phase = "loop" => cur # << >>

\* The queue that is processed is filled after the initial threads, and all
\* rule instances are linked then.
Initial ==
  /\ (pc \in {"idle", "init"} \/ phase = "init") => cur = << >>
  /\ \A i \in Insts : ri[i].linked \/ (phase = "init" /\ i = Subject)

Inv ==
  /\ Shape /\ Live /\ Queued /\ Pointers /\ Counted /\ Referred /\ Control /\ Initial

-----------------------------------------------------------------------------
(* The pools are finite, and malloc() gives what is free.                   *)

\* The pools are finite sets of positive numbers.
LEMMA Pools ==
  /\ IsFiniteSet(ThreadId) /\ IsFiniteSet(StateId) /\ IsFiniteSet(InstId) /\ IsFiniteSet(EventId)
  /\ ThreadId \subseteq Nat \ {0} /\ StateId \subseteq Nat \ {0}
  /\ InstId \subseteq Nat \ {0} /\ EventId \subseteq Nat \ {0}
<1>1. MaxThreads \in Nat /\ MaxStates \in Nat /\ MaxInsts \in Nat /\ MaxEvents \in Nat
  BY BoundsAssumption
<1>2. \A n \in Nat : IsFiniteSet(1 .. n)
  BY FS_Interval
<1> QED BY <1>1, <1>2 DEF ThreadId, StateId, InstId, EventId

\* The NULL pointer names no object of a pool.
LEMMA NullIsNone ==
  /\ NULL \notin ThreadId /\ NULL \notin StateId /\ NULL \notin InstId /\ NULL \notin EventId
  /\ NULL = 0
BY Pools DEF NULL

\* Whatever part of a pool is counted is finite.
LEMMA FiniteParts ==
  /\ \A S \in SUBSET ThreadId : IsFiniteSet(S) /\ Cardinality(S) \in Nat
  /\ \A S \in SUBSET StateId : IsFiniteSet(S) /\ Cardinality(S) \in Nat
  /\ \A S \in SUBSET EventId : IsFiniteSet(S) /\ Cardinality(S) \in Nat
BY Pools, FS_Subset, FS_CardinalityType

\* While a state instance is free, the one that is allocated is a free one.
LEMMA MallocState ==
  ASSUME States # StateId
  PROVE  FreeState \in StateId /\ FreeState \notin States /\ si[FreeState].inst = NULL
<1>1. \E s \in StateId : s \notin States
  BY DEF States
<1>2. FreeState \in StateId /\ FreeState \notin States
  BY <1>1 DEF FreeState
<1> QED BY <1>2 DEF States

\* While a thread is free, the one that is allocated is a free one.
LEMMA MallocThread ==
  ASSUME Threads # ThreadId
  PROVE  FreeThread \in ThreadId /\ FreeThread \notin Threads /\ thr[FreeThread].si = NULL
<1>1. \E t \in ThreadId : t \notin Threads
  BY DEF Threads
<1>2. FreeThread \in ThreadId /\ FreeThread \notin Threads
  BY <1>1 DEF FreeThread
<1> QED BY <1>2 DEF Threads

\* While a rule instance is free, the one that is allocated is a free one.
LEMMA MallocInst ==
  ASSUME Insts # InstId
  PROVE  FreeInst \in InstId /\ FreeInst \notin Insts /\ ri[FreeInst].rule = 0
<1>1. \E i \in InstId : i \notin Insts
  BY DEF Insts
<1>2. FreeInst \in InstId /\ FreeInst \notin Insts
  BY <1>1 DEF FreeInst
<1> QED BY <1>2 DEF Insts

\* While an event is free, the one that is allocated is a free one.
LEMMA MallocEvent ==
  ASSUME Events # EventId
  PROVE  FreeEvent \in EventId /\ FreeEvent \notin Events /\ evt[FreeEvent].status = "free"
<1>1. \E e \in EventId : e \notin Events
  BY DEF Events
<1>2. FreeEvent \in EventId /\ FreeEvent \notin Events
  BY <1>1 DEF FreeEvent
<1> QED BY <1>2 DEF Events

\* To mark threads changes no other field of any.
LEMMA KillKeeps ==
  ASSUME Shape, NEW S
  PROVE  /\ Kill(thr, S) = [t \in ThreadId |-> Kill(thr, S)[t]]
         /\ \A t \in ThreadId : /\ IsThread(Kill(thr, S)[t])
                                /\ Kill(thr, S)[t].si = thr[t].si
                                /\ Kill(thr, S)[t].once = thr[t].once
                                /\ Kill(thr, S)[t].bump = thr[t].bump
                                /\ Kill(thr, S)[t].trans = thr[t].trans
BY DEF Shape, Kill, IsThread

\* The function of mod_mark changes marks only.
LEMMA ActionKeeps ==
  ASSUME Shape, Top.si \in StateId, RunAction
  PROVE  /\ si' = [s \in StateId |-> si'[s]]
         /\ \A s \in StateId :
              /\ IsState(si'[s]) /\ si'[s].inst = si[s].inst /\ si'[s].event = si[s].event
              /\ si'[s].env = IF s = Top.si THEN ActionEnv(Top.si) ELSE si[s].env
<1> DEFINE x == Top.si
           y == Top.si
           env == ActionEnv(Top.si)
           mark == MarkOf(Top.si)
           m == MarkOf(y)
           new == si'
           with == [si EXCEPT ![x].env = env, ![x].mark = mark]
<1>0. new = Marked(y, with)
  BY DEF RunAction
<1>a. x \in StateId
  OBVIOUS
<1> HIDE DEF x, y, env, mark, new
<1>1. /\ with = [s \in StateId |-> with[s]]
      /\ \A s \in StateId :
           /\ IsState(with[s]) /\ with[s].inst = si[s].inst /\ with[s].event = si[s].event
           /\ with[s].env = IF s = x THEN env ELSE si[s].env
  BY <1>a DEF Shape, IsState
<1> HIDE DEF with
<1>2. new = with \/ new = [with EXCEPT ![m].extptr = y]
  BY <1>0 DEF Marked
<1> HIDE DEF m
<1>3. CASE new = with
  BY <1>1, <1>3 DEF x, env, new
<1>4. CASE new = [with EXCEPT ![m].extptr = y]
  <2>1. new = [s \in StateId |-> IF s = m THEN [with[s] EXCEPT !.extptr = y] ELSE with[s]]
    BY <1>1, <1>4
  <2>2. \A s \in StateId : /\ IsState([with[s] EXCEPT !.extptr = y])
                           /\ [with[s] EXCEPT !.extptr = y].inst = with[s].inst
                           /\ [with[s] EXCEPT !.extptr = y].event = with[s].event
                           /\ [with[s] EXCEPT !.extptr = y].env = with[s].env
    BY <1>1 DEF IsState
  <2>3. \A s \in StateId : new[s] = IF s = m THEN [with[s] EXCEPT !.extptr = y] ELSE with[s]
    BY <2>1
  <2>4. new = [s \in StateId |-> new[s]]
    BY <2>1, <2>3
  <2>5. ASSUME NEW s \in StateId
        PROVE  /\ IsState(new[s]) /\ new[s].inst = with[s].inst
               /\ new[s].event = with[s].event /\ new[s].env = with[s].env
    <3>1. CASE s = m
      <4>1. new[s] = [with[s] EXCEPT !.extptr = y]
        BY <2>3, <3>1
      <4> QED BY ONLY <2>2, <4>1
    <3>2. CASE s # m
      BY <1>1, <2>3, <3>2
    <3> QED BY <3>1, <3>2
  <2> QED BY <1>1, <2>4, <2>5 DEF x, env, new
<1> QED BY <1>2, <1>3, <1>4

\* The loop over the transitions of the innermost call goes on.
LEMMA AdvanceIs ==
  ASSUME Shape, stack # << >>
  PROVE  /\ Len(stack) \in Nat \ {0} /\ Advance \in Seq([si : StateId, t : Nat])
         /\ Len(Advance) = Len(stack)
         /\ \A j \in DOMAIN stack : /\ Advance[j].si = stack[j].si
                                    /\ j # Len(stack) => Advance[j] = stack[j]
         /\ Advance[Len(stack)].t = Top.t + 1
<1>1. stack \in Seq([si : StateId, t : Nat]) /\ Len(stack) \in Nat \ {0}
  BY EmptySeq, LenProperties DEF Shape
<1>2. stack[Len(stack)] \in [si : StateId, t : Nat]
  <2>1. Len(stack) \in 1 .. Len(stack)
    BY <1>1
  <2> QED BY <1>1, <2>1, ElementOfSeq
<1> DEFINE f == [stack[Len(stack)] EXCEPT !.t = @ + 1]
<1>3. f \in [si : StateId, t : Nat] /\ f.si = stack[Len(stack)].si /\ f.t = Top.t + 1
  BY <1>2 DEF Top
<1>4. Advance = [stack EXCEPT ![Len(stack)] = f]
  BY DEF Advance
<1> HIDE DEF f
<1> QED BY <1>1, <1>3, <1>4, ExceptSeq
\* The head of a queue is one of its threads.
LEMMA HeadIn ==
  ASSUME NEW q, q \in Seq(ThreadId), q # << >>
  PROVE  Head(q) = q[1] /\ Head(q) \in Elems(q) /\ Len(q) \in Nat \ {0} /\ DOMAIN q = 1 .. Len(q)
<1>1. Len(q) \in Nat \ {0} /\ DOMAIN q = 1 .. Len(q)
  BY EmptySeq, LenProperties
<1>2. Head(q) = q[1]
  BY <1>1, HeadTailProperties
<1> QED BY <1>1, <1>2 DEF Elems

\* The head of the queue is a thread that lives in a live instance.
LEMMA HeadLives ==
  ASSUME Inv, cur # << >>
  PROVE  LET t == Head(cur)
         IN  /\ t = cur[1] /\ t \in Threads /\ t \in ThreadId /\ t # NULL
             /\ thr[t].si \in States /\ thr[t].si \in StateId
             /\ InstOf(t) \in Insts /\ InstOf(t) \in InstId
<1> DEFINE t == Head(cur)
<1>1. cur \in Seq(ThreadId)
  BY DEF Inv, Shape
<1>2. t = cur[1] /\ t \in Elems(cur)
  BY <1>1, HeadIn
<1>3. t \in Threads
  BY <1>2 DEF Inv, Queued
<1> HIDE DEF t
<1>4. t \in ThreadId /\ thr[t].si \in States
  BY <1>3 DEF Threads, Inv, Live
<1>5. thr[t].si \in StateId /\ InstOf(t) \in Insts
  BY <1>4 DEF States, InstOf, Inv, Live
<1> QED BY <1>2, <1>3, <1>4, <1>5, NullIsNone DEF Insts, t

-----------------------------------------------------------------------------
(* Steps that allocate and free nothing.                                    *)

SameHeap ==
  /\ \A t \in ThreadId : thr'[t].si = thr[t].si
  /\ \A s \in StateId : si'[s].inst = si[s].inst /\ si'[s].event = si[s].event
  /\ \A i \in InstId : /\ ri'[i].rule = ri[i].rule /\ ri'[i].threads = ri[i].threads
                        /\ ri'[i].linked = ri[i].linked
  /\ evt' = evt /\ active_event_cur' = active_event_cur
  /\ ctx'.threads = ctx.threads /\ ctx'.active_events = ctx.active_events

\* A step that changes no pointer and no counter of the heap keeps what is said of them.
LEMMA HeapStays ==
  ASSUME Inv, SameHeap
  PROVE  /\ Threads' = Threads /\ States' = States /\ Insts' = Insts
         /\ \A i : ThreadsOf(i)' = ThreadsOf(i)
         /\ \A s \in States : si'[s].inst = si[s].inst /\ si[s].inst \in InstId
         /\ Live' /\ ThreadsCounted' /\ ((pc' = "idle" <=> pc = "idle") => Referred')
<1>1. Threads' = Threads
  BY DEF SameHeap, Threads
<1>2. States' = States
  BY DEF SameHeap, States
<1>3. Insts' = Insts
  BY DEF SameHeap, Insts
<1>4. \A t \in Threads : t \in ThreadId /\ thr[t].si \in States /\ thr[t].si \in StateId
  BY DEF Inv, Live, Threads, States
<1>5. \A t \in Threads : InstOf(t)' = InstOf(t)
  BY <1>4 DEF InstOf, SameHeap
<1>6. \A i : ThreadsOf(i)' = ThreadsOf(i)
  BY <1>1, <1>5 DEF ThreadsOf
<1>7. \A s \in States : si'[s].inst = si[s].inst /\ si[s].inst \in Insts
  BY DEF SameHeap, States, Inv, Live
<1>8. Live'
  <2>1. \A t \in Threads : thr'[t].si \in States'
    BY <1>2, <1>4 DEF SameHeap
  <2> QED BY <1>1, <1>2, <1>3, <1>7, <2>1 DEF Live
<1>9. ThreadsCounted'
  <2>1. \A i \in Insts : ri'[i].threads = ri[i].threads
    BY DEF SameHeap, Insts
  <2> QED BY <1>1, <1>3, <1>6, <2>1 DEF ThreadsCounted, Inv, Counted, SameHeap
<1>10. ASSUME pc' = "idle" <=> pc = "idle" PROVE Referred'
  <2>1. \A e : Refs(e)' = Refs(e)
    BY DEF Refs, SameHeap
  <2> QED BY <1>10, <2>1 DEF Referred, Inv, SameHeap
<1> QED BY <1>1, <1>2, <1>3, <1>6, <1>7, <1>8, <1>9, <1>10 DEF Insts

SameQueues == UNCHANGED << cur, retrig, newq, cur_retrig_qh, current_tail >>

\* A step that leaves the queues and the live threads alone keeps what is said of the queues.
LEMMA QueuesStay == ASSUME Inv, Threads' = Threads, SameQueues PROVE Queued' /\ Pointers'
<1>1. /\ cur' = cur /\ retrig' = retrig /\ newq' = newq
      /\ cur_retrig_qh' = cur_retrig_qh /\ current_tail' = current_tail
  BY DEF SameQueues
<1>2. Queued'
  BY SMTT(60), <1>1 DEF Inv, Queued, Elems, Distinct, Disjoint
<1>3. Pointers'
  BY <1>1 DEF Inv, Pointers
<1> QED BY <1>2, <1>3

\* A step of the simulation that allocates and frees nothing.
LEMMA SimulationStays ==
  ASSUME Inv, SameHeap, SameQueues, pc = "simul", pc' \in {"simul", "ret"},
         UNCHANGED << phase, subject >>,
         \A j \in DOMAIN stack' : \E m \in DOMAIN stack : stack'[j].si = stack[m].si,
         pc' = "simul" => stack' # << >> /\ created' = created,
         pc' = "ret" => (ret' \in Int /\ ret' <= 0) \/ ret' = created
  PROVE  Live' /\ Queued' /\ Pointers' /\ Counted' /\ Referred' /\ Control' /\ Initial'
<1>1. /\ Threads' = Threads /\ States' = States /\ Insts' = Insts
      /\ \A i : ThreadsOf(i)' = ThreadsOf(i)
      /\ \A s \in States : si'[s].inst = si[s].inst
      /\ Live' /\ ThreadsCounted' /\ Referred'
  BY HeapStays
<1>2. phase \in {"init", "loop"} /\ subject \in States /\ Subject' = Subject
  BY <1>1 DEF Inv, Control, Subject
<1>3. Control'
  <2>1. \A j \in DOMAIN stack' : stack'[j].si \in States' /\ si'[stack'[j].si].inst = Subject'
    BY <1>1, <1>2 DEF Inv, Control
  <2> QED BY <1>1, <1>2, <2>1 DEF Control, SameQueues, Inv
<1>4. Initial'
  <2>1. \A i \in Insts : ri'[i].linked = ri[i].linked
    BY DEF SameHeap, Insts
  <2> QED BY <1>1, <1>2, <2>1 DEF Initial, Inv, SameQueues
<1>5. Counted'
  <2>1. phase = "init" => created = Cardinality(ThreadsOf(Subject)) /\ created \in Nat
    BY DEF Inv, Counted, Shape
  <2>2. phase' = "init" /\ pc' = "simul" => created' = Cardinality(ThreadsOf(Subject)')
    BY <1>1, <1>2, <2>1
  <2>3. phase' = "init" /\ pc' = "ret" /\ ret' > 0 => ret' = Cardinality(ThreadsOf(Subject)')
    BY <1>1, <1>2, <2>1
  <2> QED BY <1>1, <2>2, <2>3 DEF Counted
<1> QED BY <1>1, <1>3, <1>4, <1>5, QueuesStay

\* The part of Shape about the heap.
HeapShape ==
  /\ thr = [t \in ThreadId |-> thr[t]]
  /\ \A t \in ThreadId : IsThread(thr[t]) /\ thr[t].si \in {NULL} \cup StateId
  /\ si = [s \in StateId |-> si[s]]
  /\ \A s \in StateId :
       /\ IsState(si[s]) /\ si[s].inst \in {NULL} \cup InstId
       /\ si[s].event \in {NULL} \cup EventId
       /\ si[s].inst = NULL => si[s].event = NULL
  /\ ri = [i \in InstId |-> ri[i]]
  /\ \A i \in InstId : IsInst(ri[i]) /\ ri[i].threads \in Nat
  /\ evt = [e \in EventId |-> evt[e]]
  /\ \A e \in EventId :
       /\ IsEvent(evt[e]) /\ evt[e].refs \in Nat
       /\ evt[e].status \in {"free", "current", "active"}

\* A condition that is false only advances the loop over the transitions.
LEMMA SkipStep == ASSUME Inv, SkipETransition PROVE Inv'
<1>1. /\ UNCHANGED << heap, ctx, active_event_cur >> /\ SameQueues /\ stack' = Advance
      /\ UNCHANGED << pc, phase, created, ret, subject, rulePos >> /\ pc = "simul"
  BY DEF SkipETransition, AtTransition, queue, stats, SameQueues
<1>2. SameHeap
  BY <1>1 DEF SameHeap, heap
<1>3. /\ stack # << >> /\ stack' \in Seq([si : StateId, t : Nat]) /\ Len(stack') = Len(stack)
      /\ stack \in Seq([si : StateId, t : Nat]) /\ Len(stack) \in Nat \ {0}
      /\ \A j \in DOMAIN stack : stack'[j].si = stack[j].si
  BY <1>1, AdvanceIs DEF Inv, Shape, Control
<1>4. DOMAIN stack' = DOMAIN stack /\ stack' # << >>
  BY <1>3, LenProperties, EmptySeq
<1>5. Shape'
  BY <1>1, <1>3 DEF Inv, Shape, heap, SameQueues
<1> QED BY <1>1, <1>2, <1>3, <1>4, <1>5, SimulationStays DEF Inv

\* The return from a call of simulate_state_and_create_threads() keeps the invariant.
LEMMA ReturnStep == ASSUME Inv, ReturnFromSimulate PROVE Inv'
<1>1. /\ UNCHANGED << heap, ctx, active_event_cur >> /\ SameQueues
      /\ stack' = SubSeq(stack, 1, Len(stack) - 1)
      /\ UNCHANGED << phase, created, subject, rulePos >> /\ pc = "simul"
      /\ IF Len(stack) = 1 THEN pc' = "ret" /\ ret' = created ELSE pc' = pc /\ ret' = ret
  BY DEF ReturnFromSimulate, queue, stats, SameQueues
<1>2. SameHeap
  BY <1>1 DEF SameHeap, heap
<1>3. /\ stack \in Seq([si : StateId, t : Nat]) /\ Len(stack) \in Nat \ {0}
      /\ created \in Nat /\ ret \in Int
  BY <1>1, AdvanceIs DEF Inv, Shape, Control
<1>4. /\ stack' \in Seq([si : StateId, t : Nat]) /\ Len(stack') = Len(stack) - 1
      /\ \A j \in 1 .. Len(stack) - 1 : stack'[j] = stack[j]
  <2> DEFINE n == Len(stack) - 1
             S == [si : StateId, t : Nat]
  <2>0. stack \in Seq(S) /\ n \in Int /\ n < Len(stack)
    BY <1>3
  <2> HIDE DEF n, S
  <2>1. \A j \in 1 .. n : stack[j] \in S
    BY <2>0, <1>3, ElementOfSeq
  <2>2. /\ SubSeq(stack, 1, n) \in Seq(S) /\ Len(SubSeq(stack, 1, n)) = IF 1 <= n THEN n - 1 + 1 ELSE 0
        /\ \A j \in 1 .. n - 1 + 1 : SubSeq(stack, 1, n)[j] = stack[1 + j - 1]
    BY <2>0, <2>1, SubSeqProperties
  <2>3. n \in Nat /\ n = Len(stack) - 1
    BY <1>3 DEF n
  <2>4. \A j \in 1 .. n : SubSeq(stack, 1, n)[j] = stack[j]
    BY <2>2, <2>3
  <2>5. stack' = SubSeq(stack, 1, n) /\ Len(SubSeq(stack, 1, n)) = n
    <3>1. stack' = SubSeq(stack, 1, n)
      BY <1>1 DEF n
    <3> QED BY <2>2, <2>3, <3>1
  <2>6. stack' \in Seq(S) /\ Len(stack') = n /\ \A j \in 1 .. n : stack'[j] = stack[j]
    BY <2>2, <2>4, <2>5
  <2> QED BY <2>6 DEF n, S
<1>5. \A j \in DOMAIN stack' : j \in DOMAIN stack /\ stack'[j] = stack[j]
  BY SMTT(60), <1>3, <1>4, LenProperties
<1>6. Len(stack) # 1 => stack' # << >>
  BY <1>3, <1>4, EmptySeq
<1>7. Shape'
  BY <1>1, <1>3, <1>4 DEF Inv, Shape, heap, SameQueues
<1> QED BY <1>1, <1>2, <1>3, <1>5, <1>6, <1>7, SimulationStays DEF Inv

\* What is written when a state is entered, whatever follows.
LEMMA EnteringKeeps ==
  ASSUME Inv, Entering, RunAction, NEW S, thr' = Kill(thr, S)
  PROVE  /\ Top.si \in States /\ Top.si \in StateId /\ si[Top.si].inst = Subject
         /\ Subject \in Insts /\ Subject \in InstId
         /\ thr' = [t \in ThreadId |-> thr'[t]]
         /\ \A t \in ThreadId : IsThread(thr'[t]) /\ thr'[t].si = thr[t].si
         /\ si' = [s \in StateId |-> si'[s]]
         /\ \A s \in StateId : /\ IsState(si'[s]) /\ si'[s].inst = si[s].inst
                               /\ si'[s].event = si[s].event
<1>1. /\ stack # << >> /\ stack \in Seq([si : StateId, t : Nat]) /\ Len(stack) \in Nat \ {0}
  BY AdvanceIs DEF Inv, Shape, Control, Entering
<1>2. Len(stack) \in DOMAIN stack
  BY <1>1, LenProperties
<1>3. Top.si \in States /\ si[Top.si].inst = Subject
  BY <1>2 DEF Inv, Control, Top
<1>4. Top.si \in StateId /\ Subject \in Insts /\ Subject \in InstId
  BY <1>3 DEF States, Inv, Live, Insts
<1>5. /\ si' = [s \in StateId |-> si'[s]]
      /\ \A s \in StateId : /\ IsState(si'[s]) /\ si'[s].inst = si[s].inst
                            /\ si'[s].event = si[s].event
  BY <1>4, ActionKeeps DEF Inv
<1>6. /\ thr' = [t \in ThreadId |-> thr'[t]]
      /\ \A t \in ThreadId : IsThread(thr'[t]) /\ thr'[t].si = thr[t].si
  BY KillKeeps DEF Inv
<1> QED BY <1>3, <1>4, <1>5, <1>6

\* The call ends here, and with it all its callers.
LEMMA UnwindStep ==
  ASSUME Inv, Entering, RunAction, NEW S, thr' = Kill(thr, S), Unwind,
         ri' = [i \in InstId |-> ri'[i]],
         \A i \in InstId : /\ IsInst(ri'[i]) /\ ri'[i].rule = ri[i].rule
                           /\ ri'[i].threads = ri[i].threads /\ ri'[i].linked = ri[i].linked,
         UNCHANGED << evt, queue, stats, active_event_cur, rulePos >>
  PROVE  Inv'
<1>1. /\ evt' = evt /\ ctx' = ctx /\ active_event_cur' = active_event_cur /\ rulePos' = rulePos
      /\ SameQueues /\ pc = "simul" /\ stack' = << >> /\ pc' = "ret" /\ ret' = -(created + 1)
      /\ UNCHANGED << phase, created, subject >>
  BY DEF Unwind, queue, stats, SameQueues, Entering
<1>2. SameHeap
  BY <1>1, EnteringKeeps DEF SameHeap
<1>3. created \in Nat /\ ret' \in Int /\ ret' <= 0
  BY <1>1 DEF Inv, Shape
<1>4. << >> \in Seq([si : StateId, t : Nat]) /\ DOMAIN << >> = {}
  OBVIOUS
<1>5. HeapShape'
  BY <1>1, EnteringKeeps DEF Inv, Shape, HeapShape
<1>6. Shape'
  BY <1>1, <1>3, <1>4, <1>5 DEF Inv, Shape, HeapShape, SameQueues
<1> QED BY <1>1, <1>2, <1>3, <1>4, <1>6, SimulationStays DEF Inv

\* Entering a terminal state marks threads and frees nothing.
LEMMA TerminalStep == ASSUME Inv, EnterTerminalState PROVE Inv'
<1> DEFINE i == si[Top.si].inst
<1>1. PICK S : thr' = Kill(thr, S)
  BY DEF EnterTerminalState
<1>2. ri' = [ri EXCEPT ![i].killed = TRUE]
  BY DEF EnterTerminalState
<1>3. /\ ri' = [j \in InstId |-> ri'[j]]
      /\ \A j \in InstId : /\ IsInst(ri'[j]) /\ ri'[j].rule = ri[j].rule
                           /\ ri'[j].threads = ri[j].threads /\ ri'[j].linked = ri[j].linked
  <2> HIDE DEF i
  <2> QED BY <1>2 DEF Inv, Shape, IsInst
<1> QED BY <1>1, <1>3, UnwindStep DEF EnterTerminalState

\* A run that is locked out ends with nothing allocated or freed.
LEMMA PruneStep == ASSUME Inv, PruneState PROVE Inv'
<1>1. PICK S : thr' = Kill(thr, S)
  BY DEF PruneState
<1>2. /\ ri' = [j \in InstId |-> ri'[j]]
      /\ \A j \in InstId : /\ IsInst(ri'[j]) /\ ri'[j].rule = ri[j].rule
                           /\ ri'[j].threads = ri[j].threads /\ ri'[j].linked = ri[j].linked
  BY DEF Inv, Shape, PruneState
<1> QED BY <1>1, <1>2, UnwindStep DEF PruneState

\* Entering a state, with or without taking the lock, keeps the invariant.
LEMMA EnterStep == ASSUME Inv, EnterState PROVE Inv'
<1>1. PICK S : thr' = Kill(thr, S)
  BY SMTT(60) DEF EnterState
<1>2. /\ Entering /\ RunAction /\ evt' = evt /\ ctx' = ctx /\ active_event_cur' = active_event_cur
      /\ SameQueues /\ pc = "simul" /\ stack' = Advance
      /\ UNCHANGED << pc, phase, created, ret, subject, rulePos >>
      /\ \/ ri' = ri
         \/ ri' = [ri EXCEPT ![si[Top.si].inst].locks = @ \cup {Top.si}]
  BY DEF EnterState, queue, stats, SameQueues, Entering
<1>3. /\ ri' = [j \in InstId |-> ri'[j]]
      /\ \A j \in InstId : /\ IsInst(ri'[j]) /\ ri'[j].rule = ri[j].rule
                           /\ ri'[j].threads = ri[j].threads /\ ri'[j].linked = ri[j].linked
  <2>1. CASE ri' = ri
    BY <2>1 DEF Inv, Shape
  <2>2. CASE ri' = [ri EXCEPT ![si[Top.si].inst].locks = @ \cup {Top.si}]
    BY <2>2 DEF Inv, Shape, IsInst
  <2> QED BY <1>2, <2>1, <2>2
<1>4. SameHeap
  BY <1>1, <1>2, <1>3, EnteringKeeps DEF SameHeap
<1>5. /\ stack # << >> /\ stack' \in Seq([si : StateId, t : Nat]) /\ Len(stack') = Len(stack)
      /\ stack \in Seq([si : StateId, t : Nat]) /\ Len(stack) \in Nat \ {0}
      /\ \A j \in DOMAIN stack : stack'[j].si = stack[j].si
  BY <1>2, AdvanceIs DEF Inv, Shape, Control
<1>6. DOMAIN stack' = DOMAIN stack /\ stack' # << >>
  BY <1>5, LenProperties, EmptySeq
<1>7. HeapShape'
  BY <1>1, <1>2, <1>3, EnteringKeeps DEF Inv, Shape, HeapShape
<1>8. Shape'
  BY <1>2, <1>5, <1>7 DEF Inv, Shape, HeapShape, SameQueues
<1> QED BY <1>2, <1>4, <1>5, <1>6, <1>8, SimulationStays DEF Inv

-----------------------------------------------------------------------------
(* Steps that allocate.                                                     *)

\* What is written for the child of a state instance.
LEMMA ChildIs ==
  ASSUME Shape, NEW s \in States, States # StateId, NEW dest, NEW e, si' = WithChild(s, dest, e)
  PROVE  /\ si' = [x \in StateId |-> si'[x]]
         /\ \A x \in StateId :
              /\ IsState(si'[x])
              /\ si'[x].inst = IF x = FreeState THEN si[s].inst ELSE si[x].inst
              /\ si'[x].event = IF x = FreeState THEN e ELSE si[x].event
              /\ si'[x].env = IF x = FreeState THEN si[s].env ELSE si[x].env
<1> DEFINE f == FreeState
           child == ChildOf(s, dest, e)
           new == si'
<1>1. f \in StateId /\ f # s /\ s \in StateId
  BY MallocState DEF States
<1>2. IsState(child) /\ child.inst = si[s].inst /\ child.event = e /\ child.env = si[s].env
  BY DEF ChildOf, NullState, IsState
<1>3. new = [si EXCEPT ![f] = child, ![s].first_child = f]
  BY DEF WithChild
<1> HIDE DEF f, child, new
<1>4. new = [x \in StateId |-> IF x = s THEN [si[x] EXCEPT !.first_child = f]
                               ELSE IF x = f THEN child ELSE si[x]]
  BY <1>1, <1>3 DEF Shape
<1>5. \A x \in StateId : /\ IsState([si[x] EXCEPT !.first_child = f])
                         /\ [si[x] EXCEPT !.first_child = f].inst = si[x].inst
                         /\ [si[x] EXCEPT !.first_child = f].event = si[x].event
                         /\ [si[x] EXCEPT !.first_child = f].env = si[x].env
  BY DEF Shape, IsState
<1>6. \A x \in StateId : new[x] = IF x = s THEN [si[x] EXCEPT !.first_child = f]
                                  ELSE IF x = f THEN child ELSE si[x]
  BY <1>4
<1>7. new = [x \in StateId |-> new[x]]
  BY <1>4
<1>8. ASSUME NEW x \in StateId
      PROVE  /\ IsState(new[x]) /\ new[x].inst = IF x = f THEN si[s].inst ELSE si[x].inst
             /\ new[x].event = IF x = f THEN e ELSE si[x].event
             /\ new[x].env = IF x = f THEN si[s].env ELSE si[x].env
  <2>1. CASE x = s
    <3>1. new[x] = [si[x] EXCEPT !.first_child = f]
      BY <1>6, <2>1
    <3> QED BY ONLY <1>1, <1>5, <2>1, <3>1
  <2>2. CASE x = f
    BY <1>1, <1>2, <1>6, <2>2
  <2>3. CASE x # s /\ x # f
    <3>1. new[x] = si[x]
      BY <1>6, <2>3
    <3> QED BY <2>3, <3>1 DEF Shape
  <2> QED BY <2>1, <2>2, <2>3
<1> QED BY <1>7, <1>8 DEF f, new

\* The state instance f is created, in the rule instance i and for the event e.
NewState(f, i, e) ==
  /\ si' = [x \in StateId |-> si'[x]]
  /\ \A x \in StateId : /\ IsState(si'[x])
                        /\ si'[x].inst = IF x = f THEN i ELSE si[x].inst
                        /\ si'[x].event = IF x = f THEN e ELSE si[x].event

\* What becomes of the sets.
LEMMA OneStateMore ==
  ASSUME Inv, NEW f \in StateId, si[f].inst = NULL, NEW i \in InstId, NEW e,
         NewState(f, i, e), thr' = thr, i \in Insts', Insts \subseteq Insts'
  PROVE  /\ States' = States \cup {f} /\ f \notin States /\ Threads' = Threads /\ Live'
         /\ \A s \in States : si'[s].inst = si[s].inst
         /\ \A j : ThreadsOf(j)' = ThreadsOf(j)
         /\ \A d \in EventId : Refs(d)' = IF d = e THEN Refs(d) \cup {f} ELSE Refs(d)
         /\ \A d \in EventId : f \notin Refs(d)
<1>1. f \notin States /\ i # NULL
  BY NullIsNone DEF States
<1>2. States' = States \cup {f}
  BY <1>1 DEF States, NewState
<1>3. Threads' = Threads
  BY DEF Threads
<1>4. \A s \in States : s \in StateId /\ s # f /\ si'[s].inst = si[s].inst
  BY <1>1 DEF States, NewState
<1>5. \A t \in Threads : thr[t].si \in States /\ InstOf(t)' = InstOf(t)
  BY <1>4 DEF Inv, Live, InstOf
<1>6. \A j : ThreadsOf(j)' = ThreadsOf(j)
  BY <1>3, <1>5 DEF ThreadsOf
<1>7. Live'
  <2>1. si'[f].inst = i
    BY DEF NewState
  <2> QED BY <1>2, <1>3, <1>4, <1>5, <2>1 DEF Live, Inv
<1>8. si[f].event = NULL
  BY DEF Inv, Shape
<1>9. \A d \in EventId : f \notin Refs(d) /\ (Refs(d)' = IF d = e THEN Refs(d) \cup {f} ELSE Refs(d))
  BY <1>8, NullIsNone DEF Refs, NewState
<1> QED BY <1>1, <1>2, <1>3, <1>4, <1>6, <1>7, <1>9

\* The child of an e-transition belongs to the instance that is simulated.
LEMMA PassStep == ASSUME Inv, PassETransition PROVE Inv'
<1> DEFINE f == FreeState
           s == Top.si
           dest == TopTrans[Top.t].dest
<1>1. /\ stack # << >> /\ stack \in Seq([si : StateId, t : Nat]) /\ Len(stack) \in Nat \ {0}
      /\ Advance \in Seq([si : StateId, t : Nat]) /\ Len(Advance) = Len(stack)
      /\ \A j \in DOMAIN stack : Advance[j].si = stack[j].si
  BY AdvanceIs DEF Inv, Shape, Control, PassETransition, AtTransition
<1>2. s \in States /\ si[s].inst = Subject /\ Subject \in Insts /\ Subject \in InstId
  BY <1>1, LenProperties DEF Inv, Control, Top, Live, Insts
<1>3. f \in StateId /\ f \notin States /\ si[f].inst = NULL
  BY MallocState DEF PassETransition
<1>4. /\ pc = "simul" /\ si' = WithChild(s, dest, NULL) /\ States # StateId
      /\ ctx' = [ctx EXCEPT !.state_instances = @ + 1]
      /\ stack' = Append(Advance, [si |-> f, t |-> 0])
      /\ UNCHANGED << thr, ri, evt, active_event_cur, rulePos, pc, phase, created, ret, subject >>
      /\ SameQueues
  BY DEF PassETransition, AtTransition, queue, SameQueues
<1> HIDE DEF f, s, dest
<1>5. NewState(f, Subject, NULL)
  BY <1>2, <1>4, ChildIs DEF Inv, f, NewState
<1>6. Insts' = Insts
  BY <1>4 DEF Insts
<1>7. /\ States' = States \cup {f} /\ Threads' = Threads /\ Live'
      /\ \A x \in States : si'[x].inst = si[x].inst
      /\ \A j : ThreadsOf(j)' = ThreadsOf(j)
      /\ \A d \in EventId : Refs(d)' = Refs(d)
  <2>1. \A d \in EventId : d # NULL
    BY NullIsNone
  <2> QED BY <1>2, <1>3, <1>4, <1>5, <1>6, <2>1, OneStateMore
<1>8. IsCtx(ctx') /\ ctx'.threads = ctx.threads /\ ctx'.active_events = ctx.active_events
  <2>1. IsCtx(ctx)
    BY DEF Inv, Shape
  <2> QED BY <1>4, <2>1 DEF IsCtx
<1>9. /\ stack' \in Seq([si : StateId, t : Nat]) /\ stack' # << >> /\ Len(stack') = Len(stack) + 1
      /\ \A j \in 1 .. Len(stack) : stack'[j].si = stack[j].si
      /\ stack'[Len(stack) + 1].si = f
  <2> DEFINE fr == [si |-> f, t |-> 0]
             S == [si : StateId, t : Nat]
  <2>1. fr \in S /\ fr.si = f
    BY <1>3
  <2>2. Advance \in Seq(S) /\ stack' = Append(Advance, fr)
    BY <1>1, <1>4
  <2> HIDE DEF fr, S
  <2>3. /\ stack' \in Seq(S) /\ stack' # << >> /\ Len(stack') = Len(Advance) + 1
        /\ \A j \in 1 .. Len(Advance) : stack'[j] = Advance[j]
        /\ stack'[Len(Advance) + 1] = fr
    BY <2>1, <2>2, AppendProperties
  <2> QED BY <1>1, <2>1, <2>3, LenProperties DEF S
<1>10. Subject' = Subject /\ subject \in States
  BY <1>4, <1>7 DEF Subject, Inv, Control
<1>11. Control'
  <2>1. \A j \in DOMAIN stack' : j \in 1 .. Len(stack) \/ j = Len(stack) + 1
    BY <1>1, <1>9, LenProperties
  <2>2. \A j \in 1 .. Len(stack) : stack[j].si \in States /\ si[stack[j].si].inst = Subject
    BY <1>1, LenProperties DEF Inv, Control
  <2>3. si'[f].inst = Subject
    BY <1>3, <1>5 DEF NewState
  <2>4. \A j \in DOMAIN stack' : stack'[j].si \in States' /\ si'[stack'[j].si].inst = Subject'
    BY <1>7, <1>9, <1>10, <2>1, <2>2, <2>3
  <2> QED BY <1>4, <1>7, <1>9, <1>10, <2>4 DEF Control, Inv, SameQueues
<1>12. HeapShape'
  BY <1>2, <1>4, <1>5 DEF HeapShape, Inv, Shape, NewState
<1>13. Shape'
  BY <1>4, <1>8, <1>9, <1>12 DEF HeapShape, Inv, Shape, SameQueues
<1>14. Counted'
  BY <1>4, <1>6, <1>7, <1>8, <1>10 DEF Inv, Counted, ThreadsCounted
<1>15. Referred'
  BY <1>4, <1>7, <1>8 DEF Inv, Referred
<1>16. Initial'
  BY <1>4, <1>6, <1>10 DEF Inv, Initial, SameQueues
<1>17. Queued' /\ Pointers'
  BY <1>4, <1>7, QueuesStay
<1> QED BY <1>7, <1>11, <1>13, <1>14, <1>15, <1>16, <1>17 DEF Inv

-----------------------------------------------------------------------------
(* The queues.                                                              *)

\* A queue that a thread is appended to.
LEMMA AppendTo ==
  ASSUME NEW q \in Seq(ThreadId), NEW t \in ThreadId, t \notin Elems(q), Distinct(q)
  PROVE  /\ Append(q, t) \in Seq(ThreadId) /\ Elems(Append(q, t)) = Elems(q) \cup {t}
         /\ Distinct(Append(q, t)) /\ Len(Append(q, t)) = Len(q) + 1
<1> DEFINE p == Append(q, t)
<1>1. /\ p \in Seq(ThreadId) /\ Len(p) = Len(q) + 1 /\ p[Len(q) + 1] = t
      /\ \A n \in 1 .. Len(q) : p[n] = q[n]
  BY AppendProperties
<1>2. Len(q) \in Nat /\ DOMAIN q = 1 .. Len(q) /\ DOMAIN p = 1 .. Len(q) + 1
  BY <1>1, LenProperties
<1> HIDE DEF p
<1>3. \A n \in DOMAIN p : n \in DOMAIN q \/ n = Len(q) + 1
  BY <1>2
<1>4. \A n \in DOMAIN q : n \in DOMAIN p /\ p[n] = q[n] /\ q[n] # t
  BY <1>1, <1>2 DEF Elems
<1>5. Elems(p) = Elems(q) \cup {t}
  <2>1. Len(q) + 1 \in DOMAIN p
    BY <1>2
  <2> QED BY <1>1, <1>3, <1>4, <2>1 DEF Elems
<1>6. Distinct(p)
  BY <1>1, <1>3, <1>4 DEF Distinct
<1> QED BY <1>1, <1>5, <1>6 DEF p

\* Two queues without a common thread are concatenated to a queue of both.
LEMMA Joined ==
  ASSUME NEW p \in Seq(ThreadId), NEW q \in Seq(ThreadId),
         Disjoint(p, q), Distinct(p), Distinct(q)
  PROVE  /\ p \o q \in Seq(ThreadId) /\ Elems(p \o q) = Elems(p) \cup Elems(q)
         /\ Distinct(p \o q) /\ Len(p \o q) = Len(p) + Len(q)
<1> DEFINE c == p \o q
<1>1. /\ c \in Seq(ThreadId) /\ Len(c) = Len(p) + Len(q)
      /\ \A n \in 1 .. Len(p) + Len(q) : c[n] = IF n <= Len(p) THEN p[n] ELSE q[n - Len(p)]
  BY ConcatProperties
<1>2. /\ Len(p) \in Nat /\ Len(q) \in Nat /\ DOMAIN p = 1 .. Len(p) /\ DOMAIN q = 1 .. Len(q)
      /\ DOMAIN c = 1 .. Len(p) + Len(q)
  BY <1>1, LenProperties
<1> HIDE DEF c
<1>3. \A n \in DOMAIN c : \/ n \in DOMAIN p /\ c[n] = p[n]
                          \/ n > Len(p) /\ n - Len(p) \in DOMAIN q /\ c[n] = q[n - Len(p)]
  BY <1>1, <1>2
<1>4. /\ \A n \in DOMAIN p : n \in DOMAIN c /\ c[n] = p[n]
      /\ \A n \in DOMAIN q : n + Len(p) \in DOMAIN c /\ c[n + Len(p)] = q[n]
  BY <1>1, <1>2
<1>5. Elems(c) = Elems(p) \cup Elems(q)
  BY <1>3, <1>4 DEF Elems
<1>6. \A m \in DOMAIN p, n \in DOMAIN q : p[m] # q[n]
  BY DEF Disjoint, Elems
<1>7. Distinct(c)
  <2> SUFFICES ASSUME NEW m \in DOMAIN c, NEW n \in DOMAIN c, c[m] = c[n]
               PROVE  m = n
    BY DEF Distinct
  <2>1. CASE m \in DOMAIN p /\ c[m] = p[m] /\ n \in DOMAIN p /\ c[n] = p[n]
    BY <2>1 DEF Distinct
  <2>2. CASE /\ m - Len(p) \in DOMAIN q /\ c[m] = q[m - Len(p)]
             /\ n - Len(p) \in DOMAIN q /\ c[n] = q[n - Len(p)]
    <3>1. m - Len(p) = n - Len(p)
      BY <2>2 DEF Distinct
    <3> QED BY <1>2, <3>1
  <2>3. CASE /\ m \in DOMAIN p /\ c[m] = p[m]
             /\ n - Len(p) \in DOMAIN q /\ c[n] = q[n - Len(p)]
    BY <1>6, <2>3
  <2>4. CASE /\ n \in DOMAIN p /\ c[n] = p[n]
             /\ m - Len(p) \in DOMAIN q /\ c[m] = q[m - Len(p)]
    BY <1>6, <2>4
  <2> QED BY <1>3, <2>1, <2>2, <2>3, <2>4
<1> QED BY <1>1, <1>5, <1>7 DEF c

\* A queue without its head has the other threads, in their order.
LEMMA TailOf ==
  ASSUME NEW q \in Seq(ThreadId), q # << >>, Distinct(q)
  PROVE  /\ Tail(q) \in Seq(ThreadId) /\ Elems(Tail(q)) = Elems(q) \ {Head(q)}
         /\ Distinct(Tail(q)) /\ Len(Tail(q)) = Len(q) - 1 /\ Len(q) \in Nat \ {0}
         /\ Head(q) \in ThreadId /\ Head(q) \in Elems(q)
<1> DEFINE p == Tail(q)
           h == Head(q)
<1>1. /\ p \in Seq(ThreadId) /\ Len(p) = Len(q) - 1
      /\ \A n \in 1 .. Len(p) : p[n] = q[n + 1]
  BY HeadTailProperties
<1>2. /\ h = q[1] /\ h \in Elems(q) /\ Len(q) \in Nat \ {0}
      /\ DOMAIN q = 1 .. Len(q) /\ DOMAIN p = 1 .. Len(q) - 1
  BY <1>1, HeadIn, LenProperties
<1>3. h \in ThreadId
  BY HeadTailProperties
<1> HIDE DEF p, h
<1>4. \A n \in DOMAIN p : n + 1 \in DOMAIN q /\ n + 1 # 1 /\ p[n] = q[n + 1]
  BY <1>1, <1>2
<1>5. \A n \in DOMAIN q : n # 1 => n - 1 \in DOMAIN p /\ p[n - 1] = q[n]
  <2>1. ASSUME NEW n \in DOMAIN q, n # 1
        PROVE  n - 1 \in DOMAIN p /\ p[n - 1] = q[n]
    <3>1. n - 1 \in DOMAIN p /\ (n - 1) + 1 = n
      BY <1>2, <2>1
    <3>2. p[n - 1] = q[(n - 1) + 1]
      BY <1>4, <3>1
    <3> QED BY <3>1, <3>2
  <2> QED BY <2>1
<1>6. 1 \in DOMAIN q
  BY <1>2
<1>7. Elems(p) = Elems(q) \ {h}
  <2>1. \A n \in DOMAIN q : n # 1 => q[n] # h
    BY <1>2, <1>6 DEF Distinct
  <2>2. \A n \in DOMAIN p : p[n] \in Elems(q) /\ p[n] # h
    BY <1>4, <2>1 DEF Elems
  <2>3. ASSUME NEW x \in Elems(q), x # h
        PROVE  x \in Elems(p)
    <3>1. PICK n \in DOMAIN q : x = q[n]
      BY DEF Elems
    <3>2. n # 1
      BY <1>2, <2>3, <3>1
    <3> QED BY <1>5, <3>1, <3>2 DEF Elems
  <2>4. \A x \in Elems(p) : x \in Elems(q) /\ x # h
    BY <2>2 DEF Elems
  <2> QED BY <2>3, <2>4
<1>8. Distinct(p)
  <2> SUFFICES ASSUME NEW m \in DOMAIN p, NEW n \in DOMAIN p, p[m] = p[n]
               PROVE  m = n
    BY DEF Distinct
  <2>1. m + 1 = n + 1
    BY <1>4 DEF Distinct
  <2> QED BY <1>2, <2>1
<1> QED BY <1>1, <1>2, <1>3, <1>7, <1>8 DEF p, h

-----------------------------------------------------------------------------
(* The thread of a blocking transition.                                     *)

\* A new thread is in the new queue, and is counted.
LEMMA CreateThreadStep == ASSUME Inv, CreateThread PROVE Inv'
<1>a. PICK f : f = FreeThread
  OBVIOUS
<1>b. PICK s : s = Top.si
  OBVIOUS
<1>c. PICK th : th = NewThread
  OBVIOUS
<1>1. /\ stack # << >> /\ stack \in Seq([si : StateId, t : Nat]) /\ Len(stack) \in Nat \ {0}
      /\ stack' \in Seq([si : StateId, t : Nat]) /\ Len(stack') = Len(stack) /\ stack' # << >>
      /\ DOMAIN stack' = DOMAIN stack
      /\ \A j \in DOMAIN stack : stack'[j].si = stack[j].si
  <2>1. stack # << >> /\ stack' = Advance
    BY DEF CreateThread, AtTransition, Inv, Control
  <2> QED BY <2>1, AdvanceIs, LenProperties, EmptySeq DEF Inv, Shape
<1>2. s \in States /\ s \in StateId /\ si[s].inst = Subject /\ Subject \in Insts /\ Subject \in InstId
  BY <1>b, <1>1, LenProperties DEF Inv, Control, Top, Live, Insts, States
<1>3. f \in ThreadId /\ f \notin Threads /\ thr[f].si = NULL
  BY <1>a, MallocThread DEF CreateThread
<1>4. IsThread(th) /\ th.si = s
  BY <1>b, <1>c DEF NewThread, IsThread
<1>5. /\ pc = "simul" /\ thr' = [thr EXCEPT ![f] = th] /\ newq' = Append(newq, f)
      /\ ri' = [ri EXCEPT ![si[s].inst].threads = @ + 1]
      /\ ctx' = [ctx EXCEPT !.threads = @ + 1] /\ created' = created + 1
      /\ UNCHANGED << evt, cur, retrig, cur_retrig_qh, current_tail >>
      /\ UNCHANGED << active_event_cur, rulePos, pc, phase, ret, subject >>
  BY <1>a, <1>b, <1>c DEF CreateThread, AtTransition
<1>6. PICK list : si' = [si EXCEPT ![s].thread_list = list]
  BY <1>b DEF CreateThread, InThreadList
<1>7. /\ si' = [x \in StateId |-> si'[x]]
      /\ \A x \in StateId : /\ IsState(si'[x]) /\ si'[x].inst = si[x].inst
                            /\ si'[x].event = si[x].event
  <2>1. si' = [x \in StateId |-> IF x = s THEN [si[x] EXCEPT !.thread_list = list] ELSE si[x]]
    BY <1>2, <1>6 DEF Inv, Shape
  <2>2. \A x \in StateId : IsState(si[x])
    BY DEF Inv, Shape
  <2>3. \A x \in StateId : \/ si'[x] = si[x]
                           \/ si'[x] = [si[x] EXCEPT !.thread_list = list]
    BY <2>1
  <2>4. \A x \in StateId : /\ IsState(si'[x]) /\ si'[x].inst = si[x].inst
                           /\ si'[x].event = si[x].event
    BY ONLY <2>2, <2>3 DEF IsState
  <2> QED BY <2>1, <2>4
<1>8. /\ thr' = [t \in ThreadId |-> thr'[t]]
      /\ \A t \in ThreadId : /\ IsThread(thr'[t])
                             /\ thr'[t].si = IF t = f THEN s ELSE thr[t].si
  BY <1>3, <1>4, <1>5 DEF Inv, Shape
<1>9. /\ ri' = [i \in InstId |-> ri'[i]]
      /\ \A i \in InstId :
           /\ IsInst(ri'[i]) /\ ri'[i].rule = ri[i].rule /\ ri'[i].linked = ri[i].linked
           /\ ri'[i].threads = IF i = Subject THEN ri[i].threads + 1 ELSE ri[i].threads
  <2>1. ri' = [i \in InstId |-> IF i = Subject THEN [ri[i] EXCEPT !.threads = @ + 1] ELSE ri[i]]
    BY <1>2, <1>5 DEF Inv, Shape
  <2>2. \A i \in InstId : IsInst(ri[i])
    BY DEF Inv, Shape
  <2>3. ASSUME NEW i \in InstId
        PROVE  /\ IsInst(ri'[i]) /\ ri'[i].rule = ri[i].rule /\ ri'[i].linked = ri[i].linked
               /\ ri'[i].threads = IF i = Subject THEN ri[i].threads + 1 ELSE ri[i].threads
    <3>1. CASE i = Subject
      <4>1. ri'[i] = [ri[i] EXCEPT !.threads = ri[i].threads + 1]
        BY <2>1, <3>1
      <4>2. IsInst(ri[i])
        BY <2>2
      <4>3. /\ IsInst(ri'[i]) /\ ri'[i].rule = ri[i].rule /\ ri'[i].linked = ri[i].linked
            /\ ri'[i].threads = ri[i].threads + 1
        BY ONLY <4>1, <4>2 DEF IsInst
      <4> QED BY <3>1, <4>3
    <3> QED BY <2>1, <2>2, <3>1
  <2> QED BY <2>1, <2>3
<1>10. IsCtx(ctx') /\ ctx'.threads = ctx.threads + 1 /\ ctx'.active_events = ctx.active_events
  <2>1. IsCtx(ctx)
    BY DEF Inv, Shape
  <2> QED BY <1>5, <2>1 DEF IsCtx
<1>11. HeapShape'
  <2>1. \A t \in ThreadId : thr'[t].si \in {NULL} \cup StateId
    BY <1>2, <1>8 DEF Inv, Shape
  <2>2. \A i \in InstId : ri'[i].threads \in Nat
    <3>1. \A i \in InstId : ri[i].threads \in Nat
      BY DEF Inv, Shape
    <3> QED BY ONLY <1>9, <3>1
  <2> QED BY ZenonT(60), <1>5, <1>7, <1>8, <1>9, <2>1, <2>2 DEF HeapShape, Inv, Shape
<1>12. Insts' = Insts /\ States' = States
  BY <1>7, <1>9 DEF Insts, States
<1>13. Threads' = Threads \cup {f}
  BY <1>2, <1>3, <1>8, NullIsNone DEF Threads
<1>14. Live'
  <2>1. \A t \in Threads' : thr'[t].si \in States
    BY <1>2, <1>3, <1>8, <1>13 DEF Inv, Live, Threads
  <2>2. \A x \in States : si'[x].inst \in Insts
    BY <1>7 DEF Inv, Live, States
  <2> QED BY <1>12, <2>1, <2>2 DEF Live
<1>15. \A i : ThreadsOf(i)' = IF i = Subject THEN ThreadsOf(i) \cup {f} ELSE ThreadsOf(i)
  <2>1. \A t \in Threads : t # f /\ InstOf(t)' = InstOf(t)
    BY <1>3, <1>7, <1>8 DEF Inv, Live, InstOf, States, Threads
  <2>2. InstOf(f)' = Subject
    BY <1>2, <1>3, <1>7, <1>8 DEF InstOf
  <2> QED BY <1>13, <2>1, <2>2 DEF ThreadsOf
<1>16. /\ Cardinality(Threads \cup {f}) = Cardinality(Threads) + 1
       /\ Cardinality(ThreadsOf(Subject) \cup {f}) = Cardinality(ThreadsOf(Subject)) + 1
  <2>1. IsFiniteSet(Threads) /\ IsFiniteSet(ThreadsOf(Subject)) /\ f \notin ThreadsOf(Subject)
    BY <1>3, FiniteParts DEF Threads, ThreadsOf
  <2> QED BY <1>3, <2>1, FS_AddElement
<1>17. Subject' = Subject
  BY <1>2, <1>5, <1>7 DEF Subject, Inv, Control, States
<1>18. Counted'
  <2>1. \A i \in Insts : i \in InstId /\ ri[i].threads = Cardinality(ThreadsOf(i))
    BY DEF Inv, Counted, ThreadsCounted, Insts
  <2>2. ThreadsCounted'
    BY <1>9, <1>10, <1>12, <1>13, <1>15, <1>16, <2>1 DEF Inv, Counted, ThreadsCounted
  <2>3. phase = "init" => created = Cardinality(ThreadsOf(Subject))
    BY <1>5 DEF Inv, Counted
  <2> QED BY <1>5, <1>15, <1>16, <1>17, <2>2, <2>3 DEF Counted
<1>19. Queued'
  <2>1. newq \in Seq(ThreadId) /\ Distinct(newq) /\ f \notin Elems(newq)
        /\ f \notin Elems(cur) /\ f \notin Elems(retrig)
    BY <1>3 DEF Inv, Shape, Queued
  <2>2. /\ newq' \in Seq(ThreadId) /\ Elems(newq') = Elems(newq) \cup {f}
        /\ Distinct(newq') /\ Len(newq') = Len(newq) + 1
    BY <1>3, <1>5, <2>1, AppendTo
  <2>3. Len(cur) \in Nat /\ Len(retrig) \in Nat /\ Len(newq) \in Nat
    BY LenProperties DEF Inv, Shape
  <2>4. Elems(cur') = Elems(cur) /\ Elems(retrig') = Elems(retrig)
    BY <1>5
  <2>5. /\ Elems(cur') \cup Elems(retrig') \cup Elems(newq') = Threads'
        /\ Disjoint(cur', retrig') /\ Disjoint(cur', newq') /\ Disjoint(retrig', newq')
    BY <1>13, <2>1, <2>2, <2>4 DEF Inv, Queued, Disjoint
  <2>6. Len(cur') + Len(retrig') + Len(newq') = Cardinality(Threads')
    BY <1>5, <1>13, <1>16, <2>2, <2>3 DEF Inv, Queued
  <2>7. Distinct(cur') /\ Distinct(retrig')
    BY <1>5 DEF Inv, Queued
  <2> QED BY <2>2, <2>5, <2>6, <2>7 DEF Queued, Elems, Distinct, Disjoint
<1>20. Pointers'
  BY <1>5, <1>13 DEF Inv, Pointers
<1>21. Shape'
  <2>1. newq' \in Seq(ThreadId)
    BY <1>3, <1>5, AppendProperties DEF Inv, Shape
  <2>2. created' \in Nat
    BY <1>5 DEF Inv, Shape
  <2>3. {cur', retrig', newq'} \subseteq Seq(ThreadId)
    BY <1>5, <2>1 DEF Inv, Shape
  <2>4. /\ active_event_cur' \in {NULL} \cup EventId /\ ret' \in Int /\ rulePos' \in Nat \ {0}
        /\ pc' \in {"idle", "init", "simul", "ret", "loop"} /\ phase' \in {"none", "init", "loop"}
    BY <1>5 DEF Inv, Shape
  <2> QED BY <1>1, <1>10, <1>11, <2>2, <2>3, <2>4 DEF HeapShape, Shape
<1>22. Control'
  <2>1. \A j \in DOMAIN stack' : stack'[j].si \in States' /\ si'[stack'[j].si].inst = Subject'
    BY <1>1, <1>7, <1>12, <1>17 DEF Inv, Control, States
  <2> QED BY <1>1, <1>5, <1>12, <2>1 DEF Control, Inv
<1>23. Initial'
  BY <1>5, <1>9, <1>12, <1>17 DEF Inv, Initial, Insts
<1>24. Referred'
  <2>1. \A e : Refs(e)' = Refs(e)
    BY <1>7 DEF Refs
  <2> QED BY <1>5, <1>10, <2>1 DEF Inv, Referred
<1> QED BY <1>14, <1>18, <1>19, <1>20, <1>21, <1>22, <1>23, <1>24 DEF Inv

-----------------------------------------------------------------------------
(* The calls of simulate_state_and_create_threads().                        *)

\* What a call leaves to show, once the state instance f of the instance i is there.
LEMMA CallBegins ==
  ASSUME Inv, NEW f \in StateId, si[f].inst = NULL, NEW i \in InstId, NEW e \in {NULL} \cup EventId,
         NewState(f, i, e), thr' = thr, i \in Insts', Insts \subseteq Insts',
         NEW caller \in {"init", "loop"}, Simulate(f, caller), caller = "loop" => cur # << >>,
         UNCHANGED cur
  PROVE  /\ Live' /\ Control' /\ Subject' = i
         /\ stack' \in Seq([si : StateId, t : Nat]) /\ created' \in Nat /\ ret' = ret
         /\ pc' = "simul" /\ phase' = caller /\ created' = 0
<1>1. /\ stack' = << [si |-> f, t |-> 0] >> /\ created' = 0 /\ subject' = f /\ phase' = caller
      /\ pc' = "simul" /\ ret' = ret
  BY DEF Simulate
<1>2. States' = States \cup {f} /\ Live'
  BY OneStateMore
<1>3. si'[f].inst = i /\ Subject' = i
  BY <1>1 DEF NewState, Subject
<1>4. stack' \in Seq([si : StateId, t : Nat]) /\ stack' # << >>
  BY <1>1, EmptySeq
<1>5. \A j \in DOMAIN stack' : stack'[j].si = f
  BY <1>1
<1>6. Control'
  BY <1>1, <1>2, <1>3, <1>4, <1>5 DEF Control
<1> QED BY <1>1, <1>2, <1>3, <1>4, <1>6

\* A fresh instance has one state instance and no threads.
LEMMA CreateInitialStep == ASSUME Inv, CreateInitialInstance PROVE Inv'
<1>a. PICK f : f = FreeState
  OBVIOUS
<1>b. PICK g : g = FreeInst
  OBVIOUS
<1>1. f \in StateId /\ f \notin States /\ si[f].inst = NULL
  BY <1>a, MallocState DEF CreateInitialInstance
<1>2. g \in InstId /\ g \notin Insts /\ ri[g].rule = 0
  BY <1>b, MallocInst DEF CreateInitialInstance
<1>3. /\ pc = "init" /\ Simulate(f, "init")
      /\ si' = [si EXCEPT ![f] = [NullState EXCEPT !.inst = g, !.state = 1]]
      /\ ri' = [ri EXCEPT ![g] = [NullInst EXCEPT !.rule = rulePos, !.born = events]]
      /\ ctx' = [ctx EXCEPT !.state_instances = @ + 1]
      /\ thr' = thr /\ evt' = evt /\ SameQueues /\ active_event_cur' = active_event_cur
      /\ rulePos' = rulePos
  BY <1>a, <1>b DEF CreateInitialInstance, queue, SameQueues
<1>4. NewState(f, g, NULL)
  <2> DEFINE new == [NullState EXCEPT !.inst = g, !.state = 1]
  <2>1. IsState(new) /\ new.inst = g /\ new.event = NULL
    BY DEF NullState, IsState
  <2> HIDE DEF new
  <2> QED BY <1>1, <1>3, <2>1 DEF Inv, Shape, NewState, new
<1>5. /\ ri' = [i \in InstId |-> ri'[i]]
      /\ \A i \in InstId : i # g => ri'[i] = ri[i]
      /\ IsInst(ri'[g]) /\ ri'[g].rule = rulePos /\ ri'[g].threads = 0
  <2> DEFINE new == [NullInst EXCEPT !.rule = rulePos, !.born = events]
  <2>1. IsInst(new) /\ new.rule = rulePos /\ new.threads = 0
    BY DEF NullInst, IsInst
  <2> HIDE DEF new
  <2> QED BY <1>2, <1>3, <2>1 DEF Inv, Shape, new
<1>6. rulePos \in Nat \ {0}
  BY DEF Inv, Shape
<1>7. Insts' = Insts \cup {g}
  BY <1>2, <1>5, <1>6 DEF Insts
<1>8. /\ Live' /\ Control' /\ Subject' = g
      /\ stack' \in Seq([si : StateId, t : Nat]) /\ created' \in Nat /\ ret' = ret
      /\ pc' = "simul" /\ phase' = "init" /\ created' = 0
  BY <1>1, <1>2, <1>3, <1>4, <1>7, CallBegins DEF SameQueues
<1>9. /\ Threads' = Threads /\ \A j : ThreadsOf(j)' = ThreadsOf(j)
      /\ \A d \in EventId : Refs(d)' = Refs(d)
  <2>1. \A d \in EventId : d # NULL
    BY NullIsNone
  <2> QED BY <1>1, <1>2, <1>3, <1>4, <1>7, <2>1, OneStateMore
<1>10. ThreadsOf(g) = {}
  BY <1>2 DEF Inv, Live, ThreadsOf, InstOf
<1>11. IsCtx(ctx') /\ ctx'.threads = ctx.threads /\ ctx'.active_events = ctx.active_events
  <2>1. IsCtx(ctx)
    BY DEF Inv, Shape
  <2> QED BY <1>3, <2>1 DEF IsCtx
<1>12. Counted'
  <2>1. Cardinality(ThreadsOf(g)) = 0
    BY <1>10, FS_EmptySet
  <2>2. \A i \in Insts : i \in InstId /\ i # g
    BY <1>2 DEF Insts
  <2>3. ThreadsCounted'
    BY <1>5, <1>7, <1>9, <1>11, <2>1, <2>2 DEF Inv, Counted, ThreadsCounted
  <2> QED BY <1>8, <1>9, <2>1, <2>3 DEF Counted
<1>13. Referred'
  BY <1>3, <1>8, <1>9, <1>11 DEF Inv, Referred
<1>14. Initial'
  <2>1. cur = << >> /\ \A i \in Insts : i \in InstId /\ i # g /\ ri[i].linked
    BY <1>2, <1>3 DEF Inv, Initial, Control, Insts
  <2> QED BY <1>3, <1>5, <1>7, <1>8, <2>1 DEF Initial, SameQueues
<1>15. HeapShape'
  <2>1. \A x \in StateId : si'[x].inst \in {NULL} \cup InstId
    BY <1>2, <1>4 DEF NewState, Inv, Shape
  <2>2. \A x \in StateId : si'[x].event \in {NULL} \cup EventId /\ (si'[x].inst = NULL => si'[x].event = NULL)
    BY <1>4 DEF NewState, Inv, Shape
  <2>3. \A i \in InstId : IsInst(ri'[i]) /\ ri'[i].threads \in Nat
    BY <1>5 DEF Inv, Shape
  <2> QED BY <1>3, <1>4, <1>5, <2>1, <2>2, <2>3 DEF NewState, HeapShape, Inv, Shape
<1>16. Shape'
  <2>1. /\ active_event_cur' \in {NULL} \cup EventId /\ ret' \in Int /\ rulePos' \in Nat \ {0}
        /\ {cur', retrig', newq'} \subseteq Seq(ThreadId)
    BY <1>3, <1>8 DEF Inv, Shape, SameQueues
  <2> QED BY <1>8, <1>11, <1>15, <2>1 DEF HeapShape, Shape
<1>17. Queued' /\ Pointers'
  BY <1>3, <1>9, QueuesStay
<1> QED BY <1>8, <1>12, <1>13, <1>14, <1>16, <1>17 DEF Inv

\* A thread that matches adds one reference to the current event.
LEMMA MatchStep == ASSUME Inv, ThreadMatches PROVE Inv'
<1>a. PICK f : f = FreeState
  OBVIOUS
<1>b. PICK t : t = Head(cur)
  OBVIOUS
<1>c. PICK i : i = InstOf(t)
  OBVIOUS
<1>d. PICK e : e = active_event_cur
  OBVIOUS
<1>1. f \in StateId /\ f \notin States /\ si[f].inst = NULL
  BY <1>a, MallocState DEF ThreadMatches
<1>2. /\ pc = "loop" /\ cur # << >> /\ Simulate(f, "loop") /\ States # StateId
      /\ si' = WithChild(thr[t].si, TransOf(t).dest, e)
      /\ evt' = [evt EXCEPT ![e].refs = @ + 1] /\ current_tail' = t
      /\ \E b : ri' = [ri EXCEPT ![i].created = b]
      /\ \E n : ctx' = [ctx EXCEPT !.state_instances = @ + 1, !.rule_instances = n]
      /\ thr' = thr /\ active_event_cur' = active_event_cur /\ rulePos' = rulePos
      /\ UNCHANGED << cur, retrig, newq, cur_retrig_qh >>
  BY <1>a, <1>b, <1>c, <1>d DEF ThreadMatches, InLoop
<1>3. t \in Threads /\ thr[t].si \in States /\ i \in Insts /\ i \in InstId /\ si[thr[t].si].inst = i
  BY <1>b, <1>c, <1>2, HeadLives DEF InstOf
<1>4. e \in EventId
  BY <1>d, <1>2 DEF Inv, Referred
<1>5. NewState(f, i, e)
  BY <1>a, <1>2, <1>3, ChildIs DEF Inv, NewState
<1>6. /\ ri' = [j \in InstId |-> ri'[j]]
      /\ \A j \in InstId : /\ IsInst(ri'[j]) /\ ri'[j].rule = ri[j].rule
                           /\ ri'[j].threads = ri[j].threads /\ ri'[j].linked = ri[j].linked
  <2>0. PICK b : ri' = [ri EXCEPT ![i].created = b]
    BY <1>2
  <2>1. ri' = [j \in InstId |-> IF j = i THEN [ri[j] EXCEPT !.created = b] ELSE ri[j]]
    BY <1>3, <2>0 DEF Inv, Shape
  <2>2. \A j \in InstId : IsInst(ri[j])
    BY DEF Inv, Shape
  <2>3. \A j \in InstId : ri'[j] = ri[j] \/ ri'[j] = [ri[j] EXCEPT !.created = b]
    BY <2>1
  <2>4. \A j \in InstId : /\ IsInst(ri'[j]) /\ ri'[j].rule = ri[j].rule
                          /\ ri'[j].threads = ri[j].threads /\ ri'[j].linked = ri[j].linked
    BY ONLY <2>2, <2>3 DEF IsInst
  <2> QED BY <2>1, <2>4
<1>7. Insts' = Insts
  BY <1>6 DEF Insts
<1>8. /\ Live' /\ Control' /\ Subject' = i
      /\ stack' \in Seq([si : StateId, t : Nat]) /\ created' \in Nat /\ ret' = ret
      /\ pc' = "simul" /\ phase' = "loop" /\ created' = 0
  BY <1>1, <1>2, <1>3, <1>4, <1>5, <1>7, CallBegins
<1>9. /\ Threads' = Threads /\ \A j : ThreadsOf(j)' = ThreadsOf(j)
      /\ \A d \in EventId : f \notin Refs(d)
      /\ \A d \in EventId : Refs(d)' = IF d = e THEN Refs(d) \cup {f} ELSE Refs(d)
  BY <1>1, <1>2, <1>3, <1>4, <1>5, <1>7, OneStateMore
<1>10. IsCtx(ctx') /\ ctx'.threads = ctx.threads /\ ctx'.active_events = ctx.active_events
  <2>1. IsCtx(ctx)
    BY DEF Inv, Shape
  <2> QED BY <1>2, <2>1 DEF IsCtx
<1>11. /\ evt' = [d \in EventId |-> evt'[d]]
       /\ \A d \in EventId : /\ IsEvent(evt'[d]) /\ evt'[d].status = evt[d].status
                             /\ evt'[d].refs = IF d = e THEN evt[d].refs + 1 ELSE evt[d].refs
  <2>1. evt' = [d \in EventId |-> IF d = e THEN [evt[d] EXCEPT !.refs = evt[d].refs + 1] ELSE evt[d]]
    BY <1>2, <1>4 DEF Inv, Shape
  <2>2. \A d \in EventId : IsEvent(evt[d])
    BY DEF Inv, Shape
  <2>3. ASSUME NEW d \in EventId
        PROVE  /\ IsEvent(evt'[d]) /\ evt'[d].status = evt[d].status
               /\ evt'[d].refs = IF d = e THEN evt[d].refs + 1 ELSE evt[d].refs
    <3>1. evt'[d] = IF d = e THEN [evt[d] EXCEPT !.refs = evt[d].refs + 1] ELSE evt[d]
      BY <2>1
    <3>2. IsEvent(evt[d])
      BY <2>2
    <3> QED BY ONLY <3>1, <3>2 DEF IsEvent
  <2> QED BY <2>1, <2>3
<1>12. Counted'
  <2>1. \A j \in Insts : ri'[j].threads = ri[j].threads
    BY <1>6 DEF Insts
  <2>2. ThreadsCounted'
    BY <1>7, <1>9, <1>10, <2>1 DEF Inv, Counted, ThreadsCounted
  <2> QED BY <1>8, <2>2 DEF Counted
<1>13. Referred'
  <2>1. \A d \in EventId : Refs(d) \in SUBSET StateId
    BY DEF Refs
  <2>2. \A d \in EventId : Cardinality(Refs(d) \cup {f}) = Cardinality(Refs(d)) + 1
    BY <1>9, <2>1, FiniteParts, FS_AddElement
  <2>3. ASSUME NEW d \in EventId
        PROVE  /\ evt'[d].refs = Cardinality(Refs(d)')
               /\ evt'[d].status = "free" => evt'[d].refs = 0
               /\ evt'[d].status = "active" => evt'[d].refs > 0
               /\ (evt'[d].status = "current") <=> (pc' # "idle" /\ d = active_event_cur')
    <3>1. /\ evt[d].refs = Cardinality(Refs(d)) /\ evt[d].refs \in Nat
          /\ evt[d].status = "free" => evt[d].refs = 0
          /\ evt[d].status = "active" => evt[d].refs > 0
          /\ (evt[d].status = "current") <=> d = e
      BY <1>d, <1>2 DEF Inv, Referred, Shape
    <3>2. evt'[d].refs = Cardinality(Refs(d)')
      BY <1>9, <1>11, <2>2, <3>1
    <3> QED BY <1>d, <1>2, <1>8, <1>11, <3>1, <3>2
  <2>4. {d \in EventId : evt'[d].status = "active"} = {d \in EventId : evt[d].status = "active"}
    BY <1>11
  <2> QED BY <1>2, <1>4, <1>d, <1>10, <2>3, <2>4 DEF Inv, Referred
<1>14. Initial'
  <2>1. \A j \in Insts : j \in InstId /\ ri[j].linked
    BY <1>2 DEF Inv, Initial, Control, Insts
  <2> QED BY <1>6, <1>7, <1>8, <2>1 DEF Initial
<1>15. HeapShape'
  <2>1. \A x \in StateId : si'[x].inst \in {NULL} \cup InstId
    BY <1>3, <1>5 DEF NewState, Inv, Shape
  <2>2. \A x \in StateId : si'[x].event \in {NULL} \cup EventId /\ (si'[x].inst = NULL => si'[x].event = NULL)
    BY <1>3, <1>4, <1>5, NullIsNone DEF NewState, Inv, Shape
  <2>3. \A j \in InstId : IsInst(ri'[j]) /\ ri'[j].threads \in Nat
    BY <1>6 DEF Inv, Shape
  <2>4. \A d \in EventId : evt'[d].refs \in Nat /\ evt'[d].status \in {"free", "current", "active"}
    <3>1. \A d \in EventId : evt[d].refs \in Nat /\ evt[d].status \in {"free", "current", "active"}
      BY DEF Inv, Shape
    <3> QED BY ONLY <1>11, <3>1
  <2>5. NewState(f, i, e) /\ thr' = thr
    BY <1>2, <1>5
  <2> QED BY <1>6, <1>11, <2>1, <2>2, <2>3, <2>4, <2>5 DEF NewState, HeapShape, Inv, Shape
<1>16. Shape'
  <2>1. /\ active_event_cur' \in {NULL} \cup EventId /\ ret' \in Int /\ rulePos' \in Nat \ {0}
        /\ {cur', retrig', newq'} \subseteq Seq(ThreadId)
    BY <1>2, <1>8 DEF Inv, Shape
  <2> QED BY <1>8, <1>10, <1>15, <2>1 DEF HeapShape, Shape
<1>17. Queued' /\ Pointers'
  <2>1. Queued'
    <3>1. cur' = cur /\ retrig' = retrig /\ newq' = newq /\ Threads' = Threads
      BY <1>2, <1>9
    <3> QED BY <3>1 DEF Inv, Queued, Elems, Distinct, Disjoint
  <2>2. Pointers'
    BY <1>2, <1>3, <1>9 DEF Inv, Pointers
  <2> QED BY <2>1, <2>2
<1> QED BY <1>8, <1>12, <1>13, <1>14, <1>16, <1>17 DEF Inv

-----------------------------------------------------------------------------
(* inject_event() around the simulations.                                   *)

\* A step that changes no more than the clock.
LEMMA StutterStep ==
  ASSUME Inv, UNCHANGED << heap, queue, stats, call, active_event_cur, pc, rulePos >>
  PROVE  Inv'
<1>1. /\ thr' = thr /\ si' = si /\ ri' = ri /\ evt' = evt /\ ctx' = ctx
      /\ cur' = cur /\ retrig' = retrig /\ newq' = newq
      /\ cur_retrig_qh' = cur_retrig_qh /\ current_tail' = current_tail
      /\ phase' = phase /\ stack' = stack /\ created' = created /\ ret' = ret /\ subject' = subject
      /\ active_event_cur' = active_event_cur /\ pc' = pc /\ rulePos' = rulePos
  BY DEF heap, queue, stats, call
<1>2. SameHeap /\ SameQueues
  BY <1>1 DEF SameHeap, SameQueues
<1>3. /\ Threads' = Threads /\ States' = States /\ Insts' = Insts /\ Subject' = Subject
      /\ \A i : ThreadsOf(i)' = ThreadsOf(i)
      /\ Live' /\ ThreadsCounted' /\ Referred' /\ Queued' /\ Pointers'
  BY <1>1, <1>2, HeapStays, QueuesStay DEF Subject
<1>4. Shape'
  BY <1>1 DEF Inv, Shape
<1>5. Counted'
  BY <1>1, <1>3 DEF Inv, Counted
<1>6. Control' /\ Initial'
  BY <1>1, <1>3 DEF Inv, Control, Initial
<1> QED BY <1>3, <1>4, <1>5, <1>6 DEF Inv

\* An injected event is the current one and nobody refers to it.
LEMMA InjectStep == ASSUME Inv, NEW k \in Keys \cup {NoKey}, InjectEvent(k) PROVE Inv'
<1>a. PICK f : f = FreeEvent
  OBVIOUS
<1>1. f \in EventId /\ f \notin Events /\ evt[f].status = "free"
  BY <1>a, MallocEvent DEF InjectEvent
<1>2. /\ pc = "idle" /\ evt' = [evt EXCEPT ![f] = [key |-> k, refs |-> 0, status |-> "current"]]
      /\ active_event_cur' = f /\ rulePos' = 1 /\ pc' = "init"
      /\ thr' = thr /\ si' = si /\ ri' = ri /\ ctx' = ctx
      /\ cur' = cur /\ retrig' = retrig /\ newq' = newq
      /\ cur_retrig_qh' = cur_retrig_qh /\ current_tail' = current_tail
      /\ phase' = phase /\ stack' = stack /\ created' = created /\ ret' = ret /\ subject' = subject
  BY <1>a DEF InjectEvent, queue, stats, call
<1>3. /\ evt' = [d \in EventId |-> evt'[d]]
      /\ \A d \in EventId : d # f => evt'[d] = evt[d]
      /\ IsEvent(evt'[f]) /\ evt'[f].refs = 0 /\ evt'[f].status = "current"
  BY <1>1, <1>2 DEF Inv, Shape, IsEvent
<1>4. /\ Threads' = Threads /\ States' = States /\ Insts' = Insts /\ Subject' = Subject
      /\ \A i : ThreadsOf(i)' = ThreadsOf(i) /\ \A e : Refs(e)' = Refs(e)
  BY <1>2 DEF Threads, States, Insts, Subject, ThreadsOf, InstOf, Refs
<1>5. Live' /\ ThreadsCounted'
  BY <1>2, <1>4 DEF Inv, Live, Counted, ThreadsCounted
<1>6. SameQueues /\ Queued' /\ Pointers'
  BY <1>2, <1>4, QueuesStay DEF SameQueues
<1>7. phase = "none" /\ stack = << >>
  BY <1>2 DEF Inv, Control
<1>8. Control' /\ Initial'
  BY <1>2, <1>4, <1>7 DEF Inv, Control, Initial
<1>9. Counted'
  BY <1>2, <1>5, <1>7 DEF Counted
<1>10. Referred'
  <2>1. \A d \in EventId :
          /\ evt[d].refs = Cardinality(Refs(d))
          /\ evt[d].status = "free" => evt[d].refs = 0
          /\ evt[d].status = "active" => evt[d].refs > 0
          /\ evt[d].status # "current"
    BY <1>2 DEF Inv, Referred
  <2>2. \A d \in EventId :
          /\ evt'[d].refs = Cardinality(Refs(d)')
          /\ evt'[d].status = "free" => evt'[d].refs = 0
          /\ evt'[d].status = "active" => evt'[d].refs > 0
          /\ (evt'[d].status = "current") <=> d = f
    BY <1>1, <1>3, <1>4, <2>1
  <2>3. {d \in EventId : evt'[d].status = "active"} = {d \in EventId : evt[d].status = "active"}
    BY <1>1, <1>3
  <2> QED BY <1>1, <1>2, <2>2, <2>3 DEF Inv, Referred
<1>11. Shape'
  <2>1. \A d \in EventId : IsEvent(evt'[d]) /\ evt'[d].refs \in Nat
                           /\ evt'[d].status \in {"free", "current", "active"}
    <3>1. \A d \in EventId : IsEvent(evt[d]) /\ evt[d].refs \in Nat
                             /\ evt[d].status \in {"free", "current", "active"}
      BY DEF Inv, Shape
    <3> QED BY ONLY <1>1, <1>3, <3>1
  <2>2. active_event_cur' \in EventId /\ rulePos' \in Nat \ {0} /\ pc' = "init"
    BY <1>1, <1>2
  <2> QED BY <1>2, <1>3, <2>1, <2>2 DEF Inv, Shape
<1> QED BY <1>5, <1>6, <1>8, <1>9, <1>10, <1>11 DEF Inv

\* The caller of a simulation goes on.
LEMMA CallEnds ==
  ASSUME Inv, Returned
  PROVE  /\ stack' = << >> /\ phase' = "none" /\ created' = 0 /\ ret' = 0
         /\ stack' \in Seq([si : StateId, t : Nat]) /\ created' \in Nat /\ ret' \in Int
<1>1. << >> \in Seq([si : StateId, t : Nat])
  OBVIOUS
<1> QED BY <1>1 DEF Returned

\* The counter that a linked instance is given is that of its threads.
LEMMA LinkStep == ASSUME Inv, LinkInitialInstance PROVE Inv'
<1>1. /\ pc = "ret" /\ phase = "init" /\ ret > 0
      /\ ri' = [ri EXCEPT ![Subject].threads = ret, ![Subject].linked = TRUE]
      /\ thr' = IF newq = << >> THEN thr ELSE [thr EXCEPT ![newq[Len(newq)]].bump = TRUE]
      /\ rulePos' = rulePos + 1 /\ pc' = "init" /\ Returned
      /\ si' = si /\ evt' = evt /\ SameQueues /\ ctx' = ctx /\ active_event_cur' = active_event_cur
  BY DEF LinkInitialInstance, InitReturned, Subject, queue, stats, SameQueues
<1>2. subject \in States /\ Subject \in Insts /\ Subject \in InstId
  BY <1>1 DEF Inv, Control, Live, Subject, Insts
<1>3. ret = Cardinality(ThreadsOf(Subject)) /\ ret \in Nat
  BY <1>1 DEF Inv, Counted, Shape
<1>4. ri[Subject].threads = ret
  BY <1>2, <1>3 DEF Inv, Counted, ThreadsCounted
<1>5. /\ ri' = [j \in InstId |-> ri'[j]]
      /\ \A j \in InstId : /\ IsInst(ri'[j]) /\ ri'[j].rule = ri[j].rule
                           /\ ri'[j].threads = ri[j].threads
                           /\ ri'[j].linked = IF j = Subject THEN TRUE ELSE ri[j].linked
  <2>1. ri' = [j \in InstId |-> IF j = Subject THEN [ri[j] EXCEPT !.threads = ret, !.linked = TRUE]
                                ELSE ri[j]]
    BY <1>1, <1>2 DEF Inv, Shape
  <2>2. ASSUME NEW j \in InstId
        PROVE  /\ IsInst(ri'[j]) /\ ri'[j].rule = ri[j].rule /\ ri'[j].threads = ri[j].threads
               /\ ri'[j].linked = IF j = Subject THEN TRUE ELSE ri[j].linked
    <3>1. ri'[j] = IF j = Subject THEN [ri[j] EXCEPT !.threads = ret, !.linked = TRUE] ELSE ri[j]
      BY <2>1
    <3>2. IsInst(ri[j])
      BY DEF Inv, Shape
    <3>3. j = Subject => ri[j].threads = ret
      BY <1>4
    <3> QED BY ONLY <3>1, <3>2, <3>3 DEF IsInst
  <2> QED BY <2>1, <2>2
<1>6. /\ thr' = [t \in ThreadId |-> thr'[t]]
      /\ \A t \in ThreadId : IsThread(thr'[t]) /\ thr'[t].si = thr[t].si
  <2>1. CASE thr' = thr
    BY <2>1 DEF Inv, Shape
  <2>2. ASSUME NEW u, thr' = [thr EXCEPT ![u].bump = TRUE]
        PROVE  /\ thr' = [t \in ThreadId |-> thr'[t]]
               /\ \A t \in ThreadId : IsThread(thr'[t]) /\ thr'[t].si = thr[t].si
    <3>1. thr' = [t \in ThreadId |-> IF t = u THEN [thr[t] EXCEPT !.bump = TRUE] ELSE thr[t]]
      BY <2>2 DEF Inv, Shape
    <3>2. ASSUME NEW t \in ThreadId
          PROVE  IsThread(thr'[t]) /\ thr'[t].si = thr[t].si
      <4>1. thr'[t] = IF t = u THEN [thr[t] EXCEPT !.bump = TRUE] ELSE thr[t]
        BY <3>1
      <4>2. IsThread(thr[t])
        BY DEF Inv, Shape
      <4> QED BY ONLY <4>1, <4>2 DEF IsThread
    <3> QED BY <3>1, <3>2
  <2> QED BY <1>1, <2>1, <2>2
<1>7. \A j \in InstId : j = Subject => ri[j].threads = ri'[j].threads
  BY <1>5
<1>8. /\ Threads' = Threads /\ States' = States /\ Insts' = Insts
      /\ \A i : ThreadsOf(i)' = ThreadsOf(i) /\ \A e : Refs(e)' = Refs(e)
  <2>1. Threads' = Threads
    BY <1>6 DEF Threads
  <2>2. \A t \in Threads : InstOf(t)' = InstOf(t)
    BY <1>1, <1>6 DEF InstOf, Threads
  <2> QED BY <1>1, <1>5, <2>1, <2>2 DEF States, Insts, ThreadsOf, Refs
<1>9. Live'
  BY <1>1, <1>6, <1>8 DEF Inv, Live, Threads
<1>10. ThreadsCounted'
  <2>1. \A j \in Insts : ri'[j].threads = ri[j].threads
    BY <1>5 DEF Insts
  <2> QED BY <1>1, <1>8, <2>1 DEF Inv, Counted, ThreadsCounted
<1>11. stack' = << >> /\ phase' = "none" /\ stack' \in Seq([si : StateId, t : Nat])
       /\ created' \in Nat /\ ret' \in Int
  BY <1>1, CallEnds
<1>12. Counted' /\ Control' /\ Referred'
  BY <1>1, <1>8, <1>10, <1>11 DEF Inv, Counted, Control, Referred
<1>13. Initial'
  <2>1. \A j \in Insts : j \in InstId /\ (ri[j].linked \/ j = Subject)
    BY DEF Inv, Initial, Insts
  <2>2. cur' = << >>
    BY <1>1 DEF Inv, Initial, SameQueues
  <2> QED BY <1>5, <1>8, <2>1, <2>2 DEF Initial
<1>14. Shape'
  <2>1. \A t \in ThreadId : thr'[t].si \in {NULL} \cup StateId
    BY <1>6 DEF Inv, Shape
  <2>2. \A j \in InstId : ri'[j].threads \in Nat
    BY <1>5 DEF Inv, Shape
  <2>3. rulePos' \in Nat \ {0} /\ {cur', retrig', newq'} \subseteq Seq(ThreadId)
    BY <1>1 DEF Inv, Shape, SameQueues
  <2>4. HeapShape'
    BY <1>1, <1>5, <1>6, <2>1, <2>2 DEF HeapShape, Inv, Shape
  <2> QED BY <1>1, <1>11, <2>3, <2>4 DEF HeapShape, Inv, Shape
<1> QED BY <1>1, <1>8, <1>9, <1>12, <1>13, <1>14, QueuesStay DEF Inv

\* The merged queue holds every thread once.
LEMMA MergeStep == ASSUME Inv, MergeQueues PROVE Inv'
<1>1. /\ pc = "init" /\ cur' = newq \o retrig /\ newq' = << >> /\ retrig' = << >> /\ pc' = "loop"
      /\ cur_retrig_qh' = IF newq \o retrig = << >> THEN NULL ELSE Head(newq \o retrig)
      /\ current_tail' = current_tail
      /\ thr' = thr /\ si' = si /\ ri' = ri /\ evt' = evt /\ ctx' = ctx
      /\ phase' = phase /\ stack' = stack /\ created' = created /\ ret' = ret /\ subject' = subject
      /\ active_event_cur' = active_event_cur /\ rulePos' = rulePos
  BY DEF MergeQueues, heap, stats, call
<1>2. SameHeap
  BY <1>1 DEF SameHeap
<1>3. /\ Threads' = Threads /\ States' = States /\ Insts' = Insts /\ Live' /\ ThreadsCounted' /\ Referred'
  BY <1>1, <1>2, HeapStays
<1>4. phase = "none" /\ stack = << >> /\ cur = << >>
  BY <1>1 DEF Inv, Control, Initial
<1>5. /\ newq \in Seq(ThreadId) /\ retrig \in Seq(ThreadId)
      /\ Disjoint(newq, retrig) /\ Distinct(newq) /\ Distinct(retrig)
      /\ Elems(newq) \cup Elems(retrig) = Threads
      /\ Len(newq) + Len(retrig) = Cardinality(Threads)
      /\ Len(newq) \in Nat /\ Len(retrig) \in Nat
  <2>1. newq \in Seq(ThreadId) /\ retrig \in Seq(ThreadId)
    BY DEF Inv, Shape
  <2>2. Elems(cur) = {} /\ Len(cur) = 0
    BY <1>4 DEF Elems
  <2> QED BY <2>1, <2>2, LenProperties DEF Inv, Queued, Disjoint
<1>6. /\ cur' \in Seq(ThreadId) /\ Elems(cur') = Threads /\ Distinct(cur')
      /\ Len(cur') = Cardinality(Threads)
  BY <1>1, <1>5, Joined
<1>7. /\ Elems(newq') = {} /\ Distinct(newq') /\ Len(newq') = 0 /\ newq' \in Seq(ThreadId)
      /\ Elems(retrig') = {} /\ Distinct(retrig') /\ Len(retrig') = 0 /\ retrig' \in Seq(ThreadId)
  BY <1>1 DEF Elems, Distinct
<1>8. Queued'
  <2>1. Cardinality(Threads) \in Nat
    BY FiniteParts DEF Threads
  <2>2. Len(cur') + Len(retrig') + Len(newq') = Cardinality(Threads')
    BY <1>3, <1>6, <1>7, <2>1
  <2> QED BY <1>3, <1>6, <1>7, <2>2 DEF Queued, Disjoint, Elems, Distinct
<1>9. Pointers'
  <2>1. cur' # << >> => Head(cur') \in Elems(cur')
    BY <1>6, HeadIn
  <2> QED BY <1>1, <1>3, <1>6, <2>1 DEF Inv, Pointers
<1>10. Control' /\ Initial' /\ Counted'
  BY <1>1, <1>3, <1>4 DEF Inv, Control, Initial, Counted
<1>11. Shape'
  BY <1>1, <1>6, <1>7 DEF Inv, Shape
<1> QED BY <1>3, <1>8, <1>9, <1>10, <1>11 DEF Inv

\* The current event is freed without references and becomes active with one.
LEMMA FinishStep == ASSUME Inv, FinishEvent PROVE Inv'
<1>a. PICK e : e = active_event_cur
  OBVIOUS
<1>1. /\ pc = "loop" /\ cur = << >> /\ pc' = "idle"
      /\ \/ /\ evt[e].refs = 0 /\ evt' = [evt EXCEPT ![e] = NullEvent] /\ ctx' = ctx
         \/ /\ evt[e].refs # 0 /\ evt' = [evt EXCEPT ![e].status = "active"]
            /\ ctx' = [ctx EXCEPT !.active_events = @ + 1]
      /\ thr' = thr /\ si' = si /\ ri' = ri /\ SameQueues
      /\ phase' = phase /\ stack' = stack /\ created' = created /\ ret' = ret /\ subject' = subject
      /\ active_event_cur' = active_event_cur /\ rulePos' = rulePos
  BY <1>a DEF FinishEvent, queue, call, SameQueues
<1>2. /\ Threads' = Threads /\ States' = States /\ Insts' = Insts /\ Subject' = Subject
      /\ \A i : ThreadsOf(i)' = ThreadsOf(i) /\ \A d : Refs(d)' = Refs(d)
  BY <1>1 DEF Threads, States, Insts, Subject, ThreadsOf, InstOf, Refs
<1>3. IsCtx(ctx') /\ ctx'.threads = ctx.threads
      /\ ctx'.active_events = IF evt[e].refs = 0 THEN ctx.active_events ELSE ctx.active_events + 1
  <2>1. IsCtx(ctx)
    BY DEF Inv, Shape
  <2> QED BY <1>1, <2>1 DEF IsCtx
<1>4. Live' /\ ThreadsCounted'
  BY <1>1, <1>2, <1>3 DEF Inv, Live, Counted, ThreadsCounted
<1>5. phase = "none" /\ stack = << >>
  BY <1>1 DEF Inv, Control
<1>6. Control' /\ Initial' /\ Counted'
  BY <1>1, <1>2, <1>4, <1>5 DEF Inv, Control, Initial, Counted, SameQueues
<1>7. e \in EventId /\ \A d \in EventId : IsEvent(evt[d]) /\ evt[d].refs \in Nat
                                         /\ evt[d].status \in {"free", "current", "active"}
  BY <1>a, <1>1 DEF Inv, Referred, Shape
<1>8. /\ evt' = [d \in EventId |-> evt'[d]]
      /\ \A d \in EventId : /\ IsEvent(evt'[d]) /\ evt'[d].refs = evt[d].refs
                            /\ d # e => evt'[d] = evt[d]
      /\ evt'[e].status = IF evt[e].refs = 0 THEN "free" ELSE "active"
  <2>1. CASE evt[e].refs = 0
    <3>1. evt' = [d \in EventId |-> IF d = e THEN NullEvent ELSE evt[d]]
      BY <1>1, <2>1 DEF Inv, Shape
    <3>2. IsEvent(NullEvent) /\ NullEvent.refs = 0 /\ NullEvent.status = "free"
      BY DEF NullEvent, IsEvent
    <3> HIDE DEF NullEvent
    <3> QED BY <1>7, <2>1, <3>1, <3>2
  <2>2. CASE evt[e].refs # 0
    <3>1. evt' = [d \in EventId |-> IF d = e THEN [evt[d] EXCEPT !.status = "active"] ELSE evt[d]]
      BY <1>1, <2>2 DEF Inv, Shape
    <3>2. ASSUME NEW d \in EventId
          PROVE  /\ IsEvent(evt'[d]) /\ evt'[d].refs = evt[d].refs
                 /\ d # e => evt'[d] = evt[d]
                 /\ d = e => evt'[d].status = "active"
      <4>1. evt'[d] = IF d = e THEN [evt[d] EXCEPT !.status = "active"] ELSE evt[d]
        BY <3>1
      <4>2. IsEvent(evt[d])
        BY <1>7
      <4> QED BY ONLY <4>1, <4>2 DEF IsEvent
    <3> QED BY <1>7, <2>2, <3>1, <3>2
  <2> QED BY <2>1, <2>2
<1>9. Referred'
  <2>1. \A d \in EventId :
          /\ evt[d].refs = Cardinality(Refs(d))
          /\ evt[d].status = "free" => evt[d].refs = 0
          /\ evt[d].status = "active" => evt[d].refs > 0
          /\ (evt[d].status = "current") <=> d = e
    BY <1>1, <1>a DEF Inv, Referred
  <2>2. ASSUME NEW d \in EventId
        PROVE  /\ evt'[d].refs = Cardinality(Refs(d)')
               /\ evt'[d].status = "free" => evt'[d].refs = 0
               /\ evt'[d].status = "active" => evt'[d].refs > 0
               /\ evt'[d].status # "current"
    <3>1. evt'[d].refs = Cardinality(Refs(d)')
      BY <1>2, <1>8, <2>1
    <3>2. CASE d # e
      <4>1. evt'[d] = evt[d]
        BY <1>8, <3>2
      <4> QED BY <2>1, <3>1, <3>2, <4>1
    <3>3. CASE d = e
      <4>1. evt'[d].status = IF evt[d].refs = 0 THEN "free" ELSE "active"
        BY <1>8, <3>3
      <4> QED BY <1>7, <1>8, <3>1, <4>1
    <3> QED BY <3>2, <3>3
  <2>3. ctx'.active_events = Cardinality({d \in EventId : evt'[d].status = "active"})
    <3> DEFINE A == {d \in EventId : evt[d].status = "active"}
               B == {d \in EventId : evt'[d].status = "active"}
    <3>1. ctx.active_events = Cardinality(A) /\ A \in SUBSET EventId /\ e \notin A
      BY <2>1 DEF Inv, Referred
    <3>2. B = IF evt[e].refs = 0 THEN A ELSE A \cup {e}
      <4>1. \A d \in EventId : d # e => (evt'[d].status = "active" <=> evt[d].status = "active")
        BY <1>8
      <4>2. (e \in B) <=> evt[e].refs # 0
        BY <1>7, <1>8
      <4> QED BY <1>7, <3>1, <4>1, <4>2
    <3>3. IsFiniteSet(A)
      BY <3>1, FiniteParts
    <3> HIDE DEF A, B
    <3>4. Cardinality(A \cup {e}) = Cardinality(A) + 1
      BY <3>1, <3>3, FS_AddElement
    <3>5. ctx'.active_events = Cardinality(B)
      BY <1>3, <3>1, <3>2, <3>4
    <3> QED BY <3>5 DEF B
  <2> QED BY <1>1, <2>2, <2>3 DEF Inv, Referred
<1>10. Shape'
  <2>1. \A d \in EventId : /\ IsEvent(evt'[d]) /\ evt'[d].refs \in Nat
                           /\ evt'[d].status \in {"free", "current", "active"}
    BY <1>7, <1>8
  <2> QED BY <1>1, <1>3, <1>8, <2>1 DEF Inv, Shape, SameQueues
<1>11. Queued' /\ Pointers'
  BY <1>1, <1>2, QueuesStay
<1> QED BY <1>4, <1>6, <1>9, <1>10, <1>11 DEF Inv

-----------------------------------------------------------------------------
(* The end of a rule instance.                                              *)

\* How many elements are left of a finite set.
LEMMA Removed ==
  ASSUME NEW S, IsFiniteSet(S), NEW T
  PROVE  Cardinality(S \ T) = Cardinality(S) - Cardinality(S \cap T)
         /\ Cardinality(S) \in Nat /\ Cardinality(S \cap T) \in Nat /\ Cardinality(S \ T) \in Nat
<1>1. IsFiniteSet(S \ T) /\ IsFiniteSet(S \cap T)
  BY FS_Subset
<1> QED BY <1>1, FS_Difference, FS_CardinalityType

\* The events that lose the references of the instance.
LEMMA EventsFreed ==
  ASSUME Inv, NEW i \in InstId, pc # "idle", si' = FreedStates(i), evt' = FreedEvents(i)
  PROVE  /\ evt' = [e \in EventId |-> evt'[e]]
         /\ \A e \in EventId :
              /\ IsEvent(evt'[e]) /\ evt'[e].refs \in Nat
              /\ evt'[e].status \in {"free", "current", "active"}
              /\ evt'[e].refs = Cardinality(Refs(e)')
              /\ evt'[e].status = "free" => evt'[e].refs = 0
              /\ evt'[e].status = "active" => evt'[e].refs > 0
              /\ (evt'[e].status = "current") <=> e = active_event_cur
              /\ evt'[e].status = IF IsLastRef(i, e) THEN "free" ELSE evt[e].status
              /\ IsLastRef(i, e) => evt[e].status = "active"
<1>1. evt' = [e \in EventId |-> IF IsLastRef(i, e) THEN NullEvent
                                ELSE [evt[e] EXCEPT !.refs = evt[e].refs - RefsFrom(i, e)]]
  BY DEF FreedEvents
<1>2. ASSUME NEW e \in EventId
      PROVE  /\ IsEvent(evt'[e]) /\ evt'[e].refs \in Nat
             /\ evt'[e].status \in {"free", "current", "active"}
             /\ evt'[e].refs = Cardinality(Refs(e)')
             /\ evt'[e].status = "free" => evt'[e].refs = 0
             /\ evt'[e].status = "active" => evt'[e].refs > 0
             /\ (evt'[e].status = "current") <=> e = active_event_cur
             /\ evt'[e].status = IF IsLastRef(i, e) THEN "free" ELSE evt[e].status
             /\ IsLastRef(i, e) => evt[e].status = "active"
  <2>1. Refs(e)' = Refs(e) \ StatesOf(i)
    <3>1. e # NULL
      BY NullIsNone
    <3>2. \A s \in StateId : si'[s].event = IF si[s].inst = i THEN NULL ELSE si[s].event
      BY DEF FreedStates, NullState
    <3> QED BY <3>1, <3>2 DEF Refs, StatesOf
  <2>2. RefsFrom(i, e) = Cardinality(Refs(e) \cap StatesOf(i))
    <3>1. {s \in StatesOf(i) : si[s].event = e} = Refs(e) \cap StatesOf(i)
      BY DEF StatesOf, Refs
    <3> QED BY <3>1 DEF RefsFrom
  <2>3. IsFiniteSet(Refs(e))
    BY FiniteParts DEF Refs
  <2> DEFINE n == Cardinality(Refs(e)')
             m == RefsFrom(i, e)
  <2>4. n = Cardinality(Refs(e)) - m /\ Cardinality(Refs(e)) \in Nat /\ m \in Nat /\ n \in Nat
    BY <2>1, <2>2, <2>3, Removed
  <2>5. /\ evt[e].refs = Cardinality(Refs(e)) /\ evt[e].refs \in Nat /\ IsEvent(evt[e])
        /\ evt[e].status = "free" => evt[e].refs = 0
        /\ evt[e].status = "active" => evt[e].refs > 0
        /\ (evt[e].status = "current") <=> e = active_event_cur
        /\ evt[e].status \in {"free", "current", "active"}
    BY DEF Inv, Referred, Shape
  <2>6. IsLastRef(i, e) <=> m > 0 /\ evt[e].refs - m <= 0 /\ e # active_event_cur
    BY DEF IsLastRef
  <2> HIDE DEF n, m
  <2>7. evt[e].refs - m = n
    BY <2>4, <2>5
  <2>8. CASE IsLastRef(i, e)
    <3>1. evt'[e] = NullEvent
      BY <1>1, <2>8
    <3>2. IsEvent(NullEvent) /\ NullEvent.refs = 0 /\ NullEvent.status = "free"
      BY DEF NullEvent, IsEvent
    <3> HIDE DEF NullEvent
    <3>3. n = 0 /\ e # active_event_cur /\ evt[e].refs > 0
      BY <2>4, <2>5, <2>6, <2>7, <2>8
    <3>4. evt[e].status = "active"
      BY <2>5, <3>3
    <3> QED BY <2>8, <3>1, <3>2, <3>3, <3>4 DEF n
  <2>9. CASE ~ IsLastRef(i, e)
    <3>1. evt'[e] = [evt[e] EXCEPT !.refs = evt[e].refs - m]
      BY <1>1, <2>9 DEF m
    <3>2. IsEvent(evt'[e]) /\ evt'[e].refs = evt[e].refs - m /\ evt'[e].status = evt[e].status
      BY ONLY <2>5, <3>1 DEF IsEvent
    <3>3. evt'[e].refs = n
      BY <2>7, <3>2
    <3>4. evt[e].status = "active" => n > 0
      BY <2>4, <2>5, <2>6, <2>7, <2>9
    <3>5. evt[e].status = "free" => n = 0
      BY <2>4, <2>5, <2>7
    <3> QED BY <2>4, <2>5, <2>9, <3>2, <3>3, <3>4, <3>5 DEF n
  <2> QED BY <2>8, <2>9
<1>3. evt' = [e \in EventId |-> evt'[e]]
  BY <1>1
<1> QED BY <1>2, <1>3

\* free_rule_instance() leaves exact counters and no pointer to what it freed, once the
\* threads of the instance are gone.
LEMMA InstanceFreed ==
  ASSUME Inv, NEW i \in Insts, NEW n, FreeRuleInstance(i, n),
         NEW gone \in SUBSET Threads, ThreadsOf(i) = gone, n = Cardinality(Threads \ gone),
         thr' = [t \in ThreadId |-> thr'[t]],
         \A t \in ThreadId : /\ IsThread(thr'[t])
                             /\ thr'[t].si = IF t \in gone THEN NULL ELSE thr[t].si,
         pc # "idle", pc' # "idle", active_event_cur' = active_event_cur
  PROVE  /\ Live' /\ ThreadsCounted' /\ Referred' /\ HeapShape' /\ IsCtx(ctx')
         /\ Threads' = Threads \ gone /\ Insts' = Insts \ {i}
         /\ \A j \in InstId : j # i => ri'[j] = ri[j]
<1>1. /\ si' = FreedStates(i) /\ evt' = FreedEvents(i) /\ ri' = [ri EXCEPT ![i] = NullInst]
      /\ \E x, y : ctx' = [threads |-> n, state_instances |-> x, rule_instances |-> y,
                           active_events |-> ctx.active_events
                                               - Cardinality({e \in EventId : IsLastRef(i, e)})]
  BY DEF FreeRuleInstance
<1>2. i \in InstId /\ i # NULL
  BY NullIsNone DEF Insts
<1>3. /\ si' = [s \in StateId |-> si'[s]]
      /\ \A s \in StateId : /\ IsState(si'[s])
                            /\ si[s].inst # i => si'[s] = si[s]
                            /\ si[s].inst = i => si'[s].inst = NULL /\ si'[s].event = NULL
  <2>1. IsState(NullState) /\ NullState.inst = NULL /\ NullState.event = NULL
    BY DEF NullState, IsState
  <2>2. \A s \in StateId : IsState(si[s])
    BY DEF Inv, Shape
  <2> HIDE DEF NullState
  <2> QED BY <1>1, <2>1, <2>2 DEF FreedStates
<1>4. /\ ri' = [j \in InstId |-> ri'[j]]
      /\ \A j \in InstId : j # i => ri'[j] = ri[j]
      /\ IsInst(ri'[i]) /\ ri'[i].rule = 0 /\ ri'[i].threads = 0
  <2>1. IsInst(NullInst) /\ NullInst.rule = 0 /\ NullInst.threads = 0
    BY DEF NullInst, IsInst
  <2> HIDE DEF NullInst
  <2> QED BY <1>1, <1>2, <2>1 DEF Inv, Shape
<1>5. Insts' = Insts \ {i}
  BY <1>2, <1>4 DEF Insts
<1>6. States' = {s \in States : si[s].inst # i}
  BY <1>3 DEF States
<1>7. Threads' = Threads \ gone
  BY DEF Threads
<1>8. \A t \in Threads' : /\ t \in Threads /\ t \notin gone /\ thr'[t].si = thr[t].si
                          /\ thr[t].si \in States /\ InstOf(t) # i
  <2>1. \A t \in Threads' : t \in Threads /\ t \notin gone /\ t \in ThreadId
    BY <1>7 DEF Threads
  <2>2. \A t \in Threads : InstOf(t) = i => t \in gone
    BY DEF ThreadsOf
  <2> QED BY <2>1, <2>2 DEF Inv, Live
<1>9. \A t \in Threads' : thr'[t].si \in States' /\ InstOf(t)' = InstOf(t)
  BY <1>3, <1>6, <1>8 DEF InstOf, States
<1>10. Live'
  <2>1. \A s \in States' : si'[s].inst \in Insts'
    BY <1>3, <1>5, <1>6 DEF Inv, Live, States
  <2> QED BY <1>9, <2>1 DEF Live
<1>11. \A j : j # i => ThreadsOf(j)' = ThreadsOf(j)
  <2>1. \A t \in Threads : t \in gone => InstOf(t) = i
    BY DEF ThreadsOf
  <2> QED BY <1>7, <1>8, <1>9, <2>1 DEF ThreadsOf
<1>12. \A e \in EventId :
         /\ IsEvent(evt'[e]) /\ evt'[e].refs \in Nat
         /\ evt'[e].status \in {"free", "current", "active"}
         /\ evt'[e].refs = Cardinality(Refs(e)')
         /\ evt'[e].status = "free" => evt'[e].refs = 0
         /\ evt'[e].status = "active" => evt'[e].refs > 0
         /\ (evt'[e].status = "current") <=> e = active_event_cur
         /\ evt'[e].status = IF IsLastRef(i, e) THEN "free" ELSE evt[e].status
         /\ IsLastRef(i, e) => evt[e].status = "active"
  BY <1>1, <1>2, EventsFreed
<1>13. evt' = [e \in EventId |-> evt'[e]]
  BY <1>1, <1>2, EventsFreed
<1> DEFINE A == {e \in EventId : evt[e].status = "active"}
           L == {e \in EventId : IsLastRef(i, e)}
           B == {e \in EventId : evt'[e].status = "active"}
<1>14. Cardinality(B) = Cardinality(A) - Cardinality(L) /\ Cardinality(A) \in Nat /\ Cardinality(L) \in Nat
  <2>1. B = A \ L /\ A \cap L = L
    BY <1>12
  <2>2. IsFiniteSet(A)
    BY FiniteParts
  <2> HIDE DEF A, B, L
  <2> QED BY <2>1, <2>2, Removed
<1>15. IsCtx(ctx') /\ ctx'.threads = n /\ ctx'.active_events = Cardinality(B)
  <2>1. ctx.active_events = Cardinality(A)
    BY DEF Inv, Referred
  <2>2. n \in Nat
    BY FiniteParts DEF Threads
  <2>3. PICK x, y : ctx' = [threads |-> n, state_instances |-> x, rule_instances |-> y,
                            active_events |-> ctx.active_events - Cardinality(L)]
    BY <1>1
  <2> HIDE DEF A, B, L
  <2>4. ctx.active_events - Cardinality(L) \in Int /\ ctx.active_events - Cardinality(L) = Cardinality(B)
    BY <1>14, <2>1
  <2> QED BY <2>2, <2>3, <2>4 DEF IsCtx
<1>16. Referred'
  <2>1. active_event_cur \in EventId
    BY DEF Inv, Referred
  <2> QED BY <1>12, <1>15, <2>1 DEF Referred
<1>17. ThreadsCounted'
  <2>1. \A j \in Insts' : ri'[j].threads = Cardinality(ThreadsOf(j)')
    <3>1. \A j \in Insts' : j \in Insts /\ j # i /\ j \in InstId
      BY <1>5 DEF Insts
    <3> QED BY <1>4, <1>11, <3>1 DEF Inv, Counted, ThreadsCounted
  <2> QED BY <1>7, <1>15, <2>1 DEF ThreadsCounted
<1>18. HeapShape'
  <2>1. \A t \in ThreadId : thr'[t].si \in {NULL} \cup StateId
    BY DEF Inv, Shape
  <2>2. \A s \in StateId : /\ si'[s].inst \in {NULL} \cup InstId
                           /\ si'[s].event \in {NULL} \cup EventId
                           /\ si'[s].inst = NULL => si'[s].event = NULL
    <3>1. \A s \in StateId : /\ si[s].inst \in {NULL} \cup InstId
                             /\ si[s].event \in {NULL} \cup EventId
                             /\ si[s].inst = NULL => si[s].event = NULL
      BY DEF Inv, Shape
    <3> QED BY ONLY <1>3, <3>1
  <2>3. \A j \in InstId : IsInst(ri'[j]) /\ ri'[j].threads \in Nat
    <3>1. \A j \in InstId : IsInst(ri[j]) /\ ri[j].threads \in Nat
      BY DEF Inv, Shape
    <3> QED BY ONLY <1>4, <3>1
  <2> QED BY <1>3, <1>4, <1>12, <1>13, <2>1, <2>2, <2>3 DEF HeapShape
<1> QED BY <1>4, <1>5, <1>7, <1>10, <1>15, <1>16, <1>17, <1>18

\* An initial instance without threads is freed with all that refers to it.
LEMMA DropStep == ASSUME Inv, NoInitialThreads, DropInitialInstance PROVE Inv'
<1>a. PICK i : i = Subject
  OBVIOUS
<1>1. /\ pc = "ret" /\ phase = "init" /\ ret <= 0 /\ FreeRuleInstance(i, ctx.threads)
      /\ rulePos' = rulePos + 1 /\ pc' = "init" /\ Returned
      /\ thr' = thr /\ SameQueues /\ active_event_cur' = active_event_cur
  BY <1>a DEF DropInitialInstance, InitReturned, Subject, queue, SameQueues
<1>2. i \in Insts /\ i \in InstId
  BY <1>a, <1>1 DEF Inv, Control, Live, Subject, Insts
<1>3. ThreadsOf(i) = {}
  BY <1>a, <1>1 DEF NoInitialThreads, InitReturned, Subject
<1>4. ctx.threads = Cardinality(Threads \ {}) /\ Threads \ {} = Threads
  BY DEF Inv, Counted, ThreadsCounted
<1>5. /\ thr' = [t \in ThreadId |-> thr'[t]]
      /\ \A t \in ThreadId : /\ IsThread(thr'[t])
                             /\ thr'[t].si = IF t \in {} THEN NULL ELSE thr[t].si
  BY <1>1 DEF Inv, Shape
<1>6. /\ Live' /\ ThreadsCounted' /\ Referred' /\ HeapShape' /\ IsCtx(ctx')
      /\ Threads' = Threads /\ Insts' = Insts \ {i}
      /\ \A j \in InstId : j # i => ri'[j] = ri[j]
  <2>1. {} \in SUBSET Threads
    OBVIOUS
  <2> QED BY <1>1, <1>2, <1>3, <1>4, <1>5, <2>1, InstanceFreed
<1>7. /\ stack' = << >> /\ phase' = "none" /\ stack' \in Seq([si : StateId, t : Nat])
      /\ created' \in Nat /\ ret' \in Int
  BY <1>1, CallEnds
<1>8. Counted' /\ Control'
  BY <1>1, <1>6, <1>7 DEF Counted, Control
<1>9. Initial'
  <2>1. \A j \in Insts \ {i} : j \in InstId /\ ri[j].linked
    BY <1>a DEF Inv, Initial, Insts
  <2>2. cur' = << >>
    BY <1>1 DEF Inv, Initial, SameQueues
  <2> QED BY <1>6, <2>1, <2>2 DEF Initial
<1>10. Shape'
  <2>1. rulePos' \in Nat \ {0} /\ {cur', retrig', newq'} \subseteq Seq(ThreadId)
        /\ active_event_cur' \in {NULL} \cup EventId
    BY <1>1 DEF Inv, Shape, SameQueues
  <2> QED BY <1>1, <1>6, <1>7, <2>1 DEF HeapShape, Shape
<1>11. Queued' /\ Pointers'
  BY <1>1, <1>6, QueuesStay
<1> QED BY <1>6, <1>8, <1>9, <1>10, <1>11 DEF Inv

-----------------------------------------------------------------------------
(* The threads of the evt-loop.                                             *)

\* The threads th are those of the heap, some of them marked.
Marks(th) ==
  /\ th = [t \in ThreadId |-> th[t]]
  /\ \A t \in ThreadId : IsThread(th[t]) /\ th[t].si = thr[t].si

\* THREAD_BUMP is set without changing the state instances that threads wait in.
LEMMA BumpedMarks == ASSUME Inv, NEW th, Marks(th), NEW q PROVE Marks(Bumped(th, q))
<1>1. Bumped(th, q) = [t \in ThreadId |-> Bumped(th, q)[t]]
  BY DEF Bumped
<1>2. ASSUME NEW t \in ThreadId
      PROVE  IsThread(Bumped(th, q)[t]) /\ Bumped(th, q)[t].si = thr[t].si
  <2> DEFINE x == Bumped(th, q)[t]
  <2>1. x = th[t] \/ x = [th[t] EXCEPT !.bump = TRUE]
    BY DEF Bumped
  <2>2. IsThread(th[t]) /\ th[t].si = thr[t].si
    BY DEF Marks
  <2> HIDE DEF x
  <2>3. IsThread(x) /\ x.si = th[t].si
    BY ONLY <2>1, <2>2 DEF IsThread
  <2> QED BY <2>2, <2>3 DEF x
<1> QED BY <1>1, <1>2 DEF Marks

\* THREAD_KILLED is set without changing the state instances that threads wait in.
LEMMA KillMarks == ASSUME Inv, NEW S PROVE Marks(Kill(thr, S)) /\ Marks(thr)
<1>1. Marks(thr)
  BY DEF Marks, Inv, Shape
<1> QED BY <1>1, KillKeeps DEF Marks, Inv

\* One thread less in the heap.
LEMMA ThreadFreed ==
  ASSUME Inv, cur # << >>, phase # "init", pc # "idle", pc' # "idle",
         active_event_cur' = active_event_cur,
         NEW t, t = Head(cur), NEW th, Marks(th), Reap(t, th)
  PROVE  /\ Live' /\ ThreadsCounted' /\ Referred' /\ HeapShape' /\ IsCtx(ctx') /\ Pointers'
         /\ t \in Threads /\ Threads' = Threads \ {t}
         /\ Insts' \subseteq Insts /\ \A j \in Insts' : ri'[j].linked
<1>a. PICK i : i = InstOf(t)
  OBVIOUS
<1>1. t \in Threads /\ t \in ThreadId /\ i \in Insts /\ i \in InstId /\ thr[t].si \in StateId
  BY <1>a, HeadLives
<1>2. /\ cur_retrig_qh' = HeadAfter(t) /\ current_tail' = NULL
      /\ thr' = [th EXCEPT ![t] = NullThread]
      /\ IF ri[i].threads - 1 = 0 /\ ri[i].linked
         THEN FreeRuleInstance(i, ctx.threads - 1)
         ELSE /\ ri' = [ri EXCEPT ![i].threads = @ - 1,
                                 ![i].killed = @ \/ ri[i].threads = 1]
              /\ ctx' = [ctx EXCEPT !.threads = @ - 1]
              /\ si' = IF ri[i].threads = 1 THEN si
                       ELSE [si EXCEPT ![thr[t].si].thread_list = Unlinked(t)]
              /\ evt' = evt
  BY <1>a DEF Reap, TailAfter
<1>3. /\ thr' = [u \in ThreadId |-> thr'[u]]
      /\ \A u \in ThreadId : /\ IsThread(thr'[u])
                             /\ thr'[u].si = IF u \in {t} THEN NULL ELSE thr[u].si
  <2>1. IsThread(NullThread) /\ NullThread.si = NULL
    BY DEF NullThread, IsThread
  <2> HIDE DEF NullThread
  <2> QED BY <1>1, <1>2, <2>1 DEF Marks
<1>4. \A j \in Insts : j \in InstId /\ ri[j].linked
  BY DEF Inv, Initial, Insts
<1>5. /\ ri[i].threads = Cardinality(ThreadsOf(i)) /\ ctx.threads = Cardinality(Threads)
      /\ t \in ThreadsOf(i) /\ IsFiniteSet(Threads) /\ IsFiniteSet(ThreadsOf(i))
  BY <1>a, <1>1, FiniteParts DEF Inv, Counted, ThreadsCounted, ThreadsOf, Threads
<1>6. /\ Cardinality(Threads \ {t}) = ctx.threads - 1 /\ ctx.threads - 1 \in Nat
      /\ Cardinality(ThreadsOf(i) \ {t}) = ri[i].threads - 1 /\ ri[i].threads - 1 \in Nat
  <2>1. /\ IsFiniteSet(Threads \ {t}) /\ Cardinality(Threads \ {t}) = Cardinality(Threads) - 1
        /\ IsFiniteSet(ThreadsOf(i) \ {t})
        /\ Cardinality(ThreadsOf(i) \ {t}) = Cardinality(ThreadsOf(i)) - 1
    BY <1>1, <1>5, FS_RemoveElement
  <2>2. Cardinality(Threads \ {t}) \in Nat /\ Cardinality(ThreadsOf(i) \ {t}) \in Nat
    BY <2>1, FS_CardinalityType
  <2> QED BY <1>5, <2>1, <2>2
<1>7. Pointers'
  <2>1. Threads' = Threads \ {t}
    BY <1>1, <1>3 DEF Threads
  <2>2. HeadAfter(t) \in {NULL} \cup (Threads \ {t})
    <3>1. CASE t = cur_retrig_qh /\ Len(cur) # 1
      <4>1. cur \in Seq(ThreadId) /\ Len(cur) \in Nat \ {0} /\ DOMAIN cur = 1 .. Len(cur)
            /\ t = cur[1]
        BY HeadIn DEF Inv, Shape
      <4>2. 2 \in DOMAIN cur /\ 1 \in DOMAIN cur
        BY <3>1, <4>1
      <4>3. cur[2] \in Threads /\ cur[2] # t
        BY <4>1, <4>2 DEF Inv, Queued, Elems, Distinct
      <4> QED BY <3>1, <4>3 DEF HeadAfter, NextOf
    <3>2. CASE t = cur_retrig_qh /\ Len(cur) = 1
      BY <3>2 DEF HeadAfter, NextOf
    <3>3. CASE t # cur_retrig_qh
      BY <3>3 DEF HeadAfter, Inv, Pointers
    <3> QED BY <3>1, <3>2, <3>3
  <2> QED BY <1>2, <2>1, <2>2 DEF Pointers
<1>8. CASE ri[i].threads - 1 = 0
  <2>1. FreeRuleInstance(i, ctx.threads - 1)
    BY <1>1, <1>2, <1>4, <1>8
  <2>2. ThreadsOf(i) = {t}
    <3>1. IsFiniteSet(ThreadsOf(i) \ {t})
      BY <1>5, FS_RemoveElement
    <3>2. ThreadsOf(i) \ {t} = {}
      BY <1>6, <1>8, <3>1, FS_EmptySet
    <3> QED BY <1>5, <3>2
  <2>3. {t} \in SUBSET Threads
    BY <1>1
  <2>4. /\ Live' /\ ThreadsCounted' /\ Referred' /\ HeapShape' /\ IsCtx(ctx')
        /\ Threads' = Threads \ {t} /\ Insts' = Insts \ {i}
        /\ \A j \in InstId : j # i => ri'[j] = ri[j]
    BY <1>1, <1>3, <1>6, <2>1, <2>2, <2>3, InstanceFreed
  <2> QED BY <1>1, <1>4, <1>7, <2>4
<1>9. CASE ri[i].threads - 1 # 0
  <2>1. /\ ri' = [ri EXCEPT ![i].threads = @ - 1, ![i].killed = @ \/ ri[i].threads = 1]
        /\ ctx' = [ctx EXCEPT !.threads = @ - 1]
        /\ \E list : si' = [si EXCEPT ![thr[t].si].thread_list = list]
        /\ evt' = evt
    <3>1. ri[i].threads # 1
      BY <1>6, <1>9
    <3> QED BY <1>2, <1>9, <3>1
  <2>2. /\ ri' = [j \in InstId |-> ri'[j]]
        /\ \A j \in InstId :
             /\ IsInst(ri'[j]) /\ ri'[j].rule = ri[j].rule /\ ri'[j].linked = ri[j].linked
             /\ ri'[j].threads = IF j = i THEN ri[j].threads - 1 ELSE ri[j].threads
    <3>1. ri' = [j \in InstId |-> IF j = i
                   THEN [ri[j] EXCEPT !.threads = @ - 1, !.killed = @ \/ ri[i].threads = 1]
                   ELSE ri[j]]
      BY <1>1, <2>1 DEF Inv, Shape
    <3>2. ASSUME NEW j \in InstId
          PROVE  /\ IsInst(ri'[j]) /\ ri'[j].rule = ri[j].rule /\ ri'[j].linked = ri[j].linked
                 /\ ri'[j].threads = IF j = i THEN ri[j].threads - 1 ELSE ri[j].threads
      <4>1. ri'[j] = IF j = i
                     THEN [ri[j] EXCEPT !.threads = @ - 1, !.killed = @ \/ ri[i].threads = 1]
                     ELSE ri[j]
        BY <3>1
      <4>2. IsInst(ri[j])
        BY DEF Inv, Shape
      <4> QED BY ONLY <4>1, <4>2 DEF IsInst
    <3> QED BY <3>1, <3>2
  <2>3. /\ si' = [x \in StateId |-> si'[x]]
        /\ \A x \in StateId : /\ IsState(si'[x]) /\ si'[x].inst = si[x].inst
                              /\ si'[x].event = si[x].event
    <3>1. PICK list : si' = [si EXCEPT ![thr[t].si].thread_list = list]
      BY <2>1
    <3>2. si' = [x \in StateId |-> IF x = thr[t].si THEN [si[x] EXCEPT !.thread_list = list] ELSE si[x]]
      BY <1>1, <3>1 DEF Inv, Shape
    <3>3. \A x \in StateId : IsState(si[x])
      BY DEF Inv, Shape
    <3>4. \A x \in StateId : \/ si'[x] = si[x]
                             \/ si'[x] = [si[x] EXCEPT !.thread_list = list]
      BY <3>2
    <3>5. \A x \in StateId : /\ IsState(si'[x]) /\ si'[x].inst = si[x].inst
                             /\ si'[x].event = si[x].event
      BY ONLY <3>3, <3>4 DEF IsState
    <3> QED BY <3>2, <3>5
  <2>4. IsCtx(ctx') /\ ctx'.threads = ctx.threads - 1 /\ ctx'.active_events = ctx.active_events
    <3>1. IsCtx(ctx)
      BY DEF Inv, Shape
    <3> QED BY <1>6, <2>1, <3>1 DEF IsCtx
  <2>5. Insts' = Insts /\ States' = States
    BY <2>2, <2>3 DEF Insts, States
  <2>6. Threads' = Threads \ {t}
    BY <1>1, <1>3 DEF Threads
  <2>7. \A u \in Threads' : /\ u \in Threads /\ u # t /\ thr'[u].si \in States
                            /\ InstOf(u)' = InstOf(u)
    BY <1>3, <2>3, <2>6 DEF Inv, Live, InstOf, States, Threads
  <2>8. Live'
    <3>1. \A x \in States : si'[x].inst \in Insts
      BY <2>3 DEF Inv, Live, States
    <3> QED BY <2>5, <2>7, <3>1 DEF Live
  <2>9. \A j : ThreadsOf(j)' = IF j = i THEN ThreadsOf(j) \ {t} ELSE ThreadsOf(j)
    BY <1>a, <2>6, <2>7 DEF ThreadsOf
  <2>10. ThreadsCounted'
    <3>1. \A j \in Insts : j \in InstId /\ ri[j].threads = Cardinality(ThreadsOf(j))
      BY DEF Inv, Counted, ThreadsCounted, Insts
    <3>2. \A j \in Insts : ri'[j].threads = Cardinality(ThreadsOf(j)')
      BY <1>6, <2>2, <2>9, <3>1
    <3> QED BY <1>6, <2>4, <2>5, <2>6, <3>2 DEF ThreadsCounted
  <2>11. Referred'
    <3>1. \A e : Refs(e)' = Refs(e)
      BY <2>3 DEF Refs
    <3> QED BY <2>1, <2>4, <3>1 DEF Inv, Referred
  <2>12. HeapShape'
    <3>1. \A u \in ThreadId : thr'[u].si \in {NULL} \cup StateId
      BY <1>3 DEF Inv, Shape
    <3>2. \A j \in InstId : ri[j].threads \in Nat
      BY DEF Inv, Shape
    <3>3. \A j \in InstId : ri'[j].threads \in Nat
      BY ONLY <1>6, <2>2, <3>2
    <3> QED BY ZenonT(60), <1>3, <2>1, <2>2, <2>3, <3>1, <3>3 DEF HeapShape, Inv, Shape
  <2>13. \A j \in Insts' : ri'[j].linked
    BY <1>4, <2>2, <2>5
  <2> QED BY <1>1, <1>7, <2>4, <2>5, <2>6, <2>8, <2>10, <2>11, <2>12, <2>13
<1> QED BY <1>8, <1>9

\* What the queues retrig and newq become: the same threads, in another order or not.
SameWaiting ==
  /\ {retrig', newq'} \subseteq Seq(ThreadId)
  /\ Elems(retrig') \cup Elems(newq') = Elems(retrig) \cup Elems(newq)
  /\ Distinct(retrig') /\ Distinct(newq') /\ Disjoint(retrig', newq')
  /\ Len(retrig') + Len(newq') = Len(retrig) + Len(newq)

\* A commit moves the threads of one queue to another.
LEMMA WaitingKept ==
  ASSUME Inv,
         \/ UNCHANGED << retrig, newq >>
         \/ newq' = newq \o retrig /\ retrig' = << >>
  PROVE  SameWaiting
<1>1. /\ retrig \in Seq(ThreadId) /\ newq \in Seq(ThreadId)
      /\ Distinct(retrig) /\ Distinct(newq) /\ Disjoint(retrig, newq) /\ Disjoint(newq, retrig)
      /\ Len(retrig) \in Nat /\ Len(newq) \in Nat
  <2>1. retrig \in Seq(ThreadId) /\ newq \in Seq(ThreadId)
    BY DEF Inv, Shape
  <2> QED BY <2>1, LenProperties DEF Inv, Queued, Disjoint
<1>2. CASE UNCHANGED << retrig, newq >>
  BY <1>1, <1>2 DEF SameWaiting
<1>3. CASE newq' = newq \o retrig /\ retrig' = << >>
  <2>1. /\ newq' \in Seq(ThreadId) /\ Elems(newq') = Elems(newq) \cup Elems(retrig)
        /\ Distinct(newq') /\ Len(newq') = Len(newq) + Len(retrig)
    BY <1>1, <1>3, Joined
  <2>2. /\ retrig' \in Seq(ThreadId) /\ Elems(retrig') = {} /\ Distinct(retrig') /\ Len(retrig') = 0
    BY <1>3 DEF Elems, Distinct
  <2>3. Disjoint(retrig', newq')
    BY <2>2 DEF Disjoint
  <2>4. Len(retrig') + Len(newq') = Len(retrig) + Len(newq)
    BY <1>1, <2>1, <2>2
  <2> QED BY <2>1, <2>2, <2>3, <2>4 DEF SameWaiting
<1> QED BY <1>2, <1>3

\* The next iteration of the loop begins.
LoopGoesOn ==
  /\ pc' = "loop" /\ phase' = "none" /\ stack' = << >> /\ created' \in Nat /\ ret' \in Int
  /\ active_event_cur' = active_event_cur /\ rulePos' = rulePos

\* What the end of an iteration of the evt-loop leaves to show.
LEMMA LoopKeeps ==
  ASSUME Inv, LoopGoesOn, Live', ThreadsCounted', HeapShape', IsCtx(ctx'),
         {cur', retrig', newq'} \subseteq Seq(ThreadId), \A j \in Insts' : ri'[j].linked
  PROVE  Shape' /\ Counted' /\ Control' /\ Initial'
<1>1. Counted' /\ Control'
  BY DEF Counted, Control, LoopGoesOn
<1>2. Initial'
  BY DEF Initial, LoopGoesOn
<1>3. Shape'
  <2>1. /\ active_event_cur' \in {NULL} \cup EventId /\ rulePos' \in Nat \ {0}
    BY DEF Inv, Shape, LoopGoesOn
  <2>2. stack' \in Seq([si : StateId, t : Nat])
    BY DEF LoopGoesOn
  <2> QED BY <2>1, <2>2 DEF Shape, HeapShape, LoopGoesOn
<1> QED BY <1>1, <1>2, <1>3

\* A thread leaves the loop for ever.
LEMMA ReapStep ==
  ASSUME Inv, cur # << >>, phase # "init", pc # "idle", LoopGoesOn, SameWaiting,
         NEW th, Marks(th), Reap(Head(cur), th)
  PROVE  Inv'
<1>a. PICK t : t = Head(cur)
  OBVIOUS
<1>1. /\ Live' /\ ThreadsCounted' /\ Referred' /\ HeapShape' /\ IsCtx(ctx') /\ Pointers'
      /\ t \in Threads /\ Threads' = Threads \ {t}
      /\ Insts' \subseteq Insts /\ \A j \in Insts' : ri'[j].linked
  BY <1>a, ThreadFreed DEF LoopGoesOn
<1>2. cur' = Tail(cur)
  BY DEF Reap
<1>3. cur \in Seq(ThreadId) /\ Distinct(cur)
  BY DEF Inv, Shape, Queued
<1>4. /\ cur' \in Seq(ThreadId) /\ Elems(cur') = Elems(cur) \ {t}
      /\ Distinct(cur') /\ Len(cur') = Len(cur) - 1 /\ Len(cur) \in Nat \ {0} /\ t \in Elems(cur)
  BY <1>a, <1>2, <1>3, TailOf
<1>5. /\ Len(retrig) \in Nat /\ Len(newq) \in Nat /\ Len(retrig') \in Nat /\ Len(newq') \in Nat
  BY LenProperties DEF Inv, Shape, SameWaiting
<1>6. Queued'
  <2>1. /\ Elems(cur) \cup Elems(retrig) \cup Elems(newq) = Threads
        /\ Disjoint(cur, retrig) /\ Disjoint(cur, newq)
        /\ Len(cur) + Len(retrig) + Len(newq) = Cardinality(Threads)
    BY DEF Inv, Queued
  <2>2. t \notin Elems(retrig') \cup Elems(newq')
    BY <1>4, <2>1 DEF SameWaiting, Disjoint
  <2>3. Elems(cur') \cup Elems(retrig') \cup Elems(newq') = Threads'
    BY <1>1, <1>4, <2>1, <2>2 DEF SameWaiting
  <2>4. Disjoint(cur', retrig') /\ Disjoint(cur', newq')
    BY <1>4, <2>1 DEF SameWaiting, Disjoint
  <2>5. Len(cur') + Len(retrig') + Len(newq') = Cardinality(Threads')
    <3>1. Cardinality(Threads') = Cardinality(Threads) - 1
      BY <1>1, FiniteParts, FS_RemoveElement DEF Threads
    <3>2. Len(retrig') + Len(newq') = Len(retrig) + Len(newq)
      BY DEF SameWaiting
    <3> QED BY <1>4, <1>5, <2>1, <3>1, <3>2
  <2>6. Distinct(retrig') /\ Distinct(newq') /\ Disjoint(retrig', newq')
    BY DEF SameWaiting
  <2> QED BY <1>4, <2>3, <2>4, <2>5, <2>6 DEF Queued, Elems, Distinct, Disjoint
<1>7. Shape' /\ Counted' /\ Control' /\ Initial'
  <2>1. {cur', retrig', newq'} \subseteq Seq(ThreadId)
    BY <1>4 DEF SameWaiting
  <2> QED BY <1>1, <2>1, LoopKeeps
<1> QED BY <1>1, <1>6, <1>7 DEF Inv

\* A thread waits again.
LEMMA RetriggerStep ==
  ASSUME Inv, cur # << >>, phase # "init", pc # "idle", LoopGoesOn,
         NEW th, Marks(th), Retrigger(Head(cur), th)
  PROVE  Inv'
<1>a. PICK t : t = Head(cur)
  OBVIOUS
<1>1. t \in Threads /\ t \in ThreadId
  BY <1>a, HeadLives
<1>2. /\ cur' = Tail(cur) /\ current_tail' = t /\ cur_retrig_qh' = cur_retrig_qh
      /\ \/ /\ thr' = Bumped(th, Append(retrig, t)) /\ newq' = newq \o Append(retrig, t)
            /\ retrig' = << >>
         \/ thr' = th /\ retrig' = Append(retrig, t) /\ newq' = newq
      /\ si' = si /\ ri' = ri /\ evt' = evt /\ ctx' = ctx
  BY <1>a DEF Retrigger, stats
<1>3. Marks(thr')
  BY <1>2, BumpedMarks
<1>4. SameHeap
  BY <1>2, <1>3 DEF SameHeap, Marks, LoopGoesOn
<1>5. /\ Threads' = Threads /\ States' = States /\ Insts' = Insts
      /\ Live' /\ ThreadsCounted' /\ Referred'
  <2>1. pc' = "idle" <=> pc = "idle"
    BY DEF LoopGoesOn
  <2> QED BY <1>4, <2>1, HeapStays
<1>6. HeapShape'
  <2>1. \A u \in ThreadId : IsThread(thr'[u]) /\ thr'[u].si \in {NULL} \cup StateId
    BY <1>3 DEF Marks, Inv, Shape
  <2>2. thr' = [u \in ThreadId |-> thr'[u]]
    BY <1>3 DEF Marks
  <2> QED BY <1>2, <2>1, <2>2 DEF HeapShape, Inv, Shape
<1>7. /\ cur \in Seq(ThreadId) /\ retrig \in Seq(ThreadId) /\ newq \in Seq(ThreadId)
      /\ Distinct(cur) /\ Distinct(retrig) /\ Distinct(newq)
      /\ Disjoint(cur, retrig) /\ Disjoint(cur, newq) /\ Disjoint(retrig, newq)
      /\ Elems(cur) \cup Elems(retrig) \cup Elems(newq) = Threads
      /\ Len(cur) + Len(retrig) + Len(newq) = Cardinality(Threads)
  BY DEF Inv, Shape, Queued
<1>8. /\ cur' \in Seq(ThreadId) /\ Elems(cur') = Elems(cur) \ {t}
      /\ Distinct(cur') /\ Len(cur') = Len(cur) - 1 /\ Len(cur) \in Nat \ {0} /\ t \in Elems(cur)
  BY <1>a, <1>2, <1>7, TailOf
<1>9. t \notin Elems(retrig) /\ t \notin Elems(newq) /\ Len(retrig) \in Nat /\ Len(newq) \in Nat
  BY <1>7, <1>8, LenProperties DEF Disjoint
<1> DEFINE q == Append(retrig, t)
<1>10. /\ q \in Seq(ThreadId) /\ Elems(q) = Elems(retrig) \cup {t} /\ Distinct(q)
       /\ Len(q) = Len(retrig) + 1
  BY <1>1, <1>7, <1>9, AppendTo
<1> HIDE DEF q
<1>11. Disjoint(newq, q) /\ Disjoint(q, newq)
  BY <1>7, <1>9, <1>10 DEF Disjoint
<1>12. /\ retrig' \in Seq(ThreadId) /\ newq' \in Seq(ThreadId)
       /\ Elems(retrig') \cup Elems(newq') = Elems(retrig) \cup Elems(newq) \cup {t}
       /\ Distinct(retrig') /\ Distinct(newq') /\ Disjoint(retrig', newq')
       /\ Len(retrig') + Len(newq') = Len(retrig) + Len(newq) + 1
  <2>1. CASE newq' = newq \o q /\ retrig' = << >>
    <3>1. /\ newq' \in Seq(ThreadId) /\ Elems(newq') = Elems(newq) \cup Elems(q)
          /\ Distinct(newq') /\ Len(newq') = Len(newq) + Len(q)
      BY <1>7, <1>10, <1>11, <2>1, Joined
    <3>2. retrig' \in Seq(ThreadId) /\ Elems(retrig') = {} /\ Distinct(retrig') /\ Len(retrig') = 0
      BY <2>1 DEF Elems, Distinct
    <3>3. Disjoint(retrig', newq')
      BY <3>2 DEF Disjoint
    <3>4. Elems(retrig') \cup Elems(newq') = Elems(retrig) \cup Elems(newq) \cup {t}
      BY <1>10, <3>1, <3>2
    <3>5. Len(retrig') + Len(newq') = Len(retrig) + Len(newq) + 1
      BY <1>9, <1>10, <3>1, <3>2
    <3> QED BY <3>1, <3>2, <3>3, <3>4, <3>5
  <2>2. CASE retrig' = q /\ newq' = newq
    <3>1. Elems(retrig') \cup Elems(newq') = Elems(retrig) \cup Elems(newq) \cup {t}
      BY <1>10, <2>2
    <3>2. Len(retrig') + Len(newq') = Len(retrig) + Len(newq) + 1
      BY <1>9, <1>10, <2>2
    <3> QED BY <1>7, <1>10, <1>11, <2>2, <3>1, <3>2
  <2> QED BY <1>2, <2>1, <2>2 DEF q
<1>13. Queued'
  <2>1. Elems(cur') \cup Elems(retrig') \cup Elems(newq') = Threads
    BY <1>7, <1>8, <1>12
  <2>2. Disjoint(cur', retrig') /\ Disjoint(cur', newq')
    BY <1>7, <1>8, <1>12 DEF Disjoint
  <2>3. Len(cur') + Len(retrig') + Len(newq') = Cardinality(Threads)
    <3>1. Len(retrig') \in Nat /\ Len(newq') \in Nat
      BY <1>12, LenProperties
    <3>2. Len(cur') + (Len(retrig') + Len(newq')) = Len(cur) + Len(retrig) + Len(newq)
      BY SMTT(60), <1>8, <1>9, <1>12
    <3>3. Len(cur') \in Nat
      BY <1>8
    <3> QED BY <1>7, <3>1, <3>2, <3>3
  <2> QED BY <1>5, <1>8, <1>12, <2>1, <2>2, <2>3 DEF Queued, Elems, Distinct, Disjoint
<1>14. Pointers'
  BY <1>1, <1>2, <1>5 DEF Inv, Pointers
<1>15. Shape' /\ Counted' /\ Control' /\ Initial'
  <2>1. \A j \in Insts' : ri'[j].linked
    BY <1>2, <1>5 DEF Inv, Initial
  <2>2. IsCtx(ctx') /\ {cur', retrig', newq'} \subseteq Seq(ThreadId)
    BY <1>2, <1>8, <1>12 DEF Inv, Shape
  <2> QED BY <1>5, <1>6, <2>1, <2>2, LoopKeeps
<1> QED BY <1>5, <1>13, <1>14, <1>15 DEF Inv

\* The rest of an iteration, whether the thread matched or not.
LEMMA IterationStep ==
  ASSUME Inv, cur # << >>, phase # "init", pc # "idle", LoopGoesOn, NEW th, Marks(th),
         ReapInitialThread(Head(cur), th) \/ Retrigger(Head(cur), th)
  PROVE  Inv'
<1>1. CASE ReapInitialThread(Head(cur), th)
  <2>1. CASE /\ newq' = newq \o retrig /\ retrig' = << >>
             /\ Reap(Head(cur), Bumped(th, retrig))
    BY <2>1, WaitingKept, BumpedMarks, ReapStep
  <2>2. CASE UNCHANGED << newq, retrig >> /\ Reap(Head(cur), th)
    BY <2>2, WaitingKept, ReapStep
  <2> QED BY <1>1, <2>1, <2>2 DEF ReapInitialThread
<1>2. CASE Retrigger(Head(cur), th)
  BY <1>2, RetriggerStep
<1> QED BY <1>1, <1>2

\* The thread that is killed or expired leaves its queue and the heap together.
LEMMA ReapKilledStep == ASSUME Inv, ReapKilledThread PROVE Inv'
<1>1. /\ pc = "loop" /\ cur # << >> /\ Reap(Head(cur), thr) /\ UNCHANGED << retrig, newq >>
      /\ UNCHANGED << phase, stack, created, ret, active_event_cur, pc, rulePos >>
  BY DEF ReapKilledThread, InLoop, call
<1>2. phase = "none" /\ stack = << >> /\ created \in Nat /\ ret \in Int
  BY <1>1 DEF Inv, Control, Shape
<1>3. LoopGoesOn
  BY <1>1, <1>2 DEF LoopGoesOn
<1>4. Marks(thr)
  BY KillMarks
<1> QED BY <1>1, <1>2, <1>3, <1>4, WaitingKept, ReapStep

\* A thread that does not match is freed if it is an initial one and waits again otherwise.
LEMMA FailsStep == ASSUME Inv, ThreadFails PROVE Inv'
<1>1. /\ pc = "loop" /\ cur # << >>
      /\ ReapInitialThread(Head(cur), thr) \/ Retrigger(Head(cur), thr)
      /\ UNCHANGED << phase, stack, created, ret, active_event_cur, pc, rulePos >>
  BY DEF ThreadFails, InLoop, call
<1>2. phase = "none" /\ stack = << >> /\ created \in Nat /\ ret \in Int
  BY <1>1 DEF Inv, Control, Shape
<1>3. LoopGoesOn
  BY <1>1, <1>2 DEF LoopGoesOn
<1>4. Marks(thr)
  BY KillMarks
<1> QED BY <1>1, <1>2, <1>3, <1>4, IterationStep

\* So does a thread that matched, after its simulation returned.
LEMMA AfterMatchStep == ASSUME Inv, AfterMatch PROVE Inv'
<1> DEFINE th == IF BacktrackIsNotNeeded(Head(cur)) THEN Kill(thr, {Head(cur)}) ELSE thr
<1>1. /\ pc = "ret" /\ phase = "loop" /\ Returned /\ pc' = "loop"
      /\ ReapInitialThread(Head(cur), th) \/ Retrigger(Head(cur), th)
      /\ active_event_cur' = active_event_cur /\ rulePos' = rulePos
  BY DEF AfterMatch
<1>2. cur # << >>
  BY <1>1 DEF Inv, Control
<1>3. LoopGoesOn
  BY <1>1, CallEnds DEF LoopGoesOn
<1>4. Marks(th)
  BY KillMarks
<1> HIDE DEF th
<1> QED BY <1>1, <1>2, <1>3, <1>4, IterationStep

-----------------------------------------------------------------------------
(* The invariant.                                                           *)

\* There is nothing at first.
LEMMA Initially == ASSUME Init PROVE Inv
<1>1. Threads = {} /\ States = {} /\ Insts = {}
  BY DEF Init, Threads, States, Insts, NullThread, NullState, NullInst
<1>2. Live
  BY <1>1 DEF Live
<1>3. Cardinality({}) = 0
  BY FS_EmptySet
<1>4. Queued
  <2>1. /\ cur = << >> /\ retrig = << >> /\ newq = << >> /\ Elems(<< >>) = {} /\ Distinct(<< >>)
        /\ Len(<< >>) = 0
    BY DEF Init, Elems, Distinct
  <2> QED BY <1>1, <1>3, <2>1 DEF Queued, Disjoint
<1>5. Pointers /\ Control
  BY DEF Init, Pointers, Control
<1>6. Counted
  BY <1>1, <1>3 DEF Init, Counted, ThreadsCounted
<1>7. Initial
  BY <1>1 DEF Init, Initial
<1>8. Referred
  <2>1. ASSUME NEW e \in EventId
        PROVE  evt[e].refs = 0 /\ evt[e].status = "free" /\ Refs(e) = {}
    <3>1. evt[e].refs = 0 /\ evt[e].status = "free"
      BY DEF Init, NullEvent
    <3>2. \A s \in StateId : si[s].event = NULL
      BY DEF Init, NullState
    <3> QED BY <3>1, <3>2, NullIsNone DEF Refs
  <2>2. {e \in EventId : evt[e].status = "active"} = {}
    BY <2>1
  <2> QED BY <1>3, <2>1, <2>2 DEF Init, Referred
<1>9. Shape
  <2>1. /\ IsThread(NullThread) /\ NullThread.si = NULL
        /\ IsState(NullState) /\ NullState.inst = NULL /\ NullState.event = NULL
        /\ IsInst(NullInst) /\ NullInst.threads = 0
        /\ IsEvent(NullEvent) /\ NullEvent.refs = 0 /\ NullEvent.status = "free"
    BY DEF NullThread, IsThread, NullState, IsState, NullInst, IsInst, NullEvent, IsEvent
  <2>2. IsCtx(ctx)
    BY DEF Init, IsCtx
  <2> HIDE DEF NullThread, NullState, NullInst, NullEvent
  <2>3. HeapShape
    BY <2>1 DEF Init, HeapShape
  <2> QED BY <2>2, <2>3 DEF Init, HeapShape, Shape
<1> QED BY <1>2, <1>4, <1>5, <1>6, <1>7, <1>8, <1>9 DEF Inv

\* Every step of the engine and of its environment.
LEMMA Inductive == ASSUME Inv, NoInitialThreads, [Next]_vars PROVE Inv'
<1>1. CASE SimulateStep
  BY <1>1, TerminalStep, PruneStep, EnterStep, PassStep, SkipStep, CreateThreadStep, ReturnStep
     DEF SimulateStep
<1>2. CASE InitialThreadsStep
  BY <1>2, CreateInitialStep, LinkStep, DropStep, MergeStep DEF InitialThreadsStep
<1>3. CASE EvtLoopStep
  BY <1>3, ReapKilledStep, FailsStep, MatchStep, AfterMatchStep, FinishStep DEF EvtLoopStep
<1>4. CASE Tick
  BY <1>4, StutterStep DEF Tick
<1>5. CASE \E k \in Keys \cup {NoKey} : InjectEvent(k)
  BY <1>5, InjectStep
<1>6. CASE UNCHANGED vars
  BY <1>6, StutterStep DEF vars
<1> QED BY <1>1, <1>2, <1>3, <1>4, <1>5, <1>6 DEF Next, EngineStep, EnvironmentStep

\* What the invariant says of the pointers and of the counters.
LEMMA Consequence == ASSUME Inv PROVE ReferencesExact
<1>1. NoDanglingPointer
  BY DEF Inv, Queued, Pointers, Live, NoDanglingPointer
<1>2. ThreadsCounted
  BY DEF Inv, Counted
<1>3. EventRefsCounted
  <2>1. \A e \in EventId : {s \in States : si[s].event = e} = Refs(e)
    <3>1. \A s \in StateId : s \notin States => si[s].event = NULL
      BY DEF Inv, Shape, States
    <3> QED BY <3>1, NullIsNone DEF Refs, States
  <2>2. {e \in Events : evt[e].status = "active"} = {e \in EventId : evt[e].status = "active"}
    BY DEF Events
  <2> QED BY <2>1, <2>2 DEF Inv, Referred, Events, EventRefsCounted
<1> QED BY <1>1, <1>2, <1>3 DEF ReferencesExact

\* The queues hold every live thread once, nothing refers to what was freed, and
\* the counters by which threads, rule instances and past events are freed are
\* exact (engine.c), as long as create_rule_initial_threads() frees no instance
\* that has a thread.
THEOREM ReferencesAlwaysExact == Spec /\ []NoInitialThreads => []ReferencesExact
<1>1. Init => Inv
  BY Initially
<1>2. Inv /\ NoInitialThreads /\ [Next]_vars => Inv'
  BY Inductive
<1>3. Inv => ReferencesExact
  BY Consequence
<1> QED BY <1>1, <1>2, <1>3, PTL DEF Spec
=============================================================================
