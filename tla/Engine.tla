------------------------------- MODULE Engine -------------------------------
(***************************************************************************)
(* The correlation engine of Orchids (src/src/engine.c).                   *)
(*                                                                         *)
(* A rule is an automaton.  Every injected event first gets one fresh      *)
(* instance of every rule, whose threads live for that event only          *)
(* (THREAD_ONLYONCE), and then wakes every thread that waits on a          *)
(* transition, in the order of the queue.  A thread that matches creates a *)
(* state instance, whose simulation follows the e-transitions and creates  *)
(* the threads of the blocking ones.                                       *)
(*                                                                         *)
(* One step of this module is one iteration of a loop of inject_event() or *)
(* of the recursive simulate_state_and_create_threads(), whose C stack is  *)
(* the variable stack.  Heap objects are named by the numbers of a pool,   *)
(* 0 is the NULL pointer, and a freed object is the pool's null record, so *)
(* that a dangling pointer is visible as a reference to a null record.     *)
(***************************************************************************)
EXTENDS Integers, Sequences, FiniteSets

CONSTANTS
  RuleSets,         \* the rules that may be compiled, in the order of first_rule
  Keys,             \* values of the field the rules bind and synchronize on
  NoKey,            \* an event that does not carry that field
  DEFAULT_TIMEOUT,  \* life time of a thread (orchids_defaults.h)
  MaxThreads, MaxStates, MaxInsts, MaxEvents,  \* bounds: sizes of the pools
  MaxInjected,      \* bound: number of events injected in a behaviour
  MaxTime           \* bound: how far the clock may advance

NULL     == 0
ThreadId == 1 .. MaxThreads
StateId  == 1 .. MaxStates
InstId   == 1 .. MaxInsts
EventId  == 1 .. MaxEvents

(***************************************************************************)
(* The compiled form of a rule.  A transition whose condition reads fields *)
(* is blocking ("expect"); one that reads none is an e-transition: with no *)
(* code ("goto", always taken) or with a condition ("cond").  A state      *)
(* binds when its action assigns the field of the current event to the     *)
(* rule's variable (flag BYTECODE_HAVE_PUSHFIELD), and kills when its      *)
(* action calls kill_threads(); cut is the state that its action names in  *)
(* cut(), and marks the function of mod_mark that its action calls.        *)
(***************************************************************************)
Transition == [kind : {"expect", "goto", "cond"}, dest : Nat]
State      == [bind : BOOLEAN, kills : BOOLEAN, cut : Nat,
               marks : {"", "mark", "mark_update", "mark_cut"}, trans : Seq(Transition)]
Rule       == [sync : BOOLEAN, state : Seq(State)]

\* Every rule has an initial state and every transition a state to go to.
ASSUME RulesAssumption ==
  \A rs \in RuleSets :
    /\ rs \in Seq(Rule)
    /\ \A r \in DOMAIN rs :
         /\ rs[r].state # << >>
         /\ \A s \in DOMAIN rs[r].state :
              LET trans == rs[r].state[s].trans
              IN  \A n \in DOMAIN trans : trans[n].dest \in DOMAIN rs[r].state

\* The states that e-transitions lead to from the initial one, and rules whose
\* instances cannot end before they have begun to wait: no such state is
\* terminal, and none can meet a lock.
Follows(rule, s) ==
  LET trans == rule.state[s].trans
  IN  {trans[n].dest : n \in {m \in DOMAIN trans : trans[m].kind # "expect"}}
Behind(rule) ==
  {x \in DOMAIN rule.state :
     \A S \in SUBSET DOMAIN rule.state :
       (\A s \in S \cup {1} : Follows(rule, s) \subseteq S) => x \in S}
QuietRule(rule) ==
  \A s \in Behind(rule) :
    /\ rule.state[s].trans # << >>
    /\ rule.sync => ~ rule.state[s].bind /\ ~ rule.state[1].bind
QuietRules == \A rs \in RuleSets : \A r \in DOMAIN rs : QuietRule(rs[r])

ASSUME BoundsAssumption ==
  /\ {MaxThreads, MaxStates, MaxInsts, MaxEvents} \subseteq Nat
  /\ {MaxInjected, MaxTime} \subseteq Nat /\ DEFAULT_TIMEOUT \in Nat \ {0}
  /\ NoKey \notin Keys

VARIABLES
  rules,      \* the compiled rules
  thr,        \* wait_thread_t heap
  si,         \* state_instance_t heap
  ri,         \* rule_instance_t heap
  evt,        \* active_event_t heap
  cur,        \* threads still to be processed, from t of the evt-loop on
  retrig,     \* retrig_qh .. retrig_qt
  newq,       \* new_qh .. new_qt
  cur_retrig_qh, current_tail,  \* pointers into whichever queue holds them
  active_event_cur,
  sync_lock,  \* rule -> key -> state instance that took the lock
  ctx,        \* the statistics counters of orchids_t
  instances,  \* rule -> its counter of active instances
  uncommitted, \* whether a THREAD_BUMP was freed with its thread
  pc,         \* where inject_event() is
  phase,      \* who called simulate: "init" (THREAD_ONLYONCE), "loop" or "none"
  stack,      \* frames of simulate_state_and_create_threads()
  created,    \* threads created by the running simulation
  ret,        \* the value simulate returned
  subject,    \* the state instance simulate was called on
  rulePos,    \* loop variable of create_rule_initial_threads()
  now, cur_time, events

heap  == << thr, si, ri, evt, sync_lock >>
queue == << cur, retrig, newq, cur_retrig_qh, current_tail >>
stats == << ctx, instances >>
call  == << phase, stack, created, ret, subject >>
clock == << now, cur_time, events >>
vars  == << heap, queue, stats, call, clock, active_event_cur, uncommitted, pc, rulePos, rules >>

RuleId == DOMAIN rules

(***************************************************************************)
(* Records of the heap.                                                    *)
(***************************************************************************)
NullThread == [si |-> NULL, trans |-> 0, once |-> FALSE, killed |-> FALSE,
               bump |-> FALSE, timeout |-> 0]
NullState  == [inst |-> NULL, state |-> 0, event |-> NULL, env |-> NULL,
               parent |-> NULL, first_child |-> NULL, next_sibling |-> NULL,
               thread_list |-> << >>, mark |-> NULL, extptr |-> NULL]
NullInst   == [rule |-> 0, threads |-> 0, killed |-> FALSE, created |-> FALSE,
               linked |-> FALSE, locks |-> {}, born |-> 0]
NullEvent  == [key |-> NoKey, refs |-> 0, status |-> "free"]

Threads == {t \in ThreadId : thr[t].si # NULL}
States  == {s \in StateId : si[s].inst # NULL}
Insts   == {i \in InstId : ri[i].rule # 0}
Events  == {e \in EventId : evt[e].status # "free"}

FreeThread == CHOOSE t \in ThreadId : t \notin Threads
FreeState  == CHOOSE s \in StateId : s \notin States
FreeInst   == CHOOSE i \in InstId : i \notin Insts
FreeEvent  == CHOOSE e \in EventId : e \notin Events

InstOf(t)       == si[thr[t].si].inst
StatesOf(i)     == {s \in StateId : si[s].inst = i}
ThreadsOf(i)    == {t \in Threads : InstOf(t) = i}
StateDef(r, n)  == rules[r].state[n]
StateOf(s)      == StateDef(ri[si[s].inst].rule, si[s].state)
TransOf(t)      == StateOf(thr[t].si).trans[thr[t].trans]
DestOf(t)       == StateDef(ri[InstOf(t)].rule, TransOf(t).dest)
KeyOf(e)        == IF e = NULL THEN NoKey ELSE evt[e].key

(***************************************************************************)
(* Walking the next pointers from thread t, in the queue that holds it.    *)
(***************************************************************************)
After(q, t) == {q[j] : j \in {n \in DOMAIN q : \E m \in 1 .. n : q[m] = t}}
Chain(t)    == After(cur, t) \cup After(retrig, t) \cup After(newq, t)
Elems(q)    == {q[n] : n \in DOMAIN q}

Kill(th, S) == [t \in ThreadId |-> IF t \in S THEN [th[t] EXCEPT !.killed = TRUE]
                                   ELSE th[t]]

-----------------------------------------------------------------------------

(***************************************************************************)
(* free_rule_instance(): the locks go first, found again by their key, then *)
(* every state instance with its reference to an event; an event other     *)
(* than the current one is freed with its last reference.                  *)
(***************************************************************************)
\* Mutant: every lock of the rule is dropped.
FreedLocksAll(i) == [sync_lock EXCEPT ![ri[i].rule] = [k \in Keys |-> NULL]]

FreedLocks(i) ==
  LET r    == ri[i].rule
      keys == {KeyOf(si[s].env) : s \in ri[i].locks}
  IN  [sync_lock EXCEPT ![r] = [k \in Keys |-> IF k \in keys THEN NULL ELSE @[k]]]

RefsFrom(i, e) == Cardinality({s \in StatesOf(i) : si[s].event = e})

IsLastRef(i, e) ==
  /\ RefsFrom(i, e) > 0
  /\ evt[e].refs - RefsFrom(i, e) <= 0
  /\ e # active_event_cur

FreedEvents(i) ==
  [e \in EventId |-> IF IsLastRef(i, e) THEN NullEvent
                     ELSE [evt[e] EXCEPT !.refs = @ - RefsFrom(i, e)]]

FreedStates(i) == [s \in StateId |-> IF si[s].inst = i THEN NullState ELSE si[s]]

\* The counters of instances know only those that an event started.
Ended(i, n) == IF ri[i].created THEN n - 1 ELSE n

\* What free_rule_instance(i) does to everything but the threads' counters.
FreeRuleInstance(i, threads) ==
  /\ sync_lock' = FreedLocks(i)
  /\ evt' = FreedEvents(i)
  /\ si' = FreedStates(i)
  /\ ri' = [ri EXCEPT ![i] = NullInst]
  /\ ctx' = [threads         |-> threads,
             state_instances |-> ctx.state_instances - Cardinality(StatesOf(i)),
             active_events   |-> ctx.active_events
                                   - Cardinality({e \in EventId : IsLastRef(i, e)}),
             rule_instances  |-> Ended(i, ctx.rule_instances)]
  /\ instances' = [instances EXCEPT ![ri[i].rule] = Ended(i, @)]

-----------------------------------------------------------------------------
(***************************************************************************)
(* simulate_state_and_create_threads().                                    *)
(***************************************************************************)
Top      == stack[Len(stack)]
TopTrans == StateOf(Top.si).trans

\* Mutant: the loop over the transitions does not advance.
AdvanceNever == stack

Advance == [stack EXCEPT ![Len(stack)].t = @ + 1]

\* The action of a state assigns the field of the current event, if it has it.
ActionEnv(s) ==
  IF StateOf(s).bind /\ KeyOf(active_event_cur) # NoKey
  THEN active_event_cur ELSE si[s].env

\* issdl_mark(): a new value whose EXTPTR is the state; it is named by the
\* state that made it.  mark_update() changes the value, which the other paths
\* that inherited the variable share.
MarkOf(s) == IF StateOf(s).marks = "mark" THEN s ELSE si[s].mark

\* The threads that the action's call of kill_threads() marks.
ActionKills(s) ==
  {t \in Chain(cur_retrig_qh) : StateOf(s).kills /\ InstOf(t) = si[s].inst}

\* The threads of a state instance that cut() reaches.
ListKilled(x) == {t \in Elems(si[x].thread_list) : ~ thr[t].once}

\* Mutant: the recursion leaves the siblings out.
do_recursive_cut_children(s) ==
  LET killed[x \in States \cup {NULL}] ==
        IF x = NULL THEN {} ELSE ListKilled(x) \cup killed[si[x].first_child]
  IN  killed[s]

\* From a state on to its first child and to its next sibling.  SF_PRUNED is
\* set and never read.
do_recursive_cut(s) ==
  LET killed[x \in States \cup {NULL}] ==
        IF x = NULL THEN {}
        ELSE ListKilled(x) \cup killed[si[x].first_child] \cup killed[si[x].next_sibling]
  IN  killed[s]

\* The nearest state instance of that name on the way to the initial one, or
\* that one.
CutDest(s) ==
  LET dest[x \in States] ==
        IF si[x].parent = NULL \/ si[x].state = StateOf(s).cut THEN x ELSE dest[si[x].parent]
  IN  dest[s]

\* Where the recursion of cut() or mark_cut() begins, NULL without a call.
CutFrom(s) ==
  IF StateOf(s).cut # 0 THEN CutDest(s)
  ELSE IF StateOf(s).marks = "mark_cut" /\ MarkOf(s) # NULL THEN si[MarkOf(s)].extptr
  ELSE NULL
ActionCuts(s) == IF CutFrom(s) = NULL THEN {} ELSE do_recursive_cut(CutFrom(s))

\* Mutant: the threads still to be processed are forgotten.
MarkedDeadNoTail(i) ==
  {t \in Chain(cur_retrig_qh) \cup Elems(retrig) : InstOf(t) = i}

\* The threads that mark_dead_rule() marks.
MarkedDead(i) ==
  {t \in Chain(cur_retrig_qh) \cup Elems(retrig) \cup Chain(current_tail) :
     InstOf(t) = i}

Entering == pc = "simul" /\ Top.t = 0

\* -1 from the innermost call makes every caller return minus what it created.
Unwind ==
  /\ ret' = -(created + 1)
  /\ stack' = << >>
  /\ pc' = "ret"
  /\ UNCHANGED << phase, created, subject >>

Marked(s, states) ==
  IF StateOf(s).marks \in {"mark", "mark_update"} /\ MarkOf(s) # NULL
  THEN [states EXCEPT ![MarkOf(s)].extptr = s] ELSE states

RunAction == si' = Marked(Top.si, [si EXCEPT ![Top.si].env = ActionEnv(Top.si),
                                             ![Top.si].mark = MarkOf(Top.si)])
Killed(s) == ActionKills(s) \cup ActionCuts(s)

\* A state with no transition: the rule instance is over.
EnterTerminalState ==
  /\ Entering
  /\ TopTrans = << >>
  /\ RunAction
  /\ LET i == si[Top.si].inst
     IN  /\ thr' = Kill(thr, Killed(Top.si) \cup MarkedDead(i))
         /\ ri' = [ri EXCEPT ![i].killed = TRUE]
  /\ Unwind
  /\ UNCHANGED << evt, sync_lock, queue, stats, clock, active_event_cur, rulePos >>

\* Mutant: the variables are looked at before the action has run.
LockKeyBeforeAction(s) == KeyOf(si[s].env)

\* The lock that the synchronization variables of state instance s lead to.
LockKey(s) == KeyOf(ActionEnv(s))
IsSync(s)  == rules[ri[si[s].inst].rule].sync /\ LockKey(s) # NoKey
LockOf(s)  == sync_lock[ri[si[s].inst].rule][LockKey(s)]
LockedOut(s) ==
  /\ IsSync(s)
  /\ LockOf(s) # NULL
  /\ si[LockOf(s)].inst # si[s].inst

\* Another instance owns the lock: the run is pruned.
PruneState ==
  /\ Entering
  /\ TopTrans # << >>
  /\ LockedOut(Top.si)
  /\ RunAction
  /\ thr' = Kill(thr, Killed(Top.si))
  /\ Unwind
  /\ UNCHANGED << ri, evt, sync_lock, queue, stats, clock, active_event_cur, rulePos >>

\* The lock is taken when it is free, unless the thread is an initial one.
TakesLock(s) == IsSync(s) /\ LockOf(s) = NULL /\ phase # "init"

EnterState ==
  /\ Entering
  /\ TopTrans # << >>
  /\ ~ LockedOut(Top.si)
  /\ RunAction
  /\ thr' = Kill(thr, Killed(Top.si))
  /\ IF TakesLock(Top.si)
     THEN LET i == si[Top.si].inst
          IN  /\ sync_lock' = [sync_lock EXCEPT ![ri[i].rule][LockKey(Top.si)] = Top.si]
              /\ ri' = [ri EXCEPT ![i].locks = @ \cup {Top.si}]
     ELSE UNCHANGED << sync_lock, ri >>
  /\ stack' = Advance
  /\ UNCHANGED << evt, queue, stats, clock, active_event_cur, rulePos,
                  pc, phase, created, ret, subject >>

AtTransition == pc = "simul" /\ Top.t > 0 /\ Top.t <= Len(TopTrans)

\* create_state_instance(): the child inherits the environment of its parent,
\* whose first child it becomes.
ChildOf(s, dest, e) ==
  [NullState EXCEPT !.inst = si[s].inst, !.state = dest, !.event = e, !.env = si[s].env,
                    !.mark = si[s].mark, !.parent = s, !.next_sibling = si[s].first_child]
WithChild(s, dest, e) ==
  [si EXCEPT ![FreeState] = ChildOf(s, dest, e), ![s].first_child = FreeState]

\* An e-transition passes: simulate its destination, one call deeper.
PassETransition ==
  /\ AtTransition
  /\ TopTrans[Top.t].kind # "expect"
  /\ States # StateId
  /\ si' = WithChild(Top.si, TopTrans[Top.t].dest, NULL)
  /\ ctx' = [ctx EXCEPT !.state_instances = @ + 1]
  /\ stack' = Append(Advance, [si |-> FreeState, t |-> 0])
  /\ UNCHANGED << thr, ri, evt, sync_lock, queue, instances, clock,
                  active_event_cur, rulePos, pc, phase, created, ret, subject >>

\* The condition of an e-transition is false.
SkipETransition ==
  /\ AtTransition
  /\ TopTrans[Top.t].kind = "cond"
  /\ stack' = Advance
  /\ UNCHANGED << heap, queue, stats, clock, active_event_cur, rulePos,
                  pc, phase, created, ret, subject >>

NewThread ==
  [si |-> Top.si, trans |-> Top.t, once |-> phase = "init", killed |-> FALSE,
   bump |-> FALSE, timeout |-> now + DEFAULT_TIMEOUT]

\* A thread that lives on is the first of the list of its state instance.
InThreadList ==
  si' = [si EXCEPT ![Top.si].thread_list = IF phase = "init" THEN @ ELSE << FreeThread >> \o @]

\* Mutant: the total number of threads is not incremented.
CreateThreadUncounted ==
  /\ AtTransition
  /\ TopTrans[Top.t].kind = "expect"
  /\ Threads # ThreadId
  /\ thr' = [thr EXCEPT ![FreeThread] = NewThread]
  /\ newq' = Append(newq, FreeThread)
  /\ ri' = [ri EXCEPT ![si[Top.si].inst].threads = @ + 1]
  /\ created' = created + 1
  /\ stack' = Advance
  /\ InThreadList
  /\ UNCHANGED << ctx, evt, sync_lock, cur, retrig, cur_retrig_qh, current_tail,
                  instances, clock, active_event_cur, rulePos, pc, phase, ret, subject >>

\* A blocking transition: a new thread waits on it, at the end of the new queue.
CreateThread ==
  /\ AtTransition
  /\ TopTrans[Top.t].kind = "expect"
  /\ Threads # ThreadId
  /\ thr' = [thr EXCEPT ![FreeThread] = NewThread]
  /\ newq' = Append(newq, FreeThread)
  /\ ri' = [ri EXCEPT ![si[Top.si].inst].threads = @ + 1]
  /\ ctx' = [ctx EXCEPT !.threads = @ + 1]
  /\ created' = created + 1
  /\ stack' = Advance
  /\ InThreadList
  /\ UNCHANGED << evt, sync_lock, cur, retrig, cur_retrig_qh, current_tail,
                  instances, clock, active_event_cur, rulePos, pc, phase, ret, subject >>

\* Every transition was seen: return to the caller.
ReturnFromSimulate ==
  /\ pc = "simul"
  /\ Top.t > Len(TopTrans)
  /\ stack' = SubSeq(stack, 1, Len(stack) - 1)
  /\ IF Len(stack) = 1 THEN pc' = "ret" /\ ret' = created
     ELSE UNCHANGED << pc, ret >>
  /\ UNCHANGED << heap, queue, stats, clock, active_event_cur, rulePos,
                  phase, created, subject >>

\* The caller's locals are dead once it used them.
Returned ==
  /\ stack' = << >> /\ created' = 0 /\ ret' = 0
  /\ subject' = NULL /\ phase' = "none"

Simulate(s, caller) ==
  /\ stack' = << [si |-> s, t |-> 0] >>
  /\ created' = 0
  /\ subject' = s
  /\ phase' = caller
  /\ pc' = "simul"
  /\ UNCHANGED ret

-----------------------------------------------------------------------------
(***************************************************************************)
(* inject_event(), up to the evt-loop: the current event and the initial   *)
(* threads of every rule.                                                  *)
(***************************************************************************)
InjectEvent(k) ==
  /\ pc = "idle"
  /\ events < MaxInjected
  /\ Events # EventId
  /\ evt' = [evt EXCEPT ![FreeEvent] = [key |-> k, refs |-> 0, status |-> "current"]]
  /\ active_event_cur' = FreeEvent
  /\ cur_time' = now
  /\ events' = events + 1
  /\ rulePos' = 1
  /\ pc' = "init"
  /\ UNCHANGED << thr, si, ri, sync_lock, queue, stats, call, now >>

CreateInitialInstance ==
  /\ pc = "init"
  /\ rulePos <= Len(rules)
  /\ States # StateId
  /\ Insts # InstId
  /\ si' = [si EXCEPT ![FreeState] = [NullState EXCEPT !.inst = FreeInst, !.state = 1]]
  /\ ri' = [ri EXCEPT ![FreeInst] = [NullInst EXCEPT !.rule = rulePos, !.born = events]]
  /\ ctx' = [ctx EXCEPT !.state_instances = @ + 1]
  /\ Simulate(FreeState, "init")
  /\ UNCHANGED << thr, evt, sync_lock, queue, instances, clock,
                  active_event_cur, rulePos >>

InitReturned == pc = "ret" /\ phase = "init"

\* Mutant: the counter of threads is one too small.
LinkOneLess ==
  /\ InitReturned
  /\ ret > 0
  /\ ri' = [ri EXCEPT ![si[subject].inst].threads = ret - 1,
                      ![si[subject].inst].linked = TRUE]
  /\ thr' = IF newq = << >> THEN thr ELSE [thr EXCEPT ![newq[Len(newq)]].bump = TRUE]
  /\ rulePos' = rulePos + 1
  /\ Returned
  /\ pc' = "init"
  /\ UNCHANGED << si, evt, sync_lock, queue, stats, clock, active_event_cur >>

\* The instance has threads: link it, and mark the end of its threads.
LinkInitialInstance ==
  /\ InitReturned
  /\ ret > 0
  /\ ri' = [ri EXCEPT ![si[subject].inst].threads = ret,
                      ![si[subject].inst].linked = TRUE]
  /\ thr' = IF newq = << >> THEN thr ELSE [thr EXCEPT ![newq[Len(newq)]].bump = TRUE]
  /\ rulePos' = rulePos + 1
  /\ Returned
  /\ pc' = "init"
  /\ UNCHANGED << si, evt, sync_lock, queue, stats, clock, active_event_cur >>

\* "No initial threads for rule"
DropInitialInstance ==
  /\ InitReturned
  /\ ret <= 0
  /\ FreeRuleInstance(si[subject].inst, ctx.threads)
  /\ rulePos' = rulePos + 1
  /\ Returned
  /\ pc' = "init"
  /\ UNCHANGED << thr, queue, clock, active_event_cur >>

\* q_cur = q_new @ q_retrig
MergeQueues ==
  /\ pc = "init"
  /\ rulePos > Len(rules)
  /\ cur' = newq \o retrig
  /\ cur_retrig_qh' = IF newq \o retrig = << >> THEN NULL ELSE Head(newq \o retrig)
  /\ newq' = << >>
  /\ retrig' = << >>
  /\ pc' = "loop"
  /\ UNCHANGED << heap, current_tail, stats, call, clock, active_event_cur, rulePos >>

-----------------------------------------------------------------------------
(***************************************************************************)
(* The evt-loop.  t is the head of cur.                                    *)
(***************************************************************************)
InLoop   == pc = "loop" /\ cur # << >>

\* Mutant: a thread lives one tick longer.
TimedOutLate(t) == ~ thr[t].once /\ thr[t].timeout < cur_time

TimedOut(t) == ~ thr[t].once /\ thr[t].timeout <= cur_time
MustReap(t) == thr[t].killed \/ TimedOut(t)

NextOf(t) == IF Len(cur) = 1 THEN NULL ELSE cur[2]

HeadAfter(t) == IF t = cur_retrig_qh THEN NextOf(t) ELSE cur_retrig_qh

TailAfter(t) == NULL

\* unlink_thread_in_state_instance_list().  The mutant takes the first one out.
UnlinkedFirst(t) ==
  LET list == si[thr[t].si].thread_list IN IF list = << >> THEN list ELSE Tail(list)
Unlinked(t) ==
  LET list == si[thr[t].si].thread_list
      at   == CHOOSE n \in DOMAIN list : list[n] = t
  IN  IF t \in Elems(list) THEN SubSeq(list, 1, at - 1) \o SubSeq(list, at + 1, Len(list))
      ELSE list

\* t leaves the queue and is freed, with its rule instance if it was the last.
Reap(t, th) ==
  LET i == InstOf(t)
  IN  /\ cur' = Tail(cur)
      /\ cur_retrig_qh' = HeadAfter(t)
      /\ current_tail' = TailAfter(t)
      /\ thr' = [th EXCEPT ![t] = NullThread]
      /\ IF ri[i].threads - 1 = 0 /\ ri[i].linked
         THEN FreeRuleInstance(i, ctx.threads - 1)
         ELSE /\ ri' = [ri EXCEPT ![i].threads = @ - 1,
                                 ![i].killed = @ \/ ri[i].threads = 1]
              /\ ctx' = [ctx EXCEPT !.threads = @ - 1]
              /\ si' = IF ri[i].threads = 1 THEN si ELSE [si EXCEPT ![thr[t].si].thread_list = Unlinked(t)]
              /\ UNCHANGED << evt, sync_lock, instances >>

ReapKilledThread ==
  /\ InLoop
  /\ MustReap(Head(cur))
  /\ Reap(Head(cur), thr)
  /\ UNCHANGED << retrig, newq, call, clock, active_event_cur, pc, rulePos >>

\* A killed thread is freed with its THREAD_BUMP, and nothing is committed.
CommitLost == InLoop /\ MustReap(Head(cur)) /\ thr[Head(cur)].bump

\* Mutant: the new threads get no mark of the end of their group.
BumpedOldOnly(th, q) ==
  [t \in ThreadId |-> IF q # << >> /\ t = q[Len(q)] THEN [th[t] EXCEPT !.bump = TRUE] ELSE th[t]]

\* commit q'_{new} = q_{new} @ q: the flag goes to the ends of both queues
Bumped(th, q) ==
  [t \in ThreadId |->
     IF \/ newq # << >> /\ t = newq[Len(newq)]
        \/ q # << >> /\ t = q[Len(q)]
     THEN [th[t] EXCEPT !.bump = TRUE] ELSE th[t]]

\* An initial thread is freed whether it matched or not.
ReapInitialThread(t, th) ==
  /\ th[t].once
  /\ IF th[t].bump
     THEN newq' = newq \o retrig /\ retrig' = << >> /\ Reap(t, Bumped(th, retrig))
     ELSE UNCHANGED << newq, retrig >> /\ Reap(t, th)

\* Any other thread waits again, killed or not.
Retrigger(t, th) ==
  /\ ~ th[t].once
  /\ cur' = Tail(cur)
  /\ current_tail' = t
  /\ IF th[t].bump
     THEN /\ thr' = Bumped(th, Append(retrig, t))
          /\ newq' = newq \o Append(retrig, t)
          /\ retrig' = << >>
     ELSE thr' = th /\ retrig' = Append(retrig, t) /\ UNCHANGED newq
  /\ UNCHANGED << si, ri, evt, sync_lock, cur_retrig_qh, stats >>

\* The condition is false for this event.
ThreadFails ==
  /\ InLoop
  /\ ~ MustReap(Head(cur))
  /\ ReapInitialThread(Head(cur), thr) \/ Retrigger(Head(cur), thr)
  /\ UNCHANGED << call, clock, active_event_cur, pc, rulePos >>

\* TRANSITION MATCH: a new state instance refers to the event.
ThreadMatches ==
  /\ InLoop
  /\ ~ MustReap(Head(cur))
  /\ States # StateId
  /\ LET t == Head(cur)
         i == InstOf(t)
     IN  /\ si' = WithChild(thr[t].si, TransOf(t).dest, active_event_cur)
         /\ evt' = [evt EXCEPT ![active_event_cur].refs = @ + 1]
         /\ current_tail' = t
         /\ ri' = [ri EXCEPT ![i].created = @ \/ thr[t].once]
         /\ ctx' = [ctx EXCEPT !.state_instances = @ + 1,
                               !.rule_instances = IF thr[t].once THEN @ + 1 ELSE @]
         /\ instances' = IF thr[t].once
                         THEN [instances EXCEPT ![ri[i].rule] = @ + 1] ELSE instances
  /\ Simulate(FreeState, "loop")
  /\ UNCHANGED << thr, sync_lock, cur, retrig, newq, cur_retrig_qh, clock,
                  active_event_cur, rulePos >>

\* The destination has transitions and binds no field: the shortest run is found.
BacktrackIsNotNeeded(t) == DestOf(t).trans # << >> /\ ~ DestOf(t).bind

\* The rest of the iteration of a thread that matched.
AfterMatch ==
  /\ pc = "ret"
  /\ phase = "loop"
  /\ LET t  == Head(cur)
         th == IF BacktrackIsNotNeeded(t) THEN Kill(thr, {t}) ELSE thr
     IN  ReapInitialThread(t, th) \/ Retrigger(t, th)
  /\ Returned
  /\ pc' = "loop"
  /\ UNCHANGED << clock, active_event_cur, rulePos >>

\* After the loop: an event nobody refers to is freed, another is linked.
FinishEvent ==
  /\ pc = "loop"
  /\ cur = << >>
  /\ IF evt[active_event_cur].refs = 0
     THEN /\ evt' = [evt EXCEPT ![active_event_cur] = NullEvent]
          /\ UNCHANGED ctx
     ELSE /\ evt' = [evt EXCEPT ![active_event_cur].status = "active"]
          /\ ctx' = [ctx EXCEPT !.active_events = @ + 1]
  /\ pc' = "idle"
  /\ UNCHANGED << thr, si, ri, sync_lock, queue, instances, call, clock,
                  active_event_cur, rulePos >>

\* time(NULL) advances, also while an event is processed.
Tick ==
  /\ now < MaxTime
  /\ now' = now + 1
  /\ UNCHANGED << heap, queue, stats, call, cur_time, events,
                  active_event_cur, pc, rulePos >>

-----------------------------------------------------------------------------
Init ==
  /\ rules \in RuleSets
  /\ thr = [t \in ThreadId |-> NullThread]
  /\ si = [s \in StateId |-> NullState]
  /\ ri = [i \in InstId |-> NullInst]
  /\ evt = [e \in EventId |-> NullEvent]
  /\ sync_lock = [r \in RuleId |-> [k \in Keys |-> NULL]]
  /\ cur = << >> /\ retrig = << >> /\ newq = << >>
  /\ cur_retrig_qh = NULL /\ current_tail = NULL
  /\ ctx = [threads |-> 0, state_instances |-> 0, rule_instances |-> 0,
            active_events |-> 0]
  /\ instances = [r \in RuleId |-> 0]
  /\ phase = "none" /\ stack = << >> /\ created = 0 /\ ret = 0 /\ subject = NULL
  /\ now = 0 /\ cur_time = 0 /\ events = 0
  /\ active_event_cur = NULL /\ pc = "idle" /\ rulePos = 1 /\ uncommitted = FALSE

SimulateStep ==
  \/ EnterTerminalState \/ PruneState \/ EnterState
  \/ PassETransition \/ SkipETransition \/ CreateThread \/ ReturnFromSimulate

InitialThreadsStep ==
  \/ CreateInitialInstance \/ LinkInitialInstance \/ DropInitialInstance \/ MergeQueues

EvtLoopStep ==
  \/ ReapKilledThread \/ ThreadFails \/ ThreadMatches \/ AfterMatch \/ FinishEvent

\* inject_event() runs to its end by itself; the environment decides the rest.
EngineStep ==
  /\ SimulateStep \/ InitialThreadsStep \/ EvtLoopStep
  /\ uncommitted' = (uncommitted \/ CommitLost)
  /\ UNCHANGED rules

EnvironmentStep ==
  /\ Tick \/ \E k \in Keys \cup {NoKey} : InjectEvent(k)
  /\ UNCHANGED << rules, uncommitted >>

Next == EngineStep \/ EnvironmentStep

Spec     == Init /\ [][Next]_vars
FairSpec == Spec /\ WF_vars(EngineStep)
-----------------------------------------------------------------------------
(***************************************************************************)
(* Types.                                                                  *)
(***************************************************************************)
TypeOK ==
  /\ rules \in RuleSets
  /\ thr \in [ThreadId -> [si : {NULL} \cup StateId, trans : Nat, once : BOOLEAN,
                           killed : BOOLEAN, bump : BOOLEAN, timeout : Nat]]
  /\ si \in [StateId -> [inst : {NULL} \cup InstId, state : Nat,
                         event : {NULL} \cup EventId, env : {NULL} \cup EventId,
                         parent : {NULL} \cup StateId, first_child : {NULL} \cup StateId,
                         next_sibling : {NULL} \cup StateId, thread_list : Seq(ThreadId),
                         mark : {NULL} \cup StateId, extptr : {NULL} \cup StateId]]
  /\ ri \in [InstId -> [rule : {0} \cup RuleId, threads : Nat, killed : BOOLEAN,
                        created : BOOLEAN, linked : BOOLEAN, locks : SUBSET StateId, born : Nat]]
  /\ evt \in [EventId -> [key : Keys \cup {NoKey}, refs : Nat,
                          status : {"free", "current", "active"}]]
  /\ sync_lock \in [RuleId -> [Keys -> {NULL} \cup StateId]]
  /\ {cur, retrig, newq} \subseteq Seq(ThreadId)
  /\ {cur_retrig_qh, current_tail} \subseteq {NULL} \cup ThreadId
  /\ active_event_cur \in {NULL} \cup EventId
  /\ ctx \in [threads : Nat, state_instances : Int, rule_instances : Int,
              active_events : Int]
  /\ instances \in [RuleId -> Int]
  /\ pc \in {"idle", "init", "simul", "ret", "loop"}
  /\ phase \in {"none", "init", "loop"}
  /\ stack \in Seq([si : StateId, t : Nat])
  /\ created \in Nat /\ ret \in Int /\ subject \in {NULL} \cup StateId
  /\ rulePos \in Nat \ {0} /\ uncommitted \in BOOLEAN
  /\ {now, cur_time, events} \subseteq Nat

(***************************************************************************)
(* Safety.                                                                 *)
(***************************************************************************)
\* Every pointer of the engine leads to an object that was not freed: the
\* queues hold each allocated thread exactly once, a thread waits in a live
\* state instance of a live rule instance, and the two pointers that
\* mark_dead_rule() walks from are live or NULL.
NoDanglingPointer ==
  /\ Elems(cur) \cup Elems(retrig) \cup Elems(newq) = Threads
  /\ Len(cur) + Len(retrig) + Len(newq) = Cardinality(Threads)
  /\ {cur_retrig_qh, current_tail} \subseteq {NULL} \cup Threads
  /\ \A t \in Threads : thr[t].si \in States
  /\ \A s \in States : si[s].inst \in Insts

\* The thread counter that decides when a rule instance is freed is exact, and
\* so is the total that the statistics report.
ThreadsCounted ==
  /\ \A i \in Insts : ri[i].threads = Cardinality(ThreadsOf(i))
  /\ ctx.threads = Cardinality(Threads)

\* The reference count of an event is the number of state instances that
\* refer to it, and past events are kept exactly while it is positive.
EventRefsCounted ==
  /\ \A e \in Events :
       /\ evt[e].refs = Cardinality({s \in States : si[s].event = e})
       /\ evt[e].status = "active" => evt[e].refs > 0
  /\ ctx.active_events = Cardinality({e \in Events : evt[e].status = "active"})

\* The environments hold pointers into events without counting them; they
\* are never used after the event is freed.
EnvironmentAlive == \A s \in States : {si[s].env, si[s].event} \subseteq {NULL} \cup Events

\* Between two events only instances that an event started are left, each
\* linked and with a thread to wait for, and no initial thread.
OnlyStartedInstances ==
  pc = "idle" =>
    /\ \A i \in Insts : ri[i].created /\ ri[i].linked /\ ThreadsOf(i) # {}
    /\ \A t \in Threads : ~ thr[t].once

\* Two instances of a synchronized rule never wait with the same key.
SyncExclusive ==
  \A t, u \in Threads :
    LET r == ri[InstOf(t)].rule
        k == KeyOf(si[thr[t].si].env)
    IN  /\ rules[r].sync /\ k # NoKey
        /\ ~ thr[t].once /\ ~ thr[u].once
        /\ ri[InstOf(u)].rule = r /\ KeyOf(si[thr[u].si].env) = k
        => InstOf(t) = InstOf(u)

\* A lock in the table is held by a live state instance of that rule with
\* that key, and its rule instance knows that it must remove it.
LocksOwned ==
  \A r \in RuleId, k \in Keys :
    LET s == sync_lock[r][k]
    IN  s # NULL =>
          /\ s \in States
          /\ ri[si[s].inst].rule = r
          /\ KeyOf(si[s].env) = k
          /\ s \in ri[si[s].inst].locks

\* When inject_event() returns, no thread that had expired when it was called
\* is left in a queue.
ExpiredThreadsReaped == pc = "idle" => \A t \in Threads : thr[t].timeout > cur_time

\* The initial state of the rule leads, by e-transitions if any, to at most one
\* thread, so that an instance of the rule starts at most once.
StartsOnce(rule) ==
  \E S \in SUBSET DOMAIN rule.state :
    /\ 1 \in S
    /\ \A s \in S :
         /\ Len(rule.state[s].trans) <= 1
         /\ \A n \in DOMAIN rule.state[s].trans :
              rule.state[s].trans[n].kind = "expect" \/ rule.state[s].trans[n].dest \in S

\* The statistics count the live state instances and, for every rule and in
\* total, the instances that an event started.  An instance that several of its
\* initial threads start is counted once for each of them, and forgotten once.
InstancesCounted ==
  LET started(r) == {i \in Insts : ri[i].created /\ ri[i].rule = r}
      all        == {i \in Insts : ri[i].created}
  IN  /\ ctx.state_instances = Cardinality(States)
      /\ ctx.rule_instances >= Cardinality(all)
      /\ \A r \in RuleId : instances[r] >= Cardinality(started(r))
      /\ \A r \in RuleId :
           StartsOnce(rules[r]) => instances[r] = Cardinality(started(r))
      /\ (\A r \in RuleId : StartsOnce(rules[r])) => ctx.rule_instances = Cardinality(all)

\* "No initial threads for rule": a new rule instance is freed on the spot
\* only when it has no thread.
NoInitialThreads ==
  InitReturned /\ ret <= 0 => ThreadsOf(si[subject].inst) = {}

\* mark_dead_rule() flags all threads of the rule instance: once a terminal
\* state is reached nothing of the instance can match again.
TerminatedIsQuiet ==
  \A t \in Threads : ri[InstOf(t)].killed => thr[t].killed

\* The pointers that cut() and mark_cut() follow, also those of the marks that
\* other paths moved, stay within the live state instances of the rule
\* instance, and the list of a state instance holds its live threads.
TreeIsLive ==
  \A s \in States :
    /\ {si[s].parent, si[s].first_child, si[s].next_sibling, si[s].mark, si[s].extptr}
         \subseteq {NULL} \cup StatesOf(si[s].inst)
    /\ \A x \in {si[s].first_child, si[s].next_sibling} \ {NULL} :
         si[x].parent = IF x = si[s].first_child THEN s ELSE si[s].parent
    /\ Elems(si[s].thread_list) = {t \in Threads : thr[t].si = s /\ ~ thr[t].once}

Ancestors(s) ==
  LET up[x \in States \cup {NULL}] == IF x = NULL THEN {} ELSE {x} \cup up[si[x].parent]
  IN  up[s]

\* The step in which the action of a state calls cut() or mark_cut().
Cuts == Entering /\ CutFrom(Top.si) # NULL /\ stack' # stack
Below(t, s) == ~ thr[t].once /\ s \in Ancestors(thr[t].si)

\* cut() and mark_cut() end every path through the state they lead to: each
\* thread that waits in it or in a state entered from there is marked.
CutEndsSubtree ==
  [][Cuts => \A t \in Threads : Below(t, CutFrom(Top.si)) => thr'[t].killed]_vars

\* A cut is "killing all child-threads of a state instance" (engine_priv.h),
\* and no others: the paths through its siblings go on.
CutEndsOnlySubtree ==
  [][Cuts => \A t \in Threads :
       thr'[t].killed =>
         \/ Below(t, CutFrom(Top.si))
         \/ t \in ActionKills(Top.si) \/ thr[t].killed
         \/ TopTrans = << >> /\ t \in MarkedDead(si[Top.si].inst)]_vars

\* "commit": between two events the queue holds the threads of the rule
\* instances in the order in which these were created, those of one instance
\* together, as long as no thread was freed with the mark of the end of its
\* group.
QueueInOrder ==
  pc = "idle" /\ ~ uncommitted =>
    LET q == newq \o retrig
        Age(t) == << ri[InstOf(t)].born, ri[InstOf(t)].rule >>
    IN  \A m, n \in DOMAIN q :
          m < n => \/ Age(q[m]) = Age(q[n])
                   \/ Age(q[m])[1] < Age(q[n])[1]
                   \/ Age(q[m])[1] = Age(q[n])[1] /\ Age(q[m])[2] < Age(q[n])[2]

\* Only the end of its owner's rule instance takes a lock away.
LockReleasedByOwner ==
  [][\A r \in RuleId, k \in Keys :
       sync_lock[r][k] # NULL /\ sync_lock'[r][k] # sync_lock[r][k]
         => si'[sync_lock[r][k]].inst = NULL]_vars

\* inject_event() returns.
InjectReturns == pc # "idle" ~> pc = "idle"

\* Whatever one event frees, nothing that is left refers to it, and the three
\* counters by which threads, rule instances and past events are freed or
\* reported are exact.
ReferencesExact == NoDanglingPointer /\ ThreadsCounted /\ EventRefsCounted

\* The table of locks and the waiting threads agree: a lock has a live owner
\* that knows of it, and no second instance waits with its key.
LocksConsistent == SyncExclusive /\ LocksOwned

\* The same for what the state instances keep beside the queues: environments,
\* which are not counted, and the tree with its marks.
HeapLive == NoDanglingPointer /\ EnvironmentAlive /\ TreeIsLive

\* What an event leaves behind when inject_event() returns: instances that wait
\* and were started, nothing expired, nothing of an instance that never began,
\* and statistics that say so.
EventCleanedUp ==
  OnlyStartedInstances /\ NoInitialThreads /\ ExpiredThreadsReaped /\ InstancesCounted
=============================================================================
