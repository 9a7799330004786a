------------------------- MODULE EngineEventProofs --------------------------
(***************************************************************************)
(* Proofs about what an event begins and what it leaves behind.  The other *)
(* proofs about the engine assume that create_rule_initial_threads() drops *)
(* no instance that has a thread; here it is shown to be so for rules      *)
(* whose e-transitions lead from the initial state to no terminal state    *)
(* and to no lock.  Then: what is left when inject_event() returns has not *)
(* expired, was started, and is what the statistics say.                   *)
(***************************************************************************)
EXTENDS EngineLockProofs

-----------------------------------------------------------------------------
(* The parts of the invariant.                                              *)

\* The frames of the simulation of a new instance: it began in the initial
\* state and is in the states behind it.
RuleOfNew == rules[ri[Subject].rule]
FrameOK(j) ==
  LET s == stack[j].si
  IN  /\ IF j = 1 THEN si[s].state = 1 ELSE si[s].state \in Behind(RuleOfNew)
      /\ RuleOfNew.sync /\ Behind(RuleOfNew) # {} => si[s].env = NULL

\* A new instance that ends or was given up has no thread.
Quiet ==
  /\ rules \in RuleSets
  /\ \A r \in RuleId : QuietRule(rules[r])
  /\ phase = "init" =>
       /\ \A j \in DOMAIN stack : FrameOK(j)
       /\ pc = "simul" /\ stack[1].t = 0 => ThreadsOf(Subject) = {}
       /\ pc = "ret" /\ ret <= 0 => ThreadsOf(Subject) = {}

-----------------------------------------------------------------------------
(* The rules.                                                               *)

\* Every state that e-transitions lead to is behind the initial one.
LEMMA BehindIs ==
  ASSUME rules \in RuleSets, NEW r \in RuleId,
         NEW s \in {1} \cup Behind(rules[r]), NEW n \in DOMAIN rules[r].state[s].trans,
         rules[r].state[s].trans[n].kind # "expect"
  PROVE  rules[r].state[s].trans[n].dest \in Behind(rules[r])
<1> DEFINE rule == rules[r]
           d == rule.state[s].trans[n].dest
<1>1. rule.state # << >> /\ rule.state \in Seq(State)
  <2>1. rules \in Seq(Rule) /\ rule \in Rule
    BY RulesAssumption, ElementOfSeq, LenProperties DEF RuleId
  <2> QED BY <2>1, RulesAssumption DEF RuleId, Rule
<1>2. 1 \in DOMAIN rule.state
  BY <1>1, EmptySeq, LenProperties
<1>3. Behind(rule) \subseteq DOMAIN rule.state
  BY DEF Behind
<1>4. d \in DOMAIN rule.state
  <2>1. s \in DOMAIN rule.state
    BY <1>2, <1>3
  <2> QED BY <2>1, RulesAssumption DEF RuleId
<1>5. d \in Follows(rule, s)
  BY DEF Follows
<1> HIDE DEF rule, d
<1>6. ASSUME NEW S \in SUBSET DOMAIN rule.state,
             \A x \in S \cup {1} : Follows(rule, x) \subseteq S
      PROVE  d \in S
  <2>1. s \in S \cup {1}
    BY <1>6 DEF Behind, rule
  <2> QED BY <1>5, <1>6, <2>1
<1>7. d \in Behind(rule)
  BY <1>4, <1>6 DEF Behind
<1> QED BY <1>7 DEF rule, d

-----------------------------------------------------------------------------
(* What the steps write into the tree of state instances.                   *)

\* The action of a state leaves the tree alone, but for the marks.
LEMMA ActionTree ==
  ASSUME Shape, Top.si \in StateId, RunAction
  PROVE  \A s \in StateId :
           /\ si'[s].state = si[s].state /\ si'[s].parent = si[s].parent
           /\ si'[s].first_child = si[s].first_child /\ si'[s].next_sibling = si[s].next_sibling
           /\ si'[s].thread_list = si[s].thread_list
           /\ si'[s].mark = IF s = Top.si THEN MarkOf(Top.si) ELSE si[s].mark
           /\ si'[s].extptr = si[s].extptr \/ (s = MarkOf(Top.si) /\ si'[s].extptr = Top.si)
<1> DEFINE x == Top.si
           y == Top.si
           env == ActionEnv(Top.si)
           mark == MarkOf(Top.si)
           m == MarkOf(y)
           new == si'
           with == [si EXCEPT ![x].env = env, ![x].mark = mark]
<1>0. new = Marked(y, with)
  BY DEF RunAction
<1>a. x \in StateId /\ x = y /\ mark = m
  OBVIOUS
<1> SUFFICES
      \A s \in StateId :
        /\ new[s].state = si[s].state /\ new[s].parent = si[s].parent
        /\ new[s].first_child = si[s].first_child /\ new[s].next_sibling = si[s].next_sibling
        /\ new[s].thread_list = si[s].thread_list
        /\ new[s].mark = IF s = x THEN mark ELSE si[s].mark
        /\ new[s].extptr = si[s].extptr \/ (s = m /\ new[s].extptr = y)
  BY DEF x, y, mark, m, new
<1> HIDE DEF x, y, env, mark, new
<1> DEFINE Tree(p, q) ==
      /\ p.state = q.state /\ p.parent = q.parent
      /\ p.first_child = q.first_child /\ p.next_sibling = q.next_sibling
      /\ p.thread_list = q.thread_list
<1> DEFINE g == [si[x] EXCEPT !.env = env]
           h == [g EXCEPT !.mark = mark]
<1>5. /\ IsState(h) /\ Tree(h, si[x]) /\ h.extptr = si[x].extptr /\ h.mark = mark
  <2>1. IsState(si[x])
    BY <1>a DEF Shape
  <2>2. IsState(g) /\ Tree(g, si[x]) /\ g.extptr = si[x].extptr
    BY <2>1 DEF IsState
  <2> HIDE DEF g
  <2>3. IsState(h) /\ Tree(h, g) /\ h.extptr = g.extptr /\ h.mark = mark
    BY <2>2 DEF IsState
  <2> QED BY ONLY <2>2, <2>3
<1>6. with = [s \in StateId |-> IF s = x THEN h ELSE si[s]]
  BY <1>a DEF Shape
<1>1. /\ with = [s \in StateId |-> with[s]]
      /\ \A s \in StateId :
           /\ IsState(with[s]) /\ Tree(with[s], si[s]) /\ with[s].extptr = si[s].extptr
           /\ with[s].mark = IF s = x THEN mark ELSE si[s].mark
  <2> HIDE DEF g, h, with
  <2>1. \A s \in StateId : with[s] = IF s = x THEN h ELSE si[s]
    BY <1>6
  <2>2. with = [s \in StateId |-> with[s]]
    BY <1>6
  <2>3. \A s \in StateId : IsState(si[s])
    BY DEF Shape
  <2> QED BY <1>5, <2>1, <2>2, <2>3
<1> HIDE DEF with
<1>2. new = with \/ new = [with EXCEPT ![m].extptr = y]
  BY <1>0 DEF Marked
<1> HIDE DEF m
<1>3. CASE new = with
  BY <1>1, <1>3
<1>4. CASE new = [with EXCEPT ![m].extptr = y]
  <2>1. \A s \in StateId : new[s] = IF s = m THEN [with[s] EXCEPT !.extptr = y] ELSE with[s]
    BY <1>1, <1>4
  <2>2. \A s \in StateId : /\ Tree([with[s] EXCEPT !.extptr = y], with[s])
                           /\ [with[s] EXCEPT !.extptr = y].mark = with[s].mark
                           /\ [with[s] EXCEPT !.extptr = y].extptr = y
    BY <1>1 DEF IsState
  <2>3. ASSUME NEW s \in StateId
        PROVE  /\ Tree(new[s], with[s]) /\ new[s].mark = with[s].mark
               /\ new[s].extptr = with[s].extptr \/ (s = m /\ new[s].extptr = y)
    <3>1. CASE s = m
      <4>1. new[s] = [with[s] EXCEPT !.extptr = y]
        BY <2>1, <3>1
      <4> QED BY ONLY <2>2, <3>1, <4>1
    <3>2. CASE s # m
      BY <2>1, <3>2
    <3> QED BY <3>1, <3>2
  <2> QED BY <1>1, <2>3
<1> QED BY <1>2, <1>3, <1>4

\* The child is the first one of its parent, before those that it had.
LEMMA ChildTree ==
  ASSUME Shape, NEW s \in States, States # StateId, NEW dest, NEW e, si' = WithChild(s, dest, e)
  PROVE  \A x \in StateId :
           /\ si'[x].state = IF x = FreeState THEN dest ELSE si[x].state
           /\ si'[x].parent = IF x = FreeState THEN s ELSE si[x].parent
           /\ si'[x].first_child = IF x = FreeState THEN NULL
                                   ELSE IF x = s THEN FreeState ELSE si[x].first_child
           /\ si'[x].next_sibling = IF x = FreeState THEN si[s].first_child ELSE si[x].next_sibling
           /\ si'[x].thread_list = IF x = FreeState THEN << >> ELSE si[x].thread_list
           /\ si'[x].mark = IF x = FreeState THEN si[s].mark ELSE si[x].mark
           /\ si'[x].extptr = IF x = FreeState THEN NULL ELSE si[x].extptr
<1> DEFINE f == FreeState
           child == ChildOf(s, dest, e)
           new == si'
           Tree(p, q) == /\ p.state = q.state /\ p.parent = q.parent
                         /\ p.next_sibling = q.next_sibling /\ p.thread_list = q.thread_list
                         /\ p.mark = q.mark /\ p.extptr = q.extptr
<1>1. f \in StateId /\ f # s /\ s \in StateId
  BY MallocState DEF States
<1>2. /\ child.state = dest /\ child.parent = s /\ child.first_child = NULL
      /\ child.next_sibling = si[s].first_child /\ child.thread_list = << >>
      /\ child.mark = si[s].mark /\ child.extptr = NULL
  BY DEF ChildOf, NullState
<1>3. new = [si EXCEPT ![f] = child, ![s].first_child = f]
  BY DEF WithChild
<1> SUFFICES
      \A x \in StateId :
           /\ new[x].state = IF x = f THEN dest ELSE si[x].state
           /\ new[x].parent = IF x = f THEN s ELSE si[x].parent
           /\ new[x].first_child = IF x = f THEN NULL
                                   ELSE IF x = s THEN f ELSE si[x].first_child
           /\ new[x].next_sibling = IF x = f THEN si[s].first_child ELSE si[x].next_sibling
           /\ new[x].thread_list = IF x = f THEN << >> ELSE si[x].thread_list
           /\ new[x].mark = IF x = f THEN si[s].mark ELSE si[x].mark
           /\ new[x].extptr = IF x = f THEN NULL ELSE si[x].extptr
  BY DEF f, new
<1> HIDE DEF f, child, new
<1>4. \A x \in StateId : new[x] = IF x = s THEN [si[x] EXCEPT !.first_child = f]
                                  ELSE IF x = f THEN child ELSE si[x]
  BY <1>1, <1>3 DEF Shape
<1>5. \A x \in StateId : /\ Tree([si[x] EXCEPT !.first_child = f], si[x])
                         /\ [si[x] EXCEPT !.first_child = f].first_child = f
  BY DEF Shape, IsState
<1> SUFFICES ASSUME NEW x \in StateId
             PROVE  IF x = f THEN new[x] = child
                    ELSE /\ Tree(new[x], si[x])
                         /\ new[x].first_child = IF x = s THEN f ELSE si[x].first_child
  BY <1>2
<1>6. CASE x = s
  <2>1. new[x] = [si[x] EXCEPT !.first_child = f]
    BY <1>4, <1>6
  <2> QED BY ONLY <1>1, <1>5, <1>6, <2>1
<1>7. CASE x # s
  BY <1>1, <1>4, <1>7
<1> QED BY <1>6, <1>7

-----------------------------------------------------------------------------
(* The simulation of a new instance.                                        *)

\* Outside the simulation of a new instance there is nothing to show.
LEMMA NotStarting == ASSUME Quiet, rules' = rules, phase' # "init" PROVE Quiet'
BY DEF Quiet, RuleId

\* The instance that is simulated, its rule, and the innermost frame.
LEMMA NewInstance ==
  ASSUME Inv, LockInv, Quiet, phase = "init", pc = "simul"
  PROVE  /\ subject \in States /\ Subject \in Insts /\ Subject \in InstId
         /\ ri[Subject].rule \in RuleId /\ QuietRule(RuleOfNew)
         /\ Len(stack) \in Nat \ {0} /\ DOMAIN stack = 1 .. Len(stack) /\ Len(stack) \in DOMAIN stack
         /\ \A j \in DOMAIN stack : /\ stack[j].si \in States /\ stack[j].si \in StateId
                                    /\ si[stack[j].si].inst = Subject /\ FrameOK(j)
         /\ StateOf(Top.si) = RuleOfNew.state[si[Top.si].state]
         /\ Top.si = stack[Len(stack)].si
<1>1. subject \in States /\ Subject \in Insts /\ Subject \in InstId
  BY DEF Inv, Control, Live, Subject, Insts
<1>2. ri[Subject].rule \in RuleId
  BY <1>1 DEF Insts, LockInv, LockShape
<1>3. Len(stack) \in Nat \ {0} /\ DOMAIN stack = 1 .. Len(stack) /\ Len(stack) \in DOMAIN stack
  <2>1. stack # << >> /\ stack \in Seq([si : StateId, t : Nat])
    BY DEF Inv, Control, Shape
  <2> QED BY <2>1, EmptySeq, LenProperties
<1>4. \A j \in DOMAIN stack : /\ stack[j].si \in States /\ stack[j].si \in StateId
                              /\ si[stack[j].si].inst = Subject /\ FrameOK(j)
  BY DEF Inv, Control, States, Quiet
<1>5. si[Top.si].inst = Subject
  BY <1>3, <1>4 DEF Top
<1> QED BY <1>1, <1>2, <1>3, <1>4, <1>5 DEF Quiet, RuleOfNew, StateOf, StateDef, Top

\* What is kept of the frames by a step that moves no state instance.
LEMMA FramesStay ==
  ASSUME Inv, LockInv, Quiet, phase = "init", pc = "simul", rules' = rules, subject' = subject,
         \A s \in States : si'[s].inst = si[s].inst /\ si'[s].state = si[s].state,
         \A i \in InstId : ri'[i].rule = ri[i].rule,
         \A j \in DOMAIN stack :
           RuleOfNew.sync /\ Behind(RuleOfNew) # {} => si'[stack[j].si].env = NULL
  PROVE  /\ Subject' = Subject /\ RuleOfNew' = RuleOfNew
         /\ \A j \in DOMAIN stack : stack'[j].si = stack[j].si => FrameOK(j)'
<1>1. Subject' = Subject /\ Subject \in InstId
  BY NewInstance DEF Subject
<1>2. RuleOfNew' = RuleOfNew
  BY <1>1 DEF RuleOfNew
<1>3. ASSUME NEW j \in DOMAIN stack, stack'[j].si = stack[j].si PROVE FrameOK(j)'
  BY <1>2, <1>3, NewInstance DEF FrameOK
<1> QED BY <1>1, <1>2, <1>3

\* A condition that is false.
LEMMA SkipQuiet ==
  ASSUME Inv, LockInv, Quiet, rules' = rules, SkipETransition PROVE Quiet'
<1>1. /\ thr' = thr /\ si' = si /\ ri' = ri /\ evt' = evt /\ stack' = Advance /\ AtTransition
      /\ UNCHANGED << pc, phase, subject, ret >> /\ pc = "simul"
  BY DEF SkipETransition, AtTransition, heap
<1>2. CASE phase # "init"
  BY <1>1, <1>2, NotStarting
<1>3. CASE phase = "init"
  <2>1. \A j \in DOMAIN stack : FrameOK(j)
    BY <1>1, <1>3, NewInstance
  <2>2. /\ DOMAIN stack' = DOMAIN stack /\ DOMAIN stack = 1 .. Len(stack) /\ Len(stack) \in Nat \ {0}
        /\ \A j \in DOMAIN stack : /\ stack'[j].si = stack[j].si
                                   /\ j # Len(stack) => stack'[j] = stack[j]
        /\ stack'[Len(stack)].t = Top.t + 1 /\ Top.t \in Nat
    BY <1>1, AdvanceAt
  <2>3. \A j \in DOMAIN stack' : FrameOK(j)'
    BY <1>1, <1>3, <2>1, <2>2, FramesStay DEF FrameOK
  <2>4. stack'[1].t = 0 => stack[1].t = 0
    BY <2>2
  <2>5. ThreadsOf(Subject)' = ThreadsOf(Subject)
    BY <1>1 DEF ThreadsOf, Subject, Threads, InstOf
  <2> QED BY <1>1, <1>3, <2>3, <2>4, <2>5 DEF Quiet, RuleId
<1> QED BY <1>2, <1>3

\* A new thread: the initial state was entered.
LEMMA ThreadQuiet ==
  ASSUME Inv, LockInv, Quiet, rules' = rules, CreateThread PROVE Quiet'
<1>1. /\ stack' = Advance /\ AtTransition
      /\ UNCHANGED << pc, phase, subject, ret >> /\ pc = "simul"
  BY DEF CreateThread, AtTransition
<1>2. CASE phase # "init"
  BY <1>1, <1>2, NotStarting
<1>3. CASE phase = "init"
  <2>1. /\ \A j \in DOMAIN stack : FrameOK(j) /\ stack[j].si \in StateId
        /\ Top.si \in StateId /\ Subject \in InstId
    BY <1>1, <1>3, NewInstance
  <2>2. /\ DOMAIN stack' = DOMAIN stack /\ DOMAIN stack = 1 .. Len(stack) /\ Len(stack) \in Nat \ {0}
        /\ \A j \in DOMAIN stack : /\ stack'[j].si = stack[j].si
                                   /\ j # Len(stack) => stack'[j] = stack[j]
        /\ stack'[Len(stack)].t = Top.t + 1 /\ Top.t \in Nat
    BY <1>1, AdvanceAt
  <2>3. \A s \in StateId : si'[s] = si[s]
    <3>1. si' = [si EXCEPT ![Top.si].thread_list = @]
      BY <1>3 DEF CreateThread, InThreadList
    <3>2. [si[Top.si] EXCEPT !.thread_list = @] = si[Top.si]
      BY <2>1 DEF Inv, Shape, IsState
    <3>3. ASSUME NEW s \in StateId PROVE si'[s] = si[s]
      BY <2>1, <3>1, <3>2 DEF Inv, Shape
    <3> QED BY <3>3
  <2>4. \A i \in InstId : ri'[i].rule = ri[i].rule
    BY <2>1 DEF CreateThread, Inv, Shape, IsInst
  <2>5. \A j \in DOMAIN stack' : FrameOK(j)'
    BY <1>1, <1>3, <2>1, <2>2, <2>3, <2>4, FramesStay DEF FrameOK, States
  <2>6. stack'[1].t # 0
    <3>1. \A j \in DOMAIN stack : j < Len(stack) => stack[j].t > 0
      BY DEF LockInv, Entered
    <3> QED BY <2>2, <3>1
  <2> QED BY <1>1, <1>3, <2>5, <2>6 DEF Quiet, RuleId
<1> QED BY <1>2, <1>3

\* The end of a call: what was created is the number of threads.
LEMMA ReturnQuiet ==
  ASSUME Inv, LockInv, Quiet, rules' = rules, ReturnFromSimulate PROVE Quiet'
<1>1. /\ thr' = thr /\ si' = si /\ ri' = ri /\ stack' = SubSeq(stack, 1, Len(stack) - 1)
      /\ UNCHANGED << phase, subject >> /\ pc = "simul"
      /\ IF Len(stack) = 1 THEN pc' = "ret" /\ ret' = created ELSE UNCHANGED << pc, ret >>
  BY DEF ReturnFromSimulate, heap
<1>2. CASE phase # "init"
  BY <1>1, <1>2, NotStarting
<1>3. CASE phase = "init"
  <2>1. \A j \in DOMAIN stack : FrameOK(j)
    BY <1>1, <1>3, NewInstance
  <2>2. /\ Len(stack) \in Nat \ {0} /\ DOMAIN stack = 1 .. Len(stack)
        /\ DOMAIN stack' = 1 .. Len(stack) - 1
        /\ \A j \in DOMAIN stack' : stack'[j] = stack[j]
    BY <1>1, PoppedStack DEF Inv, Control
  <2>3. \A j \in DOMAIN stack' : FrameOK(j)'
    BY <1>1, <1>3, <2>1, <2>2, FramesStay DEF FrameOK
  <2>4. ThreadsOf(Subject)' = ThreadsOf(Subject)
    BY <1>1 DEF ThreadsOf, Subject, Threads, InstOf
  <2>5. Len(stack) # 1 => stack'[1] = stack[1] /\ pc' = "simul"
    BY <1>1, <2>2
  <2>6. ASSUME Len(stack) = 1, ret' <= 0 PROVE ThreadsOf(Subject) = {}
    <3>1. created = Cardinality(ThreadsOf(Subject)) /\ ret' = created /\ created \in Nat
      BY <1>1, <1>3, <2>6 DEF Inv, Counted, Shape
    <3>2. Cardinality(ThreadsOf(Subject)) = 0
      BY <2>6, <3>1
    <3>3. ThreadsOf(Subject) \in SUBSET ThreadId
      BY DEF ThreadsOf, Threads
    <3> QED BY <3>2, <3>3, FiniteParts, FS_EmptySet
  <2> QED BY <1>1, <1>3, <2>3, <2>4, <2>5, <2>6 DEF Quiet, RuleId
<1> QED BY <1>2, <1>3

\* What the entered state's action leaves as it is.
LEMMA EnteringNew ==
  ASSUME Inv, LockInv, Quiet, phase = "init", Entering, RunAction, NEW S, thr' = Kill(thr, S),
         \A i \in InstId : ri'[i].rule = ri[i].rule
  PROVE  /\ \A s \in States : si'[s].inst = si[s].inst /\ si'[s].state = si[s].state
         /\ \A j \in DOMAIN stack :
              RuleOfNew.sync /\ Behind(RuleOfNew) # {} => si'[stack[j].si].env = NULL
         /\ subject' = subject => ThreadsOf(Subject)' = ThreadsOf(Subject)
         /\ RuleOfNew.sync /\ Behind(RuleOfNew) # {} => ActionEnv(Top.si) = NULL
         /\ Len(stack) > 1 => si[Top.si].state \in Behind(RuleOfNew)
         /\ Len(stack) = 1 => ThreadsOf(Subject) = {}
<1>1. /\ Top.si \in States /\ Top.si \in StateId /\ Top.si = stack[Len(stack)].si
      /\ \A j \in DOMAIN stack : /\ stack[j].si \in States /\ stack[j].si \in StateId
                                 /\ FrameOK(j)
      /\ Len(stack) \in Nat \ {0} /\ Len(stack) \in DOMAIN stack /\ QuietRule(RuleOfNew)
      /\ StateOf(Top.si) = RuleOfNew.state[si[Top.si].state]
      /\ subject \in States
  <2>1. Top = stack[Len(stack)] /\ pc = "simul"
    BY DEF Top, Entering
  <2>2. Len(stack) \in DOMAIN stack /\ \A j \in DOMAIN stack : stack[j].si \in States
    BY <2>1, NewInstance
  <2>3. Top.si \in States /\ Top.si = stack[Len(stack)].si
    BY <2>1, <2>2
  <2> QED BY <2>1, <2>3, NewInstance
<1>2. /\ \A s \in StateId : si'[s].inst = si[s].inst
      /\ \A t \in ThreadId : thr'[t].si = thr[t].si
  BY EnteringKeeps
<1>3. \A s \in StateId : si'[s].state = si[s].state
  BY <1>1, ActionTree DEF Inv
<1>4. \A s \in States : si'[s].inst = si[s].inst /\ si'[s].state = si[s].state
  BY <1>2, <1>3 DEF States
<1>5. ASSUME subject' = subject PROVE ThreadsOf(Subject)' = ThreadsOf(Subject)
  <2>1. Subject' = Subject
    BY <1>1, <1>4, <1>5 DEF Subject
  <2>2. Threads' = Threads
    BY <1>2 DEF Threads
  <2>3. \A t \in Threads : InstOf(t)' = InstOf(t)
    BY <1>2, <1>4 DEF InstOf, Inv, Live, Threads, States
  <2> QED BY <2>1, <2>2, <2>3 DEF ThreadsOf
<1>6. Len(stack) > 1 => si[Top.si].state \in Behind(RuleOfNew)
  BY <1>1 DEF FrameOK
<1>7. Len(stack) = 1 => si[Top.si].state = 1
  BY <1>1 DEF FrameOK
<1>8. Len(stack) = 1 => ThreadsOf(Subject) = {}
  BY DEF Quiet, Entering, Top
<1>9. ASSUME RuleOfNew.sync, Behind(RuleOfNew) # {}
      PROVE  ActionEnv(Top.si) = NULL /\ \A j \in DOMAIN stack : si'[stack[j].si].env = NULL
  <2>1. si[Top.si].env = NULL
    BY <1>1, <1>9 DEF FrameOK
  <2>2. ~ StateOf(Top.si).bind
    <3>a. \A n \in Nat \ {0} : n = 1 \/ n > 1
      OBVIOUS
    <3>1. Len(stack) = 1 \/ Len(stack) > 1
      BY ONLY <1>1, <3>a
    <3>2. CASE Len(stack) = 1
      <4>1. ~ RuleOfNew.state[1].bind
        BY <1>1, <1>9 DEF QuietRule
      <4> QED BY <1>1, <1>7, <3>2, <4>1
    <3>3. CASE Len(stack) > 1
      <4>1. ~ RuleOfNew.state[si[Top.si].state].bind
        BY <1>1, <1>6, <1>9, <3>3 DEF QuietRule
      <4> QED BY <1>1, <4>1
    <3> QED BY <3>1, <3>2, <3>3
  <2>3. ActionEnv(Top.si) = NULL
    BY <2>1, <2>2 DEF ActionEnv
  <2>4. \A s \in StateId : si'[s].env = IF s = Top.si THEN ActionEnv(Top.si) ELSE si[s].env
    BY SMTT(60), <1>1, ActionKeeps DEF Inv
  <2> QED BY <1>1, <1>9, <2>3, <2>4 DEF FrameOK
<1> QED BY <1>4, <1>5, <1>6, <1>8, <1>9

\* The state is entered.
LEMMA EnterQuiet == ASSUME Inv, LockInv, Quiet, rules' = rules, EnterState PROVE Quiet'
<1>a. PICK S : thr' = Kill(thr, S)
  BY SMTT(60) DEF EnterState
<1>1. /\ Entering /\ RunAction /\ stack' = Advance /\ pc = "simul"
      /\ UNCHANGED << pc, phase, subject, ret >>
      /\ \/ ri' = ri
         \/ ri' = [ri EXCEPT ![si[Top.si].inst].locks = @ \cup {Top.si}]
  BY DEF EnterState, Entering
<1>2. CASE phase # "init"
  BY <1>1, <1>2, NotStarting
<1>3. CASE phase = "init"
  <2>0. \A i \in InstId : ri'[i].rule = ri[i].rule
    <3>1. CASE ri' = ri
      BY SMTT(60), <3>1
    <3>2. CASE ri' = [ri EXCEPT ![si[Top.si].inst].locks = @ \cup {Top.si}]
      BY <3>2 DEF Inv, Shape, IsInst
    <3> QED BY <1>1, <3>1, <3>2
  <2>1. /\ \A s \in States : si'[s].inst = si[s].inst /\ si'[s].state = si[s].state
        /\ \A j \in DOMAIN stack :
             RuleOfNew.sync /\ Behind(RuleOfNew) # {} => si'[stack[j].si].env = NULL
    BY <1>a, <1>1, <1>3, <2>0, EnteringNew
  <2>2. /\ DOMAIN stack' = DOMAIN stack /\ DOMAIN stack = 1 .. Len(stack) /\ Len(stack) \in Nat \ {0}
        /\ \A j \in DOMAIN stack : /\ stack'[j].si = stack[j].si
                                   /\ j # Len(stack) => stack'[j] = stack[j]
        /\ stack'[Len(stack)].t = Top.t + 1 /\ Top.t \in Nat
    BY <1>1, AdvanceAt
  <2>3. \A j \in DOMAIN stack' : FrameOK(j)'
    BY <1>1, <1>3, <2>0, <2>1, <2>2, FramesStay
  <2>4. stack'[1].t # 0
    <3>1. \A j \in DOMAIN stack : j < Len(stack) => stack[j].t > 0
      BY DEF LockInv, Entered
    <3> QED BY <2>2, <3>1
  <2> QED BY <1>1, <1>3, <2>3, <2>4 DEF Quiet, RuleId
<1> QED BY <1>2, <1>3

\* A terminal state: it is the initial one, and nothing was created.
LEMMA TerminalQuiet ==
  ASSUME Inv, LockInv, Quiet, rules' = rules, EnterTerminalState PROVE Quiet'
<1>a. PICK S : thr' = Kill(thr, S)
  BY DEF EnterTerminalState
<1>1. /\ Entering /\ RunAction /\ stack' = << >> /\ pc = "simul" /\ pc' = "ret" /\ TopTrans = << >>
      /\ UNCHANGED << phase, subject >>
      /\ ri' = [ri EXCEPT ![si[Top.si].inst].killed = TRUE]
  BY DEF EnterTerminalState, Entering, Unwind
<1>2. CASE phase # "init"
  BY <1>1, <1>2, NotStarting
<1>3. CASE phase = "init"
  <2>0. \A i \in InstId : ri'[i].rule = ri[i].rule
    BY <1>1 DEF Inv, Shape, IsInst
  <2>1. /\ ThreadsOf(Subject)' = ThreadsOf(Subject)
        /\ Len(stack) > 1 => si[Top.si].state \in Behind(RuleOfNew)
        /\ Len(stack) = 1 => ThreadsOf(Subject) = {}
    BY <1>a, <1>1, <1>3, <2>0, EnteringNew
  <2>2. /\ Len(stack) \in Nat \ {0} /\ QuietRule(RuleOfNew)
        /\ StateOf(Top.si) = RuleOfNew.state[si[Top.si].state]
    BY <1>1, <1>3, NewInstance
  <2>3. ThreadsOf(Subject) = {}
    <3>a. \A n \in Nat \ {0} : n = 1 \/ n > 1
      OBVIOUS
    <3>1. Len(stack) = 1 \/ Len(stack) > 1
      BY ONLY <2>2, <3>a
    <3>2. ASSUME si[Top.si].state \in Behind(RuleOfNew) PROVE FALSE
      <4>1. RuleOfNew.state[si[Top.si].state].trans # << >>
        BY <2>2, <3>2 DEF QuietRule
      <4> QED BY <1>1, <2>2, <4>1 DEF TopTrans
    <3> QED BY <2>1, <3>1, <3>2
  <2>4. DOMAIN stack' = {}
    BY <1>1
  <2> QED BY <1>1, <1>3, <2>1, <2>3, <2>4 DEF Quiet, RuleId
<1> QED BY <1>2, <1>3

\* A lock: it is the initial state that meets it, and nothing was created.
LEMMA PruneQuiet == ASSUME Inv, LockInv, Quiet, rules' = rules, PruneState PROVE Quiet'
<1>a. PICK S : thr' = Kill(thr, S)
  BY DEF PruneState
<1>1. /\ Entering /\ RunAction /\ stack' = << >> /\ pc = "simul" /\ pc' = "ret"
      /\ LockedOut(Top.si) /\ UNCHANGED << phase, subject >> /\ ri' = ri
  BY DEF PruneState, Entering, Unwind
<1>2. CASE phase # "init"
  BY <1>1, <1>2, NotStarting
<1>3. CASE phase = "init"
  <2>1. /\ ThreadsOf(Subject)' = ThreadsOf(Subject)
        /\ RuleOfNew.sync /\ Behind(RuleOfNew) # {} => ActionEnv(Top.si) = NULL
        /\ Len(stack) > 1 => si[Top.si].state \in Behind(RuleOfNew)
        /\ Len(stack) = 1 => ThreadsOf(Subject) = {}
    BY <1>a, <1>1, <1>3, EnteringNew
  <2>2. Len(stack) \in Nat \ {0} /\ si[Top.si].inst = Subject
    BY <1>1, <1>3, NewInstance DEF Top
  <2>3. RuleOfNew.sync /\ KeyOf(ActionEnv(Top.si)) # NoKey
    BY <1>1, <2>2 DEF LockedOut, IsSync, LockKey, RuleOfNew
  <2>4. Behind(RuleOfNew) = {}
    BY <2>1, <2>3 DEF KeyOf
  <2>5. ThreadsOf(Subject) = {}
    <3>a. \A n \in Nat \ {0} : n = 1 \/ n > 1
      OBVIOUS
    <3>1. Len(stack) = 1 \/ Len(stack) > 1
      BY ONLY <2>2, <3>a
    <3> QED BY <2>1, <2>4, <3>1
  <2>6. DOMAIN stack' = {}
    BY <1>1
  <2> QED BY <1>1, <1>3, <2>1, <2>5, <2>6 DEF Quiet, RuleId
<1> QED BY <1>2, <1>3

\* The transitions of the state that is simulated.
LEMMA TransitionsAre ==
  ASSUME Inv, LockInv, Quiet, phase = "init", pc = "simul"
  PROVE  /\ TopTrans \in Seq(Transition) /\ Len(TopTrans) \in Nat
         /\ Top.t \in Nat /\ Len(stack) \in DOMAIN stack
         /\ si[Top.si].state \in {1} \cup Behind(RuleOfNew)
         /\ TopTrans = RuleOfNew.state[si[Top.si].state].trans
<1>1. /\ FrameOK(Len(stack)) /\ Top.si = stack[Len(stack)].si /\ ri[Subject].rule \in RuleId
      /\ StateOf(Top.si) = RuleOfNew.state[si[Top.si].state] /\ Len(stack) \in DOMAIN stack
  BY NewInstance
<1>2. Top.t \in Nat
  <2>1. stack[Len(stack)] \in [si : StateId, t : Nat]
    BY <1>1, ElementOfSeq, LenProperties DEF Inv, Shape
  <2> QED BY <2>1 DEF Top
<1>3. si[Top.si].state \in {1} \cup Behind(RuleOfNew)
  BY <1>1 DEF FrameOK
<1>4. rules \in Seq(Rule) /\ RuleOfNew \in Rule
  <2>1. rules \in Seq(Rule) /\ ri[Subject].rule \in DOMAIN rules
    BY <1>1 DEF LockInv, LockShape, RuleId
  <2> QED BY <2>1, ElementOfSeq, LenProperties DEF RuleOfNew
<1>5. si[Top.si].state \in DOMAIN RuleOfNew.state
  <2>1. RuleOfNew.state # << >> /\ RuleOfNew.state \in Seq(State)
    <3>1. rules \in RuleSets /\ ri[Subject].rule \in DOMAIN rules
      BY <1>1 DEF Quiet, RuleId
    <3> QED BY <1>4, <3>1, RulesAssumption DEF RuleOfNew, Rule
  <2>2. 1 \in DOMAIN RuleOfNew.state
    BY <2>1, EmptySeq, LenProperties
  <2> QED BY <1>3, <2>2 DEF Behind
<1>6. RuleOfNew.state[si[Top.si].state] \in State
  BY <1>4, <1>5, ElementOfSeq, LenProperties DEF Rule
<1>7. TopTrans = RuleOfNew.state[si[Top.si].state].trans
  BY <1>1 DEF TopTrans
<1>8. TopTrans \in Seq(Transition)
  BY <1>6, <1>7 DEF State
<1> QED BY <1>1, <1>2, <1>3, <1>7, <1>8, LenProperties

\* An e-transition leads behind the initial state.
LEMMA PassQuiet == ASSUME Inv, LockInv, Quiet, rules' = rules, PassETransition PROVE Quiet'
<1> DEFINE f == FreeState
           s == Top.si
           d == TopTrans[Top.t].dest
<1>1. /\ pc = "simul" /\ si' = WithChild(s, d, NULL) /\ States # StateId
      /\ stack' = Append(Advance, [si |-> f, t |-> 0]) /\ TopTrans[Top.t].kind # "expect"
      /\ UNCHANGED << ri, pc, phase, subject, ret >> /\ Top.t > 0 /\ Top.t <= Len(TopTrans)
  BY DEF PassETransition, AtTransition
<1>2. CASE phase # "init"
  BY <1>1, <1>2, NotStarting
<1>3. CASE phase = "init"
  <2>1. /\ \A j \in DOMAIN stack : FrameOK(j) /\ stack[j].si \in States
        /\ Len(stack) \in Nat \ {0} /\ DOMAIN stack = 1 .. Len(stack) /\ Len(stack) \in DOMAIN stack
        /\ StateOf(s) = RuleOfNew.state[si[s].state] /\ s = stack[Len(stack)].si
        /\ ri[Subject].rule \in RuleId /\ Subject \in InstId
    BY <1>1, <1>3, NewInstance
  <2>2. f \in StateId /\ f \notin States
    BY <1>1, MallocState
  <2>3. /\ \A x \in StateId : /\ si'[x].inst = IF x = f THEN si[s].inst ELSE si[x].inst
                              /\ si'[x].env = IF x = f THEN si[s].env ELSE si[x].env
        /\ \A x \in StateId : si'[x].state = IF x = f THEN d ELSE si[x].state
    <3> HIDE DEF s, d
    <3>1. s \in States
      BY <2>1
    <3> QED BY <1>1, <3>1, ChildIs, ChildTree DEF Inv
  <2>4. d \in Behind(RuleOfNew)
    <3>1. /\ si[s].state \in {1} \cup Behind(RuleOfNew) /\ Top.t \in DOMAIN TopTrans
          /\ TopTrans = RuleOfNew.state[si[s].state].trans
      BY <1>1, <1>3, TransitionsAre, LenProperties
    <3> QED BY <1>1, <2>1, <3>1, BehindIs DEF Quiet, RuleOfNew
  <2>5. /\ Len(Advance) = Len(stack) /\ Advance \in Seq([si : StateId, t : Nat])
        /\ \A j \in DOMAIN stack : Advance[j].si = stack[j].si
        /\ \A j \in DOMAIN stack : j # Len(stack) => Advance[j] = stack[j]
        /\ Advance[Len(stack)].t = Top.t + 1
    BY <1>1, AdvanceIs DEF Inv, Control
  <2>6. /\ Len(stack') = Len(stack) + 1 /\ DOMAIN stack' = 1 .. Len(stack) + 1
        /\ \A j \in DOMAIN stack : stack'[j] = Advance[j]
        /\ stack'[Len(stack) + 1].si = f
    <3> DEFINE fr == [si |-> f, t |-> 0]
               S == [si : StateId, t : Nat]
    <3>1. fr \in S /\ fr.si = f
      BY <2>2
    <3>2. Advance \in Seq(S) /\ stack' = Append(Advance, fr)
      BY <1>1, <2>5
    <3> HIDE DEF fr, S
    <3>3. /\ stack' \in Seq(S) /\ Len(stack') = Len(Advance) + 1
          /\ \A j \in 1 .. Len(Advance) : stack'[j] = Advance[j]
          /\ stack'[Len(Advance) + 1] = fr
      BY <3>1, <3>2, AppendProperties
    <3> QED BY <2>1, <2>5, <3>1, <3>3, LenProperties
  <2>7. \A x \in States : /\ x \in StateId /\ si'[x].inst = si[x].inst /\ si'[x].state = si[x].state
                          /\ si'[x].env = si[x].env
    BY <2>2, <2>3 DEF States
  <2>8. \A j \in DOMAIN stack :
          RuleOfNew.sync /\ Behind(RuleOfNew) # {} => si'[stack[j].si].env = NULL
    BY <2>1, <2>7 DEF FrameOK
  <2>9. /\ RuleOfNew' = RuleOfNew
        /\ \A j \in DOMAIN stack : FrameOK(j)'
    BY <1>1, <1>3, <2>5, <2>6, <2>7, <2>8, FramesStay
  <2>a. PICK n : n = Len(stack) + 1
    OBVIOUS
  <2>10. FrameOK(n)'
    <3>1. n # 1 /\ stack'[n].si = f
      BY <2>1, <2>6, <2>a
    <3>2. si'[f].state = d /\ si'[f].env = si[s].env
      BY <2>2, <2>3
    <3>3. RuleOfNew.sync /\ Behind(RuleOfNew) # {} => si[s].env = NULL
      BY <2>1 DEF FrameOK
    <3> HIDE DEF d, s, f
    <3> QED BY <2>4, <2>9, <3>1, <3>2, <3>3 DEF FrameOK
  <2>11. \A j \in DOMAIN stack' : FrameOK(j)'
    <3>1. \A j \in DOMAIN stack' : j \in DOMAIN stack \/ j = n
      BY <2>1, <2>6, <2>a
    <3> QED BY <2>9, <2>10, <3>1
  <2>12. stack'[1].t # 0
    <3>1. \A j \in DOMAIN stack : j < Len(stack) => stack[j].t > 0
      BY DEF LockInv, Entered
    <3>2. stack'[1] = Advance[1]
      BY <2>1, <2>6
    <3>3. CASE Len(stack) = 1
      <4>1. Top.t + 1 # 0
        <5>1. stack[Len(stack)] \in [si : StateId, t : Nat]
          BY <2>1, ElementOfSeq DEF Inv, Shape
        <5> QED BY <5>1 DEF Top
      <4> QED BY <2>5, <3>2, <3>3, <4>1
    <3>4. CASE Len(stack) # 1
      BY <2>1, <2>5, <3>1, <3>2, <3>4
    <3> QED BY <3>3, <3>4
  <2> QED BY <1>1, <1>3, <2>11, <2>12 DEF Quiet, RuleId
<1> QED BY <1>2, <1>3

\* A fresh instance begins in its initial state, without an environment.
LEMMA CreateInitialQuiet ==
  ASSUME Inv, Inv', Quiet, rules' = rules, CreateInitialInstance PROVE Quiet'
<1> DEFINE f == FreeState
           x == [NullState EXCEPT !.inst = FreeInst, !.state = 1]
<1>1. /\ si' = [si EXCEPT ![f] = x] /\ stack' = << [si |-> f, t |-> 0] >> /\ subject' = f
      /\ phase' = "init" /\ pc' = "simul" /\ created' = 0 /\ States # StateId
  BY DEF CreateInitialInstance, Simulate
<1>2. f \in StateId
  BY <1>1, MallocState
<1>3. x.state = 1 /\ x.env = NULL
  BY DEF NullState
<1> HIDE DEF x, f
<1>4. si'[f].state = 1 /\ si'[f].env = NULL
  BY <1>1, <1>2, <1>3 DEF Inv, Shape
<1>5. DOMAIN stack' = {1} /\ stack'[1].si = f
  BY <1>1
<1>6. \A j \in DOMAIN stack' : FrameOK(j)'
  BY <1>4, <1>5 DEF FrameOK
<1>7. ThreadsOf(Subject)' = {}
  <2>1. Cardinality(ThreadsOf(Subject)') = 0
    BY <1>1 DEF Inv, Counted
  <2>2. ThreadsOf(Subject)' \in SUBSET ThreadId
    BY DEF ThreadsOf, Threads
  <2> QED BY <2>1, <2>2, FiniteParts, FS_EmptySet
<1> QED BY <1>1, <1>6, <1>7 DEF Quiet, RuleId

-----------------------------------------------------------------------------
(* No instance with a thread is dropped.                                    *)

\* The evt-loop simulates instances that were started.
LEMMA LoopIsNotStarting ==
  ASSUME Inv, EvtLoopStep \/ LinkInitialInstance \/ DropInitialInstance \/ MergeQueues
                \/ \E k \in Keys \cup {NoKey} : InjectEvent(k)
  PROVE  phase' # "init"
BY DEF Inv, Control, EvtLoopStep, ReapKilledThread, ThreadFails, ThreadMatches, AfterMatch,
       FinishEvent, InLoop, Simulate, Returned, call, LinkInitialInstance, DropInitialInstance,
       MergeQueues, InjectEvent

\* A step outside inject_event() does not concern the simulation.
LEMMA StutterQuiet ==
  ASSUME Quiet, UNCHANGED << thr, si, ri, phase, stack, pc, ret, subject, rules >> PROVE Quiet'
<1>1. \A j : FrameOK(j)' = FrameOK(j)
  BY DEF FrameOK, RuleOfNew, Subject
<1>2. ThreadsOf(Subject)' = ThreadsOf(Subject)
  BY DEF ThreadsOf, Subject, Threads, InstOf
<1> QED BY <1>1, <1>2 DEF Quiet, RuleId

\* Every step of the engine and of its environment.
LEMMA QuietInductive ==
  ASSUME Inv, Inv', LockInv, Quiet, [Next]_vars PROVE Quiet'
<1>1. rules' = rules
  BY DEF Next, EngineStep, EnvironmentStep, vars
<1>2. CASE SimulateStep
  BY <1>1, <1>2, TerminalQuiet, PruneQuiet, EnterQuiet, PassQuiet, SkipQuiet, ThreadQuiet,
     ReturnQuiet DEF SimulateStep
<1>3. CASE InitialThreadsStep
  BY <1>1, <1>3, CreateInitialQuiet, LoopIsNotStarting, NotStarting DEF InitialThreadsStep
<1>4. CASE EvtLoopStep
  BY <1>1, <1>4, LoopIsNotStarting, NotStarting
<1>5. CASE Tick
  BY <1>1, <1>5, StutterQuiet DEF Tick, heap, call
<1>6. CASE \E k \in Keys \cup {NoKey} : InjectEvent(k)
  BY <1>1, <1>6, LoopIsNotStarting, NotStarting
<1>7. CASE UNCHANGED vars
  BY <1>1, <1>7, StutterQuiet DEF vars, heap, call
<1> QED BY <1>2, <1>3, <1>4, <1>5, <1>6, <1>7 DEF Next, EngineStep, EnvironmentStep

\* Nothing is simulated at first.
LEMMA QuietInitially == ASSUME Init, QuietRules PROVE Quiet
BY DEF Init, QuietRules, Quiet, RuleId

\* A new instance that is given up has no thread.
LEMMA QuietConsequence == ASSUME Quiet PROVE NoInitialThreads
BY DEF Quiet, NoInitialThreads, InitReturned, Subject

\* create_rule_initial_threads() (engine.c:279) frees a new rule instance only
\* when it has no thread, if no e-transition of a rule leads from its initial
\* state to a terminal state or to a lock.
THEOREM NoInstanceDropped == QuietRules /\ Spec => []NoInitialThreads
<1>1. Init /\ QuietRules => Inv /\ LockInv /\ Quiet
  BY Initially, LocksInitially, QuietInitially
<1>2. Inv /\ LockInv /\ Quiet /\ [Next]_vars => Inv' /\ LockInv' /\ Quiet'
  BY Inductive, LocksInductive, QuietInductive, QuietConsequence
<1>3. Quiet => NoInitialThreads
  BY QuietConsequence
<1> QED BY <1>1, <1>2, <1>3, PTL DEF Spec

\* For such rules pointers, counters, locks and environments are right in every
\* behaviour of engine.c, without a further hypothesis.
THEOREM QuietRulesAreSafe ==
  QuietRules /\ Spec =>
    []ReferencesExact /\ []LocksConsistent /\ []EnvironmentAlive /\ LockReleasedByOwner
BY NoInstanceDropped, ReferencesAlwaysExact, LocksAlwaysConsistent, EnvironmentsAlwaysAlive,
   LocksReleasedByOwners, PTL

-----------------------------------------------------------------------------
(* Expired threads.                                                         *)

\* From the first thread of the evt-loop on, the threads that the loop is done
\* with or has made have not expired.
Expiry ==
  /\ now \in Nat /\ cur_time \in Nat /\ cur_time <= now
  /\ \A t \in ThreadId : thr[t].timeout \in Nat
  /\ phase = "loop" \/ pc \in {"loop", "idle"} =>
       \A t \in Threads : t \in Elems(cur) \/ thr[t].timeout > cur_time
  /\ phase = "loop" => thr[Head(cur)].once \/ thr[Head(cur)].timeout > cur_time

\* Some threads are marked, and none lives longer.
TimeMarks(th) == LockMarks(th) /\ \A t \in ThreadId : th[t].timeout = thr[t].timeout

\* The functions that mark threads leave their timeouts alone.
LEMMA TimesKept ==
  ASSUME Inv
  PROVE  /\ \A th, q : TimeMarks(th) => TimeMarks(Bumped(th, q))
         /\ \A S : TimeMarks(Kill(thr, S))
         /\ TimeMarks(thr)
<1>1. ASSUME NEW th, NEW q, TimeMarks(th) PROVE TimeMarks(Bumped(th, q))
  <2>1. LockMarks(Bumped(th, q))
    BY <1>1, MarksKept DEF TimeMarks
  <2>2. ASSUME NEW t \in ThreadId PROVE Bumped(th, q)[t].timeout = thr[t].timeout
    <3>a. PICK x : x = Bumped(th, q)[t]
      OBVIOUS
    <3>1. x = th[t] \/ x = [th[t] EXCEPT !.bump = TRUE]
      BY <3>a DEF Bumped
    <3>2. IsThread(th[t]) /\ th[t].timeout = thr[t].timeout
      BY <1>1 DEF TimeMarks, LockMarks, Marks
    <3>3. x.timeout = th[t].timeout
      BY ONLY <3>1, <3>2 DEF IsThread
    <3> QED BY <3>a, <3>2, <3>3
  <2> QED BY <2>1, <2>2 DEF TimeMarks
<1>2. ASSUME NEW S PROVE TimeMarks(Kill(thr, S))
  <2>1. LockMarks(Kill(thr, S))
    BY MarksKept
  <2>2. ASSUME NEW t \in ThreadId PROVE Kill(thr, S)[t].timeout = thr[t].timeout
    <3>1. IsThread(thr[t])
      BY DEF Inv, Shape
    <3> QED BY <3>1 DEF Kill, IsThread
  <2> QED BY <2>1, <2>2 DEF TimeMarks
<1>3. TimeMarks(thr)
  BY MarksKept DEF TimeMarks
<1> QED BY <1>1, <1>2, <1>3

\* The thread that is linked last is marked, and no other.
LEMMA BumpOne ==
  ASSUME Inv, NEW q, NEW th,
         th = IF q = << >> THEN thr ELSE [thr EXCEPT ![q[Len(q)]].bump = TRUE]
  PROVE  TimeMarks(th)
<1>1. CASE q = << >>
  BY <1>1, TimesKept
<1>2. CASE q # << >>
  <2>a. PICK b : b = q[Len(q)]
    OBVIOUS
  <2>1. th = [thr EXCEPT ![b].bump = TRUE]
    BY <1>2, <2>a
  <2>2. /\ th = [t \in ThreadId |-> th[t]]
        /\ \A t \in ThreadId : th[t] = thr[t] \/ th[t] = [thr[t] EXCEPT !.bump = TRUE]
    BY <2>1 DEF Inv, Shape
  <2>3. \A t \in ThreadId : IsThread(thr[t])
    BY DEF Inv, Shape
  <2>4. \A t \in ThreadId : /\ IsThread(th[t]) /\ th[t].si = thr[t].si
                            /\ th[t].once = thr[t].once /\ th[t].timeout = thr[t].timeout
    BY ONLY <2>2, <2>3 DEF IsThread
  <2> QED BY <2>2, <2>4 DEF TimeMarks, LockMarks, Marks
<1> QED BY <1>1, <1>2

\* A step that makes and frees no thread, and that does not begin the loop.
LEMMA ExpiryStays ==
  ASSUME Inv, Expiry, TimeMarks(thr'), cur' = cur, now' \in Nat, now' >= now,
         cur_time' = cur_time \/ (cur_time' = now' /\ pc' = "init" /\ phase' = "none"),
         phase' = "loop" => phase = "loop",
         phase' = "loop" \/ pc' \in {"loop", "idle"} => phase = "loop" \/ pc \in {"loop", "idle"}
  PROVE  Expiry'
<1>1. \A t \in ThreadId : /\ thr'[t].si = thr[t].si /\ thr'[t].once = thr[t].once
                          /\ thr'[t].timeout = thr[t].timeout
  BY DEF TimeMarks, LockMarks, Marks
<1>2. Threads' = Threads
  BY <1>1 DEF Threads
<1>3. now' \in Nat /\ cur_time' \in Nat /\ cur_time' <= now'
  BY DEF Expiry
<1>4. \A t \in ThreadId : thr'[t].timeout \in Nat
  BY <1>1 DEF Expiry
<1>5. ASSUME phase' = "loop" \/ pc' \in {"loop", "idle"}, NEW t \in Threads'
      PROVE  t \in Elems(cur)' \/ thr'[t].timeout > cur_time'
  <2>1. t \in Threads /\ t \in ThreadId /\ cur_time' = cur_time
    BY <1>2, <1>5 DEF Threads
  <2> QED BY <1>1, <1>5, <2>1 DEF Expiry, Elems
<1>6. ASSUME phase' = "loop" PROVE thr'[Head(cur')].once \/ thr'[Head(cur')].timeout > cur_time'
  <2>1. Head(cur) \in ThreadId /\ cur_time' = cur_time
    BY <1>6, HeadLives DEF Inv, Control
  <2> QED BY <1>1, <1>6, <2>1 DEF Expiry
<1> QED BY <1>3, <1>4, <1>5, <1>6 DEF Expiry

\* The simulation.
LEMMA SimulationExpiry ==
  ASSUME Inv, Inv', LockInv, Expiry, SimulateStep PROVE Expiry'
<1>1. /\ UNCHANGED << clock, phase, cur >> /\ pc = "simul" /\ pc' \in {"simul", "ret"}
  BY DEF SimulateStep, EnterTerminalState, PruneState, EnterState, PassETransition,
         SkipETransition, CreateThread, ReturnFromSimulate, Unwind, Entering, AtTransition, queue
<1>2. /\ cur_time' = cur_time /\ now' = now /\ now \in Nat /\ now >= now
  BY <1>1 DEF clock, Expiry
<1>3. CASE ~ CreateThread
  <2>1. thr' = thr \/ \E S : thr' = Kill(thr, S)
    BY <1>3 DEF SimulateStep, EnterTerminalState, PruneState, EnterState, PassETransition,
         SkipETransition, ReturnFromSimulate, heap
  <2>2. TimeMarks(thr')
    BY <2>1, TimesKept
  <2> QED BY <1>1, <1>2, <2>2, ExpiryStays
<1>4. CASE CreateThread
  <2>a. PICK f : f = FreeThread
    OBVIOUS
  <2>1. f \in ThreadId /\ f \notin Threads
    BY <1>4, <2>a, MallocThread DEF CreateThread
  <2>2. thr' = [thr EXCEPT ![f] = NewThread]
    BY <1>4, <2>a DEF CreateThread
  <2>3. NewThread.timeout \in Nat /\ NewThread.timeout > cur_time
    BY BoundsAssumption DEF NewThread, Expiry
  <2>4. \A t \in ThreadId : IF t = f THEN thr'[t].timeout \in Nat /\ thr'[t].timeout > cur_time
                                     ELSE thr'[t] = thr[t]
    BY <2>1, <2>2, <2>3 DEF Inv, Shape
  <2>5. \A t \in Threads' : t \in ThreadId /\ (t # f => t \in Threads)
    BY <2>4 DEF Threads
  <2>6. phase = "loop" => Head(cur) \in Threads /\ Head(cur) \in ThreadId
    BY HeadLives DEF Inv, Control
  <2> QED BY <1>1, <1>2, <2>1, <2>4, <2>5, <2>6 DEF Expiry, Elems
<1> QED BY <1>3, <1>4

\* Rule instances begin, and their threads are made the queue of the loop.
LEMMA InitialExpiry ==
  ASSUME Inv, Inv', LockInv, Expiry, InitialThreadsStep PROVE Expiry'
<1>1. /\ UNCHANGED clock /\ phase' # "loop"
      /\ cur_time' = cur_time /\ now' = now /\ now \in Nat /\ now >= now
  BY DEF InitialThreadsStep, CreateInitialInstance, LinkInitialInstance, DropInitialInstance,
         MergeQueues, Simulate, Returned, clock, Expiry, call, Inv, Control
<1>2. CASE ~ MergeQueues
  <2>1. pc' \in {"simul", "init"} /\ cur' = cur
    BY <1>2 DEF InitialThreadsStep, CreateInitialInstance, LinkInitialInstance,
                DropInitialInstance, Simulate, queue
  <2>2. TimeMarks(thr')
    <3>1. CASE LinkInitialInstance
      BY <3>1, BumpOne DEF LinkInitialInstance
    <3>2. CASE ~ LinkInitialInstance
      <4>1. thr' = thr
        BY <1>2, <3>2 DEF InitialThreadsStep, CreateInitialInstance, DropInitialInstance
      <4> QED BY <4>1, TimesKept
    <3> QED BY <3>1, <3>2
  <2> QED BY <1>1, <2>1, <2>2, ExpiryStays
<1>3. CASE MergeQueues
  <2>1. thr' = thr /\ newq' = << >> /\ retrig' = << >>
    BY <1>3 DEF MergeQueues, heap
  <2>2. Elems(newq') = {} /\ Elems(retrig') = {}
    BY <2>1 DEF Elems
  <2>3. Elems(cur') = Threads'
    BY <2>2 DEF Inv, Queued, Elems
  <2> QED BY <1>1, <2>1, <2>3 DEF Expiry, Elems
<1> QED BY <1>2, <1>3

\* A thread leaves the queue of the loop, for ever or because it is not expired.
LEMMA LoopExpiry ==
  ASSUME Inv, Inv', Expiry, AtHead, LoopGoesOn, UNCHANGED clock, NEW th, TimeMarks(th),
         \/ Reap(Head(cur), th) \/ Reap(Head(cur), Bumped(th, retrig))
         \/ Retrigger(Head(cur), th) /\ thr[Head(cur)].timeout > cur_time
  PROVE  Expiry'
<1>a. PICK t : t = Head(cur)
  OBVIOUS
<1>1. /\ t \in Threads /\ t \in ThreadId /\ cur \in Seq(ThreadId) /\ Distinct(cur)
      /\ cur # << >> /\ cur_time' = cur_time /\ now' = now
  BY <1>a, HeadLives DEF AtHead, Inv, Shape, Queued, clock
<1>2. Elems(Tail(cur)) = Elems(cur) \ {t}
  BY <1>a, <1>1, TailOf
<1>3. cur' = Tail(cur)
  BY DEF Reap, Retrigger
<1>4. Elems(cur') = Elems(cur) \ {t}
  BY <1>2, <1>3
<1>5. ASSUME NEW u \in Threads PROVE u \in Elems(cur) \/ thr[u].timeout > cur_time
  BY DEF Expiry, AtHead
<1>6. CASE \E x : TimeMarks(x) /\ Reap(t, x)
  <2>1. PICK x : TimeMarks(x) /\ thr' = [x EXCEPT ![t] = NullThread]
    BY <1>6 DEF Reap
  <2>2. NullThread.si = NULL /\ NullThread.timeout \in Nat
    BY DEF NullThread
  <2>3. \A u \in ThreadId : IF u = t THEN thr'[u].si = NULL /\ thr'[u].timeout \in Nat
                            ELSE /\ thr'[u].si = thr[u].si /\ thr'[u].timeout = thr[u].timeout
    <3> HIDE DEF NullThread
    <3> QED BY <1>1, <2>1, <2>2 DEF TimeMarks, LockMarks, Marks
  <2>4. \A u \in Threads' : u \in Threads /\ u # t /\ u \in ThreadId
    BY <2>3 DEF Threads
  <2>5. \A u \in Threads' : u \in Elems(cur)' \/ thr'[u].timeout > cur_time'
    BY <1>1, <1>4, <1>5, <2>3, <2>4 DEF Elems
  <2>6. \A u \in ThreadId : thr'[u].timeout \in Nat
    BY <2>3 DEF Expiry
  <2> QED BY <1>1, <2>5, <2>6 DEF Expiry, LoopGoesOn
<1>7. CASE Retrigger(t, th) /\ thr[t].timeout > cur_time
  <2>1. TimeMarks(thr')
    BY <1>7, TimesKept DEF Retrigger
  <2>2. \A u \in ThreadId : thr'[u].si = thr[u].si /\ thr'[u].timeout = thr[u].timeout
    BY <2>1 DEF TimeMarks, LockMarks, Marks
  <2>3. Threads' = Threads /\ \A u \in Threads : u \in ThreadId
    BY <2>2 DEF Threads
  <2>4. \A u \in Threads' : u \in Elems(cur)' \/ thr'[u].timeout > cur_time'
    BY <1>1, <1>4, <1>5, <1>7, <2>2, <2>3 DEF Elems
  <2>5. \A u \in ThreadId : thr'[u].timeout \in Nat
    BY <2>2 DEF Expiry
  <2> QED BY <1>1, <2>4, <2>5 DEF Expiry, LoopGoesOn
<1> QED BY <1>a, <1>6, <1>7, TimesKept

\* The evt-loop.
LEMMA EvtLoopExpiry == ASSUME Inv, Inv', LockInv, Expiry, EvtLoopStep PROVE Expiry'
<1>a. PICK t : t = Head(cur)
  OBVIOUS
<1>1. CASE ReapKilledThread \/ ThreadFails
  <2>1. /\ pc = "loop" /\ cur # << >> /\ UNCHANGED clock
        /\ UNCHANGED << phase, stack, created, ret, active_event_cur, pc, rulePos >>
    BY <1>1 DEF ReapKilledThread, ThreadFails, InLoop, call
  <2>2. phase = "none" /\ stack = << >> /\ created \in Nat /\ ret \in Int
    BY <2>1 DEF Inv, Control, Shape
  <2>3. LoopGoesOn /\ AtHead
    BY <2>1, <2>2 DEF LoopGoesOn, AtHead
  <2>4. \/ Reap(t, thr) \/ Reap(t, Bumped(thr, retrig))
        \/ Retrigger(t, thr) /\ ~ MustReap(t)
    BY <1>a, <1>1 DEF ReapKilledThread, ThreadFails, ReapInitialThread
  <2>5. thr[t].timeout \in Nat /\ cur_time \in Nat
    BY <1>a, <2>1, HeadLives DEF Expiry
  <2>6. \/ Reap(t, thr) \/ Reap(t, Bumped(thr, retrig))
        \/ Retrigger(t, thr) /\ thr[t].timeout > cur_time
    BY SMTT(60), <2>4, <2>5 DEF MustReap, TimedOut, Retrigger
  <2> QED BY <1>a, <2>1, <2>3, <2>6, LoopExpiry, TimesKept
<1>2. CASE AfterMatch
  <2>a. PICK th : th = IF BacktrackIsNotNeeded(t) THEN Kill(thr, {t}) ELSE thr
    OBVIOUS
  <2>1. /\ pc = "ret" /\ phase = "loop" /\ Returned /\ pc' = "loop"
        /\ ReapInitialThread(t, th) \/ Retrigger(t, th)
        /\ active_event_cur' = active_event_cur /\ rulePos' = rulePos /\ UNCHANGED clock
    BY <1>a, <1>2, <2>a DEF AfterMatch
  <2>2. cur # << >>
    BY <2>1 DEF Inv, Control
  <2>3. LoopGoesOn /\ AtHead
    BY <2>1, <2>2, CallEnds DEF LoopGoesOn, AtHead
  <2>4. TimeMarks(th)
    BY <2>a, TimesKept
  <2>5. th[t].once = thr[t].once
    BY <1>a, <2>2, <2>4, HeadLives DEF TimeMarks, LockMarks
  <2>6. \/ Reap(t, th) \/ Reap(t, Bumped(th, retrig))
        \/ Retrigger(t, th) /\ thr[t].timeout > cur_time
    BY <1>a, <2>1, <2>5 DEF ReapInitialThread, Retrigger, Expiry
  <2> QED BY <1>a, <2>1, <2>3, <2>4, <2>6, LoopExpiry
<1>3. CASE ThreadMatches
  <2>1. /\ pc = "loop" /\ cur # << >> /\ ~ MustReap(t) /\ thr' = thr /\ cur' = cur /\ UNCHANGED clock
        /\ phase' = "loop" /\ pc' = "simul"
    BY <1>a, <1>3 DEF ThreadMatches, InLoop, Simulate
  <2>2. thr[t].timeout \in Nat /\ cur_time \in Nat
    BY <1>a, <2>1, HeadLives DEF Expiry
  <2>3. thr[t].once \/ thr[t].timeout > cur_time
    BY <2>1, <2>2 DEF MustReap, TimedOut
  <2>4. Threads' = Threads
    BY <2>1 DEF Threads
  <2> QED BY <1>a, <2>1, <2>3, <2>4 DEF Expiry, clock, Elems
<1>4. CASE FinishEvent
  <2>1. /\ thr' = thr /\ cur' = cur /\ UNCHANGED << clock, phase >> /\ pc = "loop"
    BY <1>4 DEF FinishEvent, queue, call
  <2>2. now' \in Nat /\ now' >= now /\ cur_time' = cur_time
    BY <2>1 DEF clock, Expiry
  <2> QED BY <2>1, <2>2, TimesKept, ExpiryStays
<1> QED BY <1>1, <1>2, <1>3, <1>4 DEF EvtLoopStep

\* Every step of the engine and of its environment.
LEMMA ExpiryInductive ==
  ASSUME Inv, Inv', LockInv, Expiry, [Next]_vars PROVE Expiry'
<1>1. CASE SimulateStep \/ InitialThreadsStep \/ EvtLoopStep
  BY <1>1, SimulationExpiry, InitialExpiry, EvtLoopExpiry
<1>2. CASE Tick \/ UNCHANGED vars
  <2>1. thr' = thr /\ cur' = cur /\ phase' = phase /\ pc' = pc /\ cur_time' = cur_time
    BY <1>2 DEF Tick, vars, heap, queue, call, clock
  <2>2. now' = now \/ now' = now + 1
    BY <1>2 DEF Tick, vars, clock
  <2>3. now' \in Nat /\ now' >= now
    BY <2>2 DEF Expiry
  <2>4. TimeMarks(thr')
    BY <2>1, TimesKept
  <2> QED BY <2>1, <2>3, <2>4, ExpiryStays
<1>3. CASE \E k \in Keys \cup {NoKey} : InjectEvent(k)
  <2>1. /\ UNCHANGED << thr, cur, phase, now >> /\ pc' = "init" /\ cur_time' = now /\ pc = "idle"
    BY <1>3 DEF InjectEvent, queue, call
  <2>2. phase' = "none" /\ now' \in Nat /\ now' >= now
    BY <2>1 DEF Expiry, Inv, Control
  <2> QED BY <2>1, <2>2, TimesKept, ExpiryStays
<1> QED BY <1>1, <1>2, <1>3 DEF Next, EngineStep, EnvironmentStep

\* There is no thread at first.
LEMMA ExpiryInitially == ASSUME Init PROVE Expiry
<1>1. Threads = {}
  BY DEF Init, Threads, NullThread
<1>2. \A t \in ThreadId : thr[t].timeout \in Nat
  BY DEF Init, NullThread
<1> QED BY <1>1, <1>2 DEF Init, Expiry

-----------------------------------------------------------------------------
(* What is left when inject_event() returns.                                *)

\* Every instance that is left waits and was started.
LEMMA StartedConsequence == ASSUME Inv, LockInv PROVE OnlyStartedInstances
<1> SUFFICES ASSUME pc = "idle"
             PROVE  /\ \A i \in Insts : ri[i].created /\ ri[i].linked /\ ThreadsOf(i) # {}
                    /\ \A t \in Threads : ~ thr[t].once
  BY DEF OnlyStartedInstances
<1>1. \A t \in Threads : ~ thr[t].once
  BY DEF LockInv, Started
<1>2. phase # "init"
  BY DEF Inv, Control
<1>3. ASSUME NEW i \in Insts PROVE ri[i].created /\ ri[i].linked /\ ThreadsOf(i) # {}
  <2>1. ri[i].linked /\ ri[i].threads > 0 /\ ri[i].threads = Cardinality(ThreadsOf(i))
    BY <1>2, <1>3 DEF Inv, Initial, LockInv, Started, Counted, ThreadsCounted
  <2>2. ThreadsOf(i) # {}
    BY <2>1, FS_EmptySet
  <2>3. PICK t : t \in Threads /\ InstOf(t) = i
    BY <2>2 DEF ThreadsOf
  <2>4. ri[i].created
    BY <1>1, <2>3 DEF LockInv, Started
  <2> QED BY <2>1, <2>2, <2>4
<1> QED BY <1>1, <1>3

\* The queue of the loop is empty then, and so nothing is left that expired.
LEMMA ExpiryConsequence == ASSUME Inv, Expiry PROVE ExpiredThreadsReaped
<1> SUFFICES ASSUME pc = "idle", NEW t \in Threads PROVE thr[t].timeout > cur_time
  BY DEF ExpiredThreadsReaped
<1>1. cur = << >>
  BY DEF Inv, Initial
<1>2. Elems(cur) = {}
  BY <1>1 DEF Elems
<1> QED BY <1>2 DEF Expiry

-----------------------------------------------------------------------------
(* The statistics.                                                          *)

\* The instances that an event started, those of one rule and all.
Begun(r) == {i \in Insts : ri[i].created /\ ri[i].rule = r}
AllBegun == {i \in Insts : ri[i].created}

Counters ==
  /\ ctx.state_instances = Cardinality(States)
  /\ ctx.rule_instances \in Int /\ ctx.rule_instances >= Cardinality(AllBegun)
  /\ (\A r \in RuleId : StartsOnce(rules[r])) => ctx.rule_instances = Cardinality(AllBegun)
  /\ instances = [r \in RuleId |-> instances[r]]
  /\ \A r \in RuleId :
       /\ instances[r] \in Int /\ instances[r] >= Cardinality(Begun(r))
       /\ StartsOnce(rules[r]) => instances[r] = Cardinality(Begun(r))

\* An instance of a rule that starts once has one initial thread at most, which
\* is gone, or being processed, when it has started the instance; its new
\* instances have none until the way from the initial state ends.
OnceRule(i) == StartsOnce(rules[ri[i].rule])
OneThread ==
  \A t, u \in Threads :
    thr[t].once /\ thr[u].once /\ InstOf(t) = InstOf(u) /\ OnceRule(InstOf(t)) => t = u
OneStart ==
  \A t \in Threads :
    thr[t].once /\ OnceRule(InstOf(t)) /\ ri[InstOf(t)].created => phase = "loop" /\ t = Head(cur)
OneWay ==
  phase = "init" /\ pc = "simul" /\ OnceRule(Subject) =>
    /\ \A j \in DOMAIN stack : j < Len(stack) => stack[j].t > 1
    /\ ThreadsOf(Subject) # {} => stack[Len(stack)].t > 1
Single == OneThread /\ OneStart /\ OneWay

\* Such a rule has one transition at most in the states behind its initial one.
LEMMA OnlyOne ==
  ASSUME NEW rule, StartsOnce(rule), NEW s \in {1} \cup Behind(rule)
  PROVE  Len(rule.state[s].trans) <= 1
<1>1. PICK S \in SUBSET DOMAIN rule.state :
        /\ 1 \in S
        /\ \A x \in S :
             /\ Len(rule.state[x].trans) <= 1
             /\ \A n \in DOMAIN rule.state[x].trans :
                  rule.state[x].trans[n].kind = "expect" \/ rule.state[x].trans[n].dest \in S
  BY DEF StartsOnce
<1>2. \A x \in S \cup {1} : Follows(rule, x) \subseteq S
  BY <1>1 DEF Follows
<1>3. Behind(rule) \subseteq S
  BY <1>2 DEF Behind
<1> QED BY <1>1, <1>3

\* The counters mean what InstancesCounted says.
LEMMA CountersConsequence == ASSUME Counters PROVE InstancesCounted
BY DEF Counters, InstancesCounted, Begun, AllBegun

\* What is counted is finite.
LEMMA BegunFinite ==
  /\ IsFiniteSet(States) /\ IsFiniteSet(AllBegun) /\ \A r : IsFiniteSet(Begun(r))
  /\ Cardinality(States) \in Nat /\ Cardinality(AllBegun) \in Nat
  /\ \A r : Cardinality(Begun(r)) \in Nat
<1>1. States \subseteq StateId /\ AllBegun \subseteq InstId /\ \A r : Begun(r) \subseteq InstId
  BY DEF States, AllBegun, Begun, Insts
<1> QED BY <1>1, Pools, FS_Subset, FS_CardinalityType

-----------------------------------------------------------------------------
(* The counters, step by step.                                              *)

SameTally ==
  /\ \A i \in InstId : ri'[i].rule = ri[i].rule /\ (ri'[i].created <=> ri[i].created)
  /\ ctx'.rule_instances = ctx.rule_instances /\ instances' = instances

\* The rule instances that are started stay the same.
LEMMA TallyStays ==
  ASSUME Counters, rules' = rules, AllBegun' = AllBegun, \A r : Begun(r)' = Begun(r),
         ctx'.rule_instances = ctx.rule_instances, instances' = instances,
         ctx'.state_instances = Cardinality(States')
  PROVE  Counters'
<1>1. RuleId' = RuleId
  BY DEF RuleId
<1>2. \A r \in RuleId : Cardinality(Begun(r))' = Cardinality(Begun(r))
  OBVIOUS
<1>3. Cardinality(AllBegun)' = Cardinality(AllBegun)
  OBVIOUS
<1> QED BY <1>1, <1>2, <1>3 DEF Counters

\* Which instances are started depends on their rules and their flags.
LEMMA SameBegun ==
  ASSUME \A i \in InstId : ri'[i].rule = ri[i].rule /\ (ri'[i].created <=> ri[i].created)
  PROVE  AllBegun' = AllBegun /\ \A r : Begun(r)' = Begun(r)
BY DEF AllBegun, Begun, Insts

\* A step that makes and frees no state instance and starts no rule instance.
LEMMA CountersStay ==
  ASSUME Counters, SameTally, rules' = rules,
         \A s \in StateId : si'[s].inst = si[s].inst,
         ctx'.state_instances = ctx.state_instances
  PROVE  Counters'
<1>1. States' = States
  BY DEF States
<1>2. ctx'.state_instances = Cardinality(States')
  BY <1>1 DEF Counters
<1>3. AllBegun' = AllBegun /\ \A r : Begun(r)' = Begun(r)
  BY SameBegun DEF SameTally
<1> QED BY <1>2, <1>3, TallyStays DEF SameTally

\* A new state instance of an instance that is there or begins.
LEMMA OneCounted ==
  ASSUME Counters, rules' = rules, NEW f \in StateId, f \notin States, States' = States \cup {f},
         AllBegun' = AllBegun, \A r : Begun(r)' = Begun(r),
         ctx' = [ctx EXCEPT !.state_instances = @ + 1], IsCtx(ctx), instances' = instances
  PROVE  Counters'
<1>1. /\ ctx'.rule_instances = ctx.rule_instances
      /\ ctx'.state_instances = ctx.state_instances + 1
  BY DEF IsCtx
<1>2. Cardinality(States') = Cardinality(States) + 1
  BY BegunFinite, FS_AddElement
<1>3. ctx'.state_instances = Cardinality(States')
  BY <1>1, <1>2 DEF Counters
<1> QED BY <1>1, <1>3, TallyStays

\* An instance ends: its state instances, and itself if it was started, are
\* counted no more.
LEMMA EndCounted ==
  ASSUME Inv, LockInv, Counters, rules' = rules, NEW i \in Insts, NEW n, FreeRuleInstance(i, n)
  PROVE  Counters'
<1>1. /\ si' = FreedStates(i) /\ ri' = [ri EXCEPT ![i] = NullInst]
      /\ ctx'.state_instances = ctx.state_instances - Cardinality(StatesOf(i))
      /\ ctx'.rule_instances = Ended(i, ctx.rule_instances)
      /\ instances' = [instances EXCEPT ![ri[i].rule] = Ended(i, @)]
  BY DEF FreeRuleInstance
<1>2. i \in InstId /\ i # NULL /\ ri[i].rule \in RuleId
  BY NullIsNone DEF Insts, LockInv, LockShape
<1>3. \A j \in InstId : IF j = i THEN ri'[j].rule = 0 ELSE ri'[j] = ri[j]
  <2>1. NullInst.rule = 0
    BY DEF NullInst
  <2> HIDE DEF NullInst
  <2> QED BY <1>1, <1>2, <2>1 DEF Inv, Shape
<1>4. Insts' = Insts \ {i}
  BY <1>2, <1>3 DEF Insts
<1>5. /\ AllBegun' = AllBegun \ {i} /\ \A r : Begun(r)' = Begun(r) \ {i}
      /\ \A r \in RuleId : r # ri[i].rule => i \notin Begun(r)
      /\ i \in AllBegun <=> ri[i].created
      /\ i \in Begun(ri[i].rule) <=> ri[i].created
  BY <1>3, <1>4 DEF AllBegun, Begun, Insts
<1>6. ctx'.state_instances = Cardinality(States')
  <2>1. \A s \in StateId : IF si[s].inst = i THEN si'[s].inst = NULL ELSE si'[s] = si[s]
    BY <1>1 DEF FreedStates, NullState
  <2>2. States' = States \ StatesOf(i) /\ States \cap StatesOf(i) = StatesOf(i)
    BY <1>2, <2>1 DEF States, StatesOf
  <2>3. Cardinality(States') = Cardinality(States) - Cardinality(StatesOf(i))
    BY <2>2, BegunFinite, Removed
  <2> QED BY <1>1, <2>3 DEF Counters
<1>7. \A S : IsFiniteSet(S) =>
        Cardinality(S \ {i}) = IF i \in S THEN Cardinality(S) - 1 ELSE Cardinality(S)
  BY FS_RemoveElement
<1>8. /\ Cardinality(AllBegun') = Ended(i, Cardinality(AllBegun))
      /\ \A r \in RuleId :
           Cardinality(Begun(r)') = IF r = ri[i].rule THEN Ended(i, Cardinality(Begun(r)))
                                    ELSE Cardinality(Begun(r))
  BY <1>5, <1>7, BegunFinite DEF Ended
<1>9. /\ instances' = [r \in RuleId |-> instances'[r]]
      /\ \A r \in RuleId :
           instances'[r] = IF r = ri[i].rule THEN Ended(i, instances[r]) ELSE instances[r]
  <2>1. instances = [r \in RuleId |-> instances[r]]
    BY DEF Counters
  <2> QED BY <1>1, <2>1
<1>10. /\ ctx'.rule_instances \in Int /\ ctx'.rule_instances >= Cardinality(AllBegun')
       /\ (\A r \in RuleId : StartsOnce(rules[r])) => ctx'.rule_instances = Cardinality(AllBegun')
  BY <1>1, <1>8, BegunFinite DEF Counters, Ended
<1>11. \A r \in RuleId :
         /\ instances'[r] \in Int /\ instances'[r] >= Cardinality(Begun(r)')
         /\ StartsOnce(rules[r]) => instances'[r] = Cardinality(Begun(r)')
  BY <1>8, <1>9, BegunFinite DEF Counters, Ended
<1>12. RuleId' = RuleId
  BY DEF RuleId
<1> QED BY <1>6, <1>9, <1>10, <1>11, <1>12 DEF Counters

\* The simulation makes state instances and starts nothing.
LEMMA SimulationCounters ==
  ASSUME Inv, LockInv, Counters, rules' = rules, SimulateStep PROVE Counters'
<1>1. CASE PassETransition
  <2> DEFINE s == Top.si
             d == TopTrans[Top.t].dest
  <2>1. /\ si' = WithChild(s, d, NULL) /\ States # StateId /\ ri' = ri /\ instances' = instances
        /\ ctx' = [ctx EXCEPT !.state_instances = @ + 1] /\ pc = "simul"
    BY <1>1 DEF PassETransition, AtTransition
  <2>2. s \in States /\ si[s].inst \in Insts
    <3>1. stack # << >> /\ stack \in Seq([si : StateId, t : Nat])
      BY <2>1 DEF Inv, Control, Shape
    <3>2. Len(stack) \in DOMAIN stack
      BY <3>1, EmptySeq, LenProperties
    <3>3. s \in States
      BY <3>2 DEF Top, Inv, Control
    <3> QED BY <3>3 DEF Inv, Live
  <2>3. FreeState \in StateId /\ FreeState \notin States
    BY <2>1, MallocState
  <2> HIDE DEF s, d
  <2>4. States' = States \cup {FreeState}
    <3>1. \A x \in StateId : si'[x].inst = IF x = FreeState THEN si[s].inst ELSE si[x].inst
      BY <2>1, <2>2, ChildIs DEF Inv
    <3>2. si[s].inst # NULL
      BY <2>2 DEF States
    <3> QED BY <2>3, <3>1, <3>2 DEF States
  <2>5. AllBegun' = AllBegun /\ \A r : Begun(r)' = Begun(r)
    BY <2>1 DEF AllBegun, Begun, Insts
  <2> QED BY <2>1, <2>3, <2>4, <2>5, OneCounted DEF Inv, Shape
<1>2. CASE CreateThread
  <2>1. /\ ri' = [ri EXCEPT ![si[Top.si].inst].threads = @ + 1] /\ instances' = instances
        /\ ctx' = [ctx EXCEPT !.threads = @ + 1]
        /\ \E list : si' = [si EXCEPT ![Top.si].thread_list = list]
    BY <1>2 DEF CreateThread, InThreadList
  <2>2. \A i \in InstId : ri'[i].rule = ri[i].rule /\ ri'[i].created = ri[i].created
    BY <2>1 DEF Inv, Shape, IsInst
  <2>3. \A s \in StateId : si'[s].inst = si[s].inst
    BY <2>1 DEF Inv, Shape, IsState
  <2>4. ctx'.state_instances = ctx.state_instances /\ ctx'.rule_instances = ctx.rule_instances
    BY <2>1 DEF Inv, Shape, IsCtx
  <2> QED BY <2>1, <2>2, <2>3, <2>4, CountersStay DEF SameTally
<1>3. CASE EnterTerminalState \/ PruneState \/ EnterState
  <2>1. /\ Entering /\ RunAction /\ ctx' = ctx /\ instances' = instances
        /\ \E S : thr' = Kill(thr, S)
        /\ \/ ri' = ri
           \/ ri' = [ri EXCEPT ![si[Top.si].inst].killed = TRUE]
           \/ ri' = [ri EXCEPT ![si[Top.si].inst].locks = @ \cup {Top.si}]
    BY <1>3 DEF EnterTerminalState, PruneState, EnterState, stats
  <2>2. \A s \in StateId : si'[s].inst = si[s].inst
    BY <2>1, EnteringKeeps
  <2>3. \A i \in InstId : ri'[i].rule = ri[i].rule /\ ri'[i].created = ri[i].created
    <3>1. CASE ri' = ri
      BY <3>1
    <3>2. CASE ri' = [ri EXCEPT ![si[Top.si].inst].killed = TRUE]
      BY SMTT(60), <3>2 DEF Inv, Shape, IsInst
    <3>3. CASE ri' = [ri EXCEPT ![si[Top.si].inst].locks = @ \cup {Top.si}]
      BY <3>3 DEF Inv, Shape, IsInst
    <3> QED BY <2>1, <3>1, <3>2, <3>3
  <2> QED BY <2>1, <2>2, <2>3, CountersStay DEF SameTally
<1>4. CASE SkipETransition \/ ReturnFromSimulate
  <2>1. si' = si /\ ri' = ri /\ ctx' = ctx /\ instances' = instances
    BY <1>4 DEF SkipETransition, ReturnFromSimulate, heap, stats
  <2> QED BY <2>1, CountersStay DEF SameTally
<1> QED BY <1>1, <1>2, <1>3, <1>4 DEF SimulateStep

\* A transition matched: what is written for the rule instance of its thread.
LEMMA MatchStarts ==
  ASSUME Inv, ThreadMatches
  PROVE  LET i == InstOf(Head(cur))
         IN  /\ i \in Insts /\ i \in InstId /\ Head(cur) \in Threads
             /\ \A j \in InstId : /\ ri'[j].rule = ri[j].rule
                                  /\ j # i => ri'[j].created = ri[j].created
             /\ ri'[i].created <=> ri[i].created \/ thr[Head(cur)].once
             /\ FreeState \in StateId /\ FreeState \notin States /\ States' = States \cup {FreeState}
             /\ Insts' = Insts /\ \A s \in States : si'[s].inst = si[s].inst
<1>a. PICK t : t = Head(cur)
  OBVIOUS
<1>b. PICK i : i = InstOf(t)
  OBVIOUS
<1>c. PICK s : s = thr[t].si
  OBVIOUS
<1>1. /\ cur # << >> /\ States # StateId /\ \E dest, e : si' = WithChild(s, dest, e)
      /\ ri' = [ri EXCEPT ![i].created = @ \/ thr[t].once]
  BY <1>a, <1>b, <1>c DEF ThreadMatches, InLoop
<1>2. t \in Threads /\ i \in Insts /\ i \in InstId /\ s \in States /\ si[s].inst = i
  BY <1>a, <1>b, <1>c, <1>1, HeadLives DEF InstOf
<1>3. PICK b : b = (ri[i].created \/ thr[t].once)
  OBVIOUS
<1>4. ri' = [ri EXCEPT ![i].created = b]
  BY <1>1, <1>3
<1>5. \A j \in InstId : IF j = i THEN ri'[j] = [ri[j] EXCEPT !.created = b] ELSE ri'[j] = ri[j]
  BY <1>2, <1>4 DEF Inv, Shape
<1>6. \A j \in InstId : IsInst(ri[j])
  BY DEF Inv, Shape
<1>7. /\ \A j \in InstId : /\ ri'[j].rule = ri[j].rule
                           /\ j # i => ri'[j].created = ri[j].created
      /\ ri'[i].created = b
  BY ONLY <1>2, <1>5, <1>6 DEF IsInst
<1>8. Insts' = Insts
  BY <1>7 DEF Insts
<1>9. FreeState \in StateId /\ FreeState \notin States
  BY <1>1, MallocState
<1>10. \A x \in StateId : si'[x].inst = IF x = FreeState THEN i ELSE si[x].inst
  BY <1>1, <1>2, ChildIs DEF Inv
<1>11. States' = States \cup {FreeState} /\ \A x \in States : si'[x].inst = si[x].inst
  <2>1. i # NULL
    BY <1>2, NullIsNone
  <2> QED BY <1>9, <1>10, <2>1 DEF States
<1> QED BY <1>a, <1>b, <1>2, <1>3, <1>7, <1>8, <1>9, <1>11

\* An initial thread starts its instance, and an instance that starts once
\* was not started.
LEMMA MatchCounters ==
  ASSUME Inv, LockInv, Counters, Single, rules' = rules, ThreadMatches PROVE Counters'
<1>a. PICK t : t = Head(cur)
  OBVIOUS
<1>b. PICK i : i = InstOf(t)
  OBVIOUS
<1>c. PICK f : f = FreeState
  OBVIOUS
<1>1. /\ i \in Insts /\ i \in InstId /\ t \in Threads
      /\ \A j \in InstId : /\ ri'[j].rule = ri[j].rule
                           /\ j # i => ri'[j].created = ri[j].created
      /\ ri'[i].created <=> ri[i].created \/ thr[t].once
      /\ f \in StateId /\ f \notin States /\ States' = States \cup {f} /\ Insts' = Insts
  BY <1>a, <1>b, <1>c, MatchStarts
<1>2. /\ ctx' = [ctx EXCEPT !.state_instances = @ + 1,
                            !.rule_instances = IF thr[t].once THEN @ + 1 ELSE @]
      /\ instances' = IF thr[t].once THEN [instances EXCEPT ![ri[i].rule] = @ + 1] ELSE instances
      /\ pc = "loop"
  BY <1>a, <1>b DEF ThreadMatches, InLoop
<1>3. /\ ctx'.state_instances = ctx.state_instances + 1
      /\ ctx'.rule_instances = IF thr[t].once THEN ctx.rule_instances + 1 ELSE ctx.rule_instances
  BY <1>2 DEF Inv, Shape, IsCtx
<1>4. ctx'.state_instances = Cardinality(States')
  <2>1. Cardinality(States') = Cardinality(States) + 1
    BY <1>1, BegunFinite, FS_AddElement
  <2> QED BY <1>3, <2>1 DEF Counters
<1>5. CASE ~ thr[t].once
  <2>1. AllBegun' = AllBegun /\ \A r : Begun(r)' = Begun(r)
    BY <1>1, <1>5 DEF AllBegun, Begun, Insts
  <2> QED BY <1>2, <1>3, <1>4, <1>5, <2>1, TallyStays
<1>6. CASE thr[t].once
  <2>1. AllBegun' = AllBegun \cup {i}
    BY <1>1, <1>6 DEF AllBegun, Insts
  <2>2. \A r : Begun(r)' = IF r = ri[i].rule THEN Begun(r) \cup {i} ELSE Begun(r)
    BY <1>1, <1>6 DEF Begun, Insts
  <2>3. OnceRule(i) => i \notin AllBegun /\ i \notin Begun(ri[i].rule)
    <3>1. phase = "none"
      BY <1>2 DEF Inv, Control
    <3>2. OnceRule(i) => ~ ri[i].created
      BY <1>b, <1>1, <1>6, <3>1 DEF Single, OneStart
    <3> QED BY <3>2 DEF AllBegun, Begun
  <2>4. \A S : IsFiniteSet(S) =>
          Cardinality(S \cup {i}) = IF i \in S THEN Cardinality(S) ELSE Cardinality(S) + 1
    BY FS_AddElement
  <2>5. ri[i].rule \in RuleId
    BY <1>1 DEF Insts, LockInv, LockShape
  <2>6. instances' = [instances EXCEPT ![ri[i].rule] = @ + 1]
    BY <1>2, <1>6
  <2>7. /\ instances' = [r \in RuleId |-> instances'[r]]
        /\ \A r \in RuleId :
             instances'[r] = IF r = ri[i].rule THEN instances[r] + 1 ELSE instances[r]
    <3>1. instances = [r \in RuleId |-> instances[r]]
      BY DEF Counters
    <3> QED BY <2>5, <2>6, <3>1
  <2>8. /\ ctx'.rule_instances \in Int /\ ctx'.rule_instances >= Cardinality(AllBegun')
        /\ (\A r \in RuleId : StartsOnce(rules[r])) => ctx'.rule_instances = Cardinality(AllBegun')
    <3>1. \/ Cardinality(AllBegun') = Cardinality(AllBegun) + 1
          \/ Cardinality(AllBegun') = Cardinality(AllBegun) /\ ~ OnceRule(i)
      BY <2>1, <2>3, <2>4, BegunFinite
    <3>2. (\A r \in RuleId : StartsOnce(rules[r])) => OnceRule(i)
      BY <2>5 DEF OnceRule
    <3> QED BY <1>3, <1>6, <3>1, <3>2, BegunFinite DEF Counters
  <2>9. \A r \in RuleId :
          /\ instances'[r] \in Int /\ instances'[r] >= Cardinality(Begun(r)')
          /\ StartsOnce(rules[r]) => instances'[r] = Cardinality(Begun(r)')
    <3>1. ASSUME NEW r \in RuleId
          PROVE  /\ instances'[r] \in Int /\ instances'[r] >= Cardinality(Begun(r)')
                 /\ StartsOnce(rules[r]) => instances'[r] = Cardinality(Begun(r)')
      <4>1. CASE r = ri[i].rule
        <5>1. Begun(r)' = Begun(r) \cup {i}
          BY <2>2, <4>1
        <5>2. \/ Cardinality(Begun(r)') = Cardinality(Begun(r)) + 1
              \/ Cardinality(Begun(r)') = Cardinality(Begun(r)) /\ ~ StartsOnce(rules[r])
          BY <2>3, <2>4, <4>1, <5>1, BegunFinite DEF OnceRule
        <5> QED BY <2>7, <4>1, <5>2, BegunFinite DEF Counters
      <4>2. CASE r # ri[i].rule
        <5>1. Begun(r)' = Begun(r) /\ instances'[r] = instances[r]
          BY <2>2, <2>7, <4>2
        <5> QED BY <5>1 DEF Counters
      <4> QED BY <4>1, <4>2
    <3> QED BY <3>1
  <2>10. RuleId' = RuleId
    BY DEF RuleId
  <2> QED BY <1>4, <2>7, <2>8, <2>9, <2>10 DEF Counters
<1> QED BY <1>5, <1>6

\* Rule instances begin, and those without threads are given up.
LEMMA InitialCounters ==
  ASSUME Inv, LockInv, Counters, rules' = rules, InitialThreadsStep PROVE Counters'
<1>1. CASE CreateInitialInstance
  <2>a. PICK f : f = FreeState
    OBVIOUS
  <2>b. PICK g : g = FreeInst
    OBVIOUS
  <2> DEFINE x == [NullState EXCEPT !.inst = g, !.state = 1]
             y == [NullInst EXCEPT !.rule = rulePos, !.born = events]
  <2>1. /\ si' = [si EXCEPT ![f] = x] /\ ri' = [ri EXCEPT ![g] = y] /\ instances' = instances
        /\ ctx' = [ctx EXCEPT !.state_instances = @ + 1] /\ States # StateId /\ Insts # InstId
    BY <1>1, <2>a, <2>b DEF CreateInitialInstance
  <2>2. f \in StateId /\ f \notin States /\ g \in InstId /\ g \notin Insts /\ g # NULL
    BY <2>a, <2>b, <2>1, MallocState, MallocInst, NullIsNone
  <2>3. x.inst = g /\ ~ y.created
    BY DEF NullState, NullInst
  <2> HIDE DEF x, y
  <2>4. States' = States \cup {f}
    <3>1. \A s \in StateId : si'[s].inst = IF s = f THEN g ELSE si[s].inst
      BY <2>1, <2>2, <2>3 DEF Inv, Shape
    <3> QED BY <2>2, <3>1 DEF States
  <2>5. \A j \in InstId : IF j = g THEN ~ ri'[j].created ELSE ri'[j] = ri[j]
    BY <2>1, <2>2, <2>3 DEF Inv, Shape
  <2>6. AllBegun' = AllBegun /\ \A r : Begun(r)' = Begun(r)
    BY <2>2, <2>5 DEF AllBegun, Begun, Insts
  <2> QED BY <2>1, <2>2, <2>4, <2>6, OneCounted DEF Inv, Shape
<1>2. CASE LinkInitialInstance
  <2>1. /\ ri' = [ri EXCEPT ![Subject].threads = ret, ![Subject].linked = TRUE]
        /\ si' = si /\ ctx' = ctx /\ instances' = instances
    BY <1>2 DEF LinkInitialInstance, Subject, stats
  <2>2. \A j \in InstId : ri'[j].rule = ri[j].rule /\ ri'[j].created = ri[j].created
    <3>1. \A j \in InstId : ri'[j] = ri[j] \/ ri'[j] = [ri[j] EXCEPT !.threads = ret, !.linked = TRUE]
      BY <2>1 DEF Inv, Shape
    <3>2. \A j \in InstId : IsInst(ri[j])
      BY DEF Inv, Shape
    <3> QED BY ONLY <3>1, <3>2 DEF IsInst
  <2> QED BY <2>1, <2>2, CountersStay DEF SameTally
<1>3. CASE DropInitialInstance
  <2>1. FreeRuleInstance(Subject, ctx.threads) /\ phase = "init" /\ pc = "ret"
    BY <1>3 DEF DropInitialInstance, InitReturned, Subject
  <2>2. Subject \in Insts
    BY <2>1 DEF Inv, Control, Live, Subject
  <2> QED BY <2>1, <2>2, EndCounted
<1>4. CASE MergeQueues
  <2>1. si' = si /\ ri' = ri /\ ctx' = ctx /\ instances' = instances
    BY <1>4 DEF MergeQueues, heap, stats
  <2> QED BY <2>1, CountersStay DEF SameTally
<1> QED BY <1>1, <1>2, <1>3, <1>4 DEF InitialThreadsStep

\* A thread that leaves the loop, with its instance if it was the last.
LEMMA ReapCounters ==
  ASSUME Inv, LockInv, Counters, rules' = rules, AtHead, NEW th,
         Reap(Head(cur), th) \/ Retrigger(Head(cur), th)
  PROVE  Counters'
<1>a. PICK t : t = Head(cur)
  OBVIOUS
<1>b. PICK i : i = InstOf(t)
  OBVIOUS
<1>1. t \in Threads /\ i \in Insts /\ i \in InstId /\ thr[t].si \in StateId
  BY <1>a, <1>b, HeadLives DEF AtHead
<1>2. CASE Retrigger(t, th)
  <2>1. si' = si /\ ri' = ri /\ ctx' = ctx /\ instances' = instances
    BY <1>2 DEF Retrigger, stats
  <2> QED BY <2>1, CountersStay DEF SameTally
<1>3. CASE Reap(t, th) /\ ri[i].threads - 1 = 0
  <2>1. ri[i].linked
    BY <1>1 DEF AtHead, Inv, Initial
  <2>2. FreeRuleInstance(i, ctx.threads - 1)
    BY <1>b, <1>3, <2>1 DEF Reap
  <2> QED BY <1>1, <2>2, EndCounted
<1>4. CASE Reap(t, th) /\ ri[i].threads - 1 # 0
  <2>1. /\ ri' = [ri EXCEPT ![i].threads = @ - 1, ![i].killed = @ \/ ri[i].threads = 1]
        /\ ctx' = [ctx EXCEPT !.threads = @ - 1] /\ instances' = instances
        /\ si' = si \/ \E list : si' = [si EXCEPT ![thr[t].si].thread_list = list]
    BY <1>b, <1>4 DEF Reap
  <2>2. \A j \in InstId : ri'[j].rule = ri[j].rule /\ ri'[j].created = ri[j].created
    <3>1. \A j \in InstId :
            \/ ri'[j] = ri[j]
            \/ ri'[j] = [ri[j] EXCEPT !.threads = @ - 1, !.killed = @ \/ ri[i].threads = 1]
      BY <1>1, <2>1 DEF Inv, Shape
    <3>2. \A j \in InstId : IsInst(ri[j])
      BY DEF Inv, Shape
    <3> QED BY ONLY <3>1, <3>2 DEF IsInst
  <2>3. \A s \in StateId : si'[s].inst = si[s].inst
    <3>1. CASE si' = si
      BY <3>1
    <3>2. CASE \E list : si' = [si EXCEPT ![thr[t].si].thread_list = list]
      <4>1. PICK list : si' = [si EXCEPT ![thr[t].si].thread_list = list]
        BY <3>2
      <4>2. \A s \in StateId : si'[s] = si[s] \/ si'[s] = [si[s] EXCEPT !.thread_list = list]
        BY <1>1, <4>1 DEF Inv, Shape
      <4>3. \A s \in StateId : IsState(si[s])
        BY DEF Inv, Shape
      <4> QED BY ONLY <4>2, <4>3 DEF IsState
    <3> QED BY <2>1, <3>1, <3>2
  <2>4. ctx'.state_instances = ctx.state_instances /\ ctx'.rule_instances = ctx.rule_instances
    BY <2>1 DEF Inv, Shape, IsCtx
  <2> QED BY <2>1, <2>2, <2>3, <2>4, CountersStay DEF SameTally
<1> QED BY <1>a, <1>2, <1>3, <1>4

\* The end of an iteration of the evt-loop.
LEMMA Iterates ==
  ASSUME Inv, ReapKilledThread \/ ThreadFails \/ AfterMatch
  PROVE  /\ AtHead /\ LoopGoesOn
         /\ \E th : /\ TimeMarks(th)
                    /\ \/ Reap(Head(cur), th)
                       \/ Retrigger(Head(cur), th)
         /\ ReapKilledThread => pc = "loop"
<1>1. CASE ReapKilledThread \/ ThreadFails
  <2>1. /\ pc = "loop" /\ cur # << >>
        /\ UNCHANGED << phase, stack, created, ret, active_event_cur, pc, rulePos >>
    BY <1>1 DEF ReapKilledThread, ThreadFails, InLoop, call
  <2>2. phase = "none" /\ stack = << >> /\ created \in Nat /\ ret \in Int
    BY <2>1 DEF Inv, Control, Shape
  <2>3. LoopGoesOn /\ AtHead
    BY <2>1, <2>2 DEF LoopGoesOn, AtHead
  <2>4. \/ Reap(Head(cur), thr) \/ Reap(Head(cur), Bumped(thr, retrig))
        \/ Retrigger(Head(cur), thr)
    BY <1>1 DEF ReapKilledThread, ThreadFails, ReapInitialThread
  <2> QED BY <2>1, <2>3, <2>4, TimesKept
<1>2. CASE AfterMatch
  <2>a. PICK th : th = IF BacktrackIsNotNeeded(Head(cur)) THEN Kill(thr, {Head(cur)}) ELSE thr
    OBVIOUS
  <2>1. /\ pc = "ret" /\ phase = "loop" /\ Returned /\ pc' = "loop"
        /\ ReapInitialThread(Head(cur), th) \/ Retrigger(Head(cur), th)
        /\ active_event_cur' = active_event_cur /\ rulePos' = rulePos
    BY <1>2, <2>a DEF AfterMatch
  <2>2. cur # << >>
    BY <2>1 DEF Inv, Control
  <2>3. LoopGoesOn /\ AtHead
    BY <2>1, <2>2, CallEnds DEF LoopGoesOn, AtHead
  <2>4. TimeMarks(th) /\ TimeMarks(Bumped(th, retrig))
    BY <2>a, TimesKept
  <2>5. \/ Reap(Head(cur), th) \/ Reap(Head(cur), Bumped(th, retrig))
        \/ Retrigger(Head(cur), th)
    BY <2>1 DEF ReapInitialThread
  <2>6. ~ ReapKilledThread
    BY <2>1 DEF ReapKilledThread, InLoop
  <2> QED BY <2>3, <2>4, <2>5, <2>6
<1> QED BY <1>1, <1>2

\* Every step of the engine and of its environment.
LEMMA CountersInductive ==
  ASSUME Inv, LockInv, Counters, Single, [Next]_vars PROVE Counters'
<1>1. rules' = rules
  BY DEF Next, EngineStep, EnvironmentStep, vars
<1>2. CASE SimulateStep \/ InitialThreadsStep \/ ThreadMatches
  BY <1>1, <1>2, SimulationCounters, InitialCounters, MatchCounters
<1>3. CASE ReapKilledThread \/ ThreadFails \/ AfterMatch
  <2>1. AtHead /\ \E th : Reap(Head(cur), th) \/ Retrigger(Head(cur), th)
    BY <1>3, Iterates
  <2> QED BY <1>1, <2>1, ReapCounters
<1>4. CASE FinishEvent
  <2>1. /\ si' = si /\ ri' = ri /\ instances' = instances
        /\ ctx' = ctx \/ ctx' = [ctx EXCEPT !.active_events = @ + 1]
    BY <1>4 DEF FinishEvent
  <2>2. ctx'.state_instances = ctx.state_instances /\ ctx'.rule_instances = ctx.rule_instances
    BY <2>1 DEF Inv, Shape, IsCtx
  <2> QED BY <1>1, <2>1, <2>2, CountersStay DEF SameTally
<1>5. CASE Tick \/ (\E k \in Keys \cup {NoKey} : InjectEvent(k)) \/ UNCHANGED vars
  <2>1. si' = si /\ ri' = ri /\ ctx' = ctx /\ instances' = instances
    BY <1>5 DEF Tick, InjectEvent, vars, heap, stats
  <2> QED BY <1>1, <2>1, CountersStay DEF SameTally
<1> QED BY <1>2, <1>3, <1>4, <1>5 DEF Next, EngineStep, EnvironmentStep, EvtLoopStep

\* Nothing is there to be counted at first.
LEMMA CountersInitially == ASSUME Init PROVE Counters
<1>1. States = {} /\ AllBegun = {} /\ \A r : Begun(r) = {}
  BY DEF Init, States, AllBegun, Begun, Insts, NullState, NullInst
<1>2. Cardinality(States) = 0 /\ Cardinality(AllBegun) = 0 /\ \A r : Cardinality(Begun(r)) = 0
  BY <1>1, FS_EmptySet
<1> QED BY <1>2 DEF Init, Counters

-----------------------------------------------------------------------------
(* The initial threads of rules that start once.                            *)

\* The threads that are left are what they were.
SameThread(t) ==
  /\ thr'[t].si = thr[t].si /\ thr'[t].once = thr[t].once
  /\ InstOf(t)' = InstOf(t) /\ ri'[InstOf(t)].rule = ri[InstOf(t)].rule

\* No thread is made, and an instance with an initial thread is started only in
\* the iteration of that thread.
LEMMA ThreadsSingle ==
  ASSUME OneThread, rules' = rules, Threads' \subseteq Threads, \A t \in Threads' : SameThread(t),
         \A t \in Threads' : thr[t].once /\ OnceRule(InstOf(t)) /\ ri'[InstOf(t)].created
                               => phase' = "loop" /\ t = Head(cur')
  PROVE  OneThread' /\ OneStart'
<1>1. \A t \in Threads' : /\ t \in Threads /\ thr'[t].once = thr[t].once /\ InstOf(t)' = InstOf(t)
                          /\ OnceRule(InstOf(t))' = OnceRule(InstOf(t))
  BY DEF SameThread, OnceRule
<1>2. OneThread'
  BY <1>1 DEF OneThread
<1>3. OneStart'
  BY <1>1 DEF OneStart
<1> QED BY <1>2, <1>3

\* A step that frees no state instance and starts no rule instance.
LEMMA SingleStays ==
  ASSUME Inv, OneThread, OneStart, rules' = rules, Threads' \subseteq Threads,
         \A t \in Threads' : thr'[t].si = thr[t].si /\ thr'[t].once = thr[t].once,
         \A s \in States : si'[s].inst = si[s].inst,
         \A i \in Insts : ri'[i].rule = ri[i].rule /\ (ri'[i].created <=> ri[i].created),
         phase = "loop" => \A t \in Threads' : t = Head(cur) => phase' = "loop" /\ t = Head(cur')
  PROVE  OneThread' /\ OneStart' /\ \A t \in Threads' : SameThread(t)
<1>1. ASSUME NEW t \in Threads' PROVE SameThread(t) /\ InstOf(t) \in Insts
  <2>1. thr[t].si \in States /\ si[thr[t].si].inst \in Insts
    BY <1>1 DEF Inv, Live
  <2> QED BY <1>1, <2>1 DEF SameThread, InstOf
<1>2. \A t \in Threads' : thr[t].once /\ OnceRule(InstOf(t)) /\ ri'[InstOf(t)].created
                            => phase' = "loop" /\ t = Head(cur')
  BY <1>1 DEF OneStart
<1> QED BY <1>1, <1>2, ThreadsSingle

\* A new instance that starts once has one transition to go.
LEMMA TopIsOne ==
  ASSUME Inv, LockInv, Quiet, phase = "init", pc = "simul", OnceRule(Subject)
  PROVE  Len(TopTrans) <= 1
<1>1. StartsOnce(RuleOfNew)
  BY DEF OnceRule, RuleOfNew
<1>2. Len(RuleOfNew.state[si[Top.si].state].trans) <= 1
  BY <1>1, TransitionsAre, OnlyOne
<1> QED BY <1>2, TransitionsAre

\* The way of a new instance, when its simulation goes on.
LEMMA OnTheWay ==
  ASSUME Inv, LockInv, Quiet, Single, phase = "init", AtTransition, OnceRule(Subject)
  PROVE  Top.t = 1 /\ ThreadsOf(Subject) = {}
<1>a. PICK n : n = Len(TopTrans)
  OBVIOUS
<1>1. n <= 1 /\ Top.t > 0 /\ Top.t <= n /\ n \in Nat /\ Top.t \in Nat
  BY <1>a, TopIsOne, TransitionsAre DEF AtTransition
<1>2. Top.t = 1
  BY <1>1
<1>3. ThreadsOf(Subject) # {} => Top.t > 1
  BY DEF Single, OneWay, AtTransition, Top
<1> QED BY <1>2, <1>3

\* The instance that is simulated stays, and its rule.
LEMMA SubjectStays ==
  ASSUME Inv, rules' = rules, phase = "init", pc = "simul", subject' = subject,
         \A s \in States : si'[s].inst = si[s].inst,
         \A i \in Insts : ri'[i].rule = ri[i].rule
  PROVE  Subject' = Subject /\ (OnceRule(Subject)' <=> OnceRule(Subject))
<1>1. subject \in States /\ Subject \in Insts
  BY DEF Inv, Control, Live, Subject
<1>2. Subject' = Subject
  BY <1>1 DEF Subject
<1> QED BY <1>1, <1>2 DEF OnceRule

\* The simulation makes no initial thread but for one transition of a new instance.
LEMMA SimulationSame ==
  ASSUME Inv, LockInv, OneThread, OneStart, rules' = rules, SimulateStep, ~ CreateThread
  PROVE  /\ OneThread' /\ OneStart' /\ Threads' = Threads /\ \A t \in Threads : SameThread(t)
         /\ phase' = phase /\ pc = "simul" /\ subject' = subject
         /\ \A s \in States : si'[s].inst = si[s].inst
         /\ \A i \in Insts : ri'[i].rule = ri[i].rule
<1>1. /\ phase' = phase /\ cur' = cur /\ subject' = subject /\ pc = "simul"
  BY DEF SimulateStep, EnterTerminalState, PruneState, EnterState, PassETransition,
         SkipETransition, ReturnFromSimulate, Unwind, Entering, AtTransition, queue
<1>2. thr' = thr \/ \E S : thr' = Kill(thr, S)
  BY DEF SimulateStep, EnterTerminalState, PruneState, EnterState, PassETransition,
         SkipETransition, ReturnFromSimulate, heap
<1>3. \A t \in ThreadId : thr'[t].si = thr[t].si /\ thr'[t].once = thr[t].once
  BY <1>2, KillKeeps DEF Inv
<1>4. Threads' = Threads
  BY <1>3 DEF Threads
<1>5. \A s \in States : si'[s].inst = si[s].inst
  <2>1. CASE PassETransition
    <3>1. /\ si' = WithChild(Top.si, TopTrans[Top.t].dest, NULL) /\ States # StateId
      BY <2>1 DEF PassETransition
    <3>2. Top.si \in States
      <4>1. stack # << >> /\ stack \in Seq([si : StateId, t : Nat])
        BY <1>1 DEF Inv, Control, Shape
      <4>2. Len(stack) \in DOMAIN stack
        BY <4>1, EmptySeq, LenProperties
      <4> QED BY <4>2 DEF Top, Inv, Control
    <3>3. FreeState \notin States
      BY <3>1, MallocState
    <3>4. \A x \in StateId : si'[x].inst = IF x = FreeState THEN si[Top.si].inst ELSE si[x].inst
      BY ZenonT(60), <3>1, <3>2, ChildIs DEF Inv
    <3> QED BY <3>3, <3>4 DEF States
  <2>2. CASE EnterTerminalState \/ PruneState \/ EnterState
    <3>1. Entering /\ RunAction /\ \E S : thr' = Kill(thr, S)
      BY <2>2 DEF EnterTerminalState, PruneState, EnterState
    <3>2. \A s \in StateId : si'[s].inst = si[s].inst
      BY <3>1, EnteringKeeps
    <3> QED BY <3>2 DEF States
  <2>3. CASE SkipETransition \/ ReturnFromSimulate
    BY <2>3 DEF SkipETransition, ReturnFromSimulate, heap
  <2> QED BY <2>1, <2>2, <2>3 DEF SimulateStep
<1>6. \A i \in Insts : ri'[i].rule = ri[i].rule /\ ri'[i].created = ri[i].created
  <2>1. \/ ri' = ri
        \/ ri' = [ri EXCEPT ![si[Top.si].inst].killed = TRUE]
        \/ ri' = [ri EXCEPT ![si[Top.si].inst].locks = @ \cup {Top.si}]
    BY DEF SimulateStep, EnterTerminalState, PruneState, EnterState, PassETransition,
         SkipETransition, ReturnFromSimulate, heap
  <2>2. CASE ri' = ri
    BY <2>2
  <2>3. CASE ri' = [ri EXCEPT ![si[Top.si].inst].killed = TRUE]
    BY SMTT(60), <2>3 DEF Inv, Shape, IsInst, Insts
  <2>4. CASE ri' = [ri EXCEPT ![si[Top.si].inst].locks = @ \cup {Top.si}]
    BY <2>4 DEF Inv, Shape, IsInst, Insts
  <2> QED BY <2>1, <2>2, <2>3, <2>4
<1>7. /\ \A t \in Threads' : thr'[t].si = thr[t].si /\ thr'[t].once = thr[t].once
      /\ phase = "loop" => \A t \in Threads' : t = Head(cur) => phase' = "loop" /\ t = Head(cur')
  BY <1>1, <1>3, <1>4 DEF Threads
<1>8. OneThread' /\ OneStart' /\ \A t \in Threads' : SameThread(t)
  BY <1>4, <1>5, <1>6, <1>7, SingleStays
<1> QED BY <1>1, <1>4, <1>5, <1>6, <1>8

\* The way of a new instance: one frame deeper, one transition further.
LEMMA SimulationSingle ==
  ASSUME Inv, LockInv, Quiet, Single, rules' = rules, SimulateStep, ~ CreateThread PROVE Single'
<1>1. /\ OneThread' /\ OneStart' /\ Threads' = Threads /\ \A t \in Threads : SameThread(t)
      /\ phase' = phase /\ pc = "simul" /\ subject' = subject
      /\ \A s \in States : si'[s].inst = si[s].inst
      /\ \A i \in Insts : ri'[i].rule = ri[i].rule
  BY SimulationSame DEF Single
<1> SUFFICES ASSUME phase = "init", pc' = "simul", OnceRule(Subject)' PROVE OneWay'
  BY <1>1 DEF Single, OneWay
<1>2. Subject' = Subject /\ OnceRule(Subject)
  BY <1>1, SubjectStays
<1>3. ThreadsOf(Subject)' = ThreadsOf(Subject)
  BY <1>1, <1>2 DEF ThreadsOf, SameThread
<1>4. /\ \A j \in DOMAIN stack : j < Len(stack) => stack[j].t > 1
      /\ ThreadsOf(Subject) # {} => stack[Len(stack)].t > 1
      /\ Top = stack[Len(stack)]
  BY <1>1, <1>2 DEF Single, OneWay, Top
<1>5. stack # << >> /\ Top.t \in Nat
  BY <1>1, TransitionsAre DEF Inv, Control
<1>6. CASE SkipETransition \/ EnterState
  <2>1. stack' = Advance /\ (AtTransition \/ Entering)
    BY <1>6 DEF SkipETransition, EnterState
  <2>2. /\ DOMAIN stack' = DOMAIN stack /\ DOMAIN stack = 1 .. Len(stack) /\ Len(stack) \in Nat \ {0}
        /\ \A j \in DOMAIN stack : j # Len(stack) => stack'[j] = stack[j]
        /\ stack'[Len(stack)].t = Top.t + 1 /\ Len(stack') = Len(stack)
    BY <1>1, <2>1, AdvanceAt, AdvanceIs DEF Inv, Control
  <2>3. \A j \in DOMAIN stack' : j < Len(stack') => stack'[j].t > 1
    BY <1>4, <2>2
  <2>4. ThreadsOf(Subject) # {} => Top.t + 1 > 1
    BY <1>4, <1>5
  <2> QED BY <1>3, <2>2, <2>3, <2>4 DEF OneWay
<1>7. CASE PassETransition
  <2>1. AtTransition /\ stack' = Append(Advance, [si |-> FreeState, t |-> 0]) /\ States # StateId
    BY <1>7 DEF PassETransition
  <2>2. Top.t = 1 /\ ThreadsOf(Subject) = {}
    BY <1>2, <2>1, OnTheWay
  <2>3. FreeState \in StateId
    BY <2>1, MallocState
  <2>4. /\ Len(Advance) = Len(stack) /\ Advance \in Seq([si : StateId, t : Nat])
        /\ \A j \in DOMAIN stack : j # Len(stack) => Advance[j] = stack[j]
        /\ Advance[Len(stack)].t = Top.t + 1 /\ Len(stack) \in Nat \ {0}
    BY <1>5, AdvanceIs DEF Inv
  <2>5. /\ Len(stack') = Len(stack) + 1
        /\ \A j \in 1 .. Len(stack) : stack'[j] = Advance[j]
    <3>a. PICK fr : fr = [si |-> FreeState, t |-> 0]
      OBVIOUS
    <3>1. fr \in [si : StateId, t : Nat]
      BY <2>3, <3>a
    <3>2. stack' = Append(Advance, fr)
      BY <2>1, <3>a
    <3> QED BY <2>4, <3>1, <3>2, AppendProperties
  <2>6. stack \in Seq([si : StateId, t : Nat]) /\ stack' \in Seq([si : StateId, t : Nat])
        /\ DOMAIN stack = 1 .. Len(stack)
    <3>1. [si |-> FreeState, t |-> 0] \in [si : StateId, t : Nat]
      BY <2>3
    <3> QED BY <2>1, <2>4, <3>1, AppendProperties, LenProperties DEF Inv, Shape
  <2>7. ASSUME NEW j \in DOMAIN stack', j < Len(stack') PROVE stack'[j].t > 1
    <3>1. j \in 1 .. Len(stack) /\ j \in DOMAIN stack
      BY <2>4, <2>5, <2>6, <2>7, LenProperties
    <3>2. CASE j = Len(stack)
      <4>1. stack'[j].t = Top.t + 1
        BY <2>4, <2>5, <3>1, <3>2
      <4> QED BY <2>2, <4>1
    <3>3. CASE j # Len(stack)
      <4>1. stack'[j] = stack[j] /\ j < Len(stack)
        BY <2>4, <2>5, <3>1, <3>3
      <4> QED BY <1>4, <3>1, <4>1
    <3> QED BY <3>2, <3>3
  <2> QED BY <1>3, <2>2, <2>7 DEF OneWay
<1>8. CASE ReturnFromSimulate
  <2>1. stack' = SubSeq(stack, 1, Len(stack) - 1) /\ Len(stack) # 1
    BY <1>8 DEF ReturnFromSimulate
  <2>2. /\ Len(stack) \in Nat \ {0} /\ DOMAIN stack = 1 .. Len(stack)
        /\ DOMAIN stack' = 1 .. Len(stack) - 1 /\ Len(stack') = Len(stack) - 1
        /\ \A j \in DOMAIN stack' : stack'[j] = stack[j]
    BY <1>5, <2>1, PoppedStack DEF Inv
  <2>3. \A j \in DOMAIN stack' : stack'[j].t > 1
    BY <1>4, <2>2
  <2>4. Len(stack') \in DOMAIN stack'
    BY <2>1, <2>2
  <2> QED BY <2>3, <2>4 DEF OneWay
<1>9. CASE EnterTerminalState \/ PruneState
  <2>1. pc' = "ret"
    BY <1>9 DEF EnterTerminalState, PruneState, Unwind
  <2> QED BY <2>1
<1> QED BY <1>6, <1>7, <1>8, <1>9 DEF SimulateStep

\* The one initial thread of a rule that starts once.
LEMMA ThreadSingle ==
  ASSUME Inv, LockInv, Quiet, Single, rules' = rules, CreateThread PROVE Single'
<1>a. PICK f : f = FreeThread
  OBVIOUS
<1>1. /\ AtTransition /\ stack' = Advance /\ pc = "simul" /\ f \in ThreadId /\ f \notin Threads
      /\ thr' = [thr EXCEPT ![f] = NewThread]
      /\ ri' = [ri EXCEPT ![si[Top.si].inst].threads = @ + 1]
      /\ \E list : si' = [si EXCEPT ![Top.si].thread_list = list]
      /\ phase' = phase /\ subject' = subject /\ cur' = cur
  BY <1>a, MallocThread DEF CreateThread, InThreadList, AtTransition
<1>2. NewThread.si = Top.si /\ (NewThread.once <=> phase = "init")
  BY DEF NewThread
<1>3. Top.si \in States /\ si[Top.si].inst = Subject /\ Top.si \in StateId /\ Subject \in Insts
  <2>1. stack # << >> /\ stack \in Seq([si : StateId, t : Nat])
    BY <1>1 DEF Inv, Control, Shape
  <2>2. Len(stack) \in DOMAIN stack
    BY <2>1, EmptySeq, LenProperties
  <2>3. Top.si \in States /\ si[Top.si].inst = Subject
    BY <2>2 DEF Top, Inv, Control
  <2> QED BY <2>3 DEF States, Inv, Live
<1> HIDE DEF NewThread
<1>4. /\ \A t \in ThreadId : IF t = f THEN thr'[t].si = Top.si /\ (thr'[t].once <=> phase = "init")
                             ELSE thr'[t] = thr[t]
  BY <1>1, <1>2 DEF Inv, Shape
<1>5. Threads' = Threads \cup {f}
  <2>1. Top.si # NULL
    BY <1>3, NullIsNone
  <2> QED BY <1>1, <1>4, <2>1 DEF Threads
<1>6. \A s \in StateId : si'[s].inst = si[s].inst
  <2>1. PICK list : si' = [si EXCEPT ![Top.si].thread_list = list]
    BY <1>1
  <2>2. \A s \in StateId : si'[s] = si[s] \/ si'[s] = [si[s] EXCEPT !.thread_list = list]
    BY <1>3, <2>1 DEF Inv, Shape
  <2>3. \A s \in StateId : IsState(si[s])
    BY DEF Inv, Shape
  <2> QED BY ONLY <2>2, <2>3 DEF IsState
<1>7. \A i \in Insts : ri'[i].rule = ri[i].rule /\ ri'[i].created = ri[i].created
  BY <1>1 DEF Inv, Shape, IsInst, Insts
<1>8. \A t \in Threads : /\ t # f /\ thr'[t] = thr[t] /\ InstOf(t)' = InstOf(t)
                         /\ InstOf(t) \in Insts
  BY <1>1, <1>4, <1>6 DEF Threads, InstOf, Inv, Live, States
<1>9. InstOf(f)' = Subject /\ Subject' = Subject
  <2>1. InstOf(f)' = si'[thr'[f].si].inst
    BY DEF InstOf
  <2>2. subject \in StateId
    BY <1>1 DEF Inv, Control, States
  <2> QED BY <1>1, <1>3, <1>4, <1>6, <2>1, <2>2 DEF Subject
<1>10. /\ \A t \in Threads : OnceRule(InstOf(t))' <=> OnceRule(InstOf(t))
       /\ OnceRule(Subject)' <=> OnceRule(Subject)
  BY <1>3, <1>7, <1>8, <1>9 DEF OnceRule
<1>11. OnceRule(Subject) /\ phase = "init" => Top.t = 1 /\ ThreadsOf(Subject) = {}
  BY <1>1, OnTheWay
<1>12. OneThread'
  <2> SUFFICES ASSUME NEW t \in Threads', NEW u \in Threads', thr'[t].once, thr'[u].once,
                      InstOf(t)' = InstOf(u)', OnceRule(InstOf(t))'
               PROVE  t = u
    BY DEF OneThread
  <2>1. CASE t \in Threads /\ u \in Threads
    BY <1>8, <1>10, <2>1 DEF Single, OneThread
  <2>2. ASSUME NEW v \in Threads, InstOf(v) = Subject, thr'[f].once, OnceRule(Subject) PROVE FALSE
    <3>1. v \in ThreadsOf(Subject)
      BY <2>2 DEF ThreadsOf
    <3> QED BY <1>1, <1>4, <1>11, <2>2, <3>1
  <2>3. CASE t = f /\ u \in Threads
    <3>1. InstOf(u) = Subject /\ OnceRule(Subject)
      BY <1>8, <1>9, <1>10, <2>3
    <3> QED BY <2>2, <2>3, <3>1
  <2>4. CASE u = f /\ t \in Threads
    <3>1. InstOf(t) = Subject /\ OnceRule(Subject)
      BY <1>8, <1>9, <1>10, <2>4
    <3> QED BY <2>2, <2>4, <3>1
  <2> QED BY <1>5, <2>1, <2>3, <2>4
<1>13. OneStart'
  <2>1. ASSUME NEW t \in Threads, thr[t].once, OnceRule(InstOf(t))', ri'[InstOf(t)'].created
        PROVE  phase' = "loop" /\ t = Head(cur)'
    <3>1. ri[InstOf(t)].created /\ OnceRule(InstOf(t))
      BY <1>7, <1>8, <1>10, <2>1
    <3> QED BY <1>1, <2>1, <3>1 DEF Single, OneStart
  <2>2. ~ (thr'[f].once /\ ri'[InstOf(f)'].created)
    <3>1. phase = "init" => ~ ri'[Subject].created
      BY <1>3, <1>7 DEF LockInv, Started
    <3> QED BY <1>1, <1>4, <1>9, <3>1
  <2> QED BY <1>5, <1>8, <2>1, <2>2 DEF OneStart
<1>14. OneWay'
  <2> SUFFICES ASSUME phase = "init", OnceRule(Subject)' PROVE OneWay'
    BY <1>1 DEF OneWay
  <2>1. Top.t = 1 /\ \A j \in DOMAIN stack : j < Len(stack) => stack[j].t > 1
    BY <1>1, <1>10, <1>11 DEF Single, OneWay
  <2>2. /\ DOMAIN stack' = DOMAIN stack /\ DOMAIN stack = 1 .. Len(stack) /\ Len(stack) \in Nat \ {0}
        /\ \A j \in DOMAIN stack : j # Len(stack) => stack'[j] = stack[j]
        /\ stack'[Len(stack)].t = Top.t + 1 /\ Len(stack') = Len(stack)
    BY <1>1, AdvanceAt
  <2>3. \A j \in DOMAIN stack' : stack'[j].t > 1
    BY <2>1, <2>2
  <2>4. Len(stack') \in DOMAIN stack'
    BY <2>2
  <2> QED BY <2>3, <2>4 DEF OneWay
<1> QED BY <1>12, <1>13, <1>14 DEF Single

\* A new instance has no thread.
LEMMA NoThreadYet == ASSUME Inv', CreateInitialInstance PROVE ThreadsOf(Subject)' = {}
<1>1. phase' = "init" /\ pc' = "simul" /\ created' = 0
  BY DEF CreateInitialInstance, Simulate
<1>2. Cardinality(ThreadsOf(Subject)') = 0
  BY <1>1 DEF Inv, Counted
<1>3. ThreadsOf(Subject)' \in SUBSET ThreadId
  BY DEF ThreadsOf, Threads
<1> QED BY <1>2, <1>3, FiniteParts, FS_EmptySet

\* Rule instances begin, and those without threads are given up.
LEMMA InitialSingle ==
  ASSUME Inv, Inv', LockInv, Quiet, Single, rules' = rules, InitialThreadsStep PROVE Single'
<1>0. phase # "loop"
  BY DEF InitialThreadsStep, CreateInitialInstance, LinkInitialInstance, DropInitialInstance,
         MergeQueues, InitReturned, Inv, Control
<1>1. CASE CreateInitialInstance
  <2>a. PICK f : f = FreeState
    OBVIOUS
  <2>b. PICK g : g = FreeInst
    OBVIOUS
  <2>c. PICK x : x = [NullState EXCEPT !.inst = g, !.state = 1]
    OBVIOUS
  <2>d. PICK y : y = [NullInst EXCEPT !.rule = rulePos, !.born = events]
    OBVIOUS
  <2>1. /\ si' = [si EXCEPT ![f] = x] /\ ri' = [ri EXCEPT ![g] = y] /\ thr' = thr
        /\ States # StateId /\ Insts # InstId /\ stack' = << [si |-> f, t |-> 0] >>
    BY <1>1, <2>a, <2>b, <2>c, <2>d DEF CreateInitialInstance, Simulate
  <2>2. f \notin States /\ g \notin Insts
    BY <2>a, <2>b, <2>1, MallocState, MallocInst
  <2>3. /\ \A s \in States : si'[s] = si[s]
        /\ \A i \in Insts : ri'[i] = ri[i]
        /\ Threads' = Threads
    BY <2>1, <2>2 DEF Inv, Shape, States, Insts, Threads
  <2>4. OneThread' /\ OneStart'
    BY <1>0, <2>1, <2>3, SingleStays DEF Single
  <2>5. OneWay'
    <3>1. ThreadsOf(Subject)' = {}
      BY <1>1, NoThreadYet
    <3>2. Len(stack') = 1 /\ DOMAIN stack' = {1}
      BY <2>1
    <3> QED BY <3>1, <3>2 DEF OneWay
  <2> QED BY <2>4, <2>5 DEF Single
<1>2. CASE DropInitialInstance
  <2>a. PICK i : i = Subject
    OBVIOUS
  <2>1. /\ FreeRuleInstance(i, ctx.threads) /\ phase = "init" /\ pc = "ret" /\ ret <= 0 /\ thr' = thr
        /\ phase' = "none"
    BY <1>2, <2>a DEF DropInitialInstance, InitReturned, Subject, Returned
  <2>2. i \in Insts /\ ThreadsOf(i) = {}
    BY <2>a, <2>1 DEF Inv, Control, Live, Subject, Quiet
  <2>3. /\ \A s \in StateId : si[s].inst # i => si'[s] = si[s]
        /\ \A j \in InstId : j # i => ri'[j] = ri[j]
    BY <2>1 DEF FreeRuleInstance, FreedStates, Inv, Shape
  <2>4. Threads' = Threads
    BY <2>1 DEF Threads
  <2>5. \A t \in Threads' : SameThread(t) /\ ri'[InstOf(t)] = ri[InstOf(t)]
    <3>1. ASSUME NEW t \in Threads' PROVE SameThread(t) /\ ri'[InstOf(t)] = ri[InstOf(t)]
      <4>1. t \in Threads /\ thr[t].si \in StateId /\ InstOf(t) \in InstId
        BY <2>4 DEF Inv, Live, States, Insts, InstOf
      <4>2. InstOf(t) # i
        BY <2>2, <4>1 DEF ThreadsOf
      <4>3. si'[thr[t].si] = si[thr[t].si]
        BY <2>3, <4>1, <4>2 DEF InstOf
      <4> QED BY <2>1, <2>3, <4>1, <4>2, <4>3 DEF SameThread, InstOf
    <3> QED BY <3>1
  <2>6. \A t \in Threads' : thr[t].once /\ OnceRule(InstOf(t)) /\ ri'[InstOf(t)].created
                               => phase' = "loop" /\ t = Head(cur')
    BY <1>0, <2>4, <2>5 DEF Single, OneStart
  <2>7. OneThread' /\ OneStart'
    BY <2>4, <2>5, <2>6, ThreadsSingle DEF Single
  <2> QED BY <2>1, <2>7 DEF Single, OneWay
<1>3. CASE LinkInitialInstance \/ MergeQueues
  <2>1. /\ si' = si /\ phase' # "init"
        /\ ri' = ri \/ ri' = [ri EXCEPT ![Subject].threads = ret, ![Subject].linked = TRUE]
    BY <1>3 DEF LinkInitialInstance, MergeQueues, Subject, heap, Returned, call, Inv, Control
  <2>2. TimeMarks(thr')
    <3>1. CASE LinkInitialInstance
      BY <3>1, BumpOne DEF LinkInitialInstance
    <3>2. CASE MergeQueues
      <4>1. thr' = thr
        BY <3>2 DEF MergeQueues, heap
      <4> QED BY <4>1, TimesKept
    <3> QED BY <1>3, <3>1, <3>2
  <2>3. \A t \in ThreadId : thr'[t].si = thr[t].si /\ thr'[t].once = thr[t].once
    BY <2>2 DEF TimeMarks, LockMarks, Marks
  <2>4. Threads' = Threads /\ \A t \in Threads : t \in ThreadId
    BY <2>3 DEF Threads
  <2>5. \A j \in InstId : ri'[j].rule = ri[j].rule /\ ri'[j].created = ri[j].created
    <3>1. \A j \in InstId : ri'[j] = ri[j] \/ ri'[j] = [ri[j] EXCEPT !.threads = ret, !.linked = TRUE]
      BY <2>1 DEF Inv, Shape
    <3>2. \A j \in InstId : IsInst(ri[j])
      BY DEF Inv, Shape
    <3> QED BY ONLY <3>1, <3>2 DEF IsInst
  <2>6. \A i \in Insts : ri'[i].rule = ri[i].rule /\ (ri'[i].created <=> ri[i].created)
    BY <2>5 DEF Insts
  <2>7. OneThread' /\ OneStart'
    BY <1>0, <2>1, <2>3, <2>4, <2>6, SingleStays DEF Single
  <2> QED BY <2>1, <2>7 DEF Single, OneWay
<1> QED BY <1>1, <1>2, <1>3 DEF InitialThreadsStep

\* A transition matched: only the instance of the thread at the head is started.
LEMMA MatchSingle ==
  ASSUME Inv, Single, rules' = rules, ThreadMatches PROVE Single'
<1>a. PICK t : t = Head(cur)
  OBVIOUS
<1>b. PICK i : i = InstOf(t)
  OBVIOUS
<1>1. /\ i \in Insts /\ i \in InstId /\ t \in Threads
      /\ \A j \in InstId : /\ ri'[j].rule = ri[j].rule
                           /\ j # i => ri'[j].created = ri[j].created
      /\ \A s \in States : si'[s].inst = si[s].inst
  BY <1>a, <1>b, MatchStarts
<1>2. thr' = thr /\ cur' = cur /\ phase' = "loop" /\ pc = "loop"
  BY DEF ThreadMatches, InLoop, Simulate
<1>3. phase = "none"
  BY <1>2 DEF Inv, Control
<1>4. Threads' = Threads
  BY <1>2 DEF Threads
<1>5. \A u \in Threads : SameThread(u) /\ InstOf(u) \in InstId
  <2>1. \A u \in Threads : InstOf(u)' = InstOf(u) /\ InstOf(u) \in InstId
    BY <1>1, <1>2 DEF InstOf, Inv, Live, Insts
  <2> QED BY <1>1, <1>2, <2>1 DEF SameThread
<1>6. ASSUME NEW u \in Threads', thr[u].once, OnceRule(InstOf(u)), ri'[InstOf(u)].created
      PROVE  phase' = "loop" /\ u = Head(cur')
  <2>1. u \in Threads /\ ~ ri[InstOf(u)].created
    BY <1>3, <1>4, <1>6 DEF Single, OneStart
  <2>2. InstOf(u) = i
    BY <1>1, <1>5, <1>6, <2>1
  <2>3. t \in Threads /\ InstOf(t) = i /\ ~ ri[i].created
    BY <1>b, <1>1, <2>1, <2>2
  <2>4. CASE thr[t].once
    <3>1. u = t
      BY <1>6, <2>1, <2>2, <2>3, <2>4 DEF Single, OneThread
    <3> QED BY <1>a, <1>2, <3>1
  <2>5. CASE ~ thr[t].once
    <3>1. ri'[i].created <=> ri[i].created \/ thr[t].once
      BY <1>a, <1>b, MatchStarts
    <3> QED BY <1>6, <2>2, <2>3, <2>5, <3>1
  <2> QED BY <2>4, <2>5
<1>7. OneThread' /\ OneStart'
  <2>1. Threads' \subseteq Threads /\ \A u \in Threads' : SameThread(u)
    BY <1>4, <1>5
  <2> QED BY <1>6, <2>1, ThreadsSingle DEF Single
<1>8. OneWay'
  BY <1>2 DEF OneWay
<1> QED BY <1>7, <1>8 DEF Single

\* A thread leaves the loop, with its instance if it was the last: the threads
\* that are left are what they were, and their instances.
LEMMA ReapSame ==
  ASSUME Inv, AtHead, NEW th, TimeMarks(th), Reap(Head(cur), th)
  PROVE  /\ Threads' \subseteq Threads \ {Head(cur)}
         /\ \A u \in Threads' : /\ u \in ThreadId /\ SameThread(u) /\ thr'[u] = th[u]
                                /\ ri'[InstOf(u)].created <=> ri[InstOf(u)].created
                                /\ ri'[InstOf(u)].born = ri[InstOf(u)].born
<1>a. PICK t : t = Head(cur)
  OBVIOUS
<1>b. PICK i : i = InstOf(t)
  OBVIOUS
<1>1. t \in Threads /\ t \in ThreadId /\ i \in Insts /\ i \in InstId /\ thr[t].si \in StateId
  BY <1>a, <1>b, HeadLives DEF AtHead
<1>2. thr' = [th EXCEPT ![t] = NullThread]
  BY <1>a DEF Reap
<1>3. \A u \in ThreadId : /\ u = t => thr'[u].si = NULL
                          /\ u # t => thr'[u] = th[u] /\ thr'[u].si = thr[u].si /\ thr'[u].once = thr[u].once
  <2>1. NullThread.si = NULL
    BY DEF NullThread
  <2> HIDE DEF NullThread
  <2> QED BY <1>1, <1>2, <2>1 DEF TimeMarks, LockMarks, Marks
<1>4. /\ Threads' \subseteq Threads \ {t} /\ \A u \in Threads' : u \in ThreadId
      /\ \A u \in Threads' : thr'[u].si = thr[u].si /\ thr'[u].once = thr[u].once /\ thr'[u] = th[u]
  BY <1>3 DEF Threads
<1>6. \A u \in Threads' : SameThread(u) /\ (ri'[InstOf(u)].created <=> ri[InstOf(u)].created)
                         /\ ri'[InstOf(u)].born = ri[InstOf(u)].born
  <2>1. \A u \in Threads' : /\ u \in Threads /\ thr[u].si \in States /\ thr[u].si \in StateId
                            /\ InstOf(u) \in Insts /\ InstOf(u) \in InstId
    BY <1>4 DEF Inv, Live, States, Insts, InstOf
  <2>2. CASE ri[i].threads - 1 = 0
    <3>1. ri[i].linked
      BY <1>1 DEF AtHead, Inv, Initial
    <3>2. FreeRuleInstance(i, ctx.threads - 1)
      BY <1>a, <1>b, <2>2, <3>1 DEF Reap
    <3>3. /\ \A s \in StateId : si[s].inst # i => si'[s] = si[s]
          /\ \A j \in InstId : j # i => ri'[j] = ri[j]
      BY <3>2 DEF FreeRuleInstance, FreedStates, Inv, Shape
    <3>4. \A u \in Threads' : InstOf(u) # i
      <4>0. ri[i].threads \in Nat /\ ri[i].threads = Cardinality(ThreadsOf(i))
        BY <1>1 DEF Inv, Counted, ThreadsCounted, Shape
      <4>1. Cardinality(ThreadsOf(i)) = 1
        BY <2>2, <4>0
      <4>2. ThreadsOf(i) \in SUBSET ThreadId
        BY DEF ThreadsOf, Threads
      <4>3. t \in ThreadsOf(i)
        BY <1>b, <1>1 DEF ThreadsOf
      <4>4. PICK v : ThreadsOf(i) = {v}
        BY <4>1, <4>2, FiniteParts, FS_Singleton
      <4> QED BY <1>4, <4>3, <4>4 DEF ThreadsOf
    <3>5. ASSUME NEW u \in Threads'
          PROVE  /\ SameThread(u) /\ (ri'[InstOf(u)].created <=> ri[InstOf(u)].created)
                 /\ ri'[InstOf(u)].born = ri[InstOf(u)].born
      <4>1. si[thr[u].si].inst # i /\ ri'[InstOf(u)] = ri[InstOf(u)]
        BY <2>1, <3>3, <3>4 DEF InstOf
      <4>2. si'[thr[u].si] = si[thr[u].si]
        BY <2>1, <3>3, <4>1
      <4> QED BY <1>4, <4>1, <4>2 DEF SameThread, InstOf
    <3> QED BY <3>5
  <2>3. CASE ri[i].threads - 1 # 0
    <3>1. /\ ri' = [ri EXCEPT ![i].threads = @ - 1, ![i].killed = @ \/ ri[i].threads = 1]
          /\ si' = si \/ \E list : si' = [si EXCEPT ![thr[t].si].thread_list = list]
      BY <1>a, <1>b, <2>3 DEF Reap
    <3>2. \A j \in InstId : /\ ri'[j].rule = ri[j].rule /\ ri'[j].created = ri[j].created
                             /\ ri'[j].born = ri[j].born
      <4>1. \A j \in InstId :
              \/ ri'[j] = ri[j]
              \/ ri'[j] = [ri[j] EXCEPT !.threads = @ - 1, !.killed = @ \/ ri[i].threads = 1]
        BY <1>1, <3>1 DEF Inv, Shape
      <4>2. \A j \in InstId : IsInst(ri[j])
        BY DEF Inv, Shape
      <4>3. \A j \in InstId : ri'[j].rule = ri[j].rule /\ ri'[j].created = ri[j].created
        BY ONLY <4>1, <4>2 DEF IsInst
      <4>4. \A j \in InstId : ri'[j].born = ri[j].born
        BY ONLY <4>1, <4>2 DEF IsInst
      <4> QED BY <4>3, <4>4
    <3>3. \A s \in StateId : si'[s].inst = si[s].inst
      <4>1. CASE si' = si
        BY <4>1
      <4>2. CASE \E list : si' = [si EXCEPT ![thr[t].si].thread_list = list]
        <5>1. PICK list : si' = [si EXCEPT ![thr[t].si].thread_list = list]
          BY <4>2
        <5>2. \A s \in StateId : si'[s] = si[s] \/ si'[s] = [si[s] EXCEPT !.thread_list = list]
          BY <1>1, <5>1 DEF Inv, Shape
        <5>3. \A s \in StateId : IsState(si[s])
          BY DEF Inv, Shape
        <5> QED BY ONLY <5>2, <5>3 DEF IsState
      <4> QED BY <3>1, <4>1, <4>2
    <3> QED BY <1>4, <2>1, <3>2, <3>3 DEF SameThread, InstOf
  <2> QED BY <2>2, <2>3
<1> QED BY <1>a, <1>4, <1>6

\* A thread that leaves the loop makes no instance start.
LEMMA ReapSingle ==
  ASSUME Inv, Single, rules' = rules, AtHead, LoopGoesOn, NEW th, TimeMarks(th),
         Reap(Head(cur), th)
  PROVE  Single'
<1>1. /\ Threads' \subseteq Threads \ {Head(cur)}
      /\ \A u \in Threads' : /\ SameThread(u)
                             /\ ri'[InstOf(u)].created <=> ri[InstOf(u)].created
  BY ReapSame
<1>2. \A u \in Threads' : ~ (thr[u].once /\ OnceRule(InstOf(u)) /\ ri[InstOf(u)].created)
  BY <1>1 DEF Single, OneStart
<1>3. OneThread' /\ OneStart'
  BY <1>1, <1>2, ThreadsSingle DEF Single
<1> QED BY <1>3 DEF Single, OneWay, LoopGoesOn

\* A thread that waits again, which is no initial one.
LEMMA RetriggerSingle ==
  ASSUME Inv, Single, rules' = rules, AtHead, LoopGoesOn, NEW th, TimeMarks(th),
         Retrigger(Head(cur), th)
  PROVE  Single'
<1>a. PICK t : t = Head(cur)
  OBVIOUS
<1>1. t \in Threads /\ t \in ThreadId
  BY <1>a, HeadLives DEF AtHead
<1>2. /\ ~ th[t].once /\ si' = si /\ ri' = ri
      /\ (\E q : thr' = Bumped(th, q)) \/ thr' = th
  BY <1>a DEF Retrigger
<1>3. TimeMarks(thr')
  BY <1>2, TimesKept
<1>4. \A u \in ThreadId : thr'[u].si = thr[u].si /\ thr'[u].once = thr[u].once
  BY <1>3 DEF TimeMarks, LockMarks, Marks
<1>5. Threads' = Threads /\ \A u \in Threads : u \in ThreadId
  BY <1>4 DEF Threads
<1>6. ~ thr[t].once
  BY <1>1, <1>2 DEF TimeMarks, LockMarks
<1>7. \A u \in Threads' : ~ (thr[u].once /\ OnceRule(InstOf(u)) /\ ri[InstOf(u)].created)
  BY <1>a, <1>5, <1>6 DEF Single, OneStart
<1>8. \A u \in Threads' : SameThread(u)
  BY <1>2, <1>4, <1>5 DEF SameThread, InstOf
<1>9. OneThread' /\ OneStart'
  BY <1>2, <1>5, <1>7, <1>8, ThreadsSingle DEF Single
<1> QED BY <1>9 DEF Single, OneWay, LoopGoesOn

\* Every step of the engine and of its environment.
LEMMA SingleInductive ==
  ASSUME Inv, Inv', LockInv, Quiet, Single, [Next]_vars PROVE Single'
<1>1. rules' = rules
  BY DEF Next, EngineStep, EnvironmentStep, vars
<1>2. CASE SimulateStep \/ InitialThreadsStep \/ ThreadMatches
  BY <1>1, <1>2, SimulationSingle, ThreadSingle, InitialSingle, MatchSingle
<1>3. CASE ReapKilledThread \/ ThreadFails \/ AfterMatch
  <2>1. /\ AtHead /\ LoopGoesOn
        /\ \E th : TimeMarks(th) /\ (Reap(Head(cur), th) \/ Retrigger(Head(cur), th))
    BY <1>3, Iterates
  <2> QED BY <1>1, <2>1, ReapSingle, RetriggerSingle
<1>4. CASE \/ FinishEvent \/ Tick \/ UNCHANGED vars
           \/ \E k \in Keys \cup {NoKey} : InjectEvent(k)
  <2>1. /\ thr' = thr /\ si' = si /\ ri' = ri /\ cur' = cur /\ phase' = phase
        /\ stack' = stack /\ subject' = subject
        /\ pc' = pc \/ phase = "none"
    BY <1>4 DEF FinishEvent, Tick, InjectEvent, vars, heap, queue, call, Inv, Control
  <2>2. Threads' = Threads /\ \A i : ThreadsOf(i)' = ThreadsOf(i)
    BY <2>1 DEF Threads, ThreadsOf, InstOf
  <2>3. OneThread' /\ OneStart'
    BY <1>1, <2>1, <2>2, SingleStays DEF Single
  <2>4. OneWay'
    <3>1. Subject' = Subject /\ (OnceRule(Subject)' <=> OnceRule(Subject))
      BY <1>1, <2>1 DEF Subject, OnceRule
    <3>2. ThreadsOf(Subject)' = ThreadsOf(Subject)
      BY <2>1, <2>2, <3>1 DEF ThreadsOf, InstOf, Threads
    <3> QED BY <2>1, <3>1, <3>2 DEF Single, OneWay
  <2> QED BY <2>3, <2>4 DEF Single
<1> QED BY <1>2, <1>3, <1>4 DEF Next, EngineStep, EnvironmentStep, EvtLoopStep

\* There is no thread at first.
LEMMA SingleInitially == ASSUME Init PROVE Single
<1>1. Threads = {}
  BY DEF Init, Threads, NullThread
<1> QED BY <1>1 DEF Init, Single, OneThread, OneStart, OneWay

-----------------------------------------------------------------------------
(* What an event leaves behind.                                             *)

\* When inject_event() returns (engine.c:171 to 275), every rule instance that
\* is left waits and was started, no thread is left that had expired, no
\* instance with a thread was dropped, and the statistics are right.
THEOREM EventsCleanedUp == QuietRules /\ Spec => []EventCleanedUp
<1> DEFINE All == Inv /\ LockInv /\ Quiet /\ Expiry /\ Single /\ Counters
<1>1. Init /\ QuietRules => All
  BY Initially, LocksInitially, QuietInitially, ExpiryInitially, SingleInitially, CountersInitially
<1>2. All /\ [Next]_vars => All'
  BY Inductive, LocksInductive, QuietInductive, QuietConsequence, ExpiryInductive,
     SingleInductive, CountersInductive
<1>3. All => EventCleanedUp
  BY StartedConsequence, QuietConsequence, ExpiryConsequence, CountersConsequence
     DEF EventCleanedUp
<1> QED BY <1>1, <1>2, <1>3, PTL DEF Spec
=============================================================================
