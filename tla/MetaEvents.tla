----------------------------- MODULE MetaEvents -----------------------------
(* The events that rules make: mod_metaevent.c builds an event field by     *)
(* field and injects it, mod_timeout.c posts one after a delay.  Both wait  *)
(* in the list of real-time actions of evt_mgr.c, which is used here as the *)
(* module EvtMgr states it, with an action of another module that comes     *)
(* back every period, or without one: then the main loop holds no action    *)
(* when it starts, and never one later.  Rules act while an event is        *)
(* analysed, which may be one of these.                                     *)
EXTENDS Naturals, Sequences, SequencesExt

CONSTANTS
    Handles,       \* rule instances: the paths of one share what build_event() gave
    TimeoutNames,
    TimeoutDelays, \* seconds
    PollEvery,     \* period of the action of another module
    MaxBuilt,      \* bound: events that rules build
    MaxTimeouts,   \* bound: calls of timeout()
    MaxInputs,     \* bound: events that come from outside
    MaxActions,    \* bound: real-time actions
    MaxClock       \* bound: seconds

ASSUME TimesAreNumbers == PollEvery \in Nat /\ TimeoutDelays \subseteq Nat

VARIABLES
    built,         \* handle -> the event of its EXTPTR, 0 for NULL
    made,          \* events that were begun
    queue,         \* cfg->events
    actions,       \* ctx->rtactionlist
    next_action,   \* the action e that the main loop waits for
    clock,         \* ctx->cur_loop_time
    analysed,      \* what post_event() works on: "input", "metaevent", "timeout", "none"
    inputs,        \* events from outside
    injections,    \* the events that inject_event() took, and when
    posted,        \* those that were posted, and when
    timeouts,      \* the calls of timeout()
    expired        \* the events of timeouts that were posted

builtVars == <<built, made, queue, injections>>
loopVars  == <<next_action, clock, analysed, inputs, posted, expired>>
metaVars  == <<builtVars, loopVars, actions, timeouts>>

Id(cb, name, regdate, delay) == [cb |-> cb, name |-> name, regdate |-> regdate, delay |-> delay]
NoNext == [id |-> Id("none", "none", 0, 0), date |-> 0]
InjectId == Id("rtaction_inject_event", "none", 0, 0)
OtherId  == Id("other", "none", 0, 0)

Loop == INSTANCE EvtMgr WITH
    Once <- {}, Pollers <- {}, Readers <- {}, Fds <- {}, Socks <- {}, Configs <- {},
    Period <- PollEvery, PollPeriods <- {PollEvery}, Delays <- {}, MaxTime <- MaxClock,
    MaxBacklog <- 0, Forever <- 0, NoAction <- NoNext,
    conf <- {}, rtactionlist <- actions, held <- next_action, now <- clock,
    cur_loop_time <- clock, fds <- {}, ready <- {}, deadline <- 0, poll_period <- PollEvery,
    backlog <- 0, pc <- "past"

register_rtcallback(id, delay) ==
    /\ Len(actions) < MaxActions
    /\ actions' = Loop!Register(actions, Loop!Timed(id, delay))

RuleActs == analysed # "none"

----------------------------------------------------------------------------
(* mod_metaevent                                                            *)

\* A handle that holds an event loses it.
issdl_build_event(h) ==
    /\ RuleActs
    /\ built' = [built EXCEPT ![h] = 0]
    /\ UNCHANGED <<made, queue, injections, loopVars, actions, timeouts>>

\* The first field that is registered makes the event, the others join it.
issdl_set_event_field(h) ==
    /\ RuleActs /\ built[h] = 0 /\ made < MaxBuilt
    /\ made' = made + 1
    /\ built' = [built EXCEPT ![h] = made']
    /\ UNCHANGED <<queue, injections, loopVars, actions, timeouts>>

\* The mutant looks at the list before the event is in it.
Inject_looks_first(event) ==
    /\ IF event = 0 THEN UNCHANGED <<queue, injections>>
       ELSE /\ queue' = Append(queue, event)
            /\ injections' = Append(injections, [event |-> event, at |-> clock])
    /\ IF queue = <<>> THEN UNCHANGED actions ELSE register_rtcallback(InjectId, 0)
\* An event goes to the tail; whenever the list has one an action is
\* registered.
Inject(event) ==
    /\ IF event = 0 THEN UNCHANGED <<queue, injections>>
       ELSE /\ queue' = Append(queue, event)
            /\ injections' = Append(injections, [event |-> event, at |-> clock])
    /\ IF queue = <<>> /\ event = 0 THEN UNCHANGED actions
       ELSE register_rtcallback(InjectId, 0)

issdl_inject_event(h) ==
    /\ RuleActs /\ Inject(built[h])
    /\ built' = [built EXCEPT ![h] = 0]
    /\ UNCHANGED <<made, loopVars, timeouts>>

\* With an unknown field there is no event.
issdl_inject_single_event ==
    /\ RuleActs
    /\ \/ Inject(0) /\ UNCHANGED made
       \/ made < MaxBuilt /\ made' = made + 1 /\ Inject(made')
    /\ UNCHANGED <<built, loopVars, timeouts>>

\* get_next_rtaction()
Next_action(list) ==
    IF list = <<>> THEN next_action' = NoNext /\ actions' = <<>>
    ELSE next_action' = Head(list) /\ actions' = Tail(list)

\* rtaction_inject_event(): rules act in post_event(), when it found an event.
metaevent_callback ==
    /\ next_action.id = InjectId
    /\ IF queue = <<>>
       THEN Next_action(actions) /\ UNCHANGED <<queue, posted, analysed>>
       ELSE /\ queue' = Tail(queue)
            /\ posted' = Append(posted, [event |-> Head(queue), at |-> clock])
            /\ analysed' = "metaevent"
            /\ UNCHANGED <<actions, next_action>>
    /\ UNCHANGED <<built, made, injections, timeouts, expired>>

\* The end of the callback, after the rules acted.
metaevent_posted ==
    /\ analysed = "metaevent"
    /\ Next_action(IF queue = <<>> THEN actions
                   ELSE Loop!Register(actions, Loop!Timed(InjectId, 0)))
    /\ analysed' = "none"
    /\ UNCHANGED <<builtVars, clock, inputs, posted, expired, timeouts>>

----------------------------------------------------------------------------
(* mod_timeout                                                              *)

\* The attributes belong to this call.  The mutant keeps one set of them.
issdl_timeout_shared(name, delay) ==
    /\ RuleActs /\ Len(timeouts) < MaxTimeouts /\ Len(actions) < MaxActions
    /\ timeouts' = Append(timeouts, Id("timeout_rtcallback", name, clock, delay))
    /\ actions' =
         LET list == Loop!Register(actions, Loop!Timed(Id("timeout_rtcallback", name, clock, delay), delay))
         IN  [i \in DOMAIN list |-> IF list[i].id.cb = "timeout_rtcallback"
                                    THEN [list[i] EXCEPT !.id.name = name] ELSE list[i]]
    /\ UNCHANGED <<builtVars, loopVars>>
issdl_timeout(name, delay) ==
    LET attr == Id("timeout_rtcallback", name, clock, delay)
    IN  /\ RuleActs /\ Len(timeouts) < MaxTimeouts
        /\ timeouts' = Append(timeouts, attr)
        /\ register_rtcallback(attr, delay)
        /\ UNCHANGED <<builtVars, loopVars>>

timeout_rtcallback ==
    /\ next_action.id.cb = "timeout_rtcallback"
    /\ expired' = Append(expired, [attr |-> next_action.id, date |-> clock])
    /\ analysed' = "timeout"
    /\ UNCHANGED <<builtVars, actions, next_action, posted, timeouts>>
timeout_posted ==
    /\ analysed = "timeout"
    /\ Next_action(actions)
    /\ analysed' = "none"
    /\ UNCHANGED <<builtVars, clock, inputs, posted, timeouts, expired>>

----------------------------------------------------------------------------
(* The main loop                                                            *)

Due == next_action # NoNext /\ next_action.date <= clock

OtherCallback ==
    /\ next_action.id = OtherId
    /\ Next_action(Loop!Register(actions, [next_action EXCEPT !.date = @ + PollEvery]))
    /\ UNCHANGED <<builtVars, posted, analysed, timeouts, expired>>

Fires ==
    /\ ~RuleActs /\ Due
    /\ metaevent_callback \/ timeout_rtcallback \/ OtherCallback
    /\ UNCHANGED <<clock, inputs>>

\* An input callback posts an event, when no action is due.
InputCallback ==
    /\ ~RuleActs /\ ~Due /\ inputs < MaxInputs
    /\ inputs' = inputs + 1
    /\ analysed' = "input"
    /\ UNCHANGED <<builtVars, actions, next_action, clock, posted, timeouts, expired>>
InputPosted ==
    /\ analysed = "input" /\ analysed' = "none"
    /\ UNCHANGED <<builtVars, actions, next_action, clock, inputs, posted, timeouts, expired>>

\* gettimeofday(&ctx->cur_loop_time), at the top or after select().
LoopTime ==
    /\ ~RuleActs /\ ~Due /\ clock < MaxClock
    /\ clock' = clock + 1
    /\ UNCHANGED <<builtVars, actions, next_action, analysed, inputs, posted, timeouts, expired>>

MetaInit ==
    /\ built = [h \in Handles |-> 0] /\ made = 0
    /\ queue = <<>> /\ actions = <<>>
    /\ next_action \in {[id |-> OtherId, date |-> PollEvery], NoNext}
    /\ clock = 0 /\ analysed = "none" /\ inputs = 0
    /\ injections = <<>> /\ posted = <<>> /\ timeouts = <<>> /\ expired = <<>>

MetaNext ==
    \/ \E h \in Handles :
         issdl_build_event(h) \/ issdl_set_event_field(h) \/ issdl_inject_event(h)
    \/ issdl_inject_single_event
    \/ \E name \in TimeoutNames, delay \in TimeoutDelays : issdl_timeout(name, delay)
    \/ metaevent_posted \/ timeout_posted \/ InputPosted
    \/ Fires \/ InputCallback \/ LoopTime

MetaSpec == MetaInit /\ [][MetaNext]_metaVars

----------------------------------------------------------------------------
(* Properties                                                               *)

EventsOf(log) == [i \in DOMAIN log |-> log[i].event]

\* inject_event() "Inject the event in the orchids engine": the events are
\* posted in the order of their injections, each of them once, whatever the
\* rules that they wake up inject in turn; and no rule holds an event that
\* was injected, which the engine frees.
QueuedOnceInOrder ==
    /\ EventsOf(posted) \o queue = EventsOf(injections)
    /\ IsInjective(EventsOf(injections))
    /\ \A h \in Handles : built[h] \notin ToSet(EventsOf(injections))

\* An injected event is posted at the latest with the action that the main
\* loop waits for already: it has no action that it could wait behind.  (A
\* loop that holds none serves none: the event stays in the queue.)
InjectedWithoutDelay ==
    next_action # NoNext => \A i \in DOMAIN injections :
        (IF i \in DOMAIN posted THEN posted[i].at ELSE clock) - injections[i].at <= PollEvery

\* The queue of injected events loses, doubles, reorders and delays nothing.
InjectedOnceInOrder == QueuedOnceInOrder /\ InjectedWithoutDelay

Count(seq, x) == Cardinality({i \in DOMAIN seq : seq[i] = x})

\* Every call of timeout() posts one event with its own name and date of
\* registration, "in case of the rule which registered the timeout was killed
\* before the timeout", never before its delay is over and at the latest with
\* the action that the loop waits for, or waits in the list of a loop that
\* holds no action.
TimeoutsExpireOnce ==
    /\ \A attr \in ToSet(timeouts) :
         Count(timeouts, attr)
           = Count([i \in DOMAIN actions |-> actions[i].id], attr)
             + (IF next_action.id = attr /\ analysed # "timeout" THEN 1 ELSE 0)
             + Count([i \in DOMAIN expired |-> expired[i].attr], attr)
    /\ \A i \in DOMAIN expired :
         /\ expired[i].attr \in ToSet(timeouts)
         /\ expired[i].date - (expired[i].attr.regdate + expired[i].attr.delay) \in 0..PollEvery
=============================================================================
