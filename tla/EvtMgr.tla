------------------------------- MODULE EvtMgr -------------------------------
(***************************************************************************)
(* The event manager of Orchids (src/src/evt_mgr.c): the list of real-time *)
(* actions, sorted by date, and the main loop that multiplexes them with   *)
(* the input descriptors through select().                                 *)
(*                                                                         *)
(* The loop keeps the next action in its local variable e (here held),     *)
(* outside of the list.  A callback, of an action or of a descriptor, may  *)
(* register actions while it runs.  Four kinds of actions stand for what   *)
(* the modules register:                                                   *)
(*   Once     timeout() and inject_event(), called by the rules that the   *)
(*            posted events wake up: register_rtcallback(), then gone;     *)
(*   Pollers  the HTML output: they register themselves again at a fixed   *)
(*            distance from their own date;                                *)
(*   Readers  the text files: again at once as long as there is something  *)
(*            to read, and then a period later;                            *)
(*   Socks    a socket of mod_textfile that lost its connection: again     *)
(*            until connect() succeeds.                                    *)
(* The descriptors Fds are these sockets and those that are never lost     *)
(* (UDP, raw sockets, the listening one of the remote administration).     *)
(***************************************************************************)
EXTENDS Integers, Sequences, FiniteSets

CONSTANTS
  Once, Pollers, Readers, Fds, Socks,
  Configs,      \* the configurations: which inputs and outputs are set up
  Period,       \* period of the pollers, and the default one of the readers
  PollPeriods,  \* poll periods of the readers that a configuration may leave
  Delays,       \* the delays that rules give to register_rtcallback()
  MaxTime,      \* bound: how far the clock may advance
  MaxBacklog,   \* bound: lines to read when Orchids starts
  Forever,      \* select() without a timeout
  NoAction      \* the NULL pointer

Actions == Once \cup Pollers \cup Readers \cup Socks

ASSUME KindsAssumption ==
  /\ Once \cap (Pollers \cup Readers \cup Fds) = {}
  /\ Pollers \cap (Readers \cup Fds) = {}
  /\ Readers \cap Fds = {}
  /\ Socks \subseteq Fds

\* mod_textfile always registers its reader, with or without files.
ASSUME ConfigsAssumption ==
  \A c \in Configs :
    /\ c \subseteq Pollers \cup Readers \cup Fds
    /\ c \cap Socks # {} => c \cap Readers # {}

ASSUME TimesAssumption ==
  /\ Period \in Nat \ {0}
  /\ PollPeriods \subseteq Nat
  /\ Delays \subseteq Nat
  /\ {MaxTime, MaxBacklog} \subseteq Nat
  /\ Forever \notin Nat
  /\ NoAction \notin [id : Actions, date : Nat]

VARIABLES
  conf,           \* the modules and descriptors of this configuration
  rtactionlist,   \* sequence of registered actions
  held,           \* the action e that the main loop waits for
  now,            \* gettimeofday()
  cur_loop_time,  \* the time that the loop, and its callbacks, look at
  fds,            \* the descriptors that select() watches
  ready,          \* the ready descriptors not yet served
  deadline,       \* when the running select() times out
  poll_period,    \* of mod_textfile
  backlog,        \* lines that the readers have not read yet
  pc              \* where the main loop is

vars == << conf, rtactionlist, held, now, cur_loop_time, fds, ready, deadline,
           poll_period, backlog, pc >>

Action == [id : Actions, date : Nat]

Pending == {rtactionlist[n] : n \in DOMAIN rtactionlist}
             \cup (IF held = NoAction THEN {} ELSE {held})
PendingIds == {a.id : a \in Pending}

-----------------------------------------------------------------------------
(***************************************************************************)
(* register_rtaction(): walk to the first later action, or to the last one *)
(* if there is none; an action with the date of the last one goes before   *)
(* it.                                                                     *)
(***************************************************************************)
StopsAt(q, a, n) == a.date < q[n].date \/ n = Len(q)

Stop(q, a) ==
  CHOOSE n \in DOMAIN q :
    /\ StopsAt(q, a, n)
    /\ \A m \in 1 .. n - 1 : ~ StopsAt(q, a, m)

InsertBefore(q, n, a) == SubSeq(q, 1, n - 1) \o << a >> \o SubSeq(q, n, Len(q))

\* Mutant: an action is always put before the one where the walk stops.
RegisterBeforeStop(q, a) ==
  IF q = << >> THEN << a >> ELSE InsertBefore(q, Stop(q, a), a)

Register(q, a) ==
  IF q = << >> THEN << a >>
  ELSE IF Stop(q, a) = Len(q) /\ a.date > q[Len(q)].date THEN Append(q, a)
  ELSE InsertBefore(q, Stop(q, a), a)

\* register_rtcallback(): the date counts from the time of the loop.
Timed(id, delay) == [id |-> id, date |-> cur_loop_time + delay]

\* The queue after the rules that a posted event woke up ran their actions.
RulesRegister(q, busy) ==
  {q} \cup {Register(q, Timed(id, delay)) : id \in Once \ busy, delay \in Delays}

-----------------------------------------------------------------------------
(***************************************************************************)
(* What the callback of action a may leave behind: the list, the watched   *)
(* descriptors and the backlog.                                            *)
(***************************************************************************)
Outcome(q, watched, lines) == [list |-> q, fds |-> watched, backlog |-> lines]

OnceCallback(a) ==
  {Outcome(q, fds, backlog) : q \in RulesRegister(rtactionlist, PendingIds)}

\* e->date.tv_sec += 20, e->date.tv_sec += 60
PollerCallback(a) ==
  {Outcome(Register(rtactionlist, [a EXCEPT !.date = @ + Period]), fds, backlog)}

\* Mutant: the period is not added at the end of the file.
ReaderCallbackAtOnce(a) ==
  IF backlog > 0
  THEN {Outcome(Register(q, Timed(a.id, 0)), fds, backlog - 1) :
          q \in RulesRegister(rtactionlist, PendingIds)}
  ELSE {Outcome(Register(rtactionlist, Timed(a.id, 0)), fds, backlog)}

\* rtaction_read_files(): a line of a file was read, or there was none.
ReaderCallback(a) ==
  IF backlog > 0
  THEN {Outcome(Register(q, Timed(a.id, 0)), fds, backlog - 1) :
          q \in RulesRegister(rtactionlist, PendingIds)}
  ELSE {Outcome(Register(rtactionlist, Timed(a.id, poll_period)), fds, backlog)}

\* Mutant: a failed reconnection is forgotten.
ReconnectCallbackOnce(a) ==
  {Outcome(rtactionlist, fds \cup {a.id}, backlog), Outcome(rtactionlist, fds, backlog)}

\* textsocket_try_reconnect(): connect() succeeds, or it is tried again later:
\* 5 seconds when there is no socket to be had, 1 when nobody answers.
ReconnectCallback(a) ==
  {Outcome(rtactionlist, fds \cup {a.id}, backlog)}
    \cup {Outcome(Register(rtactionlist, [a EXCEPT !.date = @ + d]), fds, backlog) :
            d \in {1, 5}}

Callback(a) ==
  CASE a.id \in Once    -> OnceCallback(a)
    [] a.id \in Pollers -> PollerCallback(a)
    [] a.id \in Readers -> ReaderCallback(a)
    [] a.id \in Socks   -> ReconnectCallback(a)

\* get_next_rtaction()
Get_next_rtaction(q) ==
  IF q = << >> THEN held' = NoAction /\ rtactionlist' = << >>
               ELSE held' = Head(q) /\ rtactionlist' = Tail(q)

\* e->cb(ctx, e); e = get_next_rtaction(ctx)
Fire ==
  \E o \in Callback(held) :
    /\ Get_next_rtaction(o.list)
    /\ fds' = o.fds
    /\ backlog' = o.backlog

Due(a) == a # NoAction /\ a.date <= cur_loop_time

-----------------------------------------------------------------------------
(***************************************************************************)
(* Start: the modules register their periodic actions, then the loop takes *)
(* the first one.                                                          *)
(***************************************************************************)
StartModule(id, delay) ==
  /\ pc = "config"
  /\ id \in (conf \cap (Pollers \cup Readers)) \ PendingIds
  /\ id \in Readers => delay = 0    \* INITIAL_MODTEXT_POLL_DELAY
  /\ rtactionlist' = Register(rtactionlist, Timed(id, delay))
  /\ UNCHANGED << held, now, cur_loop_time, fds, ready, deadline, backlog, pc, poll_period, conf >>

\* Without any input "No modules have requested input", and the process exits.
EnterMainLoop ==
  /\ pc = "config"
  /\ conf \cap (Fds \cup Readers) # {}
  /\ conf \cap (Pollers \cup Readers) \subseteq PendingIds
  /\ Get_next_rtaction(rtactionlist)
  /\ pc' = "top"
  /\ UNCHANGED << now, cur_loop_time, fds, ready, deadline, backlog, poll_period, conf >>

(***************************************************************************)
(* event_dispatcher_main_loop()                                            *)
(***************************************************************************)
LoopTop ==
  /\ pc = "top"
  /\ cur_loop_time' = now
  /\ pc' = "past"
  /\ UNCHANGED << rtactionlist, held, now, fds, ready, deadline, backlog, poll_period, conf >>

\* Consume past events.
FirePast ==
  /\ pc = "past"
  /\ Due(held)
  /\ Fire
  /\ UNCHANGED << now, cur_loop_time, ready, deadline, pc, poll_period, conf >>

\* Mutant: one tick too few is waited for.
SelectTooShort ==
  /\ pc = "past"
  /\ ~ Due(held)
  /\ deadline' = IF held = NoAction THEN Forever
                 ELSE now + (held.date - cur_loop_time) - 1
  /\ pc' = "select"
  /\ UNCHANGED << rtactionlist, held, now, cur_loop_time, fds, ready, backlog, poll_period, conf >>

\* Mutant: the pointer to the time to wait stays NULL.
SelectForever ==
  /\ pc = "past"
  /\ ~ Due(held)
  /\ deadline' = Forever
  /\ pc' = "select"
  /\ UNCHANGED << rtactionlist, held, now, cur_loop_time, fds, ready, backlog, poll_period, conf >>

\* select() waits for the time between the start of the loop and the action.
Select ==
  /\ pc = "past"
  /\ ~ Due(held)
  /\ deadline' = IF held = NoAction THEN Forever
                 ELSE now + (held.date - cur_loop_time)
  /\ pc' = "select"
  /\ UNCHANGED << rtactionlist, held, now, cur_loop_time, fds, ready, backlog, poll_period, conf >>

\* select() returns with descriptors to read from.
InputReady(R) ==
  /\ pc = "select"
  /\ R # {}
  /\ R \subseteq fds
  /\ ready' = R
  /\ pc' = "input"
  /\ UNCHANGED << rtactionlist, held, now, cur_loop_time, fds, deadline, backlog, poll_period, conf >>

\* The callback of a descriptor read data and posted an event.
ReadInput(fd) ==
  /\ pc = "input"
  /\ fd \in ready
  /\ rtactionlist' \in RulesRegister(rtactionlist, PendingIds)
  /\ ready' = ready \ {fd}
  /\ UNCHANGED << held, now, cur_loop_time, fds, deadline, backlog, pc, poll_period, conf >>

\* cfg->poll_period, once a socket was lost
PollPeriodOnLoss == IF poll_period = 0 THEN Period ELSE poll_period

\* "connection lost": a reconnection is scheduled, and the positive result of
\* the callback makes the loop clear the descriptor.
LoseConnection(fd) ==
  /\ pc = "input"
  /\ fd \in ready \cap Socks
  /\ poll_period' = PollPeriodOnLoss
  /\ rtactionlist' = Register(rtactionlist, Timed(fd, PollPeriodOnLoss))
  /\ fds' = fds \ {fd}
  /\ ready' = ready \ {fd}
  /\ UNCHANGED << held, now, cur_loop_time, deadline, backlog, pc, conf >>

EndOfInput ==
  /\ pc = "input"
  /\ ready = {}
  /\ pc' = "top"
  /\ UNCHANGED << rtactionlist, held, now, cur_loop_time, fds, ready, deadline, backlog, poll_period, conf >>

\* select() times out.
Timeout ==
  /\ pc = "select"
  /\ deadline # Forever
  /\ deadline <= now
  /\ cur_loop_time' = now
  /\ pc' = "timeout"
  /\ UNCHANGED << rtactionlist, held, now, fds, ready, deadline, backlog, poll_period, conf >>

\* "Force the callback execution here": do ... while the next one is due.
FireTimeout ==
  /\ pc = "timeout"
  /\ held # NoAction
  /\ Fire
  /\ pc' = IF held' # NoAction /\ held'.date <= cur_loop_time THEN "timeout" ELSE "top"
  /\ UNCHANGED << now, cur_loop_time, ready, deadline, poll_period, conf >>

\* The clock advances, also while callbacks run.
Tick ==
  /\ now < MaxTime
  /\ now' = now + 1
  /\ UNCHANGED << rtactionlist, held, cur_loop_time, fds, ready, deadline, backlog, pc, poll_period, conf >>

Init ==
  /\ rtactionlist = << >>
  /\ held = NoAction
  /\ now = 0
  /\ cur_loop_time = 0
  /\ conf \in Configs
  /\ fds = conf \cap Fds
  /\ ready = {}
  /\ deadline = Forever
  /\ poll_period \in PollPeriods
  /\ backlog \in 0 .. MaxBacklog
  /\ pc = "config"

\* What the process does by itself; the rest is decided by its environment.
LoopStep ==
  \/ EnterMainLoop \/ LoopTop \/ FirePast \/ Select \/ EndOfInput \/ Timeout \/ FireTimeout
  \/ \E id \in Pollers \cup Readers, delay \in {0, Period} : StartModule(id, delay)
  \/ \E fd \in Fds : ReadInput(fd) \/ LoseConnection(fd)

Next ==
  \/ LoopStep
  \/ \E R \in SUBSET Fds : InputReady(R)
  \/ Tick

Spec     == Init /\ [][Next]_vars
FairSpec == Spec /\ WF_vars(LoopStep) /\ WF_vars(Tick)

-----------------------------------------------------------------------------
TypeOK ==
  /\ conf \in Configs
  /\ rtactionlist \in Seq(Action)
  /\ held \in Action \cup {NoAction}
  /\ {now, cur_loop_time, poll_period, backlog} \subseteq Nat
  /\ fds \subseteq Fds
  /\ ready \subseteq Fds
  /\ deadline \in Nat \cup {Forever}
  /\ pc \in {"config", "top", "past", "select", "input", "timeout"}

\* register_rtaction() keeps the list in the order of the dates, whatever the
\* callbacks register while the loop holds the first action.
ListSorted ==
  \A m, n \in DOMAIN rtactionlist :
    m <= n => rtactionlist[m].date <= rtactionlist[n].date

\* The branch of the timeout uses e without a test: select() times out only
\* when the loop holds an action.
TimeoutHasAction == pc = "timeout" => held # NoAction

\* A socket that is set up is watched or its reconnection is pending, never both and never
\* neither; no action is registered twice.
ReconnectScheduled ==
  /\ \A fd \in conf \cap Fds : fd \in fds <=> fd \notin PendingIds
  /\ Cardinality(PendingIds) = Len(rtactionlist) + (IF held = NoAction THEN 0 ELSE 1)

\* A callback never runs before its date.  The branch of the timeout does not
\* look at the date ("We assume the timeout was correct").
NeverEarly ==
  [][held # NoAction /\ held' # held => held.date <= now]_vars

\* select() waits for a time that the bounded clock of the model never reaches.
ClockExhausted == pc = "select" /\ deadline # Forever /\ deadline > MaxTime

\* Without a periodic action the loop takes NULL before it first waits, and
\* looks at the list again only after a callback of an action.
HoldsNothing == pc # "config" /\ held = NoAction

\* mod_textfile registers its reader whatever it reads, and only a regular file
\* or SetPollPeriod makes the period positive: otherwise the reader is due
\* again as soon as it ran.
Spinning == conf \cap Readers # {} /\ poll_period = 0

\* Every registered action is executed: it "will be multiplexed to the
\* real-time event flow".  Two configurations are excepted: no periodic action
\* is there when the loop starts, or the reader polls without a period.
RegisteredIsExecuted ==
  \A id \in Actions, date \in 0 .. MaxTime :
    [id |-> id, date |-> date] \in Pending
      ~> \/ [id |-> id, date |-> date] \notin Pending
         \/ HoldsNothing \/ Spinning \/ ClockExhausted

\* The main loop always comes back to select(), unless the reader polls without
\* a period: the other actions do not starve the descriptors.
ReturnsToSelect == pc # "select" ~> pc = "select" \/ Spinning

\* The same without the exception, as the comments of mod_textfile ("registering
\* file polling if needed") and of register_rtaction() ("multiplexed to the
\* real-time event flow") have it.
AlwaysReturnsToSelect == pc # "select" ~> pc = "select"

\* The list, the action that the loop holds and the branches of the loop fit
\* together, so that no walk and no branch meets a NULL it does not test.
ListSound == TypeOK /\ ListSorted /\ TimeoutHasAction
=============================================================================
