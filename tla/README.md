# A TLA+ verification project for Orchids

Orchids is a real-time intrusion detection tool.  Modules read logs, sockets and
packets, and turn every message into an *event*, a list of typed fields.  The
user's *rules* are automata over events; a compiler turns their expressions
into byte code for a small stack machine.  The *engine* matches the rules
against the stream of events and runs the actions of the states it reaches.
Orchids is one process with one thread, which forks renderers of HTML pages:
what makes it hard is less parallelism than the order of callbacks, actions and
events, the pointers that several queues and tables share, and objects that are
freed by counting.

Paths below are those of the repository, `src/` first.

## Inventory

| Component | State | Operations | Interacts with | What is hard | What makes it correct |
|---|---|---|---|---|---|
| Engine (`src/src/engine.c`) | three queues of waiting threads, trees of state instances, rule instances, past events, locks, counters | `inject_event()`, `create_rule_initial_threads()`, `simulate_state_and_create_threads()`, `mark_dead_rule()`, `reap_dead_rule()`, `free_rule_instance()`, `cut()` | called by `post_event()`; runs byte code, which registers actions and injects events | one event changes the queue that is being walked; instances, events and locks are freed while others refer to them; threads time out | no dangling pointer, exact counters, one instance per key of a synchronized rule, nothing of a finished instance left, `inject_event()` returns |
| Event manager (`evt_mgr.c`) | sorted list of real-time actions, the action taken out of it, the set of descriptors | `register_rtaction()`, `register_rtcallback()`, `event_dispatcher_main_loop()` | calls back every input and output module, which register more actions | callbacks change the list and the set while the loop holds an action; timeouts race inputs | list sorted, no callback early, none lost, inputs are served |
| Input descriptors (`orchids_api.c`) | handler list, `fd_set`, `maxfd` | add, delete, substitute, reincarnate | event manager, text sockets, consoles of `mod_remoteadm.c` | a descriptor is closed and its number used again in the same pass | the callback gets its own connection; what is watched is below `maxfd` |
| Text files and sockets (`mod_textfile.c`) | per file: position, line, crc, eof; per socket: buffer and offsets | polling, reading, reconnecting | event manager, `post_event()` | partial and long lines, truncation, lost connections | every complete line is posted once, in order |
| Event posting (`orchids_api.c`) | tables of dissectors, fields | `post_event()`, `add_fields_to_event()`, `register_dissector()` | modules, engine | recursion, ownership of the fields, keys of different widths | an event is injected once, with the fields of its text |
| Meta-events, timeouts (`mod_metaevent.c`, `mod_timeout.c`) | queue of events to inject | `inject_event()` and `timeout()` of the rule language | rules, event manager, engine | an action of an event causes another event | each is posted once, in order, in time |
| Rule compiler (`rule_compiler.c`, `issdl.y`) | contexts, tables of names, byte code | compilation of expressions, states, rules | engine and virtual machine | labels, names of one rule in the next, which fields a transition needs | byte code computes the expression; a name means what its rule says |
| Virtual machine, values (`ovm.c`, `lang.c`) | stack, program counter, heap | one function per instruction, built-in functions | engine | who frees a value | nothing is freed twice or used after |
| Containers (`util/`) | hash tables, stacks | insert, find, update, delete, clone, walk | everybody | the same key twice, collisions, a count that is never lowered | each behaves as the map it stands for |
| Modules, configuration, start (`mod_mgr.c`, `orchids_cfg.c`, `main.c`) | table of modules, tree of directives, list of rule files, lock file | load, preconfig, postconfig, postcompil, lock | everybody | order and partial failure; two starts at once | the tree is the text; one monitor |
| HTML output, file cache | generated pages, links, cache, the lock of the renderer | regeneration, cleanup | event manager; children made by `fork()` | pages removed while referred to, stale pages, children that die | a page that can be seen is complete and fresh |
| Shared variables, marks | table of values, marks into the state tree | built-in functions | rules, virtual machine | ownership | values of the table are its own |
| Dissectors | what was kept from the line before | parsing | event posting | order of fields | |
| Periods, clocks, reports, Prolog, wrappers | | | | | out of scope, see the end |

## Modules

Seventeen modules model the code; `KeyMap` is an abstract specification; the
`MC*` modules give the constants their values, and the `*Proofs` modules hold theorems.
Where a run checks modules that share nothing (`MCLanguage`, `MCServices`,
`MCInputs`), their variables are disjoint, the first state chooses which module
moves, and the others keep their first state, so that the run explores the sum
of the state spaces and not their product.

### Matching

**`Engine`** models `engine.c`.  The heap of C is four pools (threads, state
instances, rule instances, events); a freed object is the null record of its pool
and 0 the null pointer, so that a use after free is visible as a reference to a
null record.  The three thread queues `cur` (from the thread being processed on),
`retrig` and `newq` are sequences; `cur_retrig_qh` and `current_tail` point
into whichever of them holds their thread, as in the code, and `After` and
`Chain` are the walk along the next pointers.  One step is one iteration of the
loops of `create_rule_initial_threads()`, `inject_event()` or
`simulate_state_and_create_threads()`; the recursion of the last is the variable
`stack`.  The tree of state instances (`first_child`, `next_sibling`) is kept as
the code links it, and `cut()` and the marks of `mod_mark.c` walk it.

The data are reduced to what the properties tell apart.  An event carries one
field, its key, or none.  A rule has one variable, which the action of a binding
state sets to the field of the current event; an environment is therefore the
event that its value points into.  Whether a condition on fields holds is
nondeterministic (`ThreadFails`, `ThreadMatches`), and so is one without fields
(`PassETransition`, `SkipETransition`); `Ovm` has the conditions themselves.
The compiled `rules` are one of the constant `RuleSets` and do not change.

| Code | Definitions |
|---|---|
| `inject_event()` 355-407 | `InjectEvent` |
| `create_rule_initial_threads()` | `CreateInitialInstance`, `LinkInitialInstance`, `DropInitialInstance`, `MergeQueues` |
| `simulate_state_and_create_threads()` | `Simulate`, `EnterTerminalState`, `PruneState`, `EnterState`, `PassETransition`, `SkipETransition`, `CreateThread`, `ReturnFromSimulate` |
| evt-loop of `inject_event()` | `ReapKilledThread`, `ThreadFails`, `ThreadMatches`, `AfterMatch`, `FinishEvent` |
| `mark_dead_rule()`, `issdl_kill_threads()`, `issdl_cut()`, `mod_mark.c` | the actions of a state that an `EnterState` runs |
| `free_rule_instance()` | `FreeRuleInstance` and the functions it uses |

**`Values`** is the table of types of `lang.c`: the arithmetic and the
comparisons of integers, unsigned integers, counters, dates, floats and texts, over
machine words of `LongBits` and `IntBits` bits, with a crash where C leaves the result
undefined.  **`RuleCompiler`** is the code generator of `rule_compiler.c`:
`CompileExpr`, `CompileCond`, `CompileStmt` append words to a buffer, and
`compile_set_labels` resolves the labels.  **`Ovm`** executes that code one
instruction at a time (`OpPush`, `OpPop`, `OpRegSplit`, `OpPopCJmp`, `OpCall` ...:
one action or disjunct per function of `ovm.c`), with the built-in functions that touch values, on a heap
whose cells carry `TYPE_CANFREE`, `TYPE_NOTBOUND` and how often they were freed.
The path of a rule instance is: enter a state, run its actions, evaluate the
condition of the next transition, and in the end free the instance.  The condition
is evaluated whatever fields the event has (`engine.c:470`): the required fields, which the
compiler collects, are only counted.

**`RuleBuilder`** is the compiler between the parser and the byte code: one
operation per construct that the parser reduces (`build_varname`,
`build_string`, `build_fieldname`, `build_function_call`, `set_state_label` ...),
on a context that all rules share, and `compile_and_add_rule_ast`, which
resolves the names of one rule.  **`HashTables`** is `strhash.c`, `hash.c` and
`objhash.c`: chains in buckets, linked, overwritten and unlinked as in the code,
for any hash function.  **`KeyMap`** says what these tables promise: a pile of data
per key, whose newest is found; `Map` in `HashTables` is `INSTANCE KeyMap WITH`
the refinement mapping.

### Inputs

**`EvtMgr`** models `evt_mgr.c`: the list, the main loop with the action `e`
that it holds (`held`), `select()` with its deadline, and the clock, which advances
at any moment.  The callbacks are those of the modules, reduced to what they
register: `Once` (`timeout()`, `inject_event()`), `Pollers` (HTML output),
`Readers` (text files) and `Socks` (text sockets, whose loss and reconnection is
modelled; the configuration `conf` is any of `Configs`, and a list without a
periodic action may run empty); `Fds` are these and the descriptors that are never lost.  `PollPeriods`
are the periods of the readers that a configuration may leave; the period is 0 unless a regular
file was added or `SetPollPeriod` given, and a lost socket then sets it to its default.
No delay of `Delays` is 0: a rule that answers its own timeout with another one of delay 0
would keep the loop from `select()` as a reader without a period does.
A callback that posts events may let the rules register one action
of `Once`; more of them come with the next callback.  Only one pending action
exists per name, which bounds the list.

**`TextSock`** models `textsocket_callback()` of `mod_textfile.c`: the buffer of a
text socket with `read_off` and `write_off`, the move of the unread data
(`Moved`), `read()` with every chunk that fits (`Read`), with an error
(`ReadFails`) or with the result 0 (`Lose`), the loop over the lines (`ParseLine`,
`ParseRest`) and the reconnection, which keeps the buffer.  A character is a
newline or another one; the buffer holds its position in the stream, so that a
lost, doubled or displaced character is visible in the lines that are posted.
`EvtMgr` has the other half: when a lost socket is reconnected.

**`TextFiles`** models the regular files of `mod_textfile.c`: `textfile_callback`
walks over the files, rewinds one that became shorter, passes over one whose
`st_mtime` has not changed, and `process_new_lines` reads at most one line, in pieces
as `fgets()` returns them, `read_rest` what is too long.  Other processes write
pieces and truncate at any moment; the second of the clock is the granularity of
`st_mtime`.

**`Descriptors`** models the handler list and the descriptor set of
`orchids_api.c`, the pass of the main loop over the handlers (`next_handler`,
`Called`, `Return`), and the modules that change both from a callback:
consoles of `mod_remoteadm.c`, which come and go, the event feedback, and text sockets
that are lost and reconnected.  The kernel gives the lowest free number.

**`Dissectors`** says for each module which slots of its field table a message
fills, whether it posts the result or fails, what it leaks, and what it keeps
(the month of `mod_syslog.c`).  A message is a record of the facts that the code
branches on; no character is scanned.  For netfilter and snare these facts are the
alternatives of the grammars `netfilter.y` and `snare.y`: lines that end early, the line
in brackets that an ICMP message repeats, the objects of each kind of snare event.  **`Pipeline`** starts with the
configuration: one action per directive (`module_config`, `add_module`, `add_cond_dissector`,
`add_vmod` ... ), then `proceed_post_config`, and then posts messages of the
input modules: the recursion of `post_event()` through conditional and
unconditional dissectors, the generic hooks and virtual modules of `mod_generic.c` is the
stack `calls`.

**`ConfigTree`** models `build_config_tree()`: sections, includes, and the ways in
which an error ends a file.  **`Startup`** models `main()` of several
processes that are started with the same configuration, and may crash at any step:
command line, rule files, socket, lock, compilation, change of user.

### Services

**`MetaEvents`** has `new_event()`, `add_field()`, `inject_event()` and
`timeout()`, the queue of injected events and its action in the list that
`EvtMgr` defines (`Loop == INSTANCE EvtMgr`), so that an event may cause an event.
The loop starts with the periodic action of another module, or with none
(`evt_mgr.c:149-168`), and then never serves its list.
**`SharedVars`** has the table of `mod_sharedvars.c` with the ownership of values and
of keys.  **`HtmlOutput`** has the monitor and its renderers: `do_html_output()` forks a
copy of the context, which writes a page at a time (`create_html_file` with the cache),
publishes it as a link and dies, while the monitor goes on, generates reports,
cleans the cache, or is restarted.  `lockfile` counts the lock files of the renderers:
the preconfiguration of a second start (`main.c:123-125`) unlinks the one in use
before this start finds the monitor's lock and ends (`RivalStart`).  Each page shows what its
function prints: that of the queue tests `new_qh` and prints `cur_retrig_qh`, that of the
events prints their references.

## Runs

Each property is a conjunction where several facts belong to one question; the
parts have definitions of their own, with their comments.

| Run | Question | Result |
|---|---|---|
| `engine_chain` | Instances of a synchronized rule compete for two keys and expire.  `ReferencesExact`: are pointers live and the counters of threads and events exact?  `LocksConsistent`: one instance per key, and every lock owned?  `TerminatedIsQuiet`: does a terminal state silence its instance?  `LockReleasedByOwner`: who may release a lock? | holds |
| `engine_rules` | Five rule sets: initial states that are pruned, skipped or terminal, or start an instance twice; e-transitions, several threads per state, `kill_threads()`, `cut()`, marks.  `HeapLive`: are queues, environments and the tree alive?  `EventCleanedUp`: between two events, are there only started instances, no initial threads, no expired thread, and exact statistics?  `QueueInOrder`: are groups committed in order?  `CutEndsSubtree`: does `cut()` end every path through the state that it cuts?  `InjectReturns`: does `inject_event()` return? | holds |
| `engine_fork` | "Flag all thread of a rule instance as killed." (`engine_priv.h:62`) | violated: threads in the new queue are forgotten |
| `engine_cut` | "When a cut is done (killing all child-threads of a state instance)" (`engine_priv.h:160`) | violated: the paths through older siblings of the state end too |
| `evtmgr_loop` | Every configuration, with and without a periodic action and a poll period, all kinds of callbacks.  `ListSound`: is the list sorted, does the branch of a timeout have an action?  `ReconnectScheduled`: is a socket watched or waiting for its reconnection?  `NeverEarly`; `RegisteredIsExecuted`, `ReturnsToSelect`: is every action executed, does the loop return to `select()`? | holds, the last two with the exceptions below |
| `evtmgr_poll` | "registering file polling if needed..." (`mod_textfile.c:372`), to be "multiplexed to the real-time event flow" (`evt_mgr.h:33`) | violated: with text sockets only, the reader polls without a period and no descriptor is ever read |
| `language` | Every operator, nested conditions, splits, calls, absent fields.  `CompiledMeaning`: do the variables and conditions have the values of a reference evaluation of the syntax tree?  `CodeSound`: do jumps land on instructions?  `ValuesOwned`: is nothing freed twice or used after, and what leaks?  `CrashesAsWritten`: does a condition crash only where the rule, read from left to right, operates on an absent field?  `ExecutionEnds`.  `IsKeyMap`: do the three hash tables implement `KeyMap`?  `ToArrayFits`: does `strhash_to_array()` stay in its array?  `NamesResolved`: is each name of a compiled rule resolved within it? | holds |
| `ovm_copy` | "if *var can be freed, we must clone it" (`ovm.c:523`) | violated: `$x = 2 + 2; $y = $x;` frees the value twice |
| `ovm_absent` | "Static conditions (required fields)" (`orchids.h:310`) | violated: a condition that adds an absent field reads the flags of NULL |
| `dissect_lp64` | "key The key value to trig the dissector" (`orchids_api.h:228`) | violated: a port of 4 bytes is never equal to a `long` of 8 |
| `services` | From any order of directives to the injection.  `InjectedOnce`: is each message injected once, and what leaks?  `EventFaithful`: does an event have the fields that its ids name, the text it was made of, the month of its line?  `KeyTriggers`: does a message with the key of a hook reach its dissector, where a `long` has 4 bytes?  `HooksAsConfigured`.  `PagesSound`: how many renderers work at once, is what can be seen complete, does the monitor survive every race?  `PagesFresh`: how stale may a page be?  `InjectedOnceInOrder`, `TimeoutsExpireOnce`: is every event of a rule posted once, in order, in time?  `SharedIsPrivate`: does the table own its values and keys? | holds |
| `inputs` | `BufferSound`, `LinesPosted`, `GivenUpWithReason`: does a text socket post exactly the complete lines?  `LinesReadFaithfully`: does a file?  `DescriptorsSound`: is a callback given its own connection, does a pass stay in the list?  `TreeAsWritten`: is the tree the text?  `StartSound`: one monitor, which is reached, with the rules asked for? | holds |

The six violated runs are the findings of `PROJECT.json`: what a comment
promises and the code does not do.

Several properties state an exception that the code makes necessary, so that they
are as strong as the code allows; the exception is part of the reading:

* `OnlyTestedLeak`: a temporary value that a conditional jump tested is freed by nobody;
* `PagesComplete`: a renderer that is killed while it writes leaves a part of a page, which later ones take for the page;
* `LagsOneIteration`, `ReportsLagOneSecond`: the key of a page is the time of the loop, or a date in seconds.  What
  no key follows is not claimed: the queue, the references on the events page, the list of rules and the detail of an instance;
* `UnnoticedIsSameSecond`: what is written in the second of the last noticed change waits for the next change;
* `WatchedIsHeard`: `reincarnate_fd()` leaves `maxfd` behind;
* `DeafOnlyByRival`: a second start unlinks the socket of the first before it looks for the lock;
* `LostAsWritten`: `generic_dissect()` forgets its attributes when an address is bad, and the line in brackets of
  a netfilter message overwrites those that the line around it has too (`netfilter.y:492-497`);
* `KeysKept`: the key of a deleted shared variable leaks;
* `InstancesCounted`: an instance that several of its initial threads start is counted once for
  each of them and forgotten once (`engine.c:483`); the statistics are exact for rules with `StartsOnce`;
* `OneRenderer`: as many renderers of one monitor may work at once as it has had lock files, one and one more
  for every rival start;
* `RegisteredIsExecuted`, `ReturnsToSelect`: a loop that took no action before it first waited
  serves none until a callback of an action lets it look at the list (`HoldsNothing`), and a reader without a
  poll period leaves nothing to the others (`Spinning`);
* `CrashesAsWritten`: a condition crashes where its rule operates on an absent field without a guard on its left;
* `TimeoutsExpireOnce`: an action may be late by what the loop waits for; in a loop that holds no
  action it waits in the list, as an event does in the queue of `InjectedOnceInOrder`.

### Bounds

| Run | Bounds | Why they are enough |
|---|---|---|
| `engine_chain` | 4 events, 2 keys, a clock up to `MaxTime` with `DEFAULT_TIMEOUT = 1` | threads expire before, during and after an event; a rule with three transitions finishes while another instance waits for the same key and a third one is pruned |
| `engine_rules` | 3 events, 1 key, `MaxTime = 1`, five rule sets | every construct of a state occurs in a rule set; three events are a match, a match of its successor and one after that |
| `evtmgr_*` | `MaxTime = 4`, `Period = 2`, `PollPeriods = {0, 2}`, delays 1 and 3, every configuration; in `evtmgr_poll` text sockets only | two periods; an action whose date is later is never executed, and `ClockExhausted` excludes it from the liveness property |
| `language`, `ovm_*` | words of 6 and 5 bits, 4 microseconds to the second, 2 states | both overflows, the truncation of a `long` to an `int` and the carry of a time are reached |
| `language`, tables | 3 keys, 2 data, 2 buckets, 3 elements; 2 rules, 2 nodes, 2 states | collisions, the same key twice and deletion from the middle of a chain; a name of the first rule in the second |
| `services`, dissectors; `dissect_lp64` | 2 messages, 8 modules, `SizeOfLong` 4 in `services` and 8 in `dissect_lp64` | the second message meets what the first one left |
| `services` | 2 renderers, 3 steps of the clock, 2 built events, 2 timeouts, delays 0 and 1; 2 rules, 2 shared names, 5 values, 4 keys | a renderer of the old monitor meets one of the new; an injected event injects another |
| `inputs` | `MAX_LINE_SZ = 2` with streams of 9 characters; 2 consoles, 1 lost socket, 7 descriptors; 2 files of 2 lines of 1 or 4 pieces, 2 seconds; texts of 4 lines with 2 included files; 3 processes, 6 directives | the buffer is filled, moved and filled again; a number is closed and opened within one pass; sections whose name is a prefix of another; a crash between two rival starts |

The pools of `Engine` are large enough never to be exhausted: with larger ones TLC finds
the same number of states.  Consoles and processes are symmetric in `inputs`.
Deadlock is not checked where the bounded environment may have nothing left to
do; that the sequential code itself never gets stuck are the liveness properties
`InjectReturns`, `ReturnsToSelect` and `ExecutionEnds`.

### Fairness

`FairSpec` of `Engine` is weak fairness of `EngineStep`, the disjunction of the
steps of `inject_event()`: it is sequential code that runs until it returns.
Nothing is assumed of new events or of the clock.  `FairSpec` of `EvtMgr` is weak
fairness of `LoopStep`, for the same reason, and of `Tick`, because time passes.
`LangSpec` of `MCLanguage` is weak fairness of the next instruction of the virtual machine.
No input is ever assumed to come, and no process to survive.

## Proofs

Eight modules of proofs; what they prove is listed under "theorems" in
`PROJECT.json`.  Each invariant below was first checked by TLC, on the
configurations of the runs.

### The engine

The assumptions are `RulesAssumption` (a rule has an initial state, and a
transition leads to a state of its rule) and `BoundsAssumption`, of which the proofs use that
the sizes of the pools are natural numbers, that `NoKey` is not a key, and that
`DEFAULT_TIMEOUT` is positive (`orchids_defaults.h:45`).  The rules, the pools, the
number of events and the time are arbitrary.

**`EngineProofs`** proves `ReferencesAlwaysExact` (`ReferencesExact`) and with it
much of what the engine's memory rests on: nothing that a queue, a thread or a state
instance refers to was freed, and the counters by which the code decides to free
are exact.  The hypothesis is `[]NoInitialThreads`, what
`create_rule_initial_threads()` takes for granted (`engine.c:279`): without it
the theorem is false, see the hazards below.
The inductive invariant `Inv` has a part per idea:

* `Shape`: records and ranges of the fields that the argument is about;
* `Live` and `Queued`: every thread is in exactly one queue, once, and leads to a live
  state instance of a live rule instance;
* `Pointers`: `cur_retrig_qh` and `current_tail` are NULL or live, whatever was freed since they were set;
* `Counted`: `threads` of an instance is the number of its threads, and so is what the
  simulation of a new instance has counted so far (`created`, `ret`), on which
  the decision between linking and dropping rests;
* `Referred`: `refs` of an event is the number of state instances that refer to it, and the
  only event with none is the current one;
* `Control`: which phase has a stack, and that all its frames are of one instance;
* `Initial`: the queue is not walked before the initial threads are merged, and
  only the instance under construction is not linked.

`InstanceFreed` and `ThreadFreed` describe the end of an instance and of a thread once, for all
places that free them; `UnwindStep` the return from a recursive call; `Inductive` has one step per action.

**`EngineLockProofs`** adds the locks: `LocksAlwaysConsistent` (`LocksConsistent`),
`LocksReleasedByOwners` (the action property `LockReleasedByOwner`) and
`EnvironmentsAlwaysAlive` (`EnvironmentAlive`, a part of `HeapLive`).  A lock is removed by looking up its key
again, and the key is read from an environment that points into an event without
being counted.  So the argument is circular unless it is made at once: `Environments`
says that an environment points to an event which a state instance of the *same
rule instance* refers to, or to the current event while nothing started the instance;
that instance is freed as a whole, so the event lives as long as the
environment and the key that is read is the key that was locked.  `Owned` relates the table and
the lists of locks in both directions; `Entered` says that who waits in a synchronized
state holds its lock or binds no key, `Fresh` that nobody knows of a state which is being
entered, `Started` which threads are initial.  Exclusion follows from `Entered`: two
waiting instances with one key would both hold one lock.

**`EngineEventProofs`** removes the hypothesis and proves what one event leaves.

* `Quiet` shows `NoInstanceDropped` for `QuietRules`: no state that the initial one leads to by
  e-transitions (`Behind`) is terminal, and none can meet a lock, because none has a value
  to lock before it waits.  The simulation of a new instance then never gives up after it has
  made a thread.  `QuietRulesAreSafe` is the conjunction of the theorems above without
  the hypothesis.
* `Expiry`: what the loop made or is done with does not expire at the time at which
  `inject_event()` was called; `DEFAULT_TIMEOUT > 0` is used here.
* `Single`, for rules with `StartsOnce`: an instance has at most one initial thread
  (`OneThread`), which is gone once it started the instance (`OneStart`), and the way from the initial state does
  not branch (`OneWay`).  `Counters` are the statistics.  The first version of
  `InstancesCounted` claimed exact counters for every rule; the proof failed at
  `ThreadMatches`, TLC found the counterexample with an initial state of two transitions, and
  the property and the run now have both cases.

Together they are `EventsCleanedUp` (`EventCleanedUp`).

**`EngineHeapProofs`** is about the tree of state instances: `HeapAlwaysLive` (`HeapLive`) and
`WalksEnd`.  Its invariant `Tree` has three parts.  `LinksOK`: parent, child, sibling and marks
stay in the rule instance, so that they go with it; the first child leads back to its
parent and siblings have the same one.  `ListOK`: the list of a state instance holds each thread
that waits there once, and no initial one; `UnlinkedList` shows that unlinking a thread
keeps this.  `Grown`: there are a depth and an order of birth such that a child is deeper than its
parent and a sibling older.  They exist in no variable, so the invariant says that such functions exist,
and `LinksGrow` extends them to a new state instance.  `PathsConsequence` derives `PathsEnd`: every set of
state instances has one without child or sibling in the set, and one without parent in it.  So the
recursion of `do_recursive_cut()`, which sets `SF_PRUNED` and never reads it, and the
walks to the parent of `cut()` and `report()` end.

Its second part is about the order of the queue: `QueueAlwaysInOrder` (`QueueInOrder`), for quiet rules.
The property only speaks of the end of an event, when all threads are in the new queue; `OrderInv` says what
holds in the midst of the loop, where there are three.  `Line`: each queue is in order, and everything in the
new queue is not younger than what waits again, which is not younger than what is still to be processed.
`Groups`: every thread that is still to be processed, and every one of the new queue, has `THREAD_BUMP` or is followed
by one of its rule instance, except the last of the new queue while its instance grows; and those that wait
again are of the instance at the head.  `Births`: the instance that is made now is the youngest.  So a commit
moves the threads of one instance behind all older ones (`GroupCommitted`), a thread without the mark is
followed by one of its own instance (`GroupGoesOn`), and a new thread, which goes to the end of the new queue, is of
the youngest instance or of the one at the head (`YoungestOrHead`, `ThreadJoins`).  A thread that is killed or
expired is freed with its mark and nothing is committed; from then on the order is lost, which is what `uncommitted`
records and why the property excepts it.

### The other components

**`EvtMgrProofs`**, for all sets of actions, all delays, every positive period of the
periodic actions, every set of poll periods (0 among them) and every bound, from `KindsAssumption`, `ConfigsAssumption` and `TimesAssumption`:
`ListAlwaysSound` (`ListSound`, from `TypeCorrect`, `AlwaysSorted` and
`TimeoutSafe`) and `NoEarlyCallback` (the action property `NeverEarly`).
The invariant is `Inv == TypeOK /\ ListSorted /\ Timing`.  `Timing` is what the
properties lack to be inductive: the time of the loop is never in the future;
`select()` has a timeout exactly if an action is held, and then one that is not
before its date; after a timeout the action is due.  The step of `Select` is the
point: the wait is computed from the time at the top of the loop, which may be
old, so that the deadline can be late but not early.
Sortedness rests on `RegisterShape`, which says where `register_rtaction()` puts
an action: everything before is not later, everything after not earlier.  The
walk of the code is `Stop`, the first place where it may stop; that it exists is
`LeastNatural`, derived from the well-foundedness of finite sets.
`CallbackTypes` and `FireTypes` lift it to the callbacks, and `NextInv` has one step
per action.  `ReconnectsAlwaysScheduled` (`ReconnectScheduled`) adds the invariant
`Scheduling`: the ids of the list are distinct, the id that is held is not in the list, a descriptor that
is watched or waits for its reconnection is configured, and it is watched exactly if it does not wait.
`RegisterIds`, `CallbackIds` and `NextActionIds` say which ids an operation adds and removes, `IdsCounted` that
distinct ids in a list are counted by a set; `KindsAssumption` is what keeps the ids of
different modules apart.

**`InputsProofs`** has two parts.  About `TextSock`, for every `MAX_LINE_SZ` and streams of any length,
from `LineAssumption`: `BufferAlwaysSound` (`BufferSound`: the offsets stay in the
buffer, its unread part is the end of the stream, the `memcpy()` does not overlap)
and `GivenUp` (`GivenUpWithReason`: a connection is given up only if it was closed or
if an unfinished line has `MAX_LINE_SZ` characters).  The invariant adds
`IdleIsParsed`, that between two calls everything was parsed.  `MovedKeeps` says that
the move preserves the unread data; `MoveFar`, that it only starts behind the
middle of the buffer, is the reason why it does not overlap.
`LinesAlwaysPosted` (`LinesPosted`: each complete line that is not too long is posted once, whole, in order and with
its number, and no other line is) adds `LineInv`: the buffer starts behind the end of a line, nothing that was
parsed since ends one, and `too_long` is only set for a line that is too long already.
The property speaks of the ends of lines in the part of the stream that was parsed; `StartIn`, `GoodIn` and
`PostedIs` restate it for any set of ends.  `OneMoreLine` is the step of
the argument: an end behind all others leaves the lines before it as they are and adds at most one event.
`ReadLines` and `MoveLines` say that new data and the move change no line, `RestLines` that a rest without an
end is none (`NoLineEnds`), and `EndLines` that the end which `ParseLine` finds is the next one.

About `Descriptors`, for any consoles, sources and limit, from `DescriptorsAreOpened`: `DescriptorsAlwaysSound`
(`DescriptorsSound`).  The assumption says that the names of the two sides differ and that what is opened
at the start, one descriptor for each source and the listening socket, is within the limit; nothing is assumed
of the consoles, so that `Xaccept()` may find no descriptor.  The invariant `DescInv` adds to the types:
`HandlersOwn`, a handler has a connection of its own, and its descriptor stands for it, from which
`OneHandlerEach` follows; `WatchedHave`, what is watched has a handler, and a lost source is not watched until it
is connected again; and `PassOK`, the heart of the argument: the pass is at a place of the
list, the handlers from there on whose descriptors `select()` returned can still be read, and inside a
callback `next` is the owner of the next place.  It is needed because a console may be closed and its number given
to a new connection within one pass: the new handler is then at the head of the list (`Prepended`), where the pass
has been, and `ClosedDesc` and `ReturnPass` show that removing the handler at the current place leaves the
places behind it.  `LowestIsFree` is the choice of the kernel.

**`StartupProofs`**, for every number of processes, every configuration, every
command line and a crash at any step, from `MonitorsAssumption` (the name of
nobody is not that of a process) and `ConfigAssumption` (a configuration and a
command line are sequences): `StartAlwaysSound` (`StartSound`).  The invariant
has two halves.  `LockInv` is `ProcOK` (what a process is), `Progress` (past the
configuration every directive was executed, and the lock file is that of
`IsLockFile`: the last one given before the current directive, or the default), `LockOK`
(the locks are exactly those of the processes past `orchids_lock()`, on distinct
files) and `PathOK`.  `OneLockFile` says that `IsLockFile` determines the file.  So two
processes of one configuration that are both past the lock would hold locks on
the same file, which `LockOK` excludes: this is `OneIsEnough`.  The test before
the lock (`lock_test`) is not used by the argument, as it should be, because
another process may run between the two.  `RulesInv` says what the list of rule
files is before each directive: `Place` counts the directives of rule files
up to one, `ListGrows` is the insertion behind `last_rulefile`, and `FoundList`
that a freed name leaves the places of the others.

**`ServicesProofs`** has three parts.  About `SharedVars`, for any number of rules, names, values and keys,
from `SharedAssumption`: `SharedAlwaysPrivate` (`SharedIsPrivate`).  The invariant adds
to the property `RulesOwn` (the value of a rule is its own and is
freed by the virtual machine), `KeysDistinct`, from which the equation between
the copies of names, the names in use and the deletions follows by cardinalities,
and `Cloneable`: what was cloned into the table can be cloned out of it, so that
`get_shared_var()` never gives a NULL.

About `MetaEvents`, for any number of rules, injections and timeouts, from `TimesAreNumbers` (the period and the delays
are natural numbers), and for a loop that starts with a periodic action of another module or with none:
`InjectedAlwaysInOrder` (`InjectedOnceInOrder`) and `TimeoutsAlwaysExpireOnce`
(`TimeoutsExpireOnce`).  The invariant is `MetaInv \/ Dormant`: a loop either holds an action from its
start on, or it never takes one, posts nothing that waits, and keeps every event and timeout in its place
(`Dormant`).  `MetaInv` has six parts.  `Served` ties the callback that runs to the action that the
loop waited for; `OneOwner` says that an event belongs to one rule or was injected; `PlaceByPlace`, that what
was posted and what waits are the injections in their order.  `Timeline` is what the delays need: the list is
sorted, nothing in it is late by more than a period, one of its actions or the awaited one comes back
before a period is over (`Scheduled`), a queue that is not empty has its action, which is due (`InjectionDue`),
no injected event waits longer than a period (`InTime`), and the date of a timeout is that of its attributes.
`TimeoutsCounted` says of every call that it waits, is served or expired, as often as it was made.
The walk of `register_rtaction()` is proved about here for the list of this module
(`RegisterShape`, `RegisterWaits`, `TakenIsFirst`), and `CountInserted`, `CountTaken` and `CountAppended`
say how the operations change the number of occurrences in a list, by bijections between places.
Every injection registers an action and the callback registers again while events wait, so that there may be
more actions than events: an action that finds the queue empty does nothing, which is why the invariant counts
events by their places and not by their actions.

About `HtmlOutput`, for any renderers, instances and limits, from `InstancesAssumption` (the pages of an instance are a
sequence of names, its times are positive and its restarts a number): `PagesAlwaysSound` (`PagesSound`).  `HtmlInv` has five parts beside
types.  `LocksApart`: two renderers never hold one lock file, and one that the current monitor forked holds one
of those that were there since this monitor started.  A restart or a rival start makes a new file; a restart also has
a later start date, so that a renderer which outlived its monitor is told apart and does not count.  `LocksBound`
counts: renderers on distinct lock files are no more than these files, which is `OneRenderer`, and `RivalPages` is the
step of a rival start, after which one more may work.
`Written`: unless a renderer was killed, a file that is not
complete is being written by somebody.  `NamesLead`: a name or a link never outlives its file.
`CleanupSafe`: only the cleanup removes names, so that what it chose is there when it
removes it, although renderers add names between the two.  Each step of a renderer is shown to keep the invariant
for the other renderers too; that pages are fresh (`PagesFresh`) is only checked.

### Only model-checked

Of `Engine`: `TypeOK` beyond what `Shape` and `LockShape` say, `TerminatedIsQuiet`,
`CutEndsSubtree` and `InjectReturns`.  Everything about `Ovm`, `RuleBuilder`, `HashTables` (with its refinement
of `KeyMap`), `Pipeline`, `TextFiles` and
`ConfigTree`; `PagesFresh`, and the liveness of `EvtMgr`.  Two kinds of facts are out of the prover's
reach: liveness under fairness (and ENABLED), and induction over data, which is
what `CompiledMeaning`, `TreeAsWritten` and `LinesReadFaithfully` need,
since their references are recursive over the stream, the syntax tree or the
text.  Modules with a RECURSIVE operator are only checked.

## Plan

Done: all components that keep state of their own are modelled; the heap, the locks, the queue
and the end of an event of the engine, the event manager, the line reader of sockets and what it posts, the input descriptors, the
start, the shared variables, the events that rules make and the pages are proved.  Left, in this order:

1. `TypeOK` of `Engine`, and `TerminatedIsQuiet` under a hypothesis: the run `engine_fork` shows that it
   is false of rules whose states have several transitions, `engine_chain` that it holds of chains.
2. `HashTables` implements `KeyMap`: the step of each operation under the mapping.
3. `PagesFresh` of `HtmlOutput`: the keys of the pages.
4. A composition of `Engine` with `MetaEvents`, so that the events a rule injects
   are matched by another.

## Hazards that no property covers

`PROJECT.json` lists the forty that matter most.  The others, and why no property
is about them:

* `engine.c:279`: an initial state that creates a thread and then meets a terminal state
  or a lock is freed with its thread in the queue.  `NoInstanceDropped` proves that rules
  with `QuietRule` never do; all rules of the runs are quiet (`QuietAssumption`).
* `engine.c:343`: the test for the shortest run looks at the destination of a
  transition and not at the states behind an e-transition; nothing is stated about it.
* `engine.c:524`: an initial thread is freed after its transition was tried, while the queue is walked and its
  environment may refer to the event.  `HeapLive` and `EventCleanedUp` are about it; it is the forty-first.
* `engine.c:442`, `html_output.c:771`, `html_output.c:1369`, 1387 and 1457: the list of rules, the detail of an
  instance, the page of the queue, which tests `new_qh` and prints `cur_retrig_qh`, and the
  references on the page of the events are keyed by something else than what is shown.
  `PagesFresh` is about the rest.
* `ovm.c:857`, `lang.c:726`, `lang.c:384`: a value that a jump tested leaks (`OnlyTestedLeak`); some
  operations crash on values of types that do not fit.  `Values` has the crash, and
  `CrashesAsWritten` compares those of conditions with the reference; an action may crash.
* `lang.c:180`: integers `2^32` apart compare as equal, in the reference too.  `lang.c:638`: a text
  on the left compares as equal to one that begins with it; no program of the run compares two such texts.
* `rule_compiler.c:1676`: an array of 16 places without a test, which the model does not reach.
* `mod_generic.c:159`: a virtual module that is hooked to itself would be called without end; no
  configuration hooks a virtual module to one.
* `mod_sharedvars.c:126`: the flags of a clone that is NULL are written; `SharedVars` stops there.
  `mod_sharedvars.c:121`, `lang.c:704`: a mark cannot be stored for this reason; a text that points into
  an event can, and the models abstract from texts.
* `mod_metaevent.c:150`: a rule that answers every meta-event with another one keeps the loop from
  its inputs; `mod_metaevent.c:64`: an event that is never injected leaks.
* `orchids_cfg.c:556`: a file that includes itself is read without end;
  `orchids_cfg.c:1143`: `DISSECT` on a module without fields; `orchids_cfg.c:823`: modules whose
  name has digits cannot be named.  The configurations have none of these.
* `mod_remoteadm.c:413` and 429: a reset connection ends the process, and a command is what one `read()` returns.
  The commands are not modelled.
* `mod_textfile.c:213`: the buffer of a lost connection is continued by the next one.  No document says
  what should happen; `LinesPosted` is about the stream of both.
* `mod_rawsnare.c:169`: the number of a call indexes a table; the numbers are not modelled.

## Not modelled

* `period.c` and `mod_clocks.c`: most of them is inside `#ifdef UNUSED` or `#if 0`; the
  rest is floating-point arithmetic on dates and output for gnuplot.
* Containers without a caller (`queue.c`, `ringqueue.c`, `list.c`, `objpool.c`, `dlist.c`) and
  the resizing of the hash tables, which nothing calls.
* `mod_win32evt.c` (`#ifdef UNUSED`), `mod_sunbsm.c` and `mod_cisco.c`, which register no dissector.
* Reports and external libraries: prelude, iodef, idmef, XML, Prolog.
* Output: printing in `lang.c`, the dump of byte code in `ovm.c`, consoles, `mod_stats.c`,
  `mod_ruletrace.c`; logging and wrappers of library calls.
* `daemonize()`, and directives that only store a number or a name for the kernel
  (`Nice`, `MaxMemorySize`, `ResolveIP`, `ModuleDir`, the preprocessor).
* In `file_cache.c` and `html_output.c`, the flush of the cache and the lookup of files, mostly without callers.
* In `Engine`: the dates of the last activity, the hooks before and after an injection, more than one variable per rule, and the
  exhaustion of memory, which ends the process.  In `EvtMgr`: signals that interrupt
  `select()`, the exit when it fails, and `poll_handler_list`: `mod_textfile.c:358` and
`mod_metaevent.c:186` register handlers there, but the main loop only asks whether there
are any (`evt_mgr.c:127`) and never calls one.
