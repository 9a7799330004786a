------------------------------ MODULE Startup ------------------------------
(* The start of orchids (src/src/main.c): the command line, the pass over   *)
(* the configuration, which has effects outside of the process (a socket of *)
(* mod_sockunix is unlinked and bound), the lock (src/src/orchids_api.c),   *)
(* the compilation of the rule files and the change of user.  Several       *)
(* processes are started with the same configuration, and any may crash.    *)
EXTENDS Naturals, Sequences, FiniteSets

CONSTANTS
    Monitors,       \* processes
    Config,         \* the directives of the configuration, in order
    CmdLines,       \* the rule files of -r that a process may be started with
    Default,        \* DEFAULT_ORCHIDS_LOCKFILE, and the user that starts orchids
    NoFile          \* what a name is that was freed and used again

ASSUME MonitorsAssumption == "nobody" \notin Monitors
ASSUME ConfigAssumption ==
    /\ Config \in Seq({Config[k] : k \in DOMAIN Config})
    /\ \A r \in CmdLines : r \in Seq({r[k] : k \in DOMAIN r})

VARIABLES
    proc,           \* of each process
    path,           \* the process whose socket the path leads to, or none
    lock            \* the processes that hold a write lock

startVars == <<proc, path, lock>>

Nobody == "nobody"
Fresh == [phase |-> "none", dir |-> 1, rules |-> <<>>, last |-> 0, r |-> <<>>,
          online |-> TRUE, bound |-> FALSE, rival |-> FALSE,
          lockfile |-> Default, user |-> Default]

At(m, phase) == proc[m].phase = phase
Goes(m, phase) == proc' = [proc EXCEPT ![m].phase = phase]
Running(m) == proc[m].phase \notin {"none", "gone"}

\* exit(), a crash, and the end of main(): the kernel frees the lock.
Exits(m) ==
    /\ proc' = [proc EXCEPT ![m].phase = "gone"]
    /\ lock' = lock \ {m}
    /\ UNCHANGED path
Crash(m) == Running(m) /\ Exits(m)

----------------------------------------------------------------------------
(* The list of rule files                                                   *)

RuleFile(name, ok) == [name |-> name, kept |-> ok]

\* The list with an entry after the last one, which last_rulefile points to.
Inserted(p, e) ==
    [p EXCEPT !.rules = SubSeq(p.rules, 1, p.last) \o <<e>>, !.last = p.last + 1]

\* -r makes a new list each time, and the mode offline.
parse_cmdline(m) ==
    /\ At(m, "none")
    /\ \E r \in CmdLines :
         proc' = [proc EXCEPT ![m] =
                    [Fresh EXCEPT !.phase = "pre_config", !.r = r, !.online = (r = <<>>),
                                  !.rules = IF r = <<>> THEN <<>> ELSE <<RuleFile(r[Len(r)], TRUE)>>,
                                  !.last = IF r = <<>> THEN 0 ELSE 1]]
    /\ UNCHANGED <<path, lock>>

----------------------------------------------------------------------------
(* proceed_pre_config(): the directives, and nothing when offline.          *)

Directive(m, is) ==
    At(m, "pre_config") /\ proc[m].online /\ proc[m].dir <= Len(Config) /\ Config[proc[m].dir].is = is
Done(p) == [p EXCEPT !.dir = @ + 1]

add_rule_file(m) ==
    /\ Directive(m, "AddRuleFile")
    /\ proc' = [proc EXCEPT ![m] = Done(Inserted(@, RuleFile(Config[@.dir].name, TRUE)))]
    /\ UNCHANGED <<path, lock>>

\* SetLockFile, RuntimeUser: the last one given holds.
set_lock_file(m) ==
    /\ Directive(m, "SetLockFile")
    /\ proc' = [proc EXCEPT ![m] = Done([@ EXCEPT !.lockfile = Config[proc[m].dir].name])]
    /\ UNCHANGED <<path, lock>>
set_runtime_user(m) ==
    /\ Directive(m, "RuntimeUser")
    /\ proc' = [proc EXCEPT ![m] = Done([@ EXCEPT !.user = Config[proc[m].dir].name])]
    /\ UNCHANGED <<path, lock>>

\* The names are those of globbuf, which globfree() frees.
add_rule_files(m) ==
    /\ Directive(m, "AddRuleFiles")
    /\ proc' = [proc EXCEPT ![m] = Done(Inserted(@, RuleFile(Config[@.dir].name, FALSE)))]
    /\ UNCHANGED <<path, lock>>

\* create_sockunix_socket(): unlink(), and then Xbind(), which exits when
\* another process has bound the path meanwhile.
Unlinked == [q \in Monitors |-> [proc[q] EXCEPT !.rival = @ \/ path = q]]

create_sockunix_socket_binds_first(m) ==
    /\ Directive(m, "AddUnixSocket")
    /\ proc' = [proc EXCEPT ![m] = Done([@ EXCEPT !.bound = TRUE])]
    /\ path' = Nobody
    /\ UNCHANGED lock
create_sockunix_socket(m) ==
    /\ Directive(m, "AddUnixSocket")
    /\ proc' = [Unlinked EXCEPT ![m].phase = "bind"]
    /\ path' = Nobody
    /\ UNCHANGED lock
Xbind(m) ==
    /\ At(m, "bind")
    /\ \/ /\ path = Nobody
          /\ path' = m
          /\ proc' = [proc EXCEPT ![m] = Done([@ EXCEPT !.phase = "pre_config", !.bound = TRUE])]
          /\ UNCHANGED lock
       \/ path # Nobody /\ Exits(m)

PreConfigured(m) == At(m, "pre_config") /\ (proc[m].online => proc[m].dir > Len(Config))

----------------------------------------------------------------------------
(* orchids_lock(): the test, and then the lock itself.                      *)

Others(m) == {n \in lock \ {m} : proc[n].lockfile = proc[m].lockfile}

lock_test(m) ==
    /\ PreConfigured(m)
    /\ \/ Others(m) # {} /\ Exits(m)
       \/ Others(m) = {} /\ Goes(m, "lock") /\ UNCHANGED <<path, lock>>

Write_lock(m) ==
    /\ At(m, "lock")
    /\ \/ Others(m) # {} /\ Exits(m)
       \/ Others(m) = {} /\ Goes(m, "post_config") /\ lock' = lock \cup {m} /\ UNCHANGED path

----------------------------------------------------------------------------
(* The rest of main()                                                       *)

\* The names as the compiler reads them: one that was freed can be any.
Found(rules) ==
    [k \in DOMAIN rules |-> IF rules[k].kept THEN rules[k] ELSE RuleFile(NoFile, FALSE)]

\* proceed_post_config(), and compile_rules(): a file that cannot be opened
\* ends the process.
compile_rules(m) ==
    /\ At(m, "post_config")
    /\ \/ Goes(m, "post_compil") /\ UNCHANGED <<path, lock>>
       \/ /\ \E k \in DOMAIN proc[m].rules : ~proc[m].rules[k].kept
          /\ \/ Exits(m)
             \/ /\ proc' = [proc EXCEPT ![m] = [@ EXCEPT !.phase = "post_compil", !.rules = Found(proc[m].rules)]]
                /\ UNCHANGED <<path, lock>>

\* proceed_post_compil() and change_run_id(); a user that does not exist, or
\* cannot be changed to, ends the process.
change_run_id(m) ==
    /\ At(m, "post_compil")
    /\ \/ Goes(m, "main") /\ UNCHANGED <<path, lock>>
       \/ proc[m].user # Default /\ Exits(m)

\* Only an online process stays in the main loop.
ReturnFromMain(m) == At(m, "main") /\ ~proc[m].online /\ Exits(m)

StartInit ==
    /\ proc = [m \in Monitors |-> Fresh]
    /\ path \in {Nobody, "stale"} /\ lock = {}

StartNext ==
    \E m \in Monitors :
        \/ parse_cmdline(m) \/ add_rule_file(m) \/ add_rule_files(m)
        \/ set_lock_file(m) \/ set_runtime_user(m)
        \/ create_sockunix_socket(m) \/ Xbind(m)
        \/ lock_test(m) \/ Write_lock(m)
        \/ compile_rules(m) \/ change_run_id(m) \/ ReturnFromMain(m)
        \/ Crash(m)

StartSpec == StartInit /\ [][StartNext]_startVars

----------------------------------------------------------------------------
(* Properties                                                               *)

PastLock(m) == proc[m].phase \in {"post_config", "post_compil", "main"}

StartTypeOK ==
    /\ path \in Monitors \cup {Nobody, "stale"} /\ lock \subseteq Monitors
    /\ \A m \in Monitors : Len(proc[m].rules) = proc[m].last

\* orchids_lock(): however the starts and the crashes of processes follow one
\* another, at most one that was started with the configuration is past the
\* lock, and at most one with -r, which has the default lock file.
OneMonitor ==
    \A m, n \in Monitors :
        PastLock(m) /\ PastLock(n) /\ proc[m].online = proc[n].online => m = n

\* create_sockunix_socket(): a monitor in its main loop is reached through
\* the path of its socket, unless another start has unlinked the path since,
\* which a start does before it looks for the lock.
DeafOnlyByRival ==
    \A m \in Monitors : At(m, "main") /\ proc[m].bound => path = m \/ proc[m].rival

Asked(m) ==
    IF proc[m].online THEN [k \in {j \in DOMAIN Config : Config[j].is \in {"AddRuleFile", "AddRuleFiles"}} |-> Config[k]]
    ELSE [k \in {Len(proc[m].r)} |-> [is |-> "AddRuleFile", name |-> proc[m].r[k]]]

\* A process that has compiled its rules has compiled each file that was
\* asked for, in order, once: those of the configuration, or the last -r.
\* What came by AddRuleFiles may be another name by then.
CompiledAsAsked ==
    \A m \in Monitors : proc[m].phase \in {"post_compil", "main"} =>
        LET asked == DOMAIN Asked(m)
            Rank(k) == Cardinality({j \in asked : j <= k})
        IN  /\ Len(proc[m].rules) = Cardinality(asked)
            /\ \A k \in asked : Asked(m)[k].is = "AddRuleFiles"
                                \/ proc[m].rules[Rank(k)].name = Asked(m)[k].name

\* A start gives one monitor, with the rules it was asked to compile, that the
\* senders reach.
StartSound == StartTypeOK /\ OneMonitor /\ DeafOnlyByRival /\ CompiledAsAsked
=============================================================================
