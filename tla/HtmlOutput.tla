----------------------------- MODULE HtmlOutput -----------------------------
(* The pages of mod_htmlstate (src/src/modules/html_output.c) and their     *)
(* cache (file_cache.c).  The monitor forks a renderer every 20 seconds and *)
(* cleans the cache every 60 seconds; the renderer works on the copy of the *)
(* context that fork() gave it, one page after the other, while the monitor *)
(* goes on, cleans the cache, forks report writers, or is restarted.  A     *)
(* page is a file whose name holds a key; a hard link with a fixed name     *)
(* publishes it.  Functions of util/safelib.c that fail end their process.  *)
EXTENDS Naturals, Sequences, FiniteSets

CONSTANTS
    Renderers,     \* the processes that html_output() forks
    Instances,     \* what is rendered, in the order of do_html_output(), and bounds
    PerSecond,     \* iterations of the main loop within a second
    FileLimit,     \* files of one prefix that a cleanup keeps
    NoFile         \* a link that is not there

\* The pages of an instance are a list, and its bounds let it start.
ASSUME InstancesAssumption ==
    /\ PerSecond \in Nat \ {0}
    /\ \A x \in Instances : x.pages \in Seq(STRING) /\ x.time \in Nat \ {0} /\ x.restarts \in Nat

VARIABLES
    inst,          \* the instance: its pages, its directory, its bounds
    now,           \* the time: the number of main loop iterations
    hctx,          \* what the pages show of the context, and its dates
    reports,       \* the files of the directory reports/: id -> second, done
    dirTime,       \* st_mtime of that directory
    cache,         \* name -> file
    file,          \* file -> what it shows, whether it is complete, st_mtime
    link,          \* number of a page -> the file that its hard link names
    proc,          \* the renderers
    clean,         \* the cleanup of the monitor
    lockfile,      \* the lock file that is there now
    killed         \* renderers that a signal ended

htmlVars == <<inst, now, hctx, reports, dirTime, cache, file, link, proc,
              clean, lockfile, killed>>

pages == inst.pages
Sec == now \div PerSecond

----------------------------------------------------------------------------
(* The context.  hist[c] gives, for every change of c, the iteration that   *)
(* it happened in.                                                          *)

Shown == {"posts", "insts", "kept"}

\* lock is the lock file that was there when the monitor started.
StartContext(dir, t, lock) ==
    [up |-> TRUE, dir |-> dir, start |-> t, lock |-> lock, cur_loop_time |-> t,
     last_ruleinst_act |-> t, new_last_act |-> 0, last_evt_act |-> t,
     hist |-> [c \in Shown |-> <<>>]]

Version(c, s) == Len(s.hist[c])

Changed(s, c) == [s EXCEPT !.hist[c] = Append(@, s.cur_loop_time)]

Transition(s) == [Changed(s, "insts") EXCEPT !.last_ruleinst_act = s.cur_loop_time,
                                                !.new_last_act = s.cur_loop_time]
Reap(s) == [Changed(s, "insts") EXCEPT !.last_ruleinst_act = s.cur_loop_time]
Keep(s) == [Changed(s, "kept") EXCEPT !.last_evt_act = s.cur_loop_time]

\* What the injection of one event may do to the context.  The end of an
\* instance lowers the references of the events that stay, and sets
\* last_evt_act only when it is the end of one of them.
Effects(s) == {s, Transition(s), Keep(Transition(s)), Reap(s), Keep(Reap(s))}

----------------------------------------------------------------------------
(* The pages                                                                *)

(* Every generator: the key in the file name, the part of the context that  *)
(* it prints, and how the page is published.                                *)

Published(key, part) == [key |-> key, part |-> part, how |-> "link"]
InDirectory(key, part) == [key |-> key, part |-> part, how |-> "cached"]
Rewritten(part) == [key |-> 0, part |-> part, how |-> "NO_CACHE"]

generate_html_orchids_modules(s) == Published(s.cur_loop_time, {"posts"})
generate_html_orchids_fields(s) == Published(s.start, {})
generate_html_orchids_functions(s) == Published(s.start, {})
generate_html_orchids_stats(s) == Published(now, Shown)
generate_html_orchids_datatypes(s) == Published(s.start, {})
fprintf_rule_dot(s) == InDirectory(0, {})
generate_html_rules(s) == InDirectory(0, {})
generate_html_rule_list(s) == Published(s.start, {"insts"})
fprintf_rule_instance_dot(s) == InDirectory(s.new_last_act, {"insts"})
generate_html_rule_instances(s) == InDirectory(s.new_last_act, {})
generate_html_rule_instance_list(s) == Published(s.last_ruleinst_act, {"insts"})
\* It asks whether new_qh is empty and prints cur_retrig_qh, which every event
\* may replace.
generate_html_thread_queue(s) == Published(s.last_ruleinst_act, {"posts"})
\* The references of an event are printed with it.
generate_html_events(s) == Published(s.last_evt_act, {"kept", "insts"})
generate_html_report_list_once(s) == Published(s.start, {})
generate_html_report_list(s) == Published(dirTime, {})
generate_html_config(s) == Rewritten({})
generate_html_menu(s) == Rewritten({})

Generator(p, s) ==
    CASE p = "modules" -> generate_html_orchids_modules(s)
      [] p = "fields" -> generate_html_orchids_fields(s)
      [] p = "functions" -> generate_html_orchids_functions(s)
      [] p = "stats" -> generate_html_orchids_stats(s)
      [] p = "datatypes" -> generate_html_orchids_datatypes(s)
      [] p = "rule_dot" -> fprintf_rule_dot(s)
      [] p = "rule_html" -> generate_html_rules(s)
      [] p = "rule_list" -> generate_html_rule_list(s)
      [] p = "ruleinst_dot" -> fprintf_rule_instance_dot(s)
      [] p = "ruleinst_html" -> generate_html_rule_instances(s)
      [] p = "ruleinsts" -> generate_html_rule_instance_list(s)
      [] p = "thread_queue" -> generate_html_thread_queue(s)
      [] p = "events" -> generate_html_events(s)
      [] p = "reports" -> generate_html_report_list(s)
      [] p = "config" -> generate_html_config(s)
      [] p = "menu" -> generate_html_menu(s)

Body(p, s) ==
    [versions |-> [c \in Generator(p, s).part |-> Version(c, s)],
     listed |-> IF p = "reports" THEN DOMAIN reports ELSE {}]

Blank == [body |-> [versions |-> <<>>, listed |-> {}], done |-> FALSE, mtime |-> 0]

----------------------------------------------------------------------------
(* The renderer                                                             *)

Idle(pc) == [pc |-> pc, i |-> 0, ctx |-> StartContext(TRUE, 0, 0), lockfile |-> 0,
             key |-> 0, fd |-> NoFile, there |-> {}]

Rendering(r) == proc[r].pc \in {"stat", "create", "write", "unlink", "link"}
Page(r) == pages[proc[r].i]
Name(r) == <<Page(r), proc[r].key>>
How(r) == Generator(Page(r), proc[r].ctx).how
Put(f, x, v) == [y \in DOMAIN f \cup {x} |-> IF y = x THEN v ELSE f[y]]

\* The state of a renderer that turns to page i, or exits after the last one.
AtPage(pr, i) ==
    IF i > Len(pages) THEN Idle("end")
    ELSE [pr EXCEPT !.i = i, !.pc = "stat", !.fd = NoFile, !.there = DOMAIN reports,
                    !.key = Generator(pages[i], pr.ctx).key]

NextPage(r) == proc' = [proc EXCEPT ![r] = AtPage(proc[r], proc[r].i + 1)]
Step(r, pc) == proc' = [proc EXCEPT ![r].pc = pc]
XExit(r) == proc' = [proc EXCEPT ![r] = Idle("end")]

do_html_output_unlocked(r) ==
    /\ proc[r].pc = "lock"
    /\ proc' = [proc EXCEPT ![r] = AtPage([@ EXCEPT !.lockfile = lockfile], 1)]
    /\ UNCHANGED <<inst, now, hctx, reports, dirTime, cache, file, link, clean, lockfile, killed>>
\* The lock is tried, not waited for: who does not get it leaves.
do_html_output(r) ==
    /\ proc[r].pc = "lock"
    /\ IF \E s \in Renderers \ {r} : Rendering(s) /\ proc[s].lockfile = lockfile
       THEN XExit(r)
       ELSE proc' = [proc EXCEPT ![r] = AtPage([@ EXCEPT !.lockfile = lockfile], 1)]
    /\ UNCHANGED <<inst, now, hctx, reports, dirTime, cache, file, link, clean, lockfile, killed>>
\* stat(): a file that is there is touched and used as it is.
fopen_cached(r) ==
    /\ proc[r].pc = "stat"
    /\ IF How(r) # "NO_CACHE" /\ Name(r) \in DOMAIN cache
       THEN /\ file' = [file EXCEPT ![cache[Name(r)]].mtime = Sec]
            /\ IF How(r) = "link" THEN Step(r, "unlink") ELSE NextPage(r)
       ELSE Step(r, "create") /\ UNCHANGED file
    /\ UNCHANGED <<inst, now, hctx, reports, dirTime, cache, link, clean, lockfile, killed>>

\* fopen(name, "w"): the file is made, or emptied when it is there.
create_html_file(r) ==
    /\ proc[r].pc = "create"
    /\ LET f == IF Name(r) \in DOMAIN cache THEN cache[Name(r)] ELSE <<Page(r), proc[r].key, r>>
       IN  /\ cache' = Put(cache, Name(r), f)
           /\ file' = Put(file, f, [Blank EXCEPT !.mtime = Sec])
           /\ proc' = [proc EXCEPT ![r].pc = "write", ![r].fd = f]
    /\ UNCHANGED <<inst, now, hctx, reports, dirTime, link, clean, lockfile, killed>>

\* The body of the page, and Xfclose().  The file may have lost its name.
generate_page(r) ==
    /\ proc[r].pc = "write"
    /\ file' = [file EXCEPT ![proc[r].fd] = [body |-> Body(Page(r), proc[r].ctx),
                                             done |-> TRUE, mtime |-> Sec]]
    /\ IF How(r) = "link" THEN Step(r, "unlink") ELSE NextPage(r)
    /\ UNCHANGED <<inst, now, hctx, reports, dirTime, cache, link, clean, lockfile, killed>>
\* generate_htmlfile_hardlink(): unlink(), then Xlink().
unlink(r) ==
    /\ proc[r].pc = "unlink"
    /\ link' = [link EXCEPT ![proc[r].i] = NoFile]
    /\ Step(r, "link")
    /\ UNCHANGED <<inst, now, hctx, reports, dirTime, cache, file, clean, lockfile, killed>>

Xlink(r) ==
    /\ proc[r].pc = "link"
    /\ IF Name(r) \in DOMAIN cache /\ link[proc[r].i] = NoFile
       THEN link' = [link EXCEPT ![proc[r].i] = cache[Name(r)]] /\ NextPage(r)
       ELSE XExit(r) /\ UNCHANGED link
    /\ UNCHANGED <<inst, now, hctx, reports, dirTime, cache, file, clean, lockfile, killed>>

\* A signal ends the renderer: nothing is undone.
KillRenderer(r) ==
    /\ proc[r].pc \notin {"none", "end"}
    /\ killed < inst.kills
    /\ killed' = killed + 1
    /\ XExit(r)
    /\ UNCHANGED <<inst, now, hctx, reports, dirTime, cache, file, link, clean, lockfile>>

Render(r) ==
    \/ do_html_output(r) \/ fopen_cached(r) \/ create_html_file(r)
    \/ generate_page(r) \/ unlink(r) \/ Xlink(r) \/ KillRenderer(r)

----------------------------------------------------------------------------
(* The monitor                                                              *)

Up == hctx.up /\ clean.i = 0
InLoop == Up /\ hctx.cur_loop_time # hctx.start

\* The top of the main loop: cur_loop_time is the time of this iteration.
Iterate ==
    /\ Up
    /\ now < inst.time
    /\ now' = now + 1
    /\ hctx' = [hctx EXCEPT !.cur_loop_time = now + 1]
    /\ UNCHANGED <<inst, reports, dirTime, cache, file, link, proc, clean, lockfile, killed>>

inject_one ==
    /\ InLoop
    /\ Version("posts", hctx) < inst.changes
    /\ hctx' \in Effects(Changed(hctx, "posts"))
    /\ UNCHANGED <<inst, now, reports, dirTime, cache, file, link, proc, clean, lockfile, killed>>

\* rtaction_html_regeneration(): without a directory nothing is rendered.
html_output(r) ==
    /\ InLoop
    /\ hctx.dir
    /\ proc[r].pc = "none"
    /\ proc' = [proc EXCEPT ![r] = [Idle("lock") EXCEPT !.ctx = hctx]]
    /\ UNCHANGED <<inst, now, hctx, reports, dirTime, cache, file, link, clean, lockfile, killed>>

\* The process that report() forks makes the file of its report.
generate_html_report(id) ==
    /\ InLoop
    /\ hctx.dir
    /\ id \notin DOMAIN reports
    /\ reports' = Put(reports, id, Sec)
    /\ dirTime' = Sec
    /\ UNCHANGED <<inst, now, hctx, cache, file, link, proc, clean, lockfile, killed>>

CachePrefixes == <<{"modules"}, {"fields"}, {"stats"}, {"rule_list"}, {"rule_dot", "rule_html"},
              {"ruleinsts"}, {"ruleinst_dot", "ruleinst_html"}, {"thread_queue"},
              {"events"}, {"reports"}>>
NotCleaning == [i |-> 0, victims |-> {}, scanned |-> FALSE]

\* The first prefix from i on that this instance has pages of.
PrefixFrom(i) ==
    LET left == {j \in i..Len(CachePrefixes) : \E k \in DOMAIN pages : pages[k] \in CachePrefixes[j]}
    IN  IF left = {} THEN NotCleaning
        ELSE [i |-> CHOOSE j \in left : \A k \in left : j <= k, victims |-> {}, scanned |-> FALSE]

\* rtaction_html_cache_cleanup(): Xrealpath(NULL) ends the monitor.
html_output_cache_cleanup ==
    /\ InLoop
    /\ IF hctx.dir THEN clean' = PrefixFrom(1) /\ UNCHANGED hctx
       ELSE hctx' = [hctx EXCEPT !.up = FALSE] /\ UNCHANGED clean
    /\ UNCHANGED <<inst, now, reports, dirTime, cache, file, link, proc, lockfile, killed>>

\* scandir() sorts the files of the prefix, the newest first; the first ones
\* stay, as many as the limits of number, size and age allow.
cache_gc ==
    /\ clean.i # 0 /\ ~clean.scanned
    /\ LET there == {n \in DOMAIN cache : n[1] \in CachePrefixes[clean.i]}
       IN  \E stay \in SUBSET there :
             /\ Cardinality(stay) <= FileLimit
             /\ \A n \in stay, m \in there \ stay : file[cache[n]].mtime >= file[cache[m]].mtime
             /\ clean' = [clean EXCEPT !.victims = there \ stay, !.scanned = TRUE]
    /\ UNCHANGED <<inst, now, hctx, reports, dirTime, cache, file, link, proc, lockfile, killed>>

\* Xunlink() of what the scan chose; a name that is gone ends the monitor.
Xunlink ==
    /\ clean.scanned
    /\ IF clean.victims \subseteq DOMAIN cache
       THEN /\ cache' = [n \in DOMAIN cache \ clean.victims |-> cache[n]]
            /\ clean' = PrefixFrom(clean.i + 1)
            /\ UNCHANGED hctx
       ELSE hctx' = [hctx EXCEPT !.up = FALSE] /\ clean' = NotCleaning /\ UNCHANGED cache
    /\ UNCHANGED <<inst, now, reports, dirTime, file, link, proc, lockfile, killed>>

\* The monitor is ended and started again; html_output_preconfig() removes
\* the lock file, and the renderers of the old monitor go on.
Restart ==
    /\ Up
    /\ now < inst.time
    /\ lockfile <= inst.restarts
    /\ lockfile' = lockfile + 1
    /\ now' = now + 1
    /\ hctx' = StartContext(hctx.dir, now + 1, lockfile')
    /\ UNCHANGED <<inst, reports, dirTime, cache, file, link, proc, clean, killed>>

\* A second start, while the monitor runs: its html_output_preconfig() too
\* removes the lock file, before its orchids_lock() finds the monitor and ends
\* it.
RivalStart ==
    /\ hctx.up
    /\ lockfile <= inst.restarts
    /\ lockfile' = lockfile + 1
    /\ UNCHANGED <<inst, now, hctx, reports, dirTime, cache, file, link, proc, clean, killed>>

Monitor ==
    \/ Iterate \/ inject_one \/ html_output_cache_cleanup \/ cache_gc \/ Xunlink
    \/ Restart \/ RivalStart
    \/ \E r \in Renderers : html_output(r)
    \/ \E id \in inst.reports : generate_html_report(id)

HtmlInit ==
    /\ inst \in Instances
    /\ now = 1   \* the date 0 is the one of an instance where no transition passed yet
    /\ hctx = StartContext(inst.dir, 1, 1)
    /\ reports = <<>> /\ dirTime = 0
    /\ cache = <<>> /\ file = <<>>
    /\ link = [k \in DOMAIN pages |-> NoFile]
    /\ proc = [r \in Renderers |-> Idle("none")]
    /\ clean = NotCleaning
    /\ lockfile = 1
    /\ killed = 0

HtmlNext == Monitor \/ \E r \in Renderers : Render(r)

HtmlSpec == HtmlInit /\ [][HtmlNext]_htmlVars
----------------------------------------------------------------------------
(* Properties                                                               *)

\* Renderer r puts a complete file behind the link of page k.
Publishes(r, k) ==
    /\ proc[r].pc = "link" /\ proc[r].i = k /\ proc'[r].pc # "link"
    /\ link'[k] # link[k] /\ file[link'[k]].done

HtmlTypeOK ==
    /\ now \in 1..inst.time /\ dirTime \in 0..Sec
    /\ DOMAIN reports \subseteq inst.reports
    /\ \A n \in DOMAIN cache : cache[n] \in DOMAIN file
    /\ \A k \in DOMAIN pages : link[k] = NoFile \/ link[k] \in DOMAIN file
    /\ \A r \in Renderers : Rendering(r) => proc[r].i \in DOMAIN pages

\* do_html_output() "Acquire lock or return": the renderers of one monitor
\* that work at the same time are no more than the lock files it has had: the
\* one of its start, and one more for every rival start that removed it.
OneRenderer ==
    Cardinality({r \in Renderers : Rendering(r) /\ proc[r].ctx.start = hctx.start})
        <= 1 + (lockfile - hctx.lock)

\* A page that can be seen, through its name or its link, is complete, or a
\* renderer is writing it, or a renderer was killed.  (A killed renderer
\* leaves a part of a page in the cache, and every later one takes it for
\* the page.)
PagesComplete ==
    killed = 0 =>
        \A f \in DOMAIN file : file[f].done \/ \E r \in Renderers : proc[r].fd = f

\* The change that the key of a page follows.
Followed(p) ==
    CASE p = "modules" -> "posts" [] p = "ruleinsts" -> "insts" [] p = "events" -> "kept"

\* The page that a renderer publishes lacks, of the changes that its key is
\* to follow, only ones of one iteration of the main loop: the key is
\* cur_loop_time, which two changes of one iteration share.  (No key follows
\* the thread queue, the references of the events, the rule list, which is
\* made once per start, or the end of the threads of an instance.)
LagsOneIteration ==
    [][\A r \in Renderers, k \in DOMAIN pages :
         pages[k] \in {"modules", "ruleinsts", "events"} /\ Publishes(r, k) =>
            LET c == Followed(pages[k])
                shown == file[link'[k]].body.versions[c]
                forked == proc[r].ctx.hist[c]
            IN  \A v \in shown + 1..Len(forked) : forked[v] = forked[Len(forked)]]_htmlVars

\* The report list that a renderer publishes lacks, of the reports that were
\* there when it looked at the directory, only ones of one second: the key
\* is st_mtime.
ReportsLagOneSecond ==
    [][\A r \in Renderers, k \in DOMAIN pages :
         pages[k] = "reports" /\ Publishes(r, k) =>
            \A id \in proc[r].there \ file[link'[k]].body.listed :
                reports[id] = proc[r].key]_htmlVars

\* The races with the renderers never end the monitor: it exits only when the
\* configuration names no output directory, at the first cleanup.
MonitorSurvives == ~hctx.up => ~hctx.dir

\* The pages survive everything that renderers, cleanups, signals and restarts
\* do to each other.
PagesSound == HtmlTypeOK /\ OneRenderer /\ PagesComplete /\ MonitorSurvives

\* How old a page can be when it is published.
PagesFresh == LagsOneIteration /\ ReportsLagOneSecond
=============================================================================
