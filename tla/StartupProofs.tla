--------------------------- MODULE StartupProofs ---------------------------
(***************************************************************************)
(* Proofs about the start, for every number of processes, every            *)
(* configuration and every command line.                                   *)
(***************************************************************************)
EXTENDS Startup, FiniteSetTheorems, SequenceTheorems, TLAPS

Size == Len(Config)

\* f is the lock file after the directives before d: the last one given.
IsLockFile(f, d) ==
    \/ /\ f = Default
       /\ \A k \in 1 .. Size : k < d => Config[k].is # "SetLockFile"
    \/ \E k \in 1 .. Size :
         /\ k < d /\ Config[k].is = "SetLockFile" /\ f = Config[k].name
         /\ \A j \in 1 .. Size : k < j /\ j < d => Config[j].is # "SetLockFile"

Ahead(m) == proc[m].phase \in {"lock", "post_config", "post_compil", "main"}

IsRecord(p) ==
    p \in [phase : {p.phase}, dir : {p.dir}, rules : {p.rules}, last : {p.last}, r : {p.r},
           online : {p.online}, bound : {p.bound}, rival : {p.rival},
           lockfile : {p.lockfile}, user : {p.user}]

ProcOK ==
    /\ proc = [m \in Monitors |-> proc[m]]
    /\ \A m \in Monitors : IsRecord(proc[m]) /\ proc[m].dir \in 1 .. Size + 1

\* How far a running process has come, and which lock file it uses.
ProgressOf(m) ==
    /\ proc[m].online \in BOOLEAN
    /\ At(m, "bind") =>
         proc[m].online /\ proc[m].dir <= Size /\ Config[proc[m].dir].is = "AddUnixSocket"
    /\ Ahead(m) /\ proc[m].online => proc[m].dir = Size + 1
    /\ IF proc[m].online THEN IsLockFile(proc[m].lockfile, proc[m].dir)
       ELSE proc[m].lockfile = Default
Progress == \A m \in Monitors : Running(m) => ProgressOf(m)

\* The locks are those of the processes past orchids_lock(), on distinct files.
LockOK ==
    /\ lock \subseteq Monitors
    /\ \A m \in Monitors : m \in lock <=> PastLock(m)
    /\ \A m, n \in lock : m # n => proc[m].lockfile # proc[n].lockfile

\* A process that has bound the path is reached until a rival unlinks it.
PathOK ==
    /\ path \in Monitors \cup {Nobody, "stale"}
    /\ \A m \in Monitors : Running(m) /\ proc[m].bound => path = m \/ proc[m].rival

LockInv == ProcOK /\ Progress /\ LockOK /\ PathOK

\* The directives are numbered from 1 to Size.
LEMMA SizeIsNat == Size \in Nat /\ DOMAIN Config = 1 .. Size
BY ConfigAssumption DEF Size

\* There is one lock file after the directives before d.
LEMMA OneLockFile ==
  ASSUME NEW d \in Nat, NEW f, NEW g, IsLockFile(f, d), IsLockFile(g, d)
  PROVE  f = g
<1>1. CASE \A k \in 1 .. Size : k < d => Config[k].is # "SetLockFile"
  BY <1>1 DEF IsLockFile
<1>2. CASE \E k \in 1 .. Size : k < d /\ Config[k].is = "SetLockFile"
  <2>1. PICK j \in 1 .. Size : /\ j < d /\ Config[j].is = "SetLockFile" /\ f = Config[j].name
                               /\ \A i \in 1 .. Size : j < i /\ i < d => Config[i].is # "SetLockFile"
    BY <1>2 DEF IsLockFile
  <2>2. PICK k \in 1 .. Size : /\ k < d /\ Config[k].is = "SetLockFile" /\ g = Config[k].name
                               /\ \A i \in 1 .. Size : k < i /\ i < d => Config[i].is # "SetLockFile"
    BY <1>2 DEF IsLockFile
  <2>3. j = k
    BY <2>1, <2>2, SizeIsNat
  <2> QED BY <2>1, <2>2, <2>3
<1> QED BY <1>1, <1>2

\* A directive that is not SetLockFile leaves the lock file, SetLockFile sets it.
LEMMA NextLockFile ==
  ASSUME NEW d \in 1 .. Size, NEW f, IsLockFile(f, d)
  PROVE  /\ Config[d].is # "SetLockFile" => IsLockFile(f, d + 1)
         /\ Config[d].is = "SetLockFile" => IsLockFile(Config[d].name, d + 1)
<1>0. \A k \in 1 .. Size : k < d + 1 <=> k < d \/ k = d
  BY SizeIsNat
<1>1. ASSUME Config[d].is # "SetLockFile" PROVE IsLockFile(f, d + 1)
  BY <1>0, <1>1 DEF IsLockFile
<1>2. ASSUME Config[d].is = "SetLockFile" PROVE IsLockFile(Config[d].name, d + 1)
  <2>1. \A j \in 1 .. Size : ~(d < j /\ j < d + 1)
    BY SizeIsNat
  <2>2. d < d + 1
    BY SizeIsNat
  <2> QED BY <1>2, <2>1, <2>2 DEF IsLockFile
<1> QED BY <1>1, <1>2

\* No process runs at first, and none holds a lock.
LEMMA InitLock == ASSUME StartInit PROVE LockInv
<1>1. 1 \in 1 .. Size + 1
  BY SizeIsNat
<1>2. \A m \in Monitors : proc[m] = Fresh
  BY DEF StartInit
<1>3. ProcOK
  BY <1>1, <1>2 DEF StartInit, ProcOK, IsRecord, Fresh
<1>4. \A m \in Monitors : ~Running(m) /\ ~PastLock(m)
  BY <1>2 DEF Fresh, Running, PastLock
<1> QED BY <1>3, <1>4 DEF StartInit, LockInv, Progress, LockOK, PathOK

\* The processes that an action leaves alone.
Alone(m) == \A n \in Monitors \ {m} : proc'[n] = proc[n]

\* An action of one process that passes no lock and binds no path.
LEMMA QuietStep ==
  ASSUME LockInv, NEW m \in Monitors, Alone(m), UNCHANGED <<path, lock>>,
         proc' = [n \in Monitors |-> proc'[n]], IsRecord(proc'[m]), proc'[m].dir \in 1 .. Size + 1,
         Running(m)' => ProgressOf(m)',
         PastLock(m)' <=> PastLock(m),
         PastLock(m) => proc'[m].lockfile = proc[m].lockfile,
         Running(m)' /\ proc'[m].bound => Running(m) /\ proc[m].bound /\ proc'[m].rival = proc[m].rival
  PROVE  LockInv'
<1>1. ProcOK'
  BY DEF LockInv, ProcOK, Alone
<1>2. Progress'
  BY DEF LockInv, Progress, ProgressOf, Alone, Running, At, Ahead
<1>3. LockOK'
  <2>1. \A n \in Monitors : PastLock(n)' <=> PastLock(n)
    BY DEF Alone, PastLock
  <2>2. \A n \in lock : proc'[n].lockfile = proc[n].lockfile
    BY DEF LockInv, LockOK, Alone
  <2> QED BY <2>1, <2>2 DEF LockInv, LockOK
<1>4. PathOK'
  BY DEF LockInv, PathOK, Alone, Running
<1> QED BY <1>1, <1>2, <1>3, <1>4 DEF LockInv

\* The end of a process.
LEMMA ExitsLock == ASSUME LockInv, NEW m \in Monitors, Exits(m) PROVE LockInv'
<1>1. /\ proc'[m] = [proc[m] EXCEPT !.phase = "gone"] /\ Alone(m)
      /\ proc' = [n \in Monitors |-> proc'[n]]
  BY DEF LockInv, ProcOK, Exits, Alone
<1>2. /\ ~Running(m)' /\ ~PastLock(m)' /\ lock' = lock \ {m} /\ path' = path
      /\ IsRecord(proc'[m]) /\ proc'[m].dir = proc[m].dir
  BY <1>1 DEF LockInv, ProcOK, IsRecord, Exits, Running, PastLock
<1>3. ProcOK'
  BY <1>1, <1>2 DEF LockInv, ProcOK, Alone
<1>4. Progress'
  BY <1>1, <1>2 DEF LockInv, Progress, ProgressOf, Alone, Running, At, Ahead
<1>5. LockOK'
  <2>1. \A n \in Monitors : PastLock(n)' <=> PastLock(n) /\ n # m
    BY <1>1, <1>2 DEF Alone, PastLock
  <2>2. \A n \in lock' : n \in lock /\ proc'[n].lockfile = proc[n].lockfile
    BY <1>1, <1>2 DEF LockInv, LockOK, Alone
  <2> QED BY <1>2, <2>1, <2>2 DEF LockInv, LockOK
<1>6. PathOK'
  BY <1>1, <1>2 DEF LockInv, PathOK, Alone, Running
<1> QED BY <1>3, <1>4, <1>5, <1>6 DEF LockInv

\* A process starts with the default lock file and before the first directive.
LEMMA ParseLock == ASSUME LockInv, NEW m \in Monitors, parse_cmdline(m) PROVE LockInv'
<1>1. PICK r \in CmdLines :
        proc' = [proc EXCEPT ![m] =
                    [Fresh EXCEPT !.phase = "pre_config", !.r = r, !.online = (r = <<>>),
                                  !.rules = IF r = <<>> THEN <<>> ELSE <<RuleFile(r[Len(r)], TRUE)>>,
                                  !.last = IF r = <<>> THEN 0 ELSE 1]]
  BY DEF parse_cmdline
<1>2. /\ IsRecord(proc'[m]) /\ proc'[m].dir = 1 /\ proc'[m].phase = "pre_config"
      /\ proc'[m].online \in BOOLEAN /\ proc'[m].lockfile = Default /\ proc'[m].bound = FALSE
      /\ Alone(m) /\ proc' = [n \in Monitors |-> proc'[n]]
  BY <1>1 DEF LockInv, ProcOK, Fresh, IsRecord, Alone
<1>3. 1 \in 1 .. Size + 1 /\ \A k \in 1 .. Size : ~(k < 1)
  BY SizeIsNat
<1>4. ProgressOf(m)'
  BY <1>2, <1>3 DEF ProgressOf, At, Ahead, IsLockFile
<1>5. ~PastLock(m) /\ ~PastLock(m)'
  BY <1>2 DEF parse_cmdline, At, PastLock
<1>6. UNCHANGED <<path, lock>>
  BY DEF parse_cmdline
<1> QED BY <1>2, <1>3, <1>4, <1>5, <1>6, QuietStep

\* A directive that only stores something.
LEMMA StoredLock ==
  ASSUME LockInv, NEW m \in Monitors, NEW is, Directive(m, is), is # "SetLockFile",
         Alone(m), UNCHANGED <<path, lock>>, proc' = [n \in Monitors |-> proc'[n]],
         IsRecord(proc'[m]), proc'[m].phase = proc[m].phase, proc'[m].dir = proc[m].dir + 1,
         proc'[m].online = proc[m].online, proc'[m].lockfile = proc[m].lockfile,
         proc'[m].bound = proc[m].bound, proc'[m].rival = proc[m].rival
  PROVE  LockInv'
<1>1. /\ proc[m].dir \in 1 .. Size /\ Config[proc[m].dir].is # "SetLockFile"
      /\ proc[m].phase = "pre_config" /\ proc[m].online
  BY SizeIsNat DEF LockInv, ProcOK, Directive, At, Size
<1>2. IsLockFile(proc[m].lockfile, proc[m].dir) /\ proc[m].online \in BOOLEAN
  BY <1>1 DEF LockInv, Progress, ProgressOf, Running
<1>3. IsLockFile(proc'[m].lockfile, proc'[m].dir)
  BY <1>1, <1>2, NextLockFile
<1>4. ProgressOf(m)'
  BY <1>1, <1>2, <1>3 DEF ProgressOf, At, Ahead
<1>5. ~PastLock(m) /\ ~PastLock(m)' /\ Running(m) /\ Running(m)'
  BY <1>1 DEF PastLock, Running
<1>6. proc'[m].dir \in 1 .. Size + 1
  BY <1>1, SizeIsNat
<1> QED BY <1>4, <1>5, <1>6, QuietStep

\* What a directive leaves of a process.
Kept(p, q) == /\ IsRecord(q) /\ q.phase = p.phase /\ q.online = p.online /\ q.lockfile = p.lockfile
              /\ q.bound = p.bound /\ q.rival = p.rival

\* To pass to the next directive changes nothing else.
LEMMA DoneKeeps ==
  ASSUME NEW p, IsRecord(p)
  PROVE  Kept(p, Done(p)) /\ Done(p).dir = p.dir + 1
BY DEF IsRecord, Kept, Done

\* The list of rule files has no effect on the lock and the socket.
LEMMA InsertedKeeps ==
  ASSUME NEW p, NEW e, IsRecord(p)
  PROVE  Kept(p, Inserted(p, e)) /\ Inserted(p, e).dir = p.dir
BY DEF IsRecord, Kept, Inserted

\* Nor has the user.
LEMMA UserKeeps ==
  ASSUME NEW p, NEW user, IsRecord(p)
  PROVE  Kept(p, [p EXCEPT !.user = user]) /\ [p EXCEPT !.user = user].dir = p.dir
BY DEF IsRecord, Kept

\* The directives that store a rule file or a user.
LEMMA DirectivesLock ==
  ASSUME LockInv, NEW m \in Monitors,
         add_rule_file(m) \/ add_rule_files(m) \/ set_runtime_user(m)
  PROVE  LockInv'
<1>0. IsRecord(proc[m]) /\ m \in DOMAIN proc
  BY DEF LockInv, ProcOK
<1> SUFFICES ASSUME NEW q, Kept(proc[m], q), q.dir = proc[m].dir,
                    proc' = [proc EXCEPT ![m] = Done(q)], UNCHANGED <<path, lock>>,
                    NEW is, Directive(m, is), is # "SetLockFile"
             PROVE  LockInv'
  <2>1. CASE add_rule_file(m)
    <3> DEFINE e == RuleFile(Config[proc[m].dir].name, TRUE)
    <3>1. proc' = [proc EXCEPT ![m] = Done(Inserted(proc[m], e))]
      BY <1>0, <2>1 DEF add_rule_file
    <3> QED BY <1>0, <2>1, <3>1, InsertedKeeps DEF add_rule_file
  <2>2. CASE add_rule_files(m)
    <3> DEFINE e == RuleFile(Config[proc[m].dir].name, FALSE)
    <3>1. proc' = [proc EXCEPT ![m] = Done(Inserted(proc[m], e))]
      BY <1>0, <2>2 DEF add_rule_files
    <3> QED BY <1>0, <2>2, <3>1, InsertedKeeps DEF add_rule_files
  <2>3. CASE set_runtime_user(m)
    <3> DEFINE user == Config[proc[m].dir].name
    <3>1. proc' = [proc EXCEPT ![m] = Done([proc[m] EXCEPT !.user = user])]
      BY <1>0, <2>3 DEF set_runtime_user
    <3> QED BY <1>0, <2>3, <3>1, UserKeeps DEF set_runtime_user
  <2> QED BY <2>1, <2>2, <2>3
<1>1. proc'[m] = Done(q) /\ Alone(m) /\ proc' = [n \in Monitors |-> proc'[n]]
  BY DEF LockInv, ProcOK, Alone
<1>2. Kept(q, Done(q)) /\ Done(q).dir = q.dir + 1
  BY DoneKeeps DEF Kept
<1> QED BY <1>1, <1>2, StoredLock DEF Kept

\* SetLockFile stores the lock file only.
LEMMA LockFileKeeps ==
  ASSUME NEW p, NEW f, IsRecord(p)
  PROVE  LET q == [p EXCEPT !.lockfile = f]
         IN  /\ IsRecord(q) /\ q.phase = p.phase /\ q.online = p.online /\ q.lockfile = f
             /\ q.bound = p.bound /\ q.rival = p.rival /\ q.dir = p.dir
BY DEF IsRecord

\* A lock file is given before the process holds a lock.
LEMMA SetLockFileLock == ASSUME LockInv, NEW m \in Monitors, set_lock_file(m) PROVE LockInv'
<1>1. /\ IsRecord(proc'[m]) /\ Alone(m) /\ proc' = [n \in Monitors |-> proc'[n]]
      /\ proc'[m].phase = proc[m].phase /\ proc'[m].dir = proc[m].dir + 1
      /\ proc'[m].online = proc[m].online /\ proc'[m].lockfile = Config[proc[m].dir].name
      /\ proc'[m].bound = proc[m].bound /\ proc'[m].rival = proc[m].rival
  <2> DEFINE f == Config[proc[m].dir].name
             q == [proc[m] EXCEPT !.lockfile = f]
  <2>1. IsRecord(proc[m]) /\ m \in DOMAIN proc
    BY DEF LockInv, ProcOK
  <2>2. proc' = [proc EXCEPT ![m] = Done(q)]
    BY <2>1 DEF set_lock_file
  <2>3. /\ IsRecord(q) /\ q.phase = proc[m].phase /\ q.online = proc[m].online /\ q.lockfile = f
        /\ q.bound = proc[m].bound /\ q.rival = proc[m].rival /\ q.dir = proc[m].dir
    BY <2>1, LockFileKeeps
  <2> HIDE DEF q
  <2>4. Kept(q, Done(q)) /\ Done(q).dir = q.dir + 1
    BY <2>3, DoneKeeps
  <2>5. proc'[m] = Done(q) /\ Alone(m) /\ proc' = [n \in Monitors |-> proc'[n]]
    BY <2>1, <2>2 DEF LockInv, ProcOK, Alone
  <2> QED BY <2>3, <2>4, <2>5 DEF Kept
<1>2. /\ proc[m].dir \in 1 .. Size /\ Config[proc[m].dir].is = "SetLockFile"
      /\ proc[m].phase = "pre_config" /\ proc[m].online /\ UNCHANGED <<path, lock>>
  BY SizeIsNat DEF LockInv, ProcOK, set_lock_file, Directive, At, Size
<1>3. IsLockFile(proc[m].lockfile, proc[m].dir) /\ proc[m].online \in BOOLEAN
  BY <1>2 DEF LockInv, Progress, ProgressOf, Running
<1>4. IsLockFile(proc'[m].lockfile, proc'[m].dir)
  BY <1>1, <1>2, <1>3, NextLockFile
<1>5. ProgressOf(m)'
  BY <1>1, <1>2, <1>3, <1>4 DEF ProgressOf, At, Ahead
<1>6. ~PastLock(m) /\ ~PastLock(m)' /\ Running(m) /\ Running(m)'
  BY <1>1, <1>2 DEF PastLock, Running
<1>7. proc'[m].dir \in 1 .. Size + 1
  BY <1>1, <1>2, SizeIsNat
<1> QED BY <1>1, <1>2, <1>5, <1>6, <1>7, QuietStep

\* unlink() makes a rival of whoever the path leads to.
LEMMA UnlinkLock == ASSUME LockInv, NEW m \in Monitors, create_sockunix_socket(m) PROVE LockInv'
<1> DEFINE same(n) == /\ proc'[n].dir = proc[n].dir /\ proc'[n].online = proc[n].online
                      /\ proc'[n].bound = proc[n].bound /\ proc'[n].lockfile = proc[n].lockfile
                      /\ proc'[n].rival = (proc[n].rival \/ path = n)
                      /\ proc'[n].phase = (IF n = m THEN "bind" ELSE proc[n].phase)
<1>1. /\ proc' = [n \in Monitors |-> proc'[n]]
      /\ \A n \in Monitors : IsRecord(proc'[n]) /\ same(n)
  BY DEF create_sockunix_socket, Unlinked, LockInv, ProcOK, IsRecord
<1>2. /\ proc[m].dir \in 1 .. Size /\ proc[m].phase = "pre_config" /\ proc[m].online
      /\ Config[proc[m].dir].is = "AddUnixSocket" /\ path' = Nobody /\ lock' = lock
  BY SizeIsNat DEF LockInv, ProcOK, create_sockunix_socket, Directive, At, Size
<1>3. ProcOK'
  BY <1>1 DEF LockInv, ProcOK
<1>4. Progress'
  <2>1. \A n \in Monitors : Running(n)' <=> Running(n)
    BY <1>1, <1>2 DEF Running
  <2>2. SUFFICES ASSUME NEW n \in Monitors, Running(n), ProgressOf(n) PROVE ProgressOf(n)'
    BY <2>1 DEF LockInv, Progress
  <2>3. CASE n = m
    BY <1>1, <1>2, <2>2, <2>3, SizeIsNat DEF ProgressOf, At, Ahead
  <2>4. CASE n # m
    BY <1>1, <2>2, <2>4 DEF ProgressOf, At, Ahead
  <2> QED BY <2>3, <2>4
<1>5. LockOK'
  <2>1. \A n \in Monitors : PastLock(n)' <=> PastLock(n)
    BY <1>1, <1>2 DEF PastLock
  <2>2. \A n \in Monitors : proc'[n].lockfile = proc[n].lockfile
    BY <1>1
  <2> QED BY <1>2, <2>1, <2>2 DEF LockInv, LockOK
<1>6. PathOK'
  <2>1. \A n \in Monitors : Running(n)' <=> Running(n)
    BY <1>1, <1>2 DEF Running
  <2>2. \A n \in Monitors : Running(n)' /\ proc'[n].bound => proc'[n].rival
    BY <1>1, <2>1 DEF LockInv, PathOK
  <2> QED BY <1>2, <2>2 DEF PathOK, Nobody
<1> QED BY <1>3, <1>4, <1>5, <1>6 DEF LockInv

\* bind() succeeds only where the path leads to nobody.
LEMMA BindLock == ASSUME LockInv, NEW m \in Monitors, Xbind(m) PROVE LockInv'
<1>1. CASE path # Nobody /\ Exits(m)
  BY <1>1, ExitsLock
<1>2. CASE ~(path # Nobody /\ Exits(m))
  <2> DEFINE q == [proc[m] EXCEPT !.phase = "pre_config", !.bound = TRUE]
  <2>1. /\ IsRecord(proc[m]) /\ m \in DOMAIN proc /\ proc[m].phase = "bind"
        /\ path = Nobody /\ path' = m /\ lock' = lock /\ proc' = [proc EXCEPT ![m] = Done(q)]
    BY <1>2 DEF LockInv, ProcOK, Xbind, At
  <2>2. /\ IsRecord(q) /\ q.phase = "pre_config" /\ q.online = proc[m].online
        /\ q.lockfile = proc[m].lockfile /\ q.dir = proc[m].dir
    BY <2>1 DEF IsRecord
  <2> HIDE DEF q
  <2>3. Kept(q, Done(q)) /\ Done(q).dir = q.dir + 1
    BY <2>2, DoneKeeps
  <2>4. proc'[m] = Done(q) /\ Alone(m) /\ proc' = [n \in Monitors |-> proc'[n]]
    BY <2>1 DEF LockInv, ProcOK, Alone
  <2>5. /\ proc[m].online /\ proc[m].dir \in 1 .. Size
        /\ Config[proc[m].dir].is = "AddUnixSocket" /\ IsLockFile(proc[m].lockfile, proc[m].dir)
    BY <2>1, SizeIsNat DEF LockInv, ProcOK, Progress, ProgressOf, Running, At
  <2>6. /\ IsRecord(proc'[m]) /\ proc'[m].phase = "pre_config" /\ proc'[m].online = proc[m].online
        /\ proc'[m].lockfile = proc[m].lockfile /\ proc'[m].dir = proc[m].dir + 1
    BY <2>2, <2>3, <2>4 DEF Kept
  <2>7. proc'[m].dir \in 1 .. Size + 1 /\ IsLockFile(proc'[m].lockfile, proc'[m].dir)
    BY <2>5, <2>6, SizeIsNat, NextLockFile
  <2>8. ~PastLock(m) /\ ~PastLock(m)' /\ Running(m)
    BY <2>1, <2>6 DEF PastLock, Running
  <2>9. ProcOK'
    BY <2>4, <2>6, <2>7 DEF LockInv, ProcOK, Alone
  <2>10. Progress'
    <3>1. proc'[m].online \in BOOLEAN
      BY <2>6, <2>8 DEF LockInv, Progress, ProgressOf
    <3>2. ProgressOf(m)'
      BY <2>5, <2>6, <2>7, <3>1 DEF ProgressOf, At, Ahead
    <3> QED BY <2>4, <3>2 DEF LockInv, Progress, ProgressOf, Alone, Running, At, Ahead
  <2>11. LockOK'
    <3>1. \A n \in Monitors : PastLock(n)' <=> PastLock(n)
      BY <2>4, <2>8 DEF Alone, PastLock
    <3>2. \A n \in Monitors : proc'[n].lockfile = proc[n].lockfile
      BY <2>4, <2>6 DEF Alone
    <3> QED BY <2>1, <3>1, <3>2 DEF LockInv, LockOK
  <2>12. PathOK'
    <3>1. \A n \in Monitors : n # Nobody
      BY MonitorsAssumption DEF Nobody
    <3>2. \A n \in Monitors \ {m} : Running(n) /\ proc[n].bound => proc[n].rival
      BY <2>1, <3>1 DEF LockInv, PathOK
    <3> QED BY <2>1, <2>4, <3>2 DEF PathOK, Alone, Running
  <2> QED BY <2>9, <2>10, <2>11, <2>12 DEF LockInv
<1> QED BY <1>1, <1>2

\* What a step of main() leaves of a process.
Same(p, q) == /\ IsRecord(q) /\ q.online = p.online /\ q.lockfile = p.lockfile /\ q.dir = p.dir
              /\ q.bound = p.bound /\ q.rival = p.rival

\* A step to another phase changes nothing else.
LEMMA GoesSame ==
  ASSUME NEW p, NEW phase, IsRecord(p)
  PROVE  Same(p, [p EXCEPT !.phase = phase]) /\ [p EXCEPT !.phase = phase].phase = phase
BY DEF IsRecord, Same

\* A step to another phase, with the configuration done.
LEMMA PhaseLock ==
  ASSUME LockInv, NEW m \in Monitors, NEW q, Same(proc[m], q),
         proc' = [proc EXCEPT ![m] = q], UNCHANGED <<path, lock>>,
         q.phase \in {"lock", "post_compil", "main"}, Running(m), proc[m].phase # "bind",
         proc[m].online => proc[m].dir = Size + 1, q.phase # "lock" <=> PastLock(m)
  PROVE  LockInv'
<1>1. /\ proc[m].dir \in 1 .. Size + 1 /\ proc'[m] = q
      /\ Alone(m) /\ proc' = [n \in Monitors |-> proc'[n]]
  BY DEF LockInv, ProcOK, Alone
<1>2. ProgressOf(m)
  BY DEF LockInv, Progress
<1>3. ProgressOf(m)'
  BY <1>1, <1>2 DEF ProgressOf, At, Ahead, Same
<1>4. PastLock(m)' <=> PastLock(m)
  BY <1>1 DEF PastLock
<1> QED BY <1>1, <1>3, <1>4, QuietStep DEF Same

\* The test of the lock takes none.
LEMMA TestLock == ASSUME LockInv, NEW m \in Monitors, lock_test(m) PROVE LockInv'
<1>1. CASE Exits(m)
  BY <1>1, ExitsLock
<1>2. CASE ~Exits(m)
  <2> DEFINE q == [proc[m] EXCEPT !.phase = "lock"]
  <2>1. /\ IsRecord(proc[m]) /\ proc[m].dir \in 1 .. Size + 1 /\ m \in DOMAIN proc
        /\ proc' = [proc EXCEPT ![m] = q] /\ UNCHANGED <<path, lock>>
        /\ proc[m].phase = "pre_config" /\ (proc[m].online => proc[m].dir = Size + 1)
    BY <1>2, SizeIsNat DEF LockInv, ProcOK, lock_test, PreConfigured, At, Goes, Size
  <2>2. Same(proc[m], q) /\ q.phase = "lock"
    BY <2>1, GoesSame
  <2>3. Running(m) /\ ~PastLock(m)
    BY <2>1 DEF Running, PastLock
  <2> HIDE DEF q
  <2> QED BY <2>1, <2>2, <2>3, PhaseLock
<1> QED BY <1>1, <1>2

\* A lock is taken on a file of which no other process holds one.
LEMMA WriteLock == ASSUME LockInv, NEW m \in Monitors, Write_lock(m) PROVE LockInv'
<1>1. CASE Exits(m)
  BY <1>1, ExitsLock
<1>2. CASE ~Exits(m)
  <2> DEFINE q == [proc[m] EXCEPT !.phase = "post_config"]
  <2>1. /\ IsRecord(proc[m]) /\ proc[m].dir \in 1 .. Size + 1 /\ m \in DOMAIN proc
        /\ proc' = [proc EXCEPT ![m] = q] /\ Others(m) = {} /\ lock' = lock \cup {m}
        /\ path' = path /\ proc[m].phase = "lock"
    BY <1>2 DEF LockInv, ProcOK, Write_lock, At, Goes
  <2>2. Same(proc[m], q) /\ q.phase = "post_config"
    BY <2>1, GoesSame
  <2> HIDE DEF q
  <2>3. proc'[m] = q /\ Alone(m) /\ proc' = [n \in Monitors |-> proc'[n]]
    BY <2>1 DEF LockInv, ProcOK, Alone
  <2>4. ProcOK'
    BY <2>1, <2>2, <2>3 DEF LockInv, ProcOK, Alone, Same
  <2>5. Progress'
    <3>1. ProgressOf(m) /\ Ahead(m)
      BY <2>1 DEF LockInv, Progress, Running, Ahead
    <3>2. ProgressOf(m)'
      BY <2>2, <2>3, <3>1 DEF ProgressOf, At, Ahead, Same
    <3> QED BY <2>3, <3>2 DEF LockInv, Progress, ProgressOf, Alone, Running, At, Ahead
  <2>6. LockOK'
    <3>1. \A n \in Monitors : PastLock(n)' <=> PastLock(n) \/ n = m
      BY <2>2, <2>3 DEF Alone, PastLock
    <3>2. \A n \in Monitors : proc'[n].lockfile = proc[n].lockfile
      BY <2>2, <2>3 DEF Alone, Same
    <3>3. \A n \in lock \ {m} : proc[n].lockfile # proc[m].lockfile
      BY <2>1 DEF Others
    <3>4. /\ lock \subseteq Monitors /\ \A n \in Monitors : n \in lock <=> PastLock(n)
          /\ \A n, k \in lock : n # k => proc[n].lockfile # proc[k].lockfile
      BY DEF LockInv, LockOK
    <3>5. lock' \subseteq Monitors /\ \A n \in Monitors : n \in lock' <=> PastLock(n)'
      BY <2>1, <3>1, <3>4
    <3>6. ASSUME NEW n \in lock', NEW k \in lock', n # k
          PROVE  proc'[n].lockfile # proc'[k].lockfile
      <4>1. proc[n].lockfile # proc[k].lockfile
        BY <2>1, <3>3, <3>4, <3>6
      <4> QED BY <3>2, <3>5, <3>6, <4>1
    <3> QED BY <3>5, <3>6 DEF LockOK
  <2>7. PathOK'
    BY <2>1, <2>2, <2>3 DEF LockInv, PathOK, Alone, Running, Same
  <2> QED BY <2>4, <2>5, <2>6, <2>7 DEF LockInv
<1> QED BY <1>1, <1>2

\* The compilation does not touch the lock.
LEMMA CompileLock == ASSUME LockInv, NEW m \in Monitors, compile_rules(m) PROVE LockInv'
<1>1. CASE Exits(m)
  BY <1>1, ExitsLock
<1>2. CASE ~Exits(m)
  <2>1. IsRecord(proc[m]) /\ m \in DOMAIN proc /\ proc[m].phase = "post_config"
    BY DEF LockInv, ProcOK, compile_rules, At
  <2>2. Running(m) /\ PastLock(m) /\ (proc[m].online => proc[m].dir = Size + 1)
    BY <2>1 DEF LockInv, Progress, ProgressOf, Running, PastLock, Ahead
  <2>3. PICK q : /\ proc' = [proc EXCEPT ![m] = q] /\ UNCHANGED <<path, lock>>
                 /\ Same(proc[m], q) /\ q.phase = "post_compil"
    <3>1. CASE Goes(m, "post_compil") /\ UNCHANGED <<path, lock>>
      <4> DEFINE q == [proc[m] EXCEPT !.phase = "post_compil"]
      <4>1. proc' = [proc EXCEPT ![m] = q] /\ UNCHANGED <<path, lock>>
        BY <3>1 DEF Goes
      <4>2. Same(proc[m], q) /\ q.phase = "post_compil"
        BY <2>1, GoesSame
      <4> HIDE DEF q
      <4> QED BY <4>1, <4>2
    <3>2. CASE ~(Goes(m, "post_compil") /\ UNCHANGED <<path, lock>>)
      <4> DEFINE rules == Found(proc[m].rules)
                 q == [proc[m] EXCEPT !.phase = "post_compil", !.rules = rules]
      <4>1. proc' = [proc EXCEPT ![m] = q] /\ UNCHANGED <<path, lock>>
        BY <1>2, <2>1, <3>2 DEF compile_rules
      <4>2. Same(proc[m], q) /\ q.phase = "post_compil"
        BY <2>1 DEF IsRecord, Same
      <4> HIDE DEF q
      <4> QED BY <4>1, <4>2
    <3> QED BY <3>1, <3>2
  <2> QED BY <2>1, <2>2, <2>3, PhaseLock
<1> QED BY <1>1, <1>2

\* Nor does the change of user.
LEMMA ChangeLock == ASSUME LockInv, NEW m \in Monitors, change_run_id(m) PROVE LockInv'
<1>1. CASE Exits(m)
  BY <1>1, ExitsLock
<1>2. CASE ~Exits(m)
  <2> DEFINE q == [proc[m] EXCEPT !.phase = "main"]
  <2>1. /\ IsRecord(proc[m]) /\ m \in DOMAIN proc /\ proc[m].phase = "post_compil"
        /\ proc' = [proc EXCEPT ![m] = q] /\ UNCHANGED <<path, lock>>
    BY <1>2 DEF LockInv, ProcOK, change_run_id, At, Goes
  <2>2. Running(m) /\ PastLock(m) /\ (proc[m].online => proc[m].dir = Size + 1)
    BY <2>1 DEF LockInv, Progress, ProgressOf, Running, PastLock, Ahead
  <2>3. Same(proc[m], q) /\ q.phase = "main"
    BY <2>1, GoesSame
  <2> HIDE DEF q
  <2> QED BY <2>1, <2>2, <2>3, PhaseLock
<1> QED BY <1>1, <1>2

\* Every step preserves the invariant of locks and sockets.
LEMMA NextLock == ASSUME LockInv, [StartNext]_startVars PROVE LockInv'
<1>1. ASSUME NEW m \in Monitors,
             \/ parse_cmdline(m) \/ add_rule_file(m) \/ add_rule_files(m)
             \/ set_lock_file(m) \/ set_runtime_user(m)
             \/ create_sockunix_socket(m) \/ Xbind(m)
             \/ lock_test(m) \/ Write_lock(m)
             \/ compile_rules(m) \/ change_run_id(m) \/ ReturnFromMain(m)
             \/ Crash(m)
      PROVE  LockInv'
  <2>1. ReturnFromMain(m) \/ Crash(m) => Exits(m)
    BY DEF ReturnFromMain, Crash
  <2> QED BY <1>1, <2>1, ParseLock, DirectivesLock, SetLockFileLock, UnlinkLock, BindLock, TestLock,
             WriteLock, CompileLock, ChangeLock, ExitsLock
<1>2. CASE UNCHANGED startVars
  BY <1>2 DEF startVars, LockInv, ProcOK, Progress, ProgressOf, LockOK, PathOK, Running, Ahead, At, PastLock
<1> QED BY <1>1, <1>2 DEF StartNext

\* Two processes past the lock with the same configuration would hold locks on the same file.
LEMMA OneIsEnough == LockInv => OneMonitor /\ DeafOnlyByRival
<1> SUFFICES ASSUME LockInv PROVE OneMonitor /\ DeafOnlyByRival
  OBVIOUS
<1>1. ASSUME NEW m \in Monitors, NEW n \in Monitors, PastLock(m), PastLock(n),
             proc[m].online = proc[n].online
      PROVE  m = n
  <2>1. m \in lock /\ n \in lock
    BY <1>1 DEF LockInv, LockOK
  <2>2. ProgressOf(m) /\ ProgressOf(n) /\ Ahead(m) /\ Ahead(n)
    BY <1>1 DEF LockInv, Progress, PastLock, Running, Ahead
  <2>3. proc[m].lockfile = proc[n].lockfile
    <3>1. CASE proc[m].online
      <4>1. /\ IsLockFile(proc[m].lockfile, Size + 1) /\ IsLockFile(proc[n].lockfile, Size + 1)
            /\ Size + 1 \in Nat
        BY <1>1, <2>2, <3>1, SizeIsNat DEF ProgressOf
      <4> QED BY <4>1, OneLockFile
    <3>2. CASE ~proc[m].online
      BY <1>1, <2>2, <3>2 DEF ProgressOf
    <3> QED BY <3>1, <3>2
  <2> QED BY <2>1, <2>3 DEF LockInv, LockOK
<1>2. DeafOnlyByRival
  BY DEF LockInv, PathOK, DeafOnlyByRival, At, Running
<1> QED BY <1>1, <1>2 DEF OneMonitor

----------------------------------------------------------------------------
(* The list of rule files                                                   *)

\* The directives that name rule files, and the place of one of them.
RuleDirs == {k \in 1 .. Size : Config[k].is \in {"AddRuleFile", "AddRuleFiles"}}
Place(k) == Cardinality({j \in RuleDirs : j <= k})

Entries == [name : {Config[k].name : k \in 1 .. Size} \cup {r[Len(r)] : r \in CmdLines} \cup {NoFile},
            kept : BOOLEAN]

\* The list that the directives before d have made.
IsList(rules, d) ==
    /\ Len(rules) = Cardinality({j \in RuleDirs : j < d})
    /\ \A k \in RuleDirs : k < d /\ Config[k].is = "AddRuleFile" =>
         rules[Place(k)] = RuleFile(Config[k].name, TRUE)

RulesOf(m) ==
    /\ proc[m].rules \in Seq(Entries) /\ proc[m].last = Len(proc[m].rules)
    /\ Running(m) =>
         IF proc[m].online THEN IsList(proc[m].rules, proc[m].dir)
         ELSE /\ proc[m].r \in CmdLines
              /\ proc[m].rules = <<RuleFile(proc[m].r[Len(proc[m].r)], TRUE)>>
RulesInv == \A m \in Monitors : RulesOf(m)

\* The places in the list of rule files are counted.
LEMMA RuleDirsFinite ==
  ASSUME NEW d \in Nat
  PROVE  /\ IsFiniteSet({j \in RuleDirs : j < d}) /\ IsFiniteSet({j \in RuleDirs : j <= d})
         /\ Cardinality({j \in RuleDirs : j < d}) \in Nat
         /\ Cardinality({j \in RuleDirs : j <= d}) \in Nat
<1>1. IsFiniteSet(1 .. Size)
  BY SizeIsNat, FS_Interval
<1>2. {j \in RuleDirs : j < d} \subseteq 1 .. Size /\ {j \in RuleDirs : j <= d} \subseteq 1 .. Size
  BY DEF RuleDirs
<1>3. IsFiniteSet({j \in RuleDirs : j < d}) /\ IsFiniteSet({j \in RuleDirs : j <= d})
  BY <1>1, <1>2, FS_Subset
<1> QED BY <1>3, FS_CardinalityType

\* The place of a directive is within the list, and that of the next behind it.
LEMMA PlaceInList ==
  ASSUME NEW d \in Nat, NEW k \in RuleDirs
  PROVE  /\ k < d => Place(k) \in 1 .. Cardinality({j \in RuleDirs : j < d})
         /\ Place(k) = Cardinality({j \in RuleDirs : j < k}) + 1
<1>0. k \in Nat
  BY SizeIsNat DEF RuleDirs
<1>1. Place(k) = Cardinality({j \in RuleDirs : j < k}) + 1
  <2>1. {j \in RuleDirs : j <= k} = {j \in RuleDirs : j < k} \cup {k}
    BY SizeIsNat DEF RuleDirs
  <2>2. k \notin {j \in RuleDirs : j < k}
    BY <1>0
  <2> QED BY <1>0, <2>1, <2>2, RuleDirsFinite, FS_AddElement DEF Place
<1>2. ASSUME k < d PROVE Place(k) <= Cardinality({j \in RuleDirs : j < d})
  <2>1. {j \in RuleDirs : j <= k} \subseteq {j \in RuleDirs : j < d}
    BY <1>0, <1>2, SizeIsNat DEF RuleDirs
  <2> QED BY <2>1, RuleDirsFinite, FS_Subset DEF Place
<1>3. /\ Cardinality({j \in RuleDirs : j < d}) \in Nat
      /\ Cardinality({j \in RuleDirs : j < k}) \in Nat
  BY <1>0, RuleDirsFinite
<1> DEFINE before == Cardinality({j \in RuleDirs : j < k})
           all == Cardinality({j \in RuleDirs : j < d})
<1>4. before \in Nat /\ all \in Nat /\ Place(k) = before + 1 /\ (k < d => Place(k) <= all)
  BY <1>1, <1>2, <1>3
<1> HIDE DEF before, all
<1>5. k < d => Place(k) \in 1 .. all
  BY <1>4
<1> QED BY <1>1, <1>5 DEF all

\* A directive that names no rule file leaves the list as it is.
LEMMA ListSkips ==
  ASSUME NEW d \in 1 .. Size, d \notin RuleDirs, NEW rules, IsList(rules, d)
  PROVE  IsList(rules, d + 1)
<1>1. \A j \in RuleDirs : j < d + 1 <=> j < d
  BY SizeIsNat DEF RuleDirs
<1>2. {j \in RuleDirs : j < d + 1} = {j \in RuleDirs : j < d}
  BY <1>1
<1> QED BY <1>1, <1>2 DEF IsList

\* One that names a rule file puts it behind the others.
LEMMA ListGrows ==
  ASSUME NEW d \in RuleDirs, NEW rules \in Seq(Entries), IsList(rules, d), NEW e \in Entries,
         Config[d].is = "AddRuleFile" => e = RuleFile(Config[d].name, TRUE)
  PROVE  LET new == SubSeq(rules, 1, Len(rules)) \o <<e>>
         IN  new \in Seq(Entries) /\ Len(new) = Len(rules) + 1 /\ IsList(new, d + 1)
<1> DEFINE new == SubSeq(rules, 1, Len(rules)) \o <<e>>
<1>0. d \in Nat /\ d \in 1 .. Size
  BY SizeIsNat DEF RuleDirs
<1>1. SubSeq(rules, 1, Len(rules)) = rules
  BY SubSeqFull
<1>2. /\ new \in Seq(Entries) /\ Len(new) = Len(rules) + 1 /\ new[Len(rules) + 1] = e
      /\ \A i \in 1 .. Len(rules) : new[i] = rules[i]
  <2>0. <<e>> \in Seq(Entries)
    OBVIOUS
  <2>1. new = rules \o <<e>> /\ <<e>> \in Seq(Entries) /\ Len(<<e>>) = 1 /\ <<e>>[1] = e
    <3>1. Len(<<e>>) = 1 /\ <<e>>[1] = e
      OBVIOUS
    <3> QED BY <1>1, <2>0, <3>1, Zenon
  <2>2. Len(rules) \in Nat
    BY LenProperties
  <2> HIDE DEF new
  <2>3. /\ new \in Seq(Entries) /\ Len(new) = Len(rules) + 1
        /\ \A i \in 1 .. Len(rules) + 1 :
             new[i] = IF i <= Len(rules) THEN rules[i] ELSE <<e>>[i - Len(rules)]
    BY <2>1, <2>2, ConcatProperties
  <2> QED BY <2>1, <2>2, <2>3
<1> HIDE DEF new
<1>3. Place(d) = Len(rules) + 1
  BY <1>0, PlaceInList DEF IsList
<1>4. Len(new) = Cardinality({j \in RuleDirs : j < d + 1})
  <2>1. {j \in RuleDirs : j < d + 1} = {j \in RuleDirs : j <= d}
    BY SizeIsNat DEF RuleDirs
  <2> QED BY <1>2, <1>3, <2>1 DEF Place
<1>5. ASSUME NEW k \in RuleDirs, k < d + 1, Config[k].is = "AddRuleFile"
      PROVE  new[Place(k)] = RuleFile(Config[k].name, TRUE)
  <2>1. CASE k = d
    BY <1>2, <1>3, <1>5, <2>1
  <2>2. CASE k # d
    <3>1. k < d
      BY <1>0, <1>5, <2>2, SizeIsNat DEF RuleDirs
    <3>2. Place(k) \in 1 .. Len(rules)
      BY <1>0, <3>1, PlaceInList DEF IsList
    <3> QED BY <1>2, <1>5, <3>1, <3>2 DEF IsList
  <2> QED BY <2>1, <2>2
<1> QED BY <1>2, <1>4, <1>5 DEF IsList, new

\* No process has a list at first.
LEMMA InitRules == ASSUME StartInit PROVE RulesInv
<1>1. \A m \in Monitors : proc[m] = Fresh
  BY DEF StartInit
<1>2. Fresh.rules = <<>> /\ Fresh.last = 0 /\ Fresh.phase = "none"
  BY DEF Fresh
<1>3. <<>> \in Seq(Entries) /\ Len(<<>>) = 0
  BY EmptySeq
<1> QED BY <1>1, <1>2, <1>3 DEF RulesInv, RulesOf, Running

\* A step that leaves the lists alone, and how far each process has come.
LEMMA ListsStay ==
  ASSUME RulesInv,
         \A n \in Monitors :
            /\ proc'[n].rules = proc[n].rules /\ proc'[n].last = proc[n].last
            /\ Running(n)' => Running(n) /\ proc'[n].online = proc[n].online
                              /\ proc'[n].r = proc[n].r
                              /\ (proc[n].online => IsList(proc[n].rules, proc'[n].dir))
  PROVE  RulesInv'
BY DEF RulesInv, RulesOf

\* A process that ends has no list.
LEMMA ExitsRules == ASSUME LockInv, RulesInv, NEW m \in Monitors, Exits(m) PROVE RulesInv'
<1>1. IsRecord(proc[m]) /\ m \in DOMAIN proc
  BY DEF LockInv, ProcOK
<1>2. /\ proc'[m].rules = proc[m].rules /\ proc'[m].last = proc[m].last
      /\ proc'[m].phase = "gone" /\ Alone(m)
  BY <1>1 DEF LockInv, ProcOK, IsRecord, Exits, Alone
<1>3. ~Running(m)'
  BY <1>2 DEF Running
<1> QED BY <1>2, <1>3 DEF RulesInv, RulesOf, Alone, Running

\* -r leaves one file in the list, whatever number was given.
LEMMA ParseRules == ASSUME LockInv, RulesInv, NEW m \in Monitors, parse_cmdline(m) PROVE RulesInv'
<1>1. PICK r \in CmdLines :
        proc' = [proc EXCEPT ![m] =
                    [Fresh EXCEPT !.phase = "pre_config", !.r = r, !.online = (r = <<>>),
                                  !.rules = IF r = <<>> THEN <<>> ELSE <<RuleFile(r[Len(r)], TRUE)>>,
                                  !.last = IF r = <<>> THEN 0 ELSE 1]]
  BY DEF parse_cmdline
<1>2. /\ proc'[m].dir = 1 /\ proc'[m].online = (r = <<>>) /\ proc'[m].r = r
      /\ proc'[m].rules = (IF r = <<>> THEN <<>> ELSE <<RuleFile(r[Len(r)], TRUE)>>)
      /\ proc'[m].last = (IF r = <<>> THEN 0 ELSE 1) /\ Alone(m)
  BY <1>1 DEF LockInv, ProcOK, Fresh, Alone
<1>3. CASE r = <<>>
  <2>1. <<>> \in Seq(Entries) /\ Len(<<>>) = 0
    BY EmptySeq
  <2>2. {j \in RuleDirs : j < 1} = {}
    BY SizeIsNat DEF RuleDirs
  <2>3. IsList(<<>>, 1)
    BY <2>1, <2>2, FS_EmptySet DEF IsList
  <2>4. RulesOf(m)'
    BY <1>2, <1>3, <2>1, <2>3 DEF RulesOf
  <2> QED BY <1>2, <2>4 DEF RulesInv, RulesOf, Alone, Running
<1>4. CASE r # <<>>
  <2> DEFINE e == RuleFile(r[Len(r)], TRUE)
  <2>1. e \in Entries
    BY DEF Entries, RuleFile
  <2> HIDE DEF e
  <2>2. <<e>> \in Seq(Entries) /\ Len(<<e>>) = 1
    BY <2>1
  <2>3. proc'[m].rules = <<e>> /\ proc'[m].last = 1 /\ proc'[m].online = FALSE
    BY <1>2, <1>4 DEF e
  <2>4. RulesOf(m)'
    BY <1>2, <2>2, <2>3 DEF RulesOf, e
  <2> QED BY <1>2, <2>4 DEF RulesInv, RulesOf, Alone, Running
<1> QED BY <1>3, <1>4

\* A rule file is added.
LEMMA AddRules ==
  ASSUME LockInv, RulesInv, NEW m \in Monitors, NEW is \in {"AddRuleFile", "AddRuleFiles"},
         Directive(m, is),
         proc' = [proc EXCEPT ![m] =
                    Done(Inserted(proc[m], RuleFile(Config[proc[m].dir].name, is = "AddRuleFile")))]
  PROVE  RulesInv'
<1> DEFINE p == proc[m]
           d == proc[m].dir
           e == RuleFile(Config[d].name, is = "AddRuleFile")
           new == SubSeq(p.rules, 1, Len(p.rules)) \o <<e>>
<1>1. /\ d \in 1 .. Size /\ Config[d].is = is /\ p.online /\ p.phase = "pre_config"
      /\ IsRecord(p) /\ m \in DOMAIN proc
  BY SizeIsNat DEF LockInv, ProcOK, Directive, At, Size
<1>2. d \in RuleDirs /\ e \in Entries
  BY <1>1 DEF RuleDirs, Entries, RuleFile
<1>3. p.rules \in Seq(Entries) /\ p.last = Len(p.rules) /\ IsList(p.rules, d)
  BY <1>1 DEF RulesInv, RulesOf, Running
<1>4. new \in Seq(Entries) /\ Len(new) = Len(p.rules) + 1 /\ IsList(new, d + 1)
  BY <1>1, <1>2, <1>3, ListGrows
<1>5. /\ proc'[m].rules = new /\ proc'[m].last = Len(p.rules) + 1 /\ proc'[m].dir = d + 1
      /\ proc'[m].online = p.online /\ Alone(m)
  BY <1>1, <1>3 DEF LockInv, ProcOK, IsRecord, Done, Inserted, Alone
<1> HIDE DEF new
<1>6. RulesOf(m)'
  BY <1>1, <1>4, <1>5 DEF RulesOf
<1> QED BY <1>5, <1>6 DEF RulesInv, RulesOf, Alone, Running

\* Every directive leaves the list of the files named so far.
LEMMA DirectivesRules ==
  ASSUME LockInv, RulesInv, NEW m \in Monitors,
         \/ add_rule_file(m) \/ add_rule_files(m) \/ set_runtime_user(m) \/ set_lock_file(m)
         \/ create_sockunix_socket(m)
  PROVE  RulesInv'
<1>1. IsRecord(proc[m]) /\ m \in DOMAIN proc
  BY DEF LockInv, ProcOK
<1>2. CASE add_rule_file(m)
  BY <1>1, <1>2, AddRules DEF add_rule_file
<1>3. CASE add_rule_files(m)
  BY <1>1, <1>3, AddRules DEF add_rule_files
<1>4. ASSUME NEW is, is \notin {"AddRuleFile", "AddRuleFiles"}, Directive(m, is)
      PROVE  /\ Running(m) /\ (proc[m].online => IsList(proc[m].rules, proc[m].dir))
             /\ IsList(proc[m].rules, proc[m].dir) => IsList(proc[m].rules, proc[m].dir + 1)
  <2>1. proc[m].dir \in 1 .. Size /\ proc[m].dir \notin RuleDirs /\ Running(m)
    BY <1>4, SizeIsNat DEF LockInv, ProcOK, Directive, At, Size, RuleDirs, Running
  <2> QED BY <2>1, ListSkips DEF RulesInv, RulesOf
<1>5. CASE set_runtime_user(m)
  <2>1. /\ proc'[m].rules = proc[m].rules /\ proc'[m].last = proc[m].last
        /\ proc'[m].online = proc[m].online /\ proc'[m].r = proc[m].r
        /\ proc'[m].dir = proc[m].dir + 1 /\ Alone(m)
    BY <1>1, <1>5 DEF LockInv, ProcOK, IsRecord, set_runtime_user, Done, Alone
  <2>2. Running(m) /\ (proc[m].online => IsList(proc[m].rules, proc'[m].dir))
    BY <1>4, <1>5, <2>1 DEF set_runtime_user
  <2> QED BY <2>1, <2>2, ListsStay DEF Alone, Running, RulesInv, RulesOf
<1>6. CASE set_lock_file(m)
  <2>1. /\ proc'[m].rules = proc[m].rules /\ proc'[m].last = proc[m].last
        /\ proc'[m].online = proc[m].online /\ proc'[m].r = proc[m].r
        /\ proc'[m].dir = proc[m].dir + 1 /\ Alone(m)
    BY <1>1, <1>6 DEF LockInv, ProcOK, IsRecord, set_lock_file, Done, Alone
  <2>2. Running(m) /\ (proc[m].online => IsList(proc[m].rules, proc'[m].dir))
    BY <1>4, <1>6, <2>1 DEF set_lock_file
  <2> QED BY <2>1, <2>2, ListsStay DEF Alone, Running, RulesInv, RulesOf
<1>7. CASE create_sockunix_socket(m)
  <2>1. \A n \in Monitors :
          /\ proc'[n].rules = proc[n].rules /\ proc'[n].last = proc[n].last
          /\ proc'[n].online = proc[n].online /\ proc'[n].r = proc[n].r
          /\ proc'[n].dir = proc[n].dir /\ (n # m => proc'[n].phase = proc[n].phase)
    BY <1>7 DEF LockInv, ProcOK, IsRecord, create_sockunix_socket, Unlinked
  <2>2. Running(m)
    BY <1>7 DEF create_sockunix_socket, Directive, At, Running
  <2> QED BY <2>1, <2>2, ListsStay DEF Running, RulesInv, RulesOf
<1> QED BY <1>2, <1>3, <1>5, <1>6, <1>7

\* bind() leaves the list.
LEMMA BindRules == ASSUME LockInv, RulesInv, NEW m \in Monitors, Xbind(m) PROVE RulesInv'
<1>1. CASE path # Nobody /\ Exits(m)
  BY <1>1, ExitsRules
<1>2. CASE ~(path # Nobody /\ Exits(m))
  <2>1. /\ IsRecord(proc[m]) /\ m \in DOMAIN proc /\ proc[m].phase = "bind"
    BY DEF LockInv, ProcOK, Xbind, At
  <2>2. /\ proc'[m].rules = proc[m].rules /\ proc'[m].last = proc[m].last
        /\ proc'[m].online = proc[m].online /\ proc'[m].r = proc[m].r
        /\ proc'[m].dir = proc[m].dir + 1 /\ Alone(m)
    <3> DEFINE q == [proc[m] EXCEPT !.phase = "pre_config", !.bound = TRUE]
    <3>1. proc'[m] = Done(q) /\ Alone(m)
      BY <1>2, <2>1 DEF LockInv, ProcOK, Xbind, Alone
    <3>2. /\ IsRecord(q) /\ q.rules = proc[m].rules /\ q.last = proc[m].last
          /\ q.online = proc[m].online /\ q.r = proc[m].r /\ q.dir = proc[m].dir
      BY <2>1 DEF IsRecord
    <3> HIDE DEF q
    <3>3. /\ Done(q).rules = q.rules /\ Done(q).last = q.last /\ Done(q).online = q.online
          /\ Done(q).r = q.r /\ Done(q).dir = q.dir + 1
      BY <3>2 DEF IsRecord, Done
    <3> QED BY <3>1, <3>2, <3>3
  <2>3. Running(m) /\ ProgressOf(m)
    BY <2>1 DEF LockInv, Progress, Running
  <2>4. proc[m].dir \in 1 .. Size /\ proc[m].dir \notin RuleDirs
    BY <2>1, <2>3, SizeIsNat DEF LockInv, ProcOK, ProgressOf, At, RuleDirs
  <2>5. proc[m].online => IsList(proc[m].rules, proc'[m].dir)
    BY <2>2, <2>3, <2>4, ListSkips DEF RulesInv, RulesOf
  <2> QED BY <2>2, <2>3, <2>5, ListsStay DEF Alone, Running, RulesInv, RulesOf
<1> QED BY <1>1, <1>2

\* A step to another phase leaves the list.
LEMMA PhaseRules ==
  ASSUME LockInv, RulesInv, NEW m \in Monitors, NEW phase, Running(m),
         lock_test(m) \/ Write_lock(m) \/ change_run_id(m) \/ Goes(m, phase)
  PROVE  RulesInv'
<1>1. CASE Exits(m)
  BY <1>1, ExitsRules
<1>2. CASE ~Exits(m)
  <2>1. PICK next : proc' = [proc EXCEPT ![m].phase = next]
    BY <1>2 DEF lock_test, Write_lock, change_run_id, Goes
  <2>2. /\ proc'[m].rules = proc[m].rules /\ proc'[m].last = proc[m].last
        /\ proc'[m].online = proc[m].online /\ proc'[m].r = proc[m].r
        /\ proc'[m].dir = proc[m].dir /\ Alone(m)
    BY <2>1 DEF LockInv, ProcOK, IsRecord, Alone
  <2> QED BY <2>2, ListsStay DEF Alone, Running, RulesInv, RulesOf
<1> QED BY <1>1, <1>2

\* A file whose name is lost was added by AddRuleFiles.
LEMMA FoundList ==
  ASSUME NEW rules \in Seq(Entries)
  PROVE  /\ Found(rules) \in Seq(Entries) /\ Len(Found(rules)) = Len(rules)
         /\ \A d \in 1 .. Size + 1 : IsList(rules, d) => IsList(Found(rules), d)
<1>1. Len(rules) \in Nat /\ DOMAIN rules = 1 .. Len(rules)
  BY LenProperties
<1>2. \A i \in 1 .. Len(rules) : rules[i] \in Entries
  BY ElementOfSeq
<1>3. RuleFile(NoFile, FALSE) \in Entries
  BY DEF RuleFile, Entries
<1>4. Found(rules) \in Seq(Entries) /\ Len(Found(rules)) = Len(rules)
  <2> DEFINE entry(i) == IF rules[i].kept THEN rules[i] ELSE RuleFile(NoFile, FALSE)
  <2>1. \A i \in 1 .. Len(rules) : entry(i) \in Entries
    BY <1>2, <1>3
  <2>2. Found(rules) = [i \in 1 .. Len(rules) |-> entry(i)]
    BY <1>1 DEF Found
  <2> HIDE DEF entry
  <2> QED BY <1>1, <2>1, <2>2
<1>5. \A i \in 1 .. Len(rules) : \A name : rules[i] = RuleFile(name, TRUE) => Found(rules)[i] = rules[i]
  BY <1>1 DEF Found, RuleFile
<1>6. ASSUME NEW d \in 1 .. Size + 1, IsList(rules, d) PROVE IsList(Found(rules), d)
  <2>1. \A k \in RuleDirs : k < d => Place(k) \in 1 .. Len(rules)
    <3>1. d \in Nat /\ Len(rules) = Cardinality({j \in RuleDirs : j < d})
      BY <1>6, SizeIsNat DEF IsList
    <3> QED BY <3>1, PlaceInList
  <2> QED BY <1>4, <1>5, <1>6, <2>1 DEF IsList
<1> QED BY <1>4, <1>6

\* The compiler reads the list and leaves its order.
LEMMA CompileRules == ASSUME LockInv, RulesInv, NEW m \in Monitors, compile_rules(m) PROVE RulesInv'
<1>1. /\ IsRecord(proc[m]) /\ m \in DOMAIN proc /\ Running(m)
      /\ proc[m].dir \in 1 .. Size + 1
  BY DEF LockInv, ProcOK, compile_rules, At, Running
<1>2. CASE Exits(m) \/ Goes(m, "post_compil")
  BY <1>1, <1>2, ExitsRules, PhaseRules
<1>3. CASE ~(Exits(m) \/ Goes(m, "post_compil"))
  <2> DEFINE q == [proc[m] EXCEPT !.phase = "post_compil", !.rules = Found(proc[m].rules)]
  <2>1. /\ proc' = [proc EXCEPT ![m] = q]
        /\ \E k \in DOMAIN proc[m].rules : ~proc[m].rules[k].kept
    BY <1>1, <1>3 DEF compile_rules
  <2>2. /\ q.rules = Found(proc[m].rules) /\ q.last = proc[m].last
        /\ q.online = proc[m].online /\ q.r = proc[m].r /\ q.dir = proc[m].dir
    BY <1>1 DEF IsRecord
  <2> HIDE DEF q
  <2>3. proc'[m] = q /\ Alone(m)
    BY <2>1 DEF LockInv, ProcOK, Alone
  <2>4. RulesOf(m)
    BY DEF RulesInv
  <2>5. proc[m].online
    <3> SUFFICES ASSUME ~proc[m].online PROVE FALSE
      OBVIOUS
    <3> DEFINE e == RuleFile(proc[m].r[Len(proc[m].r)], TRUE)
    <3>1. proc[m].rules = <<e>> /\ e.kept
      BY <1>1, <2>4 DEF RulesOf, RuleFile
    <3> HIDE DEF e
    <3>2. DOMAIN <<e>> = {1} /\ <<e>>[1] = e
      OBVIOUS
    <3> QED BY <2>1, <3>1, <3>2
  <2>6. /\ Found(proc[m].rules) \in Seq(Entries)
        /\ Len(Found(proc[m].rules)) = proc[m].last
        /\ IsList(Found(proc[m].rules), proc[m].dir)
    BY <1>1, <2>4, <2>5, FoundList DEF RulesOf
  <2>7. RulesOf(m)'
    BY <2>2, <2>3, <2>5, <2>6 DEF RulesOf
  <2> QED BY <2>3, <2>7 DEF RulesInv, RulesOf, Alone, Running
<1> QED BY <1>2, <1>3

\* Every step preserves the lists.
LEMMA NextRules == ASSUME LockInv, RulesInv, [StartNext]_startVars PROVE RulesInv'
<1>1. ASSUME NEW m \in Monitors,
             \/ parse_cmdline(m) \/ add_rule_file(m) \/ add_rule_files(m)
             \/ set_lock_file(m) \/ set_runtime_user(m)
             \/ create_sockunix_socket(m) \/ Xbind(m)
             \/ lock_test(m) \/ Write_lock(m)
             \/ compile_rules(m) \/ change_run_id(m) \/ ReturnFromMain(m)
             \/ Crash(m)
      PROVE  RulesInv'
  <2>1. ReturnFromMain(m) \/ Crash(m) => Exits(m)
    BY DEF ReturnFromMain, Crash
  <2>2. lock_test(m) \/ Write_lock(m) \/ change_run_id(m) => Running(m)
    BY DEF lock_test, Write_lock, change_run_id, PreConfigured, At, Running
  <2> QED BY <1>1, <2>1, <2>2, ParseRules, DirectivesRules, BindRules, PhaseRules, CompileRules, ExitsRules
<1>2. CASE UNCHANGED startVars
  BY <1>2, ListsStay DEF startVars, RulesInv, RulesOf, Running
<1> QED BY <1>1, <1>2 DEF StartNext

\* What the list is for, when all directives were followed.
LEMMA ListIsAsked == LockInv /\ RulesInv => CompiledAsAsked
<1> SUFFICES ASSUME LockInv, RulesInv, NEW m \in Monitors, proc[m].phase \in {"post_compil", "main"}
             PROVE  LET asked == DOMAIN Asked(m)
                        Rank(k) == Cardinality({j \in asked : j <= k})
                    IN  /\ Len(proc[m].rules) = Cardinality(asked)
                        /\ \A k \in asked : Asked(m)[k].is = "AddRuleFiles"
                                            \/ proc[m].rules[Rank(k)].name = Asked(m)[k].name
  BY DEF CompiledAsAsked
<1> DEFINE asked == DOMAIN Asked(m)
<1>0. RulesOf(m) /\ ProgressOf(m) /\ Running(m) /\ Ahead(m)
  BY DEF LockInv, Progress, RulesInv, Running, Ahead
<1>1. CASE proc[m].online
  <2>1. asked = RuleDirs /\ \A k \in RuleDirs : Asked(m)[k] = Config[k]
    BY <1>1, SizeIsNat DEF Asked, RuleDirs
  <2>2. IsList(proc[m].rules, Size + 1)
    BY <1>0, <1>1 DEF RulesOf, ProgressOf
  <2>3. \A k \in RuleDirs : k < Size + 1
    BY SizeIsNat DEF RuleDirs
  <2>4. {j \in RuleDirs : j < Size + 1} = RuleDirs
    BY <2>3
  <2>5. Len(proc[m].rules) = Cardinality(RuleDirs)
    BY <2>2, <2>4 DEF IsList
  <2>6. ASSUME NEW k \in RuleDirs, Config[k].is # "AddRuleFiles"
        PROVE  proc[m].rules[Place(k)].name = Config[k].name
    <3>1. Config[k].is = "AddRuleFile"
      BY <2>6 DEF RuleDirs
    <3>2. proc[m].rules[Place(k)] = RuleFile(Config[k].name, TRUE)
      BY <2>2, <2>3, <3>1 DEF IsList
    <3> QED BY <3>2 DEF RuleFile
  <2> HIDE DEF asked
  <2>7. \A k \in asked : Cardinality({j \in asked : j <= k}) = Place(k)
    BY <2>1 DEF Place
  <2> QED BY <2>1, <2>5, <2>6, <2>7 DEF asked
<1>2. CASE ~proc[m].online
  <2> DEFINE l == Len(proc[m].r)
  <2>1. /\ proc[m].rules = <<RuleFile(proc[m].r[l], TRUE)>> /\ l \in Nat
    BY <1>0, <1>2, ConfigAssumption, LenProperties DEF RulesOf
  <2>2. asked = {l} /\ Asked(m)[l].name = proc[m].r[l]
    BY <1>2 DEF Asked
  <2>3. {j \in {l} : j <= l} = {l} /\ Cardinality({l}) = 1
    <3>1. l <= l
      BY <2>1
    <3>2. {j \in {l} : j <= l} = {l}
      BY <3>1
    <3> QED BY <3>2, FS_Singleton, Zenon
  <2>4. Len(proc[m].rules) = 1 /\ proc[m].rules[1].name = proc[m].r[l]
    BY <2>1 DEF RuleFile
  <2> HIDE DEF asked, l
  <2> QED BY <2>2, <2>3, <2>4 DEF asked
<1> QED BY <1>1, <1>2

\* A start gives one monitor, with the rules it was asked to compile, that
\* the senders reach, for every number of processes and every configuration.
THEOREM StartAlwaysSound == StartSpec => []StartSound
<1>1. StartInit => LockInv /\ RulesInv
  BY InitLock, InitRules
<1>2. LockInv /\ RulesInv /\ [StartNext]_startVars => (LockInv /\ RulesInv)'
  BY NextLock, NextRules
<1>3. LockInv /\ RulesInv => StartTypeOK
  BY DEF LockInv, LockOK, PathOK, RulesInv, RulesOf, StartTypeOK
<1>4. LockInv /\ RulesInv => StartSound
  BY <1>3, OneIsEnough, ListIsAsked DEF StartSound
<1> QED BY <1>1, <1>2, <1>4, PTL DEF StartSpec
=============================================================================
