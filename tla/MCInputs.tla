------------------------------ MODULE MCInputs ------------------------------
(* What the monitor is started with and reads: a text socket, the input     *)
(* descriptors, text files, the configuration and the start, one at a time. *)
EXTENDS TextSock, Descriptors, TextFiles, ConfigTree, Startup

CONSTANTS c1, c2, t1, f1, f2, m1, m2, m3, ra, rb, rc, other

MCConsoles == {c1, c2}
MCSources == {t1}

MCFileList == <<f1, f2>>
MCLineSizes == {1, 4}

MCDirectives == {"d"}
MCSections == {"a", "ab"}
MCNamePrefixes == {<<"a", "ab">>}
MCGlobbed == <<"inc1", "inc2">>
MCIncludedLines == <<2, 1>>

MCMonitors == {m1, m2, m3}
MCConfig == <<[is |-> "AddRuleFile", name |-> ra], [is |-> "AddUnixSocket", name |-> NoFile],
              [is |-> "AddRuleFiles", name |-> rb], [is |-> "SetLockFile", name |-> other],
              [is |-> "AddRuleFile", name |-> rc], [is |-> "RuntimeUser", name |-> other]>>
MCCmdLines == {<<>>, <<ra, rb>>}

VARIABLE subject   \* the part that runs

partVars == <<vars, descVars, filesVars, cfgVars, startVars>>

\* The parts that do not run stay in one state.
DescIdle == DescInit /\ handlers[1].owner = Listener /\ handlers[2].owner = t1
FilesIdle == FilesInit /\ sticky /\ exit_process_all
CfgIdle ==
    /\ lines = [f \in {MainFile} \cup {Globbed[k] : k \in DOMAIN Globbed} |-> <<>>]
    /\ frames = <<Frame(MainFile, 1, MainFile)>>
    /\ includes = <<>> /\ tree = <<>> /\ state = "reading"
StartIdle == StartInit /\ path = Nobody

InputsInit ==
    /\ Init
    /\ \/ subject = "socket" /\ DescIdle /\ FilesIdle /\ CfgIdle /\ StartIdle
       \/ subject = "descriptors" /\ DescInit /\ FilesIdle /\ CfgIdle /\ StartIdle
       \/ subject = "files" /\ DescIdle /\ FilesInit /\ CfgIdle /\ StartIdle
       \/ subject = "configuration" /\ DescIdle /\ FilesIdle /\ CfgInit /\ StartIdle
       \/ subject = "start" /\ DescIdle /\ FilesIdle /\ CfgIdle /\ StartInit

InputsNext ==
    /\ UNCHANGED subject
    /\ \/ subject = "socket" /\ Next /\ UNCHANGED <<descVars, filesVars, cfgVars, startVars>>
       \/ subject = "descriptors" /\ DescNext /\ UNCHANGED <<vars, filesVars, cfgVars, startVars>>
       \/ subject = "files" /\ FilesNext /\ UNCHANGED <<vars, descVars, cfgVars, startVars>>
       \/ subject = "configuration" /\ CfgNext /\ UNCHANGED <<vars, descVars, filesVars, startVars>>
       \/ subject = "start" /\ StartNext /\ UNCHANGED <<vars, descVars, filesVars, cfgVars>>

InputsSpec == InputsInit /\ [][InputsNext]_<<subject, partVars>>

\* Consoles and processes are interchangeable.
Interchangeable == Permutations(MCConsoles) \cup Permutations(MCMonitors)
=============================================================================
