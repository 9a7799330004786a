----------------------------- MODULE TextFiles -----------------------------
(* The regular files of mod_textfile (src/src/modules/mod_textfile.c): each *)
(* poll reads at most one line of each file, a file that was read to its    *)
(* end is looked at again when its st_mtime has changed, and other          *)
(* processes go on writing all the time.                                    *)
(*                                                                          *)
(* A line is a sequence of pieces, and Xfgets() returns one piece: a buffer *)
(* full, or what the writer has flushed so far.                             *)
EXTENDS Naturals, Sequences, FiniteSets

CONSTANTS
    FileList,      \* the files, the last one added first
    LineSizes,     \* the lengths of lines, in pieces
    MaxPieces,     \* MAX_LINE_SZ / BUFF_SZ, rounded up
    PollPeriod,
    MaxLines, MaxTime  \* bounds: lines written, and seconds

FileNames == {FileList[k] : k \in DOMAIN FileList}

VARIABLES
    content, mtime,   \* of the files
    truncated,        \* the files that were truncated
    written,          \* lines begun
    now,
    pos, eof, stat,   \* textfile_t: offset, eof and file_stat
    ended,            \* the end-of-file indicators of the streams
    sticky,           \* whether the C library reads past such an indicator
    pass,             \* "postcompil", "poll" or "idle"
    at, passEof,      \* the file of the pass, and the eof of textfile_callback()
    got, dry,         \* the pieces of an unfinished line, and reads in vain
    due, begun,       \* when rtaction_read_files() runs again, and did so last
    exit_process_all, gone,
    log               \* what became of each line of a file

filesVars == <<content, mtime, truncated, written, now, pos, eof, stat, ended, sticky,
               pass, at, passEof, got, dry, due, begun, exit_process_all, gone, log>>
diskVars == <<content, mtime, truncated, written, now>>
settings == <<sticky, exit_process_all>>

TheFile == FileList[at]

----------------------------------------------------------------------------
(* process_new_lines()                                                      *)

\* textfile_buildevent() for a line, or the warning that it is too long.
\* Whatever Xfgets() left in the buffer is appended again after each read in
\* vain, and counts.
Entry_greater(pieces, vain) ==
    [line |-> pieces[Len(pieces)].line,
     late |-> \E k \in DOMAIN pieces : pieces[k].late,
     long |-> Len(pieces) > 1 /\ Len(pieces) + 1 >= MaxPieces,
     how  |-> IF Len(pieces) + vain + 1 > MaxPieces THEN "dropped" ELSE "whole"]
Entry(pieces, vain) ==
    [line |-> pieces[Len(pieces)].line,
     late |-> \E k \in DOMAIN pieces : pieces[k].late,
     long |-> Len(pieces) > 1 /\ Len(pieces) + 1 >= MaxPieces,
     how  |-> CASE (Len(pieces) > 1 \/ vain > 0) /\ Len(pieces) + vain + 1 >= MaxPieces -> "dropped"
                [] vain > 0 -> "garbled"
                [] \E k \in DOMAIN pieces : pieces[k].line # pieces[1].line \/ pieces[k].no # k -> "torn"
                [] OTHER -> "whole"]

\* The pieces that Xfgets() can deliver from offset o on, up to a newline.
Available(f, o, blind) ==
    LET ends == {k \in o + 1..Len(content[f]) : content[f][k].last}
        last == IF ends = {} THEN Len(content[f]) ELSE CHOOSE k \in ends : \A j \in ends : k <= j
    IN  IF blind \/ o >= Len(content[f]) THEN <<>> ELSE SubSeq(content[f], o + 1, last)

Blind(f) == sticky /\ ended[f]

\* The next file, with eof &= what was returned.
NextFile(returned) == at' = at + 1 /\ passEof' = (passEof /\ returned) /\ got' = <<>> /\ dry' = 0

\* Pieces were read, before which the line had those of got.
Take(f, o, pieces) ==
    /\ pos' = [pos EXCEPT ![f] = o + Len(pieces)]
    /\ IF pieces[Len(pieces)].last
       THEN /\ log' = [log EXCEPT ![f] = Append(@, Entry(got \o pieces, dry))]
            /\ eof' = [eof EXCEPT ![f] = FALSE]
            /\ NextFile(FALSE)
            /\ UNCHANGED ended
       ELSE /\ got' = got \o pieces
            /\ ended' = [ended EXCEPT ![f] = TRUE]
            /\ UNCHANGED <<log, eof, at, passEof, dry>>

process_new_lines(f, o, blind) ==
    LET pieces == Available(f, o, blind)
    IN  IF pieces = <<>>
        THEN /\ eof' = [eof EXCEPT ![f] = TRUE]
             /\ ended' = [ended EXCEPT ![f] = TRUE]
             /\ pos' = [pos EXCEPT ![f] = o]
             /\ NextFile(TRUE)
             /\ UNCHANGED log
        ELSE Take(f, o, pieces)

\* The inner loop goes on until there is a newline, and nothing else runs
\* meanwhile: it reads in vain, or what the writer has added.
Reading == pass # "idle" /\ at <= Len(FileList) /\ got # <<>>
read_rest ==
    /\ ~gone /\ Reading
    /\ LET f == TheFile
           pieces == Available(f, pos[f], Blind(f))
       IN  IF pieces = <<>>
           THEN dry' = (IF dry < MaxPieces THEN dry + 1 ELSE dry)
                /\ UNCHANGED <<pos, eof, ended, log, at, passEof, got>>
           ELSE Take(f, pos[f], pieces)
    /\ UNCHANGED <<diskVars, settings, stat, pass, due, begun, gone>>

----------------------------------------------------------------------------
(* The passes over the files                                                *)

\* textfile_postcompil(): one line of each file.
textfile_postcompil ==
    /\ ~gone /\ pass = "postcompil" /\ at <= Len(FileList) /\ ~Reading
    /\ process_new_lines(TheFile, pos[TheFile], Blind(TheFile))
    /\ UNCHANGED <<diskVars, settings, stat, pass, due, begun, gone>>

Rewinds(f) == eof[f] /\ stat[f].size > Len(content[f])
StartOf(f) == IF Rewinds(f) THEN 0 ELSE pos[f]

\* textfile_callback(), one file that stays as it is.
PassOver(f) ==
    /\ pos' = [pos EXCEPT ![f] = StartOf(f)]
    /\ ended' = [ended EXCEPT ![f] = @ /\ ~Rewinds(f)]
    /\ NextFile(TRUE)
    /\ UNCHANGED <<eof, log>>

AtFile(f) == ~gone /\ pass = "poll" /\ ~Reading /\ at <= Len(FileList) /\ f = TheFile

\* textfile_callback(), one file.
textfile_callback ==
    \E f \in FileNames :
        /\ AtFile(f)
        /\ IF eof[f] /\ mtime[f] > stat[f].mtime
           THEN stat' = [stat EXCEPT ![f] = [size |-> Len(content[f]), mtime |-> mtime[f]]]
           ELSE UNCHANGED stat
        /\ IF ~eof[f] \/ mtime[f] > stat[f].mtime
           THEN process_new_lines(f, StartOf(f), Blind(f) /\ ~Rewinds(f))
           ELSE PassOver(f)
        /\ UNCHANGED <<diskVars, settings, pass, due, begun, gone>>

\* The end of a pass: the next one follows at once, or after the period; with
\* ExitAfterProcessAll the process exits when all files are at their end.
rtaction_read_files ==
    /\ ~gone /\ at > Len(FileList)
    /\ \/ /\ pass = "postcompil" /\ pass' = "idle" /\ due' = 0 /\ UNCHANGED gone
       \/ /\ pass = "poll" /\ pass' = "idle"
          /\ gone' = (exit_process_all /\ passEof)
          /\ due' = now + (IF passEof THEN PollPeriod ELSE 0)
    /\ at' = 1 /\ passEof' = TRUE
    /\ UNCHANGED <<diskVars, settings, pos, eof, stat, ended, got, dry, begun, log>>

poll ==
    /\ ~gone /\ pass = "idle" /\ now >= due
    /\ pass' = "poll" /\ begun' = now
    /\ UNCHANGED <<diskVars, settings, pos, eof, stat, ended, at, passEof, got, dry, due, gone, log>>

----------------------------------------------------------------------------
(* The writers                                                              *)

Unfinished(f) == content[f] # <<>> /\ ~content[f][Len(content[f])].last

Add(f, pieces) ==
    /\ content' = [content EXCEPT ![f] = @ \o pieces]
    /\ mtime' = [mtime EXCEPT ![f] = now]
    /\ UNCHANGED <<truncated, now>>

\* A line in one flush, the first part of one, or its rest.
Write(f) ==
    \/ /\ written < MaxLines /\ ~Unfinished(f)
       /\ written' = written + 1
       /\ \/ \E n \in LineSizes :
               Add(f, [k \in 1..n |-> [line |-> written', no |-> k, last |-> k = n, at |-> now, late |-> FALSE]])
          \/ Add(f, <<[line |-> written', no |-> 1, last |-> FALSE, at |-> now, late |-> FALSE]>>)
    \/ /\ Unfinished(f)
       /\ Add(f, <<[line |-> content[f][Len(content[f])].line, no |-> 2, last |-> TRUE, at |-> now, late |-> TRUE]>>)
       /\ UNCHANGED written

Truncate(f) ==
    /\ truncated = {} /\ content[f] # <<>>
    /\ truncated' = {f}
    /\ content' = [content EXCEPT ![f] = <<>>]
    /\ mtime' = [mtime EXCEPT ![f] = now]
    /\ UNCHANGED <<written, now>>

Second == now < MaxTime /\ now' = now + 1 /\ UNCHANGED <<content, mtime, truncated, written>>

Outside ==
    /\ ~gone
    /\ Second \/ \E f \in FileNames : Write(f) \/ Truncate(f)
    /\ UNCHANGED <<settings, pos, eof, stat, ended, pass, at, passEof, got, dry, due, begun, gone, log>>

\* add_input_file(): opened and looked at, when empty.
add_input_file ==
    /\ content = [f \in FileNames |-> <<>>] /\ mtime = [f \in FileNames |-> 0]
    /\ pos = [f \in FileNames |-> 0] /\ eof = [f \in FileNames |-> FALSE]
    /\ stat = [f \in FileNames |-> [size |-> 0, mtime |-> 0]]
    /\ ended = [f \in FileNames |-> FALSE]
    /\ log = [f \in FileNames |-> <<>>]

FilesInit ==
    /\ add_input_file
    /\ truncated = {} /\ written = 0 /\ now = 0
    /\ sticky \in BOOLEAN /\ exit_process_all \in BOOLEAN
    /\ pass = "postcompil" /\ at = 1 /\ passEof = TRUE
    /\ got = <<>> /\ dry = 0 /\ due = 0 /\ begun = 0 /\ gone = FALSE

FilesNext ==
    \/ textfile_postcompil \/ textfile_callback \/ read_rest
    \/ rtaction_read_files \/ poll
    \/ Outside

----------------------------------------------------------------------------
(* Properties                                                               *)

FilesTypeOK ==
    /\ \A f \in FileNames : pos[f] \in Nat /\ eof[f] \in BOOLEAN /\ ended[f] \in BOOLEAN
    /\ pass \in {"postcompil", "poll", "idle"} /\ at \in 1..Len(FileList) + 1
    /\ dry \in 0..MaxPieces /\ due \in 0..MaxTime + PollPeriod

\* textfile_callback(): no line is read twice and none before an earlier one,
\* with the file truncated and rewound or not.
ReadOnce ==
    \A f \in FileNames : \A i, j \in DOMAIN log[f] : i < j => log[f][i].line < log[f][j].line

\* process_new_lines(): a line that was written at once is posted as it is, or
\* dropped as too long, however it was cut into buffers.  Garbled or dropped
\* are only lines whose end was not yet there, torn only those of a file that
\* was truncated.
WholeUnlessCaughtUnfinished ==
    \A f \in FileNames \ truncated : \A k \in DOMAIN log[f] :
        log[f][k].late \/ log[f][k].how = IF log[f][k].long THEN "dropped" ELSE "whole"

Waiting(f) == pos[f] + 1..Len(content[f])

\* "Checks if mtime has changed for each file": of a file at its end, nothing
\* that was written remains unnoticed, except in the very second of the change
\* that was noticed last.
UnnoticedIsSameSecond ==
    ~sticky =>
        \A f \in FileNames : eof[f] /\ ~(Reading /\ TheFile = f) /\ mtime[f] <= stat[f].mtime =>
            \A k \in Waiting(f) : content[f][k].at = stat[f].mtime

\* ExitAfterProcessAll: the process leaves no line that was there before
\* the last pass, whichever of the files was the last to reach its end.
ExitLeavesNothingOld ==
    gone /\ ~sticky =>
        \A f \in FileNames : \A k \in Waiting(f) :
            content[f][k].at >= begun \/ content[f][k].at = stat[f].mtime

\* What is written to a file is posted: once, as it was written and in time,
\* with the exceptions that the parts name.
LinesReadFaithfully ==
    FilesTypeOK /\ ReadOnce /\ WholeUnlessCaughtUnfinished
        /\ UnnoticedIsSameSecond /\ ExitLeavesNothingOld
=============================================================================
