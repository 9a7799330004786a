----------------------------- MODULE ConfigTree -----------------------------
(* The configuration tree (src/src/orchids_cfg.c): sections are read        *)
(* recursively, an included file is read when it is met and its directives  *)
(* are linked where the Include stands, and an error ends the file in which *)
(* it occurs.  A line is a token: its directive.  Blank lines and comments   *)
(* are left out, since split_line() skips them.                             *)
EXTENDS Naturals, Sequences, FiniteSets, SequencesExt

CONSTANTS
    Directives, Sections,
    NamePrefixes,        \* <<a, b>>: the section name a is a proper prefix of b
    Globbed,         \* the files that the Include pattern matches, in order
    MainFile,
    MainLines, IncludedLines   \* bounds: lines of a file

VARIABLES
    lines,           \* of each file
    frames,          \* the calls of build_config_tree_sub(), innermost last
    includes,        \* files that the current Include has not yet read
    tree, state      \* of the main file; "reading", "done" or "crashed"

cfgVars == <<lines, frames, includes, tree, state>>

\* split_line() and cfg_get_next_token(): what one line can be.
Tokens == [is : {"directive"}, name : Directives] \cup [is : {"open", "close"}, name : Sections]
Include == [is |-> "include", name |-> MainFile]

\* strncmp() over the length of the name in the closing line.
Closes(name, section) == name = section \/ <<name, section>> \in NamePrefixes

Top == frames[Len(frames)]
Frame(file, at, section) == [file |-> file, at |-> at, section |-> section, list |-> <<>>]
AtTopLevel(frame) == frame.section = MainFile

\* The frames with the innermost one changed.
Changed(frame) == frames' = [frames EXCEPT ![Len(frames)] = frame]
Line == lines[Top.file][Top.at]
PastLine == [Top EXCEPT !.at = @ + 1]

----------------------------------------------------------------------------
ReadingOn == state = "reading" /\ Top.at <= Len(lines[Top.file])

AddDirective ==
    /\ ReadingOn /\ Line.is = "directive"
    /\ Changed([PastLine EXCEPT !.list = Append(@, [name |-> Line.name, kids |-> <<>>])])
    /\ UNCHANGED <<lines, includes, tree, state>>

\* The section is read by a call of its own, which takes up where this stands.
OpenSection ==
    /\ ReadingOn /\ Line.is = "open"
    /\ frames' = Append(frames, Frame(Top.file, Top.at + 1, Line.name))
    /\ UNCHANGED <<lines, includes, tree, state>>

\* The call returns to the one that opened the section.
ClosedAt(at) ==
    LET outer == frames[Len(frames) - 1]
    IN  SubSeq(frames, 1, Len(frames) - 2)
          \o <<[outer EXCEPT !.at = at, !.list = Append(@, [name |-> Top.section, kids |-> Top.list])]>>

CloseSection ==
    /\ ReadingOn /\ Line.is = "close" /\ ~AtTopLevel(Top) /\ Closes(Line.name, Top.section)
    /\ frames' = ClosedAt(Top.at + 1)
    /\ UNCHANGED <<lines, includes, tree, state>>

\* "error closing '%s', found '%s' instead" names the section that is open,
\* and there is none.
StrayClose ==
    /\ ReadingOn /\ Line.is = "close" /\ AtTopLevel(Top)
    /\ state' = "crashed"
    /\ UNCHANGED <<lines, frames, includes, tree>>

\* proceed_includes(): the first file that the pattern matches.
OpenInclude ==
    /\ ReadingOn /\ Line = Include
    /\ frames' = Append([frames EXCEPT ![Len(frames)] = PastLine], Frame(Globbed[1], 1, MainFile))
    /\ includes' = Tail(Globbed)
    /\ UNCHANGED <<lines, tree, state>>

----------------------------------------------------------------------------
(* The end of a file                                                        *)

Outermost == CHOOSE k \in DOMAIN frames : frames[k].file = Top.file
                                          /\ (k = 1 \/ frames[k - 1].file # Top.file)

\* Every call up to the first of the file returns; what it has read stays
\* linked to its section.
Unwound ==
    FoldRight(LAMBDA frame, inner :
                [frame EXCEPT !.list = Append(@, [name |-> inner.section, kids |-> inner.list])],
              SubSeq(frames, Outermost, Len(frames) - 1), Top)

\* The new directives are linked after the last one of the list.
Linked_first(list, new) == IF new = <<>> THEN list ELSE new
Linked(list, new) == list \o new

\* build_config_tree() returned for the main file or an included one.  An
\* error in an included file gives up its directives and the files that the
\* pattern matches besides; the caller goes on, and so does main().
ReturnFrom(error) ==
    IF Top.file = MainFile
    THEN /\ tree' = Unwound.list /\ state' = "done" /\ frames' = <<>>
         /\ UNCHANGED <<lines, includes>>
    ELSE LET outer == frames[Outermost - 1]
             list == IF error THEN outer.list ELSE Linked(outer.list, Unwound.list)
             below == SubSeq(frames, 1, Outermost - 2) \o <<[outer EXCEPT !.list = list]>>
         IN  /\ IF error \/ includes = <<>>
                THEN frames' = below /\ includes' = <<>>
                ELSE frames' = Append(below, Frame(Head(includes), 1, MainFile)) /\ includes' = Tail(includes)
             /\ UNCHANGED <<lines, tree, state>>

\* ERR_CFG_SECT
WrongClose ==
    /\ ReadingOn /\ Line.is = "close" /\ ~AtTopLevel(Top) /\ ~Closes(Line.name, Top.section)
    /\ ReturnFrom(TRUE)

\* ERR_CFG_PEOF inside a section
EndOfFile ==
    /\ state = "reading" /\ Top.at > Len(lines[Top.file])
    /\ ReturnFrom(~AtTopLevel(Top))

SeqsUpTo(S, n) == UNION {[1..k -> S] : k \in 0..n}

CfgInit ==
    /\ \E main \in SeqsUpTo(Tokens \cup {Include}, MainLines) :
         \E included \in [1..Len(Globbed) -> SeqsUpTo(Tokens, IncludedLines[1])] :
            /\ \A k \in DOMAIN included : Len(included[k]) <= IncludedLines[k]
            /\ Include \notin ToSet(main) => \A k \in DOMAIN included : included[k] = <<>>
            /\ lines = [f \in {MainFile} \cup ToSet(Globbed) |->
                          IF f = MainFile THEN main ELSE included[CHOOSE k \in DOMAIN Globbed : Globbed[k] = f]]
    /\ frames = <<Frame(MainFile, 1, MainFile)>>
    /\ includes = <<>> /\ tree = <<>> /\ state = "reading"

CfgNext ==
    \/ AddDirective \/ OpenSection \/ CloseSection \/ StrayClose
    \/ OpenInclude \/ WrongClose \/ EndOfFile

----------------------------------------------------------------------------
(* Properties                                                               *)

RECURSIVE Preorder(_, _)
Preorder(list, depth) ==
    IF list = <<>> THEN <<>>
    ELSE <<[name |-> Head(list).name, depth |-> depth]>>
           \o Preorder(Head(list).kids, depth + 1) \o Preorder(Tail(list), depth)

\* The sections that are open after the first k of the lines.
Opens(s, k) == {j \in 1..k : s[j].is = "open"}
Depth(s, k) == Cardinality(Opens(s, k)) - Cardinality({j \in 1..k : s[j].is = "close"})
OpenAt(s, k) == {j \in Opens(s, k) : \A i \in j..k : Depth(s, i) >= Depth(s, j)}

Stray(s, k) == s[k].is = "close" /\ OpenAt(s, k - 1) = {}
Wrong(s, k) ==
    /\ s[k].is = "close"
    /\ \E j \in OpenAt(s, k - 1) : (\A i \in OpenAt(s, k - 1) : i <= j) /\ ~Closes(s[k].name, s[j].name)
Errors(s) == {k \in DOMAIN s : Stray(s, k) \/ Wrong(s, k)}
FirstError(s) == CHOOSE k \in Errors(s) : \A j \in Errors(s) : k <= j
Cut(s) == IF Errors(s) = {} THEN s ELSE SubSeq(s, 1, FirstError(s) - 1)
Fails(s) == Errors(s) # {} \/ Depth(s, Len(s)) > 0

\* An included file stands for its lines.
Readable == {k \in 0..Len(Globbed) : \A j \in 1..k : ~Fails(lines[Globbed[j]])}
ForInclude == FlattenSeq([k \in 1..(CHOOSE n \in Readable : \A m \in Readable : m <= n) |-> lines[Globbed[k]]])
Expanded == FlattenSeq([k \in DOMAIN Cut(lines[MainFile]) |->
              IF lines[MainFile][k] = Include THEN ForInclude ELSE <<lines[MainFile][k]>>])

Declared(s) ==
    LET heads == SelectSeq([k \in DOMAIN s |-> [is |-> s[k].is, name |-> s[k].name, depth |-> Depth(s, k - 1)]],
                           LAMBDA t : t.is \in {"directive", "open"})
    IN  [k \in DOMAIN heads |-> [name |-> heads[k].name, depth |-> heads[k].depth]]

\* build_config_tree(): the tree is the text, every directive in its section
\* and in order, with each included file in the place of the Include.  An
\* error cuts the main file there; an included file with an error counts for
\* nothing, and so do those that the pattern matches after it.
TreeAsWritten == state = "done" => Preorder(tree, 0) = Declared(Expanded)
=============================================================================
