----------------------------- MODULE MCServices -----------------------------
(* What the modules do beside the analysis of events: the messages that      *)
(* they dissect, the pages that mod_htmlstate writes, the events that rules  *)
(* make and the variables that they share; one at a time.                    *)
EXTENDS HtmlOutput, MetaEvents, SharedVars, MCPipeline

CONSTANTS c1, c2, p1, p2

VARIABLE subject   \* the part that runs

MCRenderers == {c1, c2}
Rendered(ps, time, changes, restarts, kills, asked) ==
    [pages |-> ps, dir |-> TRUE, time |-> time + restarts + 2, changes |-> changes,
     restarts |-> restarts, kills |-> kills, reports |-> asked]
MCInstances == {
    Rendered(<<"modules">>, 1, 2, 0, 0, {}),
    Rendered(<<"fields", "functions">>, 1, 0, 1, 0, {}),
    Rendered(<<"stats", "datatypes", "rule_list">>, 1, 0, 0, 0, {}),
    Rendered(<<"rule_dot", "rule_html">>, 1, 0, 1, 1, {}),
    Rendered(<<"ruleinst_dot", "ruleinst_html">>, 0, 1, 0, 0, {}),
    Rendered(<<"ruleinsts">>, 1, 2, 0, 0, {}),
    Rendered(<<"thread_queue", "events">>, 1, 1, 0, 0, {}),
    Rendered(<<"config", "menu">>, 1, 0, 1, 1, {}),
    Rendered(<<"reports">>, 2, 0, 0, 0, {p1, p2}),
    Rendered(<<"reports">>, 1, 0, 1, 1, {p1}),
    [Rendered(<<"modules">>, 1, 1, 1, 0, {}) EXCEPT !.dir = FALSE]}

\* The parts that do not run stay in one state.
HtmlIdle == HtmlInit /\ inst = Rendered(<<"modules">>, 1, 2, 0, 0, {})
MetaIdle == MetaInit /\ next_action = NoNext
PipeIdle == PipeStart /\ config = <<>>

ServicesInit ==
    \/ subject = "pages" /\ HtmlInit /\ MetaIdle /\ SharedInit /\ PipeIdle
    \/ subject = "events" /\ HtmlIdle /\ MetaInit /\ SharedInit /\ PipeIdle
    \/ subject = "variables" /\ HtmlIdle /\ MetaIdle /\ SharedInit /\ PipeIdle
    \/ subject = "messages" /\ HtmlIdle /\ MetaIdle /\ SharedInit /\ PipeInit

ServicesNext ==
    /\ UNCHANGED subject
    /\ \/ subject = "pages" /\ HtmlNext /\ UNCHANGED <<metaVars, sharedVars, pipeVars>>
       \/ subject = "events" /\ MetaNext /\ UNCHANGED <<htmlVars, sharedVars, pipeVars>>
       \/ subject = "variables" /\ SharedNext /\ UNCHANGED <<htmlVars, metaVars, pipeVars>>
       \/ subject = "messages" /\ PipeNext /\ UNCHANGED <<htmlVars, metaVars, sharedVars>>

Spec == ServicesInit /\ [][ServicesNext]_<<subject, htmlVars, metaVars, sharedVars, pipeVars>>

\* Renderers and reports are interchangeable.
Interchangeable == Permutations(MCRenderers) \cup Permutations({p1, p2})
=============================================================================
