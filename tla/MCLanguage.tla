----------------------------- MODULE MCLanguage -----------------------------
(* The rule language: the tables of src/util that the compiler relies on,   *)
(* its context from one rule to the next, the byte code and its execution,  *)
(* one at a time.                                                           *)
EXTENDS MCOvm, HashTables, RuleBuilder

CONSTANTS k1, k2, k3, d1, d2, x, y, init, sa, ra, rb, fa, fb

MCKeys == {k1, k2, k3}
MCData == {d1, d2}
MCVarNames == {x, y}
MCStateNames == {init, sa}
MCRuleNames == {ra, rb}
\* One function is registered twice: the last one is then unknown.
MCFuncNames == <<fa, fa, fb>>
MCFieldNames == <<fa>>
MCSyncLists == {{}, {y}}
MCConsts == {[kind |-> "literal", ok |-> TRUE], [kind |-> "date_text", ok |-> TRUE]}
            \cup [kind : {"host", "regex"}, ok : {FALSE}] \cup [kind : {"host"}, ok : {TRUE}]

VARIABLE subject   \* the part that runs

langVars == <<subject, vars, hashVars, builderVars>>

\* The parts that do not run stay in one state, the machine in one that has
\* released everything.
MachineIdle ==
    /\ fields = (CHOOSE e \in Events : TRUE) /\ prog = <<>>
    /\ code = compile_actions_ast(prog) /\ ip = 0 /\ stack = <<>> /\ heap = <<>>
    /\ path = <<Unbound>> /\ inherit = Unbound /\ sigma = NoValues
    /\ meant = MeansActions(prog, NoValues, NoValues, TRUE) /\ phase = "freed"
HashIdle ==
    /\ table = "strhash" /\ hash = [k \in Keys |-> 0]
    /\ htable = Empty /\ elmts = 0 /\ ret = None /\ seen = {}

LangInit ==
    \/ subject = "machine" /\ Init /\ HashIdle /\ BuilderInit
    \/ subject = "tables" /\ MachineIdle /\ HashInit /\ BuilderInit
    \/ subject = "rules" /\ MachineIdle /\ HashIdle /\ BuilderInit

LangNext ==
    /\ UNCHANGED subject
    /\ \/ subject = "machine" /\ Next /\ UNCHANGED <<hashVars, builderVars>>
       \/ subject = "tables" /\ HashNext /\ UNCHANGED <<vars, builderVars>>
       \/ subject = "rules" /\ BuilderNext /\ UNCHANGED <<vars, hashVars>>

\* The fairness of Spec, where the machine runs.
LangSpec == LangInit /\ [][LangNext]_langVars /\ WF_vars(subject = "machine" /\ Next)
=============================================================================
