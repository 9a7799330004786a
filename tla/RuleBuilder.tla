---------------------------- MODULE RuleBuilder ----------------------------
(***************************************************************************)
(* The rule compiler between the parser and the byte code                  *)
(* (src/rule_compiler.c): the context that all rules share, the tree of    *)
(* the rule that is being parsed, and the rules that were compiled.  The   *)
(* parser calls one operation for each construct that it reduces (issdl.y).*)
(***************************************************************************)
EXTENDS Integers, SequencesExt, FiniteSetsExt

CONSTANTS
  VarNames,    \* names of variables
  StateNames,  \* labels of states
  RuleNames,   \* names of rules
  FieldNames,  \* names of global_fields, in the order of their registration
  FuncNames,   \* names of vm_func_tbl, in the order of their registration
  Consts,      \* literals of a rule: [kind, ok], ok = regcomp() or
               \* gethostbyname() accepts it
  SyncLists,   \* sets of names in synchronized(...)
  MaxNodes,    \* bound: actions and transitions of all rules
  MaxRuleStates, \* bound: states of a rule
  MaxRules,    \* bound: rules of all files
  NoName       \* no name

BaseConsts ==
  LET base(k) == [kind |-> k, ok |-> TRUE]
  IN  << base("true"), base("false"), base("null"), base("param_error"), base("regex_error") >>

\* 1 January 1970.
Epoch == [kind |-> "date", ok |-> TRUE]

VARIABLES
  fields_hash,     \* field name -> id, 0 .. of global_fields
  functions_hash,  \* function name -> id
  rule_env,        \* names of the variables, in the order of their ids
  dyn_var_name,    \* ctx->dyn_var_name[0 .. dyn_var_name_nb - 1]
  statics,         \* ctx->statics[0 .. statics_nb - 1]
  statenames_hash, \* label -> state_id
  parsing,         \* the tree: the rule's name, sync_vars, states, and the
                   \* actions and transitions of the state at hand
  rules,           \* compiled rules, in the order of ctx->first_rule
  compiler         \* "hash", "parse", "exit": exit(EXIT_FAILURE)

tree  == << fields_hash, functions_hash, rules >>
ctx   == << rule_env, dyn_var_name, statics, statenames_hash >>
builderVars == << fields_hash, functions_hash, rule_env, dyn_var_name, statics,
                  statenames_hash, parsing, rules, compiler >>

Idle == [name |-> NoName, sync |-> {}, states |-> << >>, nodes |-> << >>, trans |-> << >>]

\* exit(EXIT_FAILURE): the process and its memory are gone.
Fail ==
  /\ compiler' = "exit"
  /\ fields_hash' = << >> /\ functions_hash' = << >>
  /\ rule_env' = << >> /\ dyn_var_name' = << >> /\ statenames_hash' = << >>
  /\ statics' = BaseConsts /\ parsing' = Idle /\ rules' = << >>

\* A strhash of unique names is the sequence of its names; their place is the id.
Place(seq, x) == SelectInSeq(seq, LAMBDA y : y = x) - 1
Nodes(states) == FoldLeft(LAMBDA n, s : n + Len(s.nodes) + Len(s.trans), 0, states)
Room == /\ compiler = "parse" /\ parsing.name # NoName
        /\ Nodes(parsing.states) + Len(parsing.nodes) + Len(parsing.trans)
           + FoldLeft(LAMBDA n, r : n + Nodes(r.state), 0, rules) < MaxNodes
Node(n) == parsing' = [parsing EXCEPT !.nodes = Append(@, n)]
-----------------------------------------------------------------------------
(* compile_rules(): the tables, then the files.                            *)

\* build_fields_hash(): a later field with the same name hides an earlier one.
build_fields_hash ==
  [f \in ToSet(FieldNames) |-> SelectLastInSeq(FieldNames, LAMBDA x : x = f) - 1]

\* build_functions_hash() returns at the first name that it already has.
Unique == CHOOSE n \in 0 .. Len(FuncNames) :
            /\ IsInjective(SubSeq(FuncNames, 1, n))
            /\ n < Len(FuncNames) => ~IsInjective(SubSeq(FuncNames, 1, n + 1))
build_functions_hash ==
  [f \in ToSet(SubSeq(FuncNames, 1, Unique)) |-> Place(FuncNames, f)]

compile_rules ==
  /\ compiler = "hash"
  /\ fields_hash' = build_fields_hash
  /\ functions_hash' = build_functions_hash
  /\ compiler' = "parse"
  /\ UNCHANGED << ctx, parsing, rules >>

\* compile_and_add_rulefile(): issdlparse() or the preprocessor fails.
compile_and_add_rulefile_fails == compiler = "parse" /\ Fail
-----------------------------------------------------------------------------
(* The operations of the parser.                                           *)

StartRule(name, sync) ==
  /\ compiler = "parse" /\ parsing.name = NoName /\ Len(rules) < MaxRules
  /\ parsing' = [Idle EXCEPT !.name = name, !.sync = sync]
  /\ UNCHANGED << tree, ctx, compiler >>

dynamic_add(v) ==
  IF v \in ToSet(rule_env) THEN UNCHANGED << rule_env, dyn_var_name >>
  ELSE /\ rule_env' = Append(rule_env, v)
       /\ dyn_var_name' = Append(dyn_var_name, v)
build_varname(v) ==
  /\ Room
  /\ dynamic_add(v)
  /\ Node([kind |-> "var", name |-> v, res_id |-> IF v \in ToSet(rule_env)
             THEN Place(rule_env, v) ELSE Len(rule_env)])
  /\ UNCHANGED << tree, statics, statenames_hash, compiler >>

\* No constant is shared.
statics_add(value) == statics' = Append(statics, value)
Constant(c, value) ==
  /\ statics_add(value)
  /\ Node([kind |-> "const", name |-> c, res_id |-> Len(statics)])
  /\ UNCHANGED << tree, rule_env, dyn_var_name, statenames_hash, compiler >>

\* build_integer(), build_double() and build_string().
build_literal(c) == Room /\ c.kind = "literal" /\ Constant(c, c)

\* build_ctime_from_int() .. build_counter(): the text of a date is not read.
build_date(c) ==
  /\ Room /\ c.kind \in {"date", "date_text"}
  /\ Constant(c, IF c.kind = "date_text" THEN Epoch ELSE c)

\* gethostbyname() and regcomp() may reject it.
build_ipv4(c)  == Room /\ c.kind = "host" /\ IF c.ok THEN Constant(c, c) ELSE Fail
build_regex(c) == Room /\ c.kind = "regex" /\ IF c.ok THEN Constant(c, c) ELSE Fail

Symbol(kind, hash, x) ==
  /\ Room
  /\ IF x \in DOMAIN hash
     THEN /\ Node([kind |-> kind, name |-> x, res_id |-> hash[x]])
          /\ UNCHANGED << tree, ctx, compiler >>
     ELSE Fail
build_fieldname(f)     == Symbol("field", fields_hash, f)
build_function_call(f) == Symbol("call", functions_hash, f)

\* build_direct_transition(), build_unconditional_transition...(),
\* build_transitionlist() and transitionlist_add().
build_direct_transition(dest) ==
  /\ Room
  /\ parsing' = [parsing EXCEPT !.trans = Append(@, [dest |-> dest])]
  /\ UNCHANGED << tree, ctx, compiler >>

\* build_statelist() and statelist_add(): the first state of a rule is init,
\* with the id 0.
state_id == Len(parsing.states)

\* build_state() and set_state_label().
set_state_label(label) ==
  /\ compiler = "parse" /\ parsing.name # NoName
  /\ Len(parsing.states) < MaxRuleStates
  /\ IF label \in DOMAIN statenames_hash THEN Fail
     ELSE /\ statenames_hash' =
               [l \in DOMAIN statenames_hash \cup {label} |->
                  IF l = label THEN state_id ELSE statenames_hash[l]]
          /\ parsing' = [parsing EXCEPT
               !.states = Append(@, [name |-> label, nodes |-> parsing.nodes,
                                     trans |-> parsing.trans]),
               !.nodes = << >>, !.trans = << >>]
          /\ UNCHANGED << tree, rule_env, dyn_var_name, statics, compiler >>
-----------------------------------------------------------------------------
(* The end of a rule: compile_and_add_rule_ast(), then compiler_reset().   *)

\* compile_transitions_ast(): the places of the states that are named.
compile_transitions_ast(trans) ==
  [t \in DOMAIN trans |-> [dest |-> statenames_hash[trans[t].dest], name |-> trans[t].dest]]

\* compile_state_ast(), and the renumbering of the transitions of the rule.
Before(s) == FoldLeft(LAMBDA n, st : n + Len(st.trans), 0, SubSeq(parsing.states, 1, s - 1))
compile_state_ast(s) ==
  LET st == parsing.states[s]
  IN  [name |-> st.name, id |-> s - 1, nodes |-> st.nodes,
       trans |-> compile_transitions_ast(st.trans),
       global_id |-> [t \in DOMAIN st.trans |-> Before(s) + t - 1]]

Resolved ==
  /\ parsing.sync \subseteq ToSet(rule_env)
  /\ \A s \in ToSet(parsing.states) : \A t \in ToSet(s.trans) :
       t.dest \in DOMAIN statenames_hash

compile_and_add_rule_ast ==
  Append(rules,
    [id |-> Len(rules), name |-> parsing.name, static_env |-> statics,
     dynamic_env_sz |-> Len(rule_env),
     var_name |-> SubSeq(dyn_var_name, 1, Min({Len(rule_env), Len(dyn_var_name)})),
     sync |-> parsing.sync,
     sync_vars |-> {Place(rule_env, v) : v \in parsing.sync},
     state |-> [s \in DOMAIN parsing.states |-> compile_state_ast(s)]])

\* The mutant keeps the labels of the rule before.
compiler_reset_labels ==
  /\ UNCHANGED statenames_hash /\ rule_env' = << >>
  /\ statics' = SubSeq(statics, 1, 5) /\ dyn_var_name' = << >>
compiler_reset ==
  /\ statenames_hash' = << >> /\ rule_env' = << >>
  /\ statics' = SubSeq(statics, 1, 5) /\ dyn_var_name' = << >>

EndRule ==
  /\ compiler = "parse" /\ parsing.states # << >>
  /\ parsing.nodes = << >> /\ parsing.trans = << >>
  /\ IF parsing.name \in {r.name : r \in ToSet(rules)} \/ ~Resolved THEN Fail
     ELSE /\ rules' = compile_and_add_rule_ast
          /\ compiler_reset
          /\ parsing' = Idle
          /\ UNCHANGED << fields_hash, functions_hash, compiler >>

BuilderInit ==
  /\ compiler = "hash"
  /\ fields_hash = << >> /\ functions_hash = << >>
  /\ rule_env = << >> /\ dyn_var_name = << >> /\ statenames_hash = << >>
  /\ statics = BaseConsts /\ parsing = Idle /\ rules = << >>

BuilderNext ==
  \/ compile_rules \/ EndRule \/ compile_and_add_rulefile_fails
  \/ \E r \in RuleNames, sync \in SyncLists : StartRule(r, sync)
  \/ \E v \in VarNames : build_varname(v)
  \/ \E c \in Consts : build_literal(c) \/ build_date(c) \/ build_ipv4(c) \/ build_regex(c)
  \/ \E f \in ToSet(FieldNames) \cup {NoName} : build_fieldname(f)
  \/ \E f \in ToSet(FuncNames) \cup {NoName} : build_function_call(f)
  \/ \E l \in StateNames : build_direct_transition(l) \/ set_state_label(l)
-----------------------------------------------------------------------------
(* Properties.                                                             *)

BuilderTypeOK ==
  /\ compiler \in {"hash", "parse", "exit"}
  /\ rule_env \in Seq(VarNames) /\ dyn_var_name \in Seq(VarNames)
  /\ \A l \in DOMAIN statenames_hash : statenames_hash[l] \in 0 .. MaxRuleStates - 1

NodesOf(r, kind) == {n \in UNION {ToSet(s.nodes) : s \in ToSet(r.state)} : n.kind = kind}

At(array, n) == n.res_id < Len(array) /\ array[n.res_id + 1] = n.name

\* In every compiled rule a variable's id is its place in the environment and
\* in the table of names, also when other rules were compiled before it, and
\* two variables never share a place.
VariablesResolved ==
  \A r \in ToSet(rules) :
    /\ \A n \in NodesOf(r, "var") : At(r.var_name, n)
    /\ IsInjective(r.var_name) /\ Len(r.var_name) = r.dynamic_env_sz
    /\ {i \in DOMAIN r.var_name : r.var_name[i] \in r.sync} = {i + 1 : i \in r.sync_vars}

\* A constant's id finds its value in the static environment of the rule,
\* except that a date given as a text is 1970, and the values of the virtual
\* machine are at the places it knows them by.
ConstantsResolved ==
  \A r \in ToSet(rules) :
    /\ \A n \in NodesOf(r, "const") :
         At(r.static_env, IF n.name.kind = "date_text" THEN [n EXCEPT !.name = Epoch] ELSE n)
    /\ IsPrefix(BaseConsts, r.static_env)

\* Every transition leads to a state of its own rule, the one that it names.
TransitionsResolved ==
  \A r \in ToSet(rules) : \A s \in ToSet(r.state) : \A t \in ToSet(s.trans) :
    t.dest < Len(r.state) /\ r.state[t.dest + 1].name = t.name

\* The transitions of a rule are numbered from 0, each number once.
TransitionsNumbered ==
  \A r \in ToSet(rules) :
    LET ids == FlattenSeq([s \in DOMAIN r.state |-> r.state[s].global_id])
    IN  ids = [i \in DOMAIN ids |-> i - 1]

\* A call and a field reach the function and the field that have the name.
SymbolsResolved ==
  \A r \in ToSet(rules) :
    /\ \A n \in NodesOf(r, "call")  : At(FuncNames, n)
    /\ \A n \in NodesOf(r, "field") : At(FieldNames, n)

\* Whatever was compiled before it, a rule refers to its own variables,
\* constants, states, functions and fields, each by the number of its place.
NamesResolved ==
  BuilderTypeOK /\ VariablesResolved /\ ConstantsResolved /\ SymbolsResolved
    /\ TransitionsResolved /\ TransitionsNumbered
=============================================================================
