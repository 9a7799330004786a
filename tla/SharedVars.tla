----------------------------- MODULE SharedVars -----------------------------
(* The variables that all rules share (src/modules/mod_sharedvars.c): a     *)
(* table of clones that belong to the module, while a rule gets a clone of  *)
(* its own, which the virtual machine frees.                                *)
EXTENDS Naturals, FiniteSets

CONSTANTS
    Rules,       \* rule instances, each with one variable
    VarNames,    \* names of shared variables
    MaxValues,   \* bound: values in the heap
    MaxKeys,     \* bound: copies of names in the heap
    NoValue      \* the NULL pointer

ASSUME SharedAssumption ==
    /\ MaxValues \in Nat /\ MaxKeys \in Nat /\ NoValue \notin 1..MaxValues
    /\ IsFiniteSet(VarNames)

VARIABLES
    vars_hash,   \* name -> the element with its value and its key
    heap,        \* value -> its type and the flag TYPE_CANFREE
    keys,        \* the copies that ovm_strdup() made
    bound,       \* rule -> the value of its variable
    deleted,     \* variables deleted
    broken       \* how the process ended: "", "NULL", "double free"

sharedVars == <<vars_hash, heap, keys, bound, deleted, broken>>

Values == 1..MaxValues
NewValue == CHOOSE v \in Values : v \notin DOMAIN heap
NewKey == CHOOSE k \in 1..MaxKeys : k \notin keys
Element(v, k) == [value |-> v, key |-> k]

\* issdl_clone(): NULL for the types that have no handler.
issdl_clone(v) == IF heap[v].type \in {"null", "extern"} THEN NoValue ELSE NewValue

With(h, v, type, canfree) ==
    [w \in DOMAIN h \cup {v} |-> IF w = v THEN [type |-> type, canfree |-> canfree] ELSE h[w]]
Xfree(h, v) == [w \in DOMAIN h \ {v} |-> h[w]]
Alive == broken = ""
Room == Values \ DOMAIN heap # {} /\ (1..MaxKeys) \ keys # {}
----------------------------------------------------------------------------

\* FLAGS() of the clone takes it for granted.  The mutant stores the value itself.
issdl_set_shared_var_uncloned(r, name) ==
    /\ Room /\ bound[r] # NoValue /\ issdl_clone(bound[r]) # NoValue
    /\ vars_hash' = [vars_hash EXCEPT ![name] = Element(bound[r], NewKey)]
    /\ keys' = keys \cup {NewKey}
    /\ UNCHANGED <<heap, bound, deleted, broken>>
issdl_set_shared_var(r, name) ==
    /\ Room /\ bound[r] # NoValue
    /\ LET old == vars_hash[name]
           new == issdl_clone(bound[r])
           cloned == With(heap, new, heap[bound[r]].type, FALSE)
       IN  IF new = NoValue THEN broken' = "NULL" /\ UNCHANGED <<vars_hash, heap, keys>>
           ELSE /\ UNCHANGED broken
                /\ IF old.value = NoValue
                   THEN /\ vars_hash' = [vars_hash EXCEPT ![name] = Element(new, NewKey)]
                        /\ heap' = cloned
                        /\ keys' = keys \cup {NewKey}
                   ELSE /\ vars_hash' = [vars_hash EXCEPT ![name].value = new]
                        /\ heap' = Xfree(cloned, old.value)
                        /\ UNCHANGED keys
    /\ UNCHANGED <<bound, deleted>>

\* The rule assigns what it gets to its variable.
issdl_get_shared_var(r, name) ==
    /\ Room /\ bound[r] = NoValue /\ vars_hash[name].value # NoValue
    /\ LET shared == vars_hash[name].value
       IN  /\ bound' = [bound EXCEPT ![r] = issdl_clone(shared)]
           /\ heap' = With(heap, bound'[r], heap[shared].type, TRUE)
    /\ UNCHANGED <<vars_hash, keys, deleted, broken>>

\* The key of the element is lost.
issdl_del_shared_var(name) ==
    /\ vars_hash[name].value # NoValue
    /\ vars_hash' = [vars_hash EXCEPT ![name] = Element(NoValue, 0)]
    /\ heap' = Xfree(heap, vars_hash[name].value)
    /\ deleted' = deleted + 1
    /\ UNCHANGED <<keys, bound, broken>>

\* Another assignment of the rule, and the end of its environment.
Assign(r, type) ==
    /\ Room /\ bound[r] = NoValue
    /\ bound' = [bound EXCEPT ![r] = NewValue]
    /\ heap' = With(heap, NewValue, type, TRUE)
    /\ UNCHANGED <<vars_hash, keys, deleted, broken>>
Ends(r) ==
    /\ bound[r] # NoValue
    /\ bound' = [bound EXCEPT ![r] = NoValue]
    /\ IF bound[r] \notin DOMAIN heap THEN broken' = "double free" /\ UNCHANGED heap
       ELSE heap' = (IF heap[bound[r]].canfree THEN Xfree(heap, bound[r]) ELSE heap) /\ UNCHANGED broken
    /\ UNCHANGED <<vars_hash, keys, deleted>>

SharedInit ==
    /\ vars_hash = [n \in VarNames |-> Element(NoValue, 0)]
    /\ heap = [v \in {} |-> 0] /\ keys = {}
    /\ bound = [r \in Rules |-> NoValue] /\ deleted = 0 /\ broken = ""

SharedNext ==
    /\ Alive
    /\ \/ \E r \in Rules, n \in VarNames : issdl_set_shared_var(r, n) \/ issdl_get_shared_var(r, n)
       \/ \E n \in VarNames : issdl_del_shared_var(n)
       \/ \E r \in Rules, type \in {"str", "extern"} : Assign(r, type)
       \/ \E r \in Rules : Ends(r)

SharedSpec == SharedInit /\ [][SharedNext]_sharedVars
----------------------------------------------------------------------------

\* "its memory is not under the control of the virtual machine.  It is this
\* module which decide when allocate/deallocate it": the value of a shared
\* variable is allocated, the virtual machine never frees it, and neither a
\* rule nor another name has it.
ValuesArePrivate ==
    /\ broken # "double free"
    /\ \A n \in VarNames :
         LET v == vars_hash[n].value
         IN  v # NoValue =>
               /\ v \in DOMAIN heap /\ ~heap[v].canfree
               /\ \A r \in Rules : bound[r] # v
               /\ \A m \in VarNames \ {n} : vars_hash[m].value # v

\* Every element has a key of its own that is allocated, and what is allocated
\* beside these are the keys of deleted variables, one for each.
KeysKept ==
    LET set == {n \in VarNames : vars_hash[n].value # NoValue}
        used == {vars_hash[n].key : n \in set}
    IN  /\ Cardinality(used) = Cardinality(set)
        /\ used \subseteq keys
        /\ Cardinality(keys) = Cardinality(used) + deleted

\* The table shares neither its values nor its keys.
SharedIsPrivate == ValuesArePrivate /\ KeysKept
=============================================================================
