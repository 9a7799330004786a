--------------------------- MODULE ServicesProofs ---------------------------
(***************************************************************************)
(* Proofs about what the monitor does beside the analysis of events: the   *)
(* shared variables, for every set of rules and of names and every bound   *)
(* on the heap; the events that rules make, for every period, set of       *)
(* delays and number of injections and timeouts; the pages, for any        *)
(* renderers, instances and limits of the cache.                           *)
(***************************************************************************)
EXTENDS SharedVars, MetaEvents, HtmlOutput, FiniteSetTheorems,
        SequenceTheorems, WellFoundedInduction, TLAPS

-----------------------------------------------------------------------------
(* The shared variables.                                                    *)

Named == {n \in VarNames : vars_hash[n].value # NoValue}
Used == {vars_hash[n].key : n \in Named}

SharedType ==
    /\ vars_hash \in [VarNames -> [value : Values \cup {NoValue}, key : Nat]]
    /\ DOMAIN heap \subseteq Values /\ \A v \in DOMAIN heap : heap[v].canfree \in BOOLEAN
    /\ keys \subseteq 1..MaxKeys
    /\ bound \in [Rules -> Values \cup {NoValue}]
    /\ deleted \in Nat

\* The value of a rule is its own, and the virtual machine will free it.
RulesOwn ==
    \A r \in Rules : bound[r] # NoValue =>
        /\ bound[r] \in DOMAIN heap /\ heap[bound[r]].canfree
        /\ \A q \in Rules \ {r} : bound[q] # bound[r]

\* Two elements of the table never have the same key.
KeysDistinct == \A n, m \in Named : n # m => vars_hash[n].key # vars_hash[m].key

\* What was cloned into the table can be cloned again.
Cloneable == \A n \in Named : heap[vars_hash[n].value].type \notin {"null", "extern"}

SharedInv ==
    SharedType /\ RulesOwn /\ ValuesArePrivate /\ KeysDistinct /\ KeysKept /\ Cloneable

\* KeysKept in the names of this module.
LEMMA KeysKeptIs ==
  KeysKept <=> /\ Cardinality(Used) = Cardinality(Named) /\ Used \subseteq keys
               /\ Cardinality(keys) = Cardinality(Used) + deleted
BY DEF KeysKept, Used, Named

\* And after a step.
LEMMA KeysKeptPrimed ==
  KeysKept' <=> /\ Cardinality(Used') = Cardinality(Named') /\ Used' \subseteq keys'
                /\ Cardinality(keys') = Cardinality(Used') + deleted'
BY DEF KeysKept, Used, Named

\* malloc() gives what is not in use.
LEMMA NewIsFresh ==
  ASSUME SharedType, Room
  PROVE  /\ NewValue \in Values /\ NewValue \notin DOMAIN heap /\ NewValue # NoValue
         /\ NewKey \in 1..MaxKeys /\ NewKey \notin keys /\ NewKey \in Nat
<1>1. \E v \in Values : v \notin DOMAIN heap
  BY DEF Room
<1>2. NewValue \in Values /\ NewValue \notin DOMAIN heap
  BY <1>1 DEF NewValue
<1>3. \E k \in 1..MaxKeys : k \notin keys
  BY DEF Room
<1>4. NewKey \in 1..MaxKeys /\ NewKey \notin keys
  BY <1>3 DEF NewKey
<1> QED BY <1>2, <1>4, SharedAssumption DEF Values

\* The table, its keys and the copies of names are finite.
LEMMA FiniteTable ==
  ASSUME SharedType, KeysKept
  PROVE  /\ IsFiniteSet(Named) /\ IsFiniteSet(keys)
         /\ IsFiniteSet(Used)
<1>1. IsFiniteSet(Named)
  BY SharedAssumption, FS_Subset DEF Named
<1>2. IsFiniteSet(keys)
  <2>1. IsFiniteSet(1..MaxKeys)
    BY SharedAssumption, FS_Interval
  <2> QED BY <2>1, FS_Subset DEF SharedType
<1>3. IsFiniteSet(Used)
  BY <1>2, FS_Subset, KeysKeptIs
<1> QED BY <1>1, <1>2, <1>3

\* The table is empty at first.
LEMMA InitShared == ASSUME SharedInit PROVE SharedInv
<1>1. Named = {} /\ Used = {}
  BY DEF SharedInit, Named, Used, Element
<1>2. SharedType
  BY DEF SharedInit, SharedType, Element
<1>3. RulesOwn /\ ValuesArePrivate /\ KeysDistinct /\ Cloneable
  BY <1>1 DEF SharedInit, RulesOwn, ValuesArePrivate, KeysDistinct, Cloneable, Element
<1>4. KeysKept
  <2>1. keys = {} /\ deleted = 0 /\ Cardinality({}) = 0
    BY FS_EmptySet DEF SharedInit
  <2> QED BY <1>1, <2>1, KeysKeptIs
<1> QED BY <1>2, <1>3, <1>4 DEF SharedInv

\* A step that leaves the table and its keys alone.
LEMMA TableStays ==
  ASSUME SharedInv, UNCHANGED <<vars_hash, keys, deleted>>
  PROVE  KeysDistinct' /\ KeysKept'
<1>1. Named' = Named /\ Used' = Used
  BY DEF Named, Used
<1>2. KeysDistinct'
  BY <1>1 DEF SharedInv, KeysDistinct
<1>3. KeysKept'
  BY <1>1, KeysKeptIs, KeysKeptPrimed DEF SharedInv
<1> QED BY <1>2, <1>3

\* set_shared_var() stores a clone, and frees the value that was there.
LEMMA SetShared ==
  ASSUME SharedInv, NEW r \in Rules, NEW name \in VarNames, issdl_set_shared_var(r, name)
  PROVE  SharedInv'
<1> DEFINE old == vars_hash[name]
           new == issdl_clone(bound[r])
           cloned == With(heap, new, heap[bound[r]].type, FALSE)
<1>1. bound[r] \in DOMAIN heap /\ UNCHANGED <<bound, deleted>> /\ Room
  BY DEF SharedInv, RulesOwn, issdl_set_shared_var
<1>2. CASE new = NoValue
  <2>1. broken' = "NULL" /\ UNCHANGED <<vars_hash, heap, keys>>
    BY <1>2 DEF issdl_set_shared_var
  <2> QED BY <1>1, <2>1, TableStays
          DEF SharedInv, SharedType, RulesOwn, ValuesArePrivate, Cloneable, Named
<1>3. CASE new # NoValue
  <2>1. /\ new = NewValue /\ new \in Values /\ new \notin DOMAIN heap
        /\ NewKey \in 1..MaxKeys /\ NewKey \notin keys /\ NewKey \in Nat
    BY <1>1, <1>3, NewIsFresh DEF issdl_clone, SharedInv
  <2>2. /\ DOMAIN cloned = DOMAIN heap \cup {new}
        /\ cloned[new].canfree = FALSE /\ \A w \in DOMAIN heap : cloned[w] = heap[w]
        /\ cloned[new].type \notin {"null", "extern"}
    BY <1>3, <2>1 DEF With, issdl_clone
  <2> HIDE DEF new, cloned
  <2>3. CASE old.value = NoValue
    <3>1. /\ vars_hash' = [vars_hash EXCEPT ![name] = Element(new, NewKey)]
          /\ heap' = cloned /\ keys' = keys \cup {NewKey} /\ broken' = broken
      BY <1>3, <2>3 DEF issdl_set_shared_var, new, cloned
    <3>2. /\ vars_hash'[name].value = new /\ vars_hash'[name].key = NewKey
          /\ \A n \in VarNames \ {name} : vars_hash'[n] = vars_hash[n]
      BY <3>1 DEF SharedInv, SharedType, Element
    <3>3. SharedType'
      <4>1. vars_hash' \in [VarNames -> [value : Values \cup {NoValue}, key : Nat]]
        BY <2>1, <3>1 DEF SharedInv, SharedType, Element
      <4>2. DOMAIN heap' \subseteq Values /\ \A v \in DOMAIN heap' : heap'[v].canfree \in BOOLEAN
        BY <2>1, <2>2, <3>1 DEF SharedInv, SharedType
      <4> QED BY <1>1, <2>1, <3>1, <4>1, <4>2 DEF SharedInv, SharedType
    <3>4. RulesOwn'
      BY <1>1, <2>1, <2>2, <3>1 DEF SharedInv, SharedType, RulesOwn
    <3>5. ValuesArePrivate'
      <4>1. /\ new \in DOMAIN heap' /\ ~heap'[new].canfree /\ \A q \in Rules : bound'[q] # new
            /\ \A n \in VarNames \ {name} : vars_hash[n].value # new
        BY <1>1, <1>3, <2>1, <2>2, <3>1 DEF SharedInv, RulesOwn, ValuesArePrivate
      <4>2. \A n \in VarNames \ {name} : vars_hash'[n].value = vars_hash[n].value
        BY <3>2
      <4>3. broken' # "double free"
        BY <3>1 DEF SharedInv, ValuesArePrivate
      <4>4. ASSUME NEW n \in VarNames, vars_hash'[n].value # NoValue
            PROVE  LET v == vars_hash'[n].value
                   IN  /\ v \in DOMAIN heap' /\ ~heap'[v].canfree
                       /\ \A q \in Rules : bound'[q] # v
                       /\ \A m \in VarNames \ {n} : vars_hash'[m].value # v
        <5>1. CASE n = name
          BY <3>2, <4>1, <4>2, <5>1
        <5>2. CASE n # name
          <6> DEFINE v == vars_hash[n].value
          <6>1. /\ v \in DOMAIN heap /\ ~heap[v].canfree /\ v # new
                /\ \A q \in Rules : bound[q] # v
                /\ \A m \in VarNames \ {n} : vars_hash[m].value # v
            BY <2>1, <4>2, <4>4, <5>2 DEF SharedInv, ValuesArePrivate
          <6>2. v \in DOMAIN heap' /\ heap'[v] = heap[v]
            BY <2>2, <3>1, <6>1
          <6> QED BY <1>1, <3>2, <4>2, <5>2, <6>1, <6>2
        <5> QED BY <5>1, <5>2
      <4> QED BY <4>3, <4>4 DEF ValuesArePrivate
    <3>6. Named' = Named \cup {name} /\ name \notin Named
      BY <1>3, <2>3, <3>2 DEF Named
    <3>7. \A n \in Named : vars_hash'[n].key = vars_hash[n].key
      BY <3>2, <3>6 DEF Named
    <3>8. Used \subseteq keys
      BY KeysKeptIs DEF SharedInv
    <3>9. KeysDistinct'
      BY <2>1, <3>2, <3>6, <3>7, <3>8 DEF SharedInv, KeysDistinct, Used
    <3>10. Used' = Used \cup {NewKey} /\ NewKey \notin Used
      BY <2>1, <3>2, <3>6, <3>7, <3>8 DEF Used
    <3>11. KeysKept'
      <4>1. /\ Cardinality(Used') = Cardinality(Used) + 1
            /\ Cardinality(Named') = Cardinality(Named) + 1
            /\ Cardinality(keys') = Cardinality(keys) + 1
        BY <2>1, <3>1, <3>6, <3>10, FiniteTable, FS_AddElement DEF SharedInv
      <4>2. /\ Cardinality(Used) = Cardinality(Named)
            /\ Cardinality(keys) = Cardinality(Used) + deleted
        BY KeysKeptIs DEF SharedInv
      <4>3. Cardinality(Used) \in Nat /\ Cardinality(keys) \in Nat /\ deleted \in Nat
        BY FiniteTable, FS_CardinalityType DEF SharedInv, SharedType
      <4>4. Used' \subseteq keys'
        BY <3>1, <3>8, <3>10
      <4>5. /\ Cardinality(Used') = Cardinality(Named')
            /\ Cardinality(keys') = Cardinality(Used') + deleted'
        BY <1>1, <4>1, <4>2, <4>3
      <4> QED BY <4>4, <4>5, KeysKeptPrimed
    <3>12. Cloneable'
      <4>1. \A n \in Named : vars_hash[n].value \in DOMAIN heap
        BY DEF SharedInv, ValuesArePrivate, Named
      <4>2. \A n \in Named : vars_hash'[n] = vars_hash[n]
        BY <3>2, <3>6 DEF Named
      <4> QED BY <2>2, <3>1, <3>2, <3>6, <4>1, <4>2 DEF SharedInv, Cloneable
    <3> QED BY <3>3, <3>4, <3>5, <3>9, <3>11, <3>12 DEF SharedInv
  <2>4. CASE old.value # NoValue
    <3>1. /\ vars_hash' = [vars_hash EXCEPT ![name].value = new]
          /\ heap' = Xfree(cloned, old.value) /\ keys' = keys /\ broken' = broken
      BY <1>3, <2>4 DEF issdl_set_shared_var, new, cloned
    <3>2. /\ vars_hash'[name].value = new /\ vars_hash'[name].key = vars_hash[name].key
          /\ \A n \in VarNames \ {name} : vars_hash'[n] = vars_hash[n]
      BY <3>1 DEF SharedInv, SharedType
    <3>3. /\ old.value \in DOMAIN heap /\ \A q \in Rules : bound[q] # old.value
          /\ \A n \in VarNames \ {name} : vars_hash[n].value # old.value
      BY <2>4 DEF SharedInv, ValuesArePrivate
    <3>4. /\ DOMAIN heap' = (DOMAIN heap \cup {new}) \ {old.value}
          /\ \A w \in DOMAIN heap \ {old.value} : heap'[w] = heap[w]
          /\ heap'[new].canfree = FALSE /\ new # old.value
          /\ heap'[new].type \notin {"null", "extern"}
      BY <2>1, <2>2, <3>1, <3>3 DEF Xfree
    <3>5. SharedType'
      <4>1. vars_hash' \in [VarNames -> [value : Values \cup {NoValue}, key : Nat]]
        BY <2>1, <3>1 DEF SharedInv, SharedType
      <4>2. DOMAIN heap' \subseteq Values /\ \A v \in DOMAIN heap' : heap'[v].canfree \in BOOLEAN
        BY <2>1, <3>4 DEF SharedInv, SharedType
      <4> QED BY <1>1, <3>1, <4>1, <4>2 DEF SharedInv, SharedType
    <3>6. RulesOwn'
      BY <1>1, <3>3, <3>4 DEF SharedInv, RulesOwn
    <3>7. ValuesArePrivate'
      <4>1. /\ new \in DOMAIN heap' /\ ~heap'[new].canfree /\ \A q \in Rules : bound'[q] # new
            /\ \A n \in VarNames \ {name} : vars_hash[n].value # new
        BY ZenonT(60), <1>1, <1>3, <2>1, <3>4 DEF SharedInv, RulesOwn, ValuesArePrivate
      <4>2. \A n \in VarNames \ {name} : vars_hash'[n].value = vars_hash[n].value
        BY <3>2
      <4>3. broken' # "double free"
        BY <3>1 DEF SharedInv, ValuesArePrivate
      <4>4. ASSUME NEW n \in VarNames, vars_hash'[n].value # NoValue
            PROVE  LET v == vars_hash'[n].value
                   IN  /\ v \in DOMAIN heap' /\ ~heap'[v].canfree
                       /\ \A q \in Rules : bound'[q] # v
                       /\ \A m \in VarNames \ {n} : vars_hash'[m].value # v
        <5>1. CASE n = name
          BY <3>2, <4>1, <4>2, <5>1
        <5>2. CASE n # name
          <6> DEFINE v == vars_hash[n].value
          <6>1. /\ v \in DOMAIN heap /\ ~heap[v].canfree /\ v # new /\ v # old.value
                /\ \A q \in Rules : bound[q] # v
                /\ \A m \in VarNames \ {n} : vars_hash[m].value # v
            BY <2>1, <3>3, <4>2, <4>4, <5>2 DEF SharedInv, ValuesArePrivate
          <6>2. v \in DOMAIN heap' /\ heap'[v] = heap[v]
            BY <3>4, <6>1
          <6> QED BY <1>1, <3>2, <4>2, <5>2, <6>1, <6>2
        <5> QED BY <5>1, <5>2
      <4> QED BY <4>3, <4>4 DEF ValuesArePrivate
    <3>8. Named' = Named /\ \A n \in Named : vars_hash'[n].key = vars_hash[n].key
      BY <1>3, <2>4, <3>2 DEF Named
    <3>9. KeysDistinct' /\ KeysKept'
      <4>1. Used' = Used
        BY <3>8 DEF Used
      <4>2. KeysDistinct'
        BY <3>8 DEF SharedInv, KeysDistinct
      <4> QED BY <1>1, <3>1, <3>8, <4>1, <4>2, KeysKeptIs, KeysKeptPrimed DEF SharedInv
    <3>10. Cloneable'
      <4>1. \A n \in Named : vars_hash[n].value \in DOMAIN heap
        BY DEF SharedInv, ValuesArePrivate, Named
      <4>2. \A n \in Named \ {name} : vars_hash'[n] = vars_hash[n] /\ vars_hash[n].value # old.value
        BY <3>2, <3>3 DEF Named
      <4> QED BY <3>2, <3>4, <3>8, <4>1, <4>2 DEF SharedInv, Cloneable
    <3> QED BY <3>5, <3>6, <3>7, <3>9, <3>10 DEF SharedInv
  <2> QED BY <2>3, <2>4
<1> QED BY <1>2, <1>3

\* A rule takes a new value, that of a shared variable or another.
LEMMA TakeShared ==
  ASSUME SharedInv, NEW r \in Rules, NEW v, NEW type, v = NewValue, Room, bound[r] = NoValue,
         bound' = [bound EXCEPT ![r] = v], heap' = With(heap, v, type, TRUE),
         UNCHANGED <<vars_hash, keys, deleted, broken>>
  PROVE  SharedInv'
<1>1. v \in Values /\ v \notin DOMAIN heap
  BY NewIsFresh DEF SharedInv
<1>2. /\ DOMAIN heap' = DOMAIN heap \cup {v} /\ heap'[v].canfree = TRUE
      /\ \A w \in DOMAIN heap : heap'[w] = heap[w]
  BY <1>1 DEF With
<1>3. bound'[r] = v /\ \A q \in Rules \ {r} : bound'[q] = bound[q]
  BY DEF SharedInv, SharedType
<1>4. SharedType'
  <2>1. DOMAIN heap' \subseteq Values /\ \A w \in DOMAIN heap' : heap'[w].canfree \in BOOLEAN
    BY <1>1, <1>2 DEF SharedInv, SharedType
  <2> QED BY <1>1, <2>1 DEF SharedInv, SharedType
<1>5. RulesOwn'
  <2>1. \A q \in Rules \ {r} : bound[q] # v
    BY <1>1, SharedAssumption DEF SharedInv, RulesOwn, Values
  <2>2. ASSUME NEW q \in Rules, bound'[q] # NoValue
        PROVE  /\ bound'[q] \in DOMAIN heap' /\ heap'[bound'[q]].canfree
               /\ \A o \in Rules \ {q} : bound'[o] # bound'[q]
    <3>1. CASE q = r
      BY <1>2, <1>3, <2>1, <3>1
    <3>2. CASE q # r
      <4>1. bound'[q] = bound[q] /\ bound[q] \in DOMAIN heap /\ heap[bound[q]].canfree
        BY <1>3, <2>2, <3>2 DEF SharedInv, RulesOwn
      <4>2. \A o \in Rules \ {q} : bound[o] # bound[q]
        BY <2>2, <3>2, <4>1 DEF SharedInv, RulesOwn
      <4> QED BY <1>2, <1>3, <2>1, <3>2, <4>1, <4>2
    <3> QED BY <3>1, <3>2
  <2> QED BY <2>2 DEF RulesOwn
<1>6. ValuesArePrivate' /\ Cloneable'
  <2>1. \A n \in VarNames : vars_hash[n].value # NoValue => vars_hash[n].value \in DOMAIN heap
    BY DEF SharedInv, ValuesArePrivate
  <2>2. \A n \in VarNames : vars_hash[n].value # NoValue =>
          \A q \in Rules : bound'[q] # vars_hash[n].value
    BY <1>1, <1>3, <2>1 DEF SharedInv, ValuesArePrivate
  <2>3. ValuesArePrivate'
    <3>1. broken' # "double free"
      BY DEF SharedInv, ValuesArePrivate
    <3>2. ASSUME NEW n \in VarNames, vars_hash'[n].value # NoValue
          PROVE  /\ vars_hash'[n].value \in DOMAIN heap' /\ ~heap'[vars_hash'[n].value].canfree
                 /\ \A q \in Rules : bound'[q] # vars_hash'[n].value
                 /\ \A m \in VarNames \ {n} : vars_hash'[m].value # vars_hash'[n].value
      <4> DEFINE u == vars_hash[n].value
      <4>1. vars_hash' = vars_hash /\ u # NoValue
        BY <3>2
      <4>2. /\ u \in DOMAIN heap /\ ~heap[u].canfree
            /\ \A m \in VarNames \ {n} : vars_hash[m].value # u
        BY <4>1 DEF SharedInv, ValuesArePrivate
      <4>3. \A q \in Rules : bound'[q] # u
        BY <2>2, <4>1
      <4>4. u \in DOMAIN heap' /\ heap'[u] = heap[u]
        BY <1>2, <4>2
      <4> QED BY <4>1, <4>2, <4>3, <4>4
    <3> QED BY <3>1, <3>2 DEF ValuesArePrivate
  <2>4. Cloneable'
    BY <1>2, <2>1 DEF SharedInv, Cloneable, Named
  <2> QED BY <2>3, <2>4
<1> QED BY <1>4, <1>5, <1>6, TableStays DEF SharedInv

\* get_shared_var() gives a new clone, which the virtual machine will free.
LEMMA GetShared ==
  ASSUME SharedInv, NEW r \in Rules, NEW name \in VarNames, issdl_get_shared_var(r, name)
  PROVE  SharedInv'
<1> DEFINE v == issdl_clone(vars_hash[name].value)
<1>1. bound'[r] = v /\ bound' = [bound EXCEPT ![r] = v]
  BY DEF issdl_get_shared_var, SharedInv, SharedType
<1>2. v = NewValue
  BY DEF issdl_get_shared_var, issdl_clone, SharedInv, Cloneable, Named
<1> HIDE DEF v
<1> QED BY <1>1, <1>2, TakeShared DEF issdl_get_shared_var

\* A deleted variable loses its value, and its key leaks.
LEMMA DelShared ==
  ASSUME SharedInv, NEW name \in VarNames, issdl_del_shared_var(name)
  PROVE  SharedInv'
<1> DEFINE old == vars_hash[name]
<1>1. /\ old.value # NoValue /\ vars_hash' = [vars_hash EXCEPT ![name] = Element(NoValue, 0)]
      /\ heap' = Xfree(heap, old.value) /\ deleted' = deleted + 1 /\ UNCHANGED <<keys, bound, broken>>
  BY DEF issdl_del_shared_var
<1>2. /\ vars_hash'[name].value = NoValue
      /\ \A n \in VarNames \ {name} : vars_hash'[n] = vars_hash[n]
  BY <1>1 DEF SharedInv, SharedType, Element
<1>3. /\ old.value \in DOMAIN heap /\ \A q \in Rules : bound[q] # old.value
      /\ \A n \in VarNames \ {name} : vars_hash[n].value # old.value
  BY <1>1 DEF SharedInv, ValuesArePrivate
<1>4. /\ DOMAIN heap' = DOMAIN heap \ {old.value}
      /\ \A w \in DOMAIN heap \ {old.value} : heap'[w] = heap[w]
  BY <1>1 DEF Xfree
<1>5. SharedType'
  <2>1. vars_hash' \in [VarNames -> [value : Values \cup {NoValue}, key : Nat]]
    BY <1>1 DEF SharedInv, SharedType, Element
  <2>2. DOMAIN heap' \subseteq Values /\ \A w \in DOMAIN heap' : heap'[w].canfree \in BOOLEAN
    BY <1>4 DEF SharedInv, SharedType
  <2> QED BY <1>1, <2>1, <2>2 DEF SharedInv, SharedType
<1>6. RulesOwn'
  BY <1>1, <1>3, <1>4 DEF SharedInv, RulesOwn
<1>7. ValuesArePrivate'
  <2>1. ASSUME NEW n \in VarNames, vars_hash'[n].value # NoValue
        PROVE  LET v == vars_hash'[n].value
               IN  /\ v \in DOMAIN heap' /\ ~heap'[v].canfree
                   /\ \A q \in Rules : bound'[q] # v
                   /\ \A m \in VarNames \ {n} : vars_hash'[m].value # v
    <3> DEFINE v == vars_hash[n].value
    <3>1. n # name /\ vars_hash'[n].value = v /\ v # NoValue
      BY <1>2, <2>1
    <3>2. /\ v \in DOMAIN heap /\ ~heap[v].canfree /\ v # old.value
          /\ \A q \in Rules : bound[q] # v
          /\ \A m \in VarNames \ {n} : vars_hash[m].value # v
      BY <1>3, <3>1 DEF SharedInv, ValuesArePrivate
    <3>3. v \in DOMAIN heap' /\ heap'[v] = heap[v]
      BY <1>4, <3>2
    <3>4. \A m \in VarNames \ {n} : vars_hash'[m].value # v
      BY <1>2, <3>1, <3>2
    <3> QED BY <1>1, <3>1, <3>2, <3>3, <3>4
  <2> QED BY <1>1, <2>1 DEF SharedInv, ValuesArePrivate
<1>8. /\ Named' = Named \ {name} /\ name \in Named
      /\ \A n \in Named' : vars_hash'[n].key = vars_hash[n].key
  BY <1>1, <1>2 DEF Named
<1>9. KeysDistinct'
  BY <1>8 DEF SharedInv, KeysDistinct
<1>10. Used' = Used \ {old.key} /\ old.key \in Used
  BY <1>8 DEF SharedInv, KeysDistinct, Used
<1>11. KeysKept'
  <2>1. /\ Cardinality(Used') = Cardinality(Used) - 1
        /\ Cardinality(Named') = Cardinality(Named) - 1
    BY <1>8, <1>10, FiniteTable, FS_RemoveElement DEF SharedInv
  <2>2. /\ Cardinality(Used) = Cardinality(Named) /\ Used \subseteq keys
        /\ Cardinality(keys) = Cardinality(Used) + deleted
    BY KeysKeptIs DEF SharedInv
  <2>3. Cardinality(Used) \in Nat /\ Cardinality(keys) \in Nat /\ deleted \in Nat
    BY FiniteTable, FS_CardinalityType DEF SharedInv, SharedType
  <2>4. Cardinality(keys') = Cardinality(Used') + deleted'
    BY <1>1, <2>1, <2>2, <2>3
  <2> QED BY <1>1, <1>10, <2>1, <2>2, <2>4, KeysKeptPrimed
<1>12. Cloneable'
  <2>1. \A n \in Named : vars_hash[n].value \in DOMAIN heap
    BY DEF SharedInv, ValuesArePrivate, Named
  <2>2. \A n \in Named' : n \in Named /\ vars_hash'[n] = vars_hash[n] /\ vars_hash[n].value # old.value
    BY <1>2, <1>3, <1>8 DEF Named
  <2> QED BY <1>4, <2>1, <2>2 DEF SharedInv, Cloneable
<1> QED BY <1>5, <1>6, <1>7, <1>9, <1>11, <1>12 DEF SharedInv

\* The virtual machine frees the value of a rule, which no other has.
LEMMA EndShared == ASSUME SharedInv, NEW r \in Rules, Ends(r) PROVE SharedInv'
<1>1. bound[r] # NoValue /\ bound[r] \in DOMAIN heap /\ heap[bound[r]].canfree
  BY DEF SharedInv, RulesOwn, Ends
<1>2. /\ bound' = [bound EXCEPT ![r] = NoValue] /\ heap' = Xfree(heap, bound[r])
      /\ UNCHANGED <<vars_hash, keys, deleted, broken>>
  BY <1>1 DEF Ends
<1>3. bound'[r] = NoValue /\ \A q \in Rules \ {r} : bound'[q] = bound[q]
  BY <1>2 DEF SharedInv, SharedType
<1>4. /\ DOMAIN heap' = DOMAIN heap \ {bound[r]}
      /\ \A w \in DOMAIN heap \ {bound[r]} : heap'[w] = heap[w]
  BY <1>2 DEF Xfree
<1>5. SharedType'
  <2>1. DOMAIN heap' \subseteq Values /\ \A w \in DOMAIN heap' : heap'[w].canfree \in BOOLEAN
    BY <1>4 DEF SharedInv, SharedType
  <2> QED BY <1>2, <2>1 DEF SharedInv, SharedType
<1>6. RulesOwn'
  BY <1>1, <1>3, <1>4 DEF SharedInv, RulesOwn
<1>7. ValuesArePrivate'
  <2>1. \A n \in VarNames : vars_hash[n].value # NoValue =>
          vars_hash[n].value \in DOMAIN heap \ {bound[r]}
    BY DEF SharedInv, ValuesArePrivate
  <2>2. \A n \in VarNames : vars_hash[n].value # NoValue =>
          \A q \in Rules : bound'[q] # vars_hash[n].value
    BY <1>3 DEF SharedInv, ValuesArePrivate
  <2> QED BY <1>2, <1>4, <2>1, <2>2 DEF SharedInv, ValuesArePrivate
<1>8. Cloneable'
  <2>1. \A n \in Named : vars_hash[n].value \in DOMAIN heap \ {bound[r]}
    BY DEF SharedInv, ValuesArePrivate, Named
  <2>2. Named' = Named
    BY <1>2 DEF Named
  <2> QED BY <1>2, <1>4, <2>1, <2>2 DEF SharedInv, Cloneable
<1> QED BY <1>2, <1>5, <1>6, <1>7, <1>8, TableStays DEF SharedInv

\* Every step preserves the invariant.
LEMMA NextShared == ASSUME SharedInv, [SharedNext]_sharedVars PROVE SharedInv'
<1>1. ASSUME NEW r \in Rules, NEW type, Assign(r, type) PROVE SharedInv'
  BY <1>1, TakeShared DEF Assign
<1>2. CASE UNCHANGED sharedVars
  <2>1. UNCHANGED <<vars_hash, heap, keys, bound, deleted, broken>>
    BY <1>2 DEF sharedVars
  <2> QED BY <2>1, TableStays
         DEF SharedInv, SharedType, RulesOwn, ValuesArePrivate, Cloneable, Named
<1> QED BY <1>1, <1>2, SetShared, GetShared, DelShared, EndShared DEF SharedNext

\* "its memory is not under the control of the virtual machine": whatever the
\* rules do, a shared value belongs to the table alone, and no key is lost
\* but that of a deleted variable.
THEOREM SharedAlwaysPrivate == SharedSpec => []SharedIsPrivate
<1>1. SharedInit => SharedInv
  BY InitShared
<1>2. SharedInv /\ [SharedNext]_sharedVars => SharedInv'
  BY NextShared
<1>3. SharedInv => SharedIsPrivate
  BY DEF SharedInv, SharedIsPrivate
<1> QED BY <1>1, <1>2, <1>3, PTL DEF SharedSpec

-----------------------------------------------------------------------------
(* The list of real-time actions, as the events need it.                    *)

\* Every nonempty set of natural numbers has a least element: the walk of
\* register_rtaction() stops at the first place where it may.
LEMMA LeastNatural ==
  ASSUME NEW T \in SUBSET Nat, T # {}
  PROVE  \E n \in T : \A m \in T : n <= m
<1> DEFINE U == {1 .. n : n \in T}
<1> DEFINE R == StrictSubsetOrdering(Nat)
<1> DEFINE F == FiniteSubsetsOf(Nat)
<1>1. IsWellFoundedOn(R, F)
  BY FS_StrictSubsetOrderingWellFounded
<1>2. U \subseteq F
  <2> SUFFICES ASSUME NEW n \in T PROVE 1 .. n \in F
    OBVIOUS
  <2>1. IsFiniteSet(1 .. n)
    BY FS_Interval
  <2> QED BY <2>1 DEF FiniteSubsetsOf
<1>3. U # {}
  OBVIOUS
<1>4. PICK x \in U : \A y \in U : ~ (<< y, x >> \in R)
  <2> HIDE DEF U, R, F
  <2> QED BY <1>1, <1>2, <1>3, WFMin
<1>5. PICK n \in T : x = 1 .. n
  OBVIOUS
<1>6. ASSUME NEW m \in T, m < n PROVE FALSE
  <2>1. 1 .. m \in U
    OBVIOUS
  <2>2. 1 .. m \subseteq 1 .. n /\ 1 .. m # 1 .. n
    BY <1>6
  <2>3. << 1 .. m, 1 .. n >> \in R
    BY <2>2, <1>2, <2>1, <1>5 DEF StrictSubsetOrdering, FiniteSubsetsOf
  <2> QED BY <2>1, <2>3, <1>4, <1>5
<1> QED BY <1>6

-----------------------------------------------------------------------------
(* The events that rules make.                                              *)

TimeoutIds == [cb : {"timeout_rtcallback"}, name : TimeoutNames, regdate : Nat, delay : TimeoutDelays]
MetaAction == [id : {InjectId, OtherId} \cup TimeoutIds, date : Nat]
Logged == [event : Nat, at : Nat]

Waiting(list) == {list[k] : k \in DOMAIN list}
Ids(list) == [k \in DOMAIN list |-> list[k].id]
InOrderOfDates(list) == \A j, k \in DOMAIN list : j <= k => list[j].date <= list[k].date

EventsType ==
    /\ built \in [Handles -> Nat] /\ made \in Nat
    /\ queue \in Seq(Nat)
    /\ actions \in Seq(MetaAction)
    /\ clock \in Nat
    /\ injections \in Seq(Logged) /\ posted \in Seq(Logged)
    /\ timeouts \in Seq(TimeoutIds)
    /\ expired \in Seq([attr : TimeoutIds, date : Nat])
MetaType == EventsType /\ next_action \in MetaAction

\* The callback that runs is that of the action the loop waited for.
Served ==
    /\ analysed = "metaevent" => next_action.id = InjectId
    /\ analysed = "timeout" => next_action.id \in TimeoutIds

\* An event has one owner: a handle or the list of injected events.
OneOwner ==
    /\ \A h \in Handles : built[h] <= made
    /\ \A g, h \in Handles : g # h /\ built[g] = built[h] => built[h] = 0
    /\ \A i \in DOMAIN injections : injections[i].event \in 1..made
    /\ \A i \in DOMAIN injections, h \in Handles : built[h] # injections[i].event
    /\ \A i, j \in DOMAIN injections : i # j => injections[i].event # injections[j].event

\* What was posted and what waits, place by place.
PlaceByPlace ==
    /\ Len(injections) = Len(posted) + Len(queue)
    /\ \A i \in 1..Len(posted) : posted[i].event = injections[i].event
    /\ \A i \in 1..Len(queue) : queue[i] = injections[Len(posted) + i].event

\* Nothing in a list is late by more than a period, and one in it is the
\* action of the other module, which comes back before a period is over.
Prompt(list, instant) ==
    /\ \A a \in Waiting(list) : instant <= a.date + PollEvery
    /\ \E a \in Waiting(list) : a.id = OtherId /\ a.date <= instant + PollEvery

\* The main loop waits for an action e that is no further away than that.
Scheduled(list, e, instant) ==
    /\ InOrderOfDates(list)
    /\ e.date <= instant + PollEvery /\ instant <= e.date + PollEvery
    /\ \A a \in Waiting(list) : instant <= a.date + PollEvery /\ e.date <= a.date + PollEvery
    /\ \/ e.id = OtherId
       \/ \E a \in Waiting(list) : a.id = OtherId /\ a.date <= instant + PollEvery

\* A list of events that is not empty has an action that is due.
InjectionDue ==
    /\ queue # <<>> => \/ next_action.id = InjectId
                       \/ \E a \in Waiting(actions) : a.id = InjectId
    /\ \A a \in Waiting(actions) : a.id = InjectId => a.date <= clock

\* No injected event waits longer than a period.
InTime ==
    /\ \A i \in 1..Len(posted) : posted[i].at <= injections[i].at + PollEvery
    /\ \A i \in Len(posted) + 1..Len(injections) :
         /\ clock <= injections[i].at + PollEvery
         /\ next_action.date <= injections[i].at + PollEvery

\* The action of a timeout has the date of its attributes.
DateOf(attr) == attr.regdate + attr.delay
TimeoutDates ==
    /\ \A a \in Waiting(actions) \cup {next_action} : a.id \in TimeoutIds => a.date = DateOf(a.id)
    /\ \A i \in DOMAIN expired :
         /\ expired[i].attr \in ToSet(timeouts)
         /\ DateOf(expired[i].attr) <= expired[i].date
         /\ expired[i].date <= DateOf(expired[i].attr) + PollEvery

\* The timeouts that wait were asked for.
TimeoutsKnown ==
    \A a \in Waiting(actions) \cup {next_action} : a.id \in TimeoutIds => a.id \in ToSet(timeouts)

\* Every timeout that was asked for waits or expired.
HeldCount(attr) == IF next_action.id = attr /\ analysed # "timeout" THEN 1 ELSE 0
Attrs(log) == [i \in DOMAIN log |-> log[i].attr]
TimeoutsCounted ==
    \A attr \in TimeoutIds :
      Count(timeouts, attr) = Count(Ids(actions), attr) + HeldCount(attr) + Count(Attrs(expired), attr)

Timeline == Scheduled(actions, next_action, clock) /\ InjectionDue /\ InTime /\ TimeoutDates /\ TimeoutsKnown
MetaInv == MetaType /\ Served /\ OneOwner /\ PlaceByPlace /\ Timeline /\ TimeoutsCounted

\* A loop that holds no action serves none: the list only grows.
Dormant ==
    /\ next_action = NoNext /\ analysed \in {"none", "input"}
    /\ posted = <<>> /\ expired = <<>> /\ InOrderOfDates(actions)
    /\ EventsType /\ OneOwner /\ PlaceByPlace /\ TimeoutsCounted

-----------------------------------------------------------------------------
\* The date of a real-time action is a number.
LEMMA MetaActionDate == \A a \in MetaAction : a.date \in Nat
BY DEF MetaAction

\* The walk through a list that is not empty stops inside of it.
LEMMA StopExists ==
  ASSUME NEW q \in Seq(MetaAction), q # << >>, NEW a \in MetaAction
  PROVE  /\ Loop!Stop(q, a) \in 1 .. Len(q)
         /\ Loop!StopsAt(q, a, Loop!Stop(q, a))
         /\ \A m \in 1 .. Loop!Stop(q, a) - 1 : ~ Loop!StopsAt(q, a, m)
<1> DEFINE T == {n \in 1 .. Len(q) : Loop!StopsAt(q, a, n)}
<1>1. DOMAIN q = 1 .. Len(q) /\ Len(q) \in Nat /\ Len(q) >= 1
  BY EmptySeq
<1>2. Len(q) \in T
  BY <1>1 DEF Loop!StopsAt
<1>3. T \in SUBSET Nat /\ T # {}
  BY <1>1, <1>2
<1>4. PICK n \in T : \A m \in T : n <= m
  BY <1>3, LeastNatural
<1>5. \A m \in 1 .. n - 1 : ~ Loop!StopsAt(q, a, m)
  BY <1>1, <1>4
<1> QED BY <1>1, <1>4, <1>5 DEF Loop!Stop

\* InsertBefore shifts the rest of the list.
LEMMA InsertBeforeShape ==
  ASSUME NEW q \in Seq(MetaAction), NEW a \in MetaAction, NEW n \in 1 .. Len(q)
  PROVE  LET p == Loop!InsertBefore(q, n, a)
         IN  /\ p \in Seq(MetaAction)
             /\ Len(p) = Len(q) + 1
             /\ \A i \in 1 .. Len(q) + 1 :
                  p[i] = IF i < n THEN q[i] ELSE IF i = n THEN a ELSE q[i - 1]
<1> DEFINE l == SubSeq(q, 1, n - 1)
           r == SubSeq(q, n, Len(q))
<1>0. Len(q) \in Nat /\ \A i \in 1 .. Len(q) : q[i] \in MetaAction
  BY LenProperties
<1>1. l \in Seq(MetaAction) /\ Len(l) = n - 1 /\ \A i \in 1 .. n - 1 : l[i] = q[i]
  BY <1>0, SubSeqProperties
<1>2. /\ r \in Seq(MetaAction) /\ Len(r) = Len(q) - n + 1
      /\ \A i \in 1 .. Len(q) - n + 1 : r[i] = q[n + i - 1]
  BY <1>0, SubSeqProperties
<1> HIDE DEF l, r
<1>3. << a >> \in Seq(MetaAction) /\ Len(<< a >>) = 1 /\ << a >>[1] = a
  OBVIOUS
<1> DEFINE m == l \o << a >>
<1>4. /\ m \in Seq(MetaAction) /\ Len(m) = n
      /\ \A i \in 1 .. n : m[i] = IF i <= n - 1 THEN l[i] ELSE a
  BY <1>0, <1>1, <1>3, ConcatProperties
<1> HIDE DEF m
<1>5. /\ m \o r \in Seq(MetaAction) /\ Len(m \o r) = Len(q) + 1
      /\ \A i \in 1 .. Len(q) + 1 : (m \o r)[i] = IF i <= n THEN m[i] ELSE r[i - n]
  <2>1. m \in Seq(MetaAction) /\ r \in Seq(MetaAction)
    BY <1>2, <1>4
  <2>2. /\ m \o r \in Seq(MetaAction) /\ Len(m \o r) = Len(m) + Len(r)
        /\ \A i \in 1 .. Len(m) + Len(r) :
             (m \o r)[i] = IF i <= Len(m) THEN m[i] ELSE r[i - Len(m)]
    BY <2>1, ConcatProperties
  <2>3. Len(m) = n /\ Len(m) + Len(r) = Len(q) + 1
    BY <1>0, <1>2, <1>4
  <2> QED BY <2>2, <2>3
<1>6. Loop!InsertBefore(q, n, a) = m \o r
  BY DEF Loop!InsertBefore, l, r, m
<1> QED BY <1>0, <1>1, <1>2, <1>4, <1>5, <1>6 DEF m

\* register_rtaction() puts the action at a place n where everything before is
\* not later and everything after is not earlier, and keeps the rest.
LEMMA RegisterShape ==
  ASSUME NEW q \in Seq(MetaAction), NEW a \in MetaAction
  PROVE  /\ Loop!Register(q, a) \in Seq(MetaAction)
         /\ Len(Loop!Register(q, a)) = Len(q) + 1
         /\ \E n \in 1 .. Len(q) + 1 :
              /\ \A i \in 1 .. Len(q) + 1 : Loop!Register(q, a)[i] =
                   IF i < n THEN q[i] ELSE IF i = n THEN a ELSE q[i - 1]
              /\ \A m \in 1 .. n - 1 : q[m].date <= a.date
              /\ n <= Len(q) => a.date <= q[n].date
<1>0. /\ Len(q) \in Nat /\ \A i \in 1 .. Len(q) : q[i] \in MetaAction /\ q[i].date \in Nat
      /\ a.date \in Nat
  BY LenProperties, MetaActionDate
<1>1. CASE q = << >>
  BY <1>1 DEF Loop!Register
<1>2. CASE q # << >> /\ Loop!Stop(q, a) = Len(q) /\ a.date > q[Len(q)].date
  <2>1. /\ Len(q) >= 1
        /\ \A m \in 1 .. Len(q) - 1 : ~ Loop!StopsAt(q, a, m)
    BY <1>2, StopExists, EmptySeq
  <2>2. \A m \in 1 .. Len(q) : q[m].date <= a.date
    BY <1>0, <1>2, <2>1 DEF Loop!StopsAt
  <2>3. Loop!Register(q, a) = Append(q, a)
    BY <1>2 DEF Loop!Register
  <2>4. /\ Append(q, a) \in Seq(MetaAction) /\ Len(Append(q, a)) = Len(q) + 1
        /\ \A i \in 1 .. Len(q) : Append(q, a)[i] = q[i]
        /\ Append(q, a)[Len(q) + 1] = a
    BY AppendProperties
  <2>5. \A i \in 1 .. Len(q) + 1 : Append(q, a)[i] =
          IF i < Len(q) + 1 THEN q[i] ELSE IF i = Len(q) + 1 THEN a ELSE q[i - 1]
    BY <1>0, <2>4
  <2>6. Len(q) + 1 \in 1 .. Len(q) + 1 /\ ~ (Len(q) + 1 <= Len(q))
    BY <1>0
  <2>7. \A m \in 1 .. Len(q) + 1 - 1 : q[m].date <= a.date
    BY <1>0, <2>2
  <2> QED BY <2>3, <2>4, <2>5, <2>6, <2>7
<1>3. CASE q # << >> /\ ~ (Loop!Stop(q, a) = Len(q) /\ a.date > q[Len(q)].date)
  <2> DEFINE n == Loop!Stop(q, a)
  <2>1. /\ n \in 1 .. Len(q)
        /\ Loop!StopsAt(q, a, n)
        /\ \A m \in 1 .. n - 1 : ~ Loop!StopsAt(q, a, m)
    BY <1>3, StopExists
  <2>2. Loop!Register(q, a) = Loop!InsertBefore(q, n, a)
    BY <1>3 DEF Loop!Register
  <2> HIDE DEF n
  <2>3. \A m \in 1 .. n - 1 : q[m].date <= a.date
    BY <1>0, <2>1 DEF Loop!StopsAt
  <2>4. a.date <= q[n].date
    BY <1>0, <1>3, <2>1 DEF Loop!StopsAt, n
  <2>5. n \in 1 .. Len(q) + 1
    BY <1>0, <2>1
  <2>6. /\ Loop!InsertBefore(q, n, a) \in Seq(MetaAction)
        /\ Len(Loop!InsertBefore(q, n, a)) = Len(q) + 1
        /\ \A i \in 1 .. Len(q) + 1 : Loop!InsertBefore(q, n, a)[i] =
             IF i < n THEN q[i] ELSE IF i = n THEN a ELSE q[i - 1]
    BY <2>1, InsertBeforeShape
  <2> QED BY <2>2, <2>3, <2>4, <2>5, <2>6
<1> QED BY <1>1, <1>2, <1>3

-----------------------------------------------------------------------------
Sorted(q) == \A m, n \in DOMAIN q : m <= n => q[m].date <= q[n].date

\* A list of actions in

-----------------------------------------------------------------------------
\* register_rtaction() adds one action and keeps the order.
LEMMA RegisterWaits ==
  ASSUME NEW q \in Seq(MetaAction), InOrderOfDates(q), NEW a \in MetaAction
  PROVE  LET p == Loop!Register(q, a)
         IN  /\ p \in Seq(MetaAction) /\ p # <<>>
             /\ InOrderOfDates(p)
             /\ Waiting(p) = Waiting(q) \cup {a}
<1> DEFINE p == Loop!Register(q, a)
<1>0. /\ Len(q) \in Nat /\ DOMAIN q = 1 .. Len(q)
      /\ \A i \in 1 .. Len(q) : q[i] \in MetaAction /\ q[i].date \in Nat
      /\ a.date \in Nat
  BY LenProperties, MetaActionDate
<1>1. p \in Seq(MetaAction) /\ Len(p) = Len(q) + 1
  BY RegisterShape
<1>2. PICK n \in 1 .. Len(q) + 1 :
        /\ \A i \in 1 .. Len(q) + 1 : p[i] = IF i < n THEN q[i] ELSE IF i = n THEN a ELSE q[i - 1]
        /\ \A m \in 1 .. n - 1 : q[m].date <= a.date
        /\ n <= Len(q) => a.date <= q[n].date
  BY RegisterShape
<1> HIDE DEF p
<1>3. DOMAIN p = 1 .. Len(q) + 1 /\ p # <<>>
  <2>1. DOMAIN p = 1 .. Len(p)
    BY <1>1, LenProperties
  <2> QED BY <2>1, <1>0, <1>1, EmptySeq
<1>4. InOrderOfDates(p)
  <2> SUFFICES ASSUME NEW j \in DOMAIN p, NEW k \in DOMAIN p, j <= k
               PROVE  p[j].date <= p[k].date
    BY DEF InOrderOfDates
  <2>0. \A i, m \in 1 .. Len(q) : i <= m => q[i].date <= q[m].date
    BY <1>0 DEF InOrderOfDates
  <2>1. n <= Len(q) => \A i \in n .. Len(q) : a.date <= q[i].date
    BY <1>0, <1>2, <2>0
  <2>2. j \in 1 .. Len(q) + 1 /\ k \in 1 .. Len(q) + 1
    BY <1>3
  <2>3. CASE k < n
    BY <1>0, <1>2, <2>0, <2>2, <2>3
  <2>4. CASE k = n
    BY <1>0, <1>2, <2>0, <2>2, <2>4
  <2>5. CASE k > n
    <3>1. p[k] = q[k - 1] /\ k - 1 \in n .. Len(q)
      BY <1>0, <1>2, <2>2, <2>5
    <3>2. CASE j < n
      BY <1>0, <1>2, <2>0, <2>2, <3>1, <3>2
    <3>3. CASE j = n
      BY <1>0, <1>2, <2>1, <2>2, <3>1, <3>3
    <3>4. CASE j > n
      BY <1>0, <1>2, <2>0, <2>2, <3>1, <3>4
    <3> QED BY <1>0, <2>2, <3>2, <3>3, <3>4
  <2> QED BY <1>0, <2>2, <2>3, <2>4, <2>5
<1>5. Waiting(p) = Waiting(q) \cup {a}
  <2>1. \A k \in 1 .. Len(q) + 1 : p[k] \in Waiting(q) \cup {a}
    <3> TAKE k \in 1 .. Len(q) + 1
    <3>1. CASE k < n
      <4>1. k \in 1 .. Len(q) /\ p[k] = q[k]
        BY <1>0, <1>2, <3>1
      <4> QED BY <1>0, <4>1 DEF Waiting
    <3>2. CASE k = n
      BY <1>2, <3>2
    <3>3. CASE k > n
      <4>1. k - 1 \in 1 .. Len(q) /\ p[k] = q[k - 1]
        BY <1>0, <1>2, <3>3
      <4> QED BY <1>0, <4>1 DEF Waiting
    <3> QED BY <1>0, <3>1, <3>2, <3>3
  <2>2. \A i \in 1 .. Len(q) : \E k \in 1 .. Len(q) + 1 : p[k] = q[i]
    <3> TAKE i \in 1 .. Len(q)
    <3>1. CASE i < n
      BY <1>0, <1>2, <3>1
    <3>2. CASE i >= n
      <4>1. i + 1 \in 1 .. Len(q) + 1 /\ ~ (i + 1 < n) /\ i + 1 # n /\ (i + 1) - 1 = i
        BY <1>0, <3>2
      <4> QED BY <1>2, <4>1
    <3> QED BY <1>0, <3>1, <3>2
  <2>3. p[n] = a /\ n \in DOMAIN p
    BY <1>0, <1>2, <1>3
  <2>4. Waiting(p) \subseteq Waiting(q) \cup {a}
    BY <1>3, <2>1 DEF Waiting
  <2>5. Waiting(q) \subseteq Waiting(p) /\ a \in Waiting(p)
    BY <1>0, <1>3, <2>2, <2>3 DEF Waiting
  <2> QED BY <2>4, <2>5
<1> QED BY <1>1, <1>3, <1>4, <1>5 DEF p

\* get_next_rtaction() takes an action that is not later than the others.
LEMMA TakenIsFirst ==
  ASSUME NEW q \in Seq(MetaAction), InOrderOfDates(q), q # <<>>
  PROVE  /\ Head(q) \in MetaAction /\ Tail(q) \in Seq(MetaAction)
         /\ InOrderOfDates(Tail(q))
         /\ Waiting(q) = Waiting(Tail(q)) \cup {Head(q)}
         /\ \A a \in Waiting(q) : Head(q).date <= a.date
<1>1. /\ Head(q) \in MetaAction /\ Tail(q) \in Seq(MetaAction) /\ Len(Tail(q)) = Len(q) - 1
      /\ \A i \in 1 .. Len(Tail(q)) : Tail(q)[i] = q[i + 1]
  BY HeadTailProperties
<1>2. Len(q) \in Nat /\ Len(q) >= 1 /\ Head(q) = q[1]
  BY EmptySeq, LenProperties
<1>3. DOMAIN q = 1 .. Len(q) /\ DOMAIN Tail(q) = 1 .. Len(q) - 1
  BY <1>1, LenProperties
<1> DEFINE t == Tail(q)
<1>4. \A i \in 1 .. Len(q) - 1 : t[i] = q[i + 1]
  BY <1>1
<1>5. DOMAIN t = 1 .. Len(q) - 1
  BY <1>3
<1> HIDE DEF t
<1>6. InOrderOfDates(t)
  <2> SUFFICES ASSUME NEW j \in 1 .. Len(q) - 1, NEW k \in 1 .. Len(q) - 1, j <= k
               PROVE  t[j].date <= t[k].date
    BY <1>5 DEF InOrderOfDates
  <2>1. j + 1 \in 1 .. Len(q) /\ k + 1 \in 1 .. Len(q) /\ j + 1 <= k + 1
    BY <1>2
  <2>2. q[j + 1].date <= q[k + 1].date
    BY <1>3, <2>1 DEF InOrderOfDates
  <2> QED BY <1>4, <2>2
<1>7. Waiting(q) = Waiting(t) \cup {q[1]}
  <2>1. \A i \in 1 .. Len(q) : q[i] \in Waiting(t) \cup {q[1]}
    <3> TAKE i \in 1 .. Len(q)
    <3>1. CASE i # 1
      <4>1. i - 1 \in 1 .. Len(q) - 1 /\ (i - 1) + 1 = i
        BY <1>2, <3>1
      <4> QED BY <1>4, <1>5, <4>1 DEF Waiting
    <3> QED BY <3>1
  <2>2. \A i \in 1 .. Len(q) - 1 : t[i] \in Waiting(q)
    <3> TAKE i \in 1 .. Len(q) - 1
    <3>1. i + 1 \in DOMAIN q
      BY <1>2, <1>3
    <3> QED BY <1>4, <3>1 DEF Waiting
  <2>3. 1 \in DOMAIN q
    BY <1>2, <1>3
  <2> QED BY <1>3, <1>5, <2>1, <2>2, <2>3 DEF Waiting
<1>8. \A a \in Waiting(q) : q[1].date <= a.date
  <2>1. 1 \in DOMAIN q /\ \A k \in DOMAIN q : 1 <= k
    BY <1>2, <1>3
  <2> QED BY <2>1 DEF Waiting, InOrderOfDates
<1> QED BY <1>1, <1>2, <1>6, <1>7, <1>8 DEF t

\* What waits is an action.
LEMMA WaitingIsAction ==
  ASSUME NEW q \in Seq(MetaAction) PROVE \A a \in Waiting(q) : a \in MetaAction /\ a.date \in Nat
BY MetaActionDate DEF Waiting

\* Sequence p is q with a at place n.
Inserted(p, q, n, a) ==
    /\ Len(p) = Len(q) + 1 /\ n \in 1 .. Len(q) + 1
    /\ \A i \in 1 .. Len(q) + 1 : p[i] = IF i < n THEN q[i] ELSE IF i = n THEN a ELSE q[i - 1]

\* An element that is put into a sequence is counted, the others stay.
LEMMA CountInserted ==
  ASSUME NEW S, NEW q \in Seq(S), NEW p \in Seq(S), NEW n, NEW a, Inserted(p, q, n, a), NEW x
  PROVE  Count(q, x) \in Nat /\ Count(p, x) = Count(q, x) + (IF a = x THEN 1 ELSE 0)
<1> DEFINE old == {i \in 1 .. Len(q) : q[i] = x}
           new == {i \in 1 .. Len(p) : p[i] = x} \ {n}
           f == [i \in old |-> IF i < n THEN i ELSE i + 1]
<1>0. /\ Len(q) \in Nat /\ DOMAIN q = 1 .. Len(q) /\ DOMAIN p = 1 .. Len(p)
      /\ Len(p) = Len(q) + 1 /\ n \in 1 .. Len(q) + 1
      /\ \A i \in 1 .. Len(q) + 1 : p[i] = IF i < n THEN q[i] ELSE IF i = n THEN a ELSE q[i - 1]
  BY LenProperties DEF Inserted
<1>1. IsFiniteSet(old) /\ Cardinality(old) \in Nat
  <2>1. IsFiniteSet(1 .. Len(q)) /\ old \subseteq 1 .. Len(q)
    BY <1>0, FS_Interval
  <2> HIDE DEF old
  <2> QED BY <2>1, FS_Subset, FS_CardinalityType
<1>2. \A i \in old : f[i] \in new
  <2> TAKE i \in old
  <2>1. CASE i < n
    BY <1>0, <2>1
  <2>2. CASE i >= n
    <3>1. i + 1 \in 1 .. Len(q) + 1 /\ ~ (i + 1 < n) /\ i + 1 # n /\ (i + 1) - 1 = i
      BY <1>0, <2>2
    <3> QED BY <1>0, <2>2, <3>1
  <2> QED BY <1>0, <2>1, <2>2
<1>3. \A i, j \in old : f[i] = f[j] => i = j
  BY <1>0
<1>4. \A k \in new : \E i \in old : f[i] = k
  <2> TAKE k \in new
  <2>1. CASE k < n
    <3>1. k \in old
      BY <1>0, <2>1
    <3> QED BY <2>1, <3>1
  <2>2. CASE k > n
    <3>1. k - 1 \in 1 .. Len(q) /\ p[k] = q[k - 1] /\ ~ (k - 1 < n) /\ (k - 1) + 1 = k
      BY <1>0, <2>2
    <3>2. k - 1 \in old
      BY <3>1
    <3>3. f[k - 1] = k
      BY <3>1, <3>2
    <3> QED BY <3>2, <3>3
  <2> QED BY <1>0, <2>1, <2>2
<1>5. f \in Bijection(old, new)
  <2>1. f \in [old -> new]
    BY <1>2
  <2> HIDE DEF f, old, new
  <2>2. f \in Injection(old, new) /\ f \in Surjection(old, new)
    BY <1>3, <1>4, <2>1 DEF Injection, Surjection, IsInjective
  <2> QED BY <2>2 DEF Bijection
<1>6. IsFiniteSet(new) /\ Cardinality(new) = Cardinality(old)
  <2>1. ExistsBijection(old, new)
    BY <1>5 DEF ExistsBijection
  <2> HIDE DEF f, old, new
  <2> QED BY <1>1, <2>1, FS_Bijection
<1>7. n \in 1 .. Len(p) /\ p[n] = a
  BY <1>0
<1> DEFINE all == {i \in 1 .. Len(p) : p[i] = x}
<1>8. all = IF a = x THEN new \cup {n} ELSE new
  BY <1>7
<1>9. n \notin new
  OBVIOUS
<1> HIDE DEF old, new, all
<1>10. Cardinality(all) = Cardinality(old) + (IF a = x THEN 1 ELSE 0)
  <2>1. Cardinality(new \cup {n}) = Cardinality(new) + 1
    BY <1>6, <1>9, FS_AddElement
  <2> QED BY <1>1, <1>6, <1>8, <2>1
<1>11. Count(q, x) = Cardinality(old) /\ Count(p, x) = Cardinality(all)
  BY <1>0 DEF Count, old, all
<1> QED BY <1>1, <1>10, <1>11

\* The counts of a sequence that gets a last element.
LEMMA CountAppended ==
  ASSUME NEW S, NEW q \in Seq(S), NEW a \in S, NEW x
  PROVE  Count(q, x) \in Nat /\ Count(Append(q, a), x) = Count(q, x) + (IF a = x THEN 1 ELSE 0)
<1> DEFINE p == Append(q, a)
<1>1. /\ p \in Seq(S) /\ Len(p) = Len(q) + 1 /\ \A i \in 1 .. Len(q) : p[i] = q[i]
      /\ p[Len(q) + 1] = a /\ Len(q) \in Nat
  BY AppendProperties, LenProperties
<1> HIDE DEF p
<1>2. Len(q) + 1 \in 1 .. Len(q) + 1
  BY <1>1
<1>3. \A i \in 1 .. Len(q) + 1 :
        p[i] = IF i < Len(q) + 1 THEN q[i] ELSE IF i = Len(q) + 1 THEN a ELSE q[i - 1]
  BY <1>1
<1>4. Inserted(p, q, Len(q) + 1, a)
  BY <1>1, <1>2, <1>3 DEF Inserted
<1>5. Count(q, x) \in Nat /\ Count(p, x) = Count(q, x) + (IF a = x THEN 1 ELSE 0)
  BY <1>1, <1>4, CountInserted
<1> QED BY <1>5 DEF p

\* The identifications of a list of actions, as a sequence.
LEMMA IdsShape ==
  ASSUME NEW q \in Seq(MetaAction)
  PROVE  /\ Ids(q) \in Seq({InjectId, OtherId} \cup TimeoutIds)
         /\ Len(Ids(q)) = Len(q) /\ \A i \in 1 .. Len(q) : Ids(q)[i] = q[i].id
<1>1. Len(q) \in Nat /\ DOMAIN q = 1 .. Len(q) /\ \A i \in 1 .. Len(q) : q[i] \in MetaAction
  BY LenProperties
<1>2. \A i \in 1 .. Len(q) : q[i].id \in {InjectId, OtherId} \cup TimeoutIds
  BY <1>1 DEF MetaAction
<1>3. Ids(q) = [i \in 1 .. Len(q) |-> q[i].id]
  BY <1>1 DEF Ids
<1>4. Ids(q) \in [1 .. Len(q) -> {InjectId, OtherId} \cup TimeoutIds]
  BY <1>2, <1>3
<1>5. Ids(q) \in Seq({InjectId, OtherId} \cup TimeoutIds)
  BY <1>1, <1>4, SeqDef
<1>6. Len(Ids(q)) = Len(q)
  BY <1>1, <1>3, <1>5, LenProperties
<1> QED BY <1>3, <1>5, <1>6

\* register_rtaction() and get_next_rtaction() lose and double nothing.
LEMMA CountRegistered ==
  ASSUME NEW q \in Seq(MetaAction), NEW a \in MetaAction, NEW x
  PROVE  /\ Count(Ids(q), x) \in Nat
         /\ Count(Ids(Loop!Register(q, a)), x) = Count(Ids(q), x) + (IF a.id = x THEN 1 ELSE 0)
<1> DEFINE p == Loop!Register(q, a)
<1>1. p \in Seq(MetaAction) /\ Len(p) = Len(q) + 1
  BY RegisterShape
<1>2. PICK n \in 1 .. Len(q) + 1 :
        \A i \in 1 .. Len(q) + 1 : p[i] = IF i < n THEN q[i] ELSE IF i = n THEN a ELSE q[i - 1]
  BY RegisterShape
<1> HIDE DEF p
<1>3. /\ Ids(q) \in Seq({InjectId, OtherId} \cup TimeoutIds) /\ Len(Ids(q)) = Len(q)
      /\ Ids(p) \in Seq({InjectId, OtherId} \cup TimeoutIds) /\ Len(Ids(p)) = Len(p)
      /\ \A i \in 1 .. Len(q) : Ids(q)[i] = q[i].id
      /\ \A i \in 1 .. Len(p) : Ids(p)[i] = p[i].id
      /\ Len(q) \in Nat
  BY <1>1, IdsShape, LenProperties
<1>4. \A i \in 1 .. Len(q) + 1 :
        Ids(p)[i] = IF i < n THEN Ids(q)[i] ELSE IF i = n THEN a.id ELSE Ids(q)[i - 1]
  <2> TAKE i \in 1 .. Len(q) + 1
  <2>1. CASE i < n
    BY <1>1, <1>2, <1>3, <2>1
  <2>2. CASE i = n
    BY <1>1, <1>2, <1>3, <2>2
  <2>3. CASE i > n
    <3>1. i - 1 \in 1 .. Len(q) /\ i \in 1 .. Len(p) /\ ~ (i < n) /\ i # n
      BY <1>1, <1>3, <2>3
    <3>2. Ids(q)[i - 1] = q[i - 1].id /\ Ids(p)[i] = p[i].id /\ p[i] = q[i - 1]
      BY <1>2, <1>3, <3>1
    <3> QED BY <3>1, <3>2
  <2> QED BY <1>3, <2>1, <2>2, <2>3
<1>5. Inserted(Ids(p), Ids(q), n, a.id)
  BY <1>1, <1>3, <1>4 DEF Inserted
<1>6. /\ Count(Ids(q), x) \in Nat
      /\ Count(Ids(p), x) = Count(Ids(q), x) + (IF a.id = x THEN 1 ELSE 0)
  BY <1>3, <1>5, CountInserted
<1> QED BY <1>6 DEF p

LEMMA CountTaken ==
  ASSUME NEW q \in Seq(MetaAction), q # <<>>, NEW x
  PROVE  /\ Count(Ids(Tail(q)), x) \in Nat
         /\ Count(Ids(q), x) = Count(Ids(Tail(q)), x) + (IF Head(q).id = x THEN 1 ELSE 0)
<1> DEFINE t == Tail(q)
           a == Head(q)
<1>1. /\ t \in Seq(MetaAction) /\ Len(t) = Len(q) - 1 /\ a = q[1]
      /\ \A i \in 1 .. Len(t) : t[i] = q[i + 1]
      /\ Len(q) \in Nat /\ Len(q) >= 1 /\ Len(t) \in Nat
  BY HeadTailProperties, LenProperties, EmptySeq
<1> HIDE DEF t, a
<1>2. /\ Ids(q) \in Seq({InjectId, OtherId} \cup TimeoutIds) /\ Len(Ids(q)) = Len(q)
      /\ Ids(t) \in Seq({InjectId, OtherId} \cup TimeoutIds) /\ Len(Ids(t)) = Len(t)
      /\ \A i \in 1 .. Len(q) : Ids(q)[i] = q[i].id
      /\ \A i \in 1 .. Len(t) : Ids(t)[i] = t[i].id
  BY <1>1, IdsShape
<1>3. Len(Ids(q)) = Len(Ids(t)) + 1 /\ 1 \in 1 .. Len(Ids(t)) + 1
  BY <1>1, <1>2
<1>4. \A i \in 1 .. Len(Ids(t)) + 1 :
        Ids(q)[i] = IF i < 1 THEN Ids(t)[i] ELSE IF i = 1 THEN a.id ELSE Ids(t)[i - 1]
  <2> TAKE i \in 1 .. Len(Ids(t)) + 1
  <2>1. CASE i = 1
    BY <1>1, <1>2, <2>1
  <2>2. CASE i # 1
    <3>1. i - 1 \in 1 .. Len(t) /\ (i - 1) + 1 = i /\ i \in 1 .. Len(q) /\ ~ (i < 1)
      BY <1>1, <1>2, <2>2
    <3> QED BY <1>1, <1>2, <2>2, <3>1
  <2> QED BY <2>1, <2>2
<1>5. Inserted(Ids(q), Ids(t), 1, a.id)
  BY <1>3, <1>4 DEF Inserted
<1>6. Count(Ids(t), x) \in Nat /\ Count(Ids(q), x) = Count(Ids(t), x) + (IF a.id = x THEN 1 ELSE 0)
  BY <1>2, <1>5, CountInserted
<1> QED BY <1>6 DEF t, a

-----------------------------------------------------------------------------
\* The callbacks tell the kinds of actions apart.
LEMMA KindsDiffer ==
  /\ InjectId # OtherId /\ InjectId \notin TimeoutIds /\ OtherId \notin TimeoutIds
  /\ \A attr \in TimeoutIds : attr.cb = "timeout_rtcallback"
  /\ InjectId.cb # "timeout_rtcallback" /\ OtherId.cb # "timeout_rtcallback"
BY DEF InjectId, OtherId, Id, TimeoutIds

\* The date of a timeout is a number.
LEMMA AttrNumbers ==
  \A attr \in TimeoutIds : attr.regdate \in Nat /\ attr.delay \in Nat /\ DateOf(attr) \in Nat
<1> SUFFICES ASSUME NEW attr \in TimeoutIds
             PROVE  attr.regdate \in Nat /\ attr.delay \in Nat /\ DateOf(attr) \in Nat
  OBVIOUS
<1>1. attr.regdate \in Nat /\ attr.delay \in TimeoutDelays
  BY DEF TimeoutIds
<1>2. attr.delay \in Nat
  BY <1>1, TimesAreNumbers
<1> QED BY <1>1, <1>2 DEF DateOf

\* A new action does not disturb the main loop.
LEMMA RegisterScheduled ==
  ASSUME NEW q \in Seq(MetaAction), NEW e \in MetaAction, NEW instant \in Nat, Scheduled(q, e, instant),
         NEW a \in MetaAction, instant <= a.date
  PROVE  Scheduled(Loop!Register(q, a), e, instant)
<1> DEFINE p == Loop!Register(q, a)
<1>1. InOrderOfDates(p) /\ Waiting(p) = Waiting(q) \cup {a}
  BY RegisterWaits DEF Scheduled
<1> HIDE DEF p
<1>2. PollEvery \in Nat /\ a.date \in Nat /\ e.date \in Nat
  BY TimesAreNumbers, MetaActionDate
<1>3. e.date <= instant + PollEvery /\ instant <= e.date + PollEvery
  BY DEF Scheduled
<1>4. instant <= a.date + PollEvery /\ e.date <= a.date + PollEvery
  BY <1>2, <1>3
<1>5. \A b \in Waiting(p) : instant <= b.date + PollEvery /\ e.date <= b.date + PollEvery
  BY <1>1, <1>4 DEF Scheduled
<1>6. \/ e.id = OtherId
      \/ \E b \in Waiting(p) : b.id = OtherId /\ b.date <= instant + PollEvery
  BY <1>1 DEF Scheduled
<1>7. Scheduled(p, e, instant)
  BY <1>1, <1>3, <1>5, <1>6 DEF Scheduled
<1> QED BY <1>7 DEF p

\* The main loop finds its next action in a list with that of the other module.
LEMMA TakeScheduled ==
  ASSUME NEW q \in Seq(MetaAction), InOrderOfDates(q), NEW instant \in Nat, Prompt(q, instant)
  PROVE  /\ q # <<>>
         /\ Head(q) \in MetaAction /\ Tail(q) \in Seq(MetaAction)
         /\ Waiting(q) = Waiting(Tail(q)) \cup {Head(q)}
         /\ \A a \in Waiting(q) : Head(q).date <= a.date
         /\ Scheduled(Tail(q), Head(q), instant)
<1>0. q # <<>>
  <2> SUFFICES ASSUME q = <<>> PROVE FALSE
    OBVIOUS
  <2>1. DOMAIN q = {}
    BY LenProperties, EmptySeq
  <2> QED BY <2>1 DEF Prompt, Waiting
<1> DEFINE h == Head(q)
           t == Tail(q)
<1>1. /\ h \in MetaAction /\ t \in Seq(MetaAction) /\ InOrderOfDates(t)
      /\ Waiting(q) = Waiting(t) \cup {h}
      /\ \A a \in Waiting(q) : h.date <= a.date
  BY <1>0, TakenIsFirst
<1> HIDE DEF h, t
<1>2. h \in Waiting(q)
  BY <1>1
<1>3. PollEvery \in Nat /\ h.date \in Nat /\ \A a \in Waiting(q) : a.date \in Nat
  BY <1>1, TimesAreNumbers, MetaActionDate, WaitingIsAction
<1>4. PICK o \in Waiting(q) : o.id = OtherId /\ o.date <= instant + PollEvery
  BY DEF Prompt
<1>5. h.date <= instant + PollEvery
  BY <1>1, <1>3, <1>4
<1>6. \A a \in Waiting(q) : instant <= a.date + PollEvery
  BY DEF Prompt
<1>7. \A a \in Waiting(q) : h.date <= a.date + PollEvery
  BY <1>1, <1>3
<1>8. h.id = OtherId \/ \E a \in Waiting(t) : a.id = OtherId /\ a.date <= instant + PollEvery
  BY <1>1, <1>4
<1>9. Scheduled(t, h, instant)
  BY <1>1, <1>2, <1>5, <1>6, <1>7, <1>8 DEF Scheduled
<1> QED BY <1>0, <1>1, <1>9 DEF h, t

\* When the action that is held is another one, the list has that of the other
\* module.
LEMMA ScheduledIsPrompt ==
  ASSUME NEW q, NEW e, NEW instant, Scheduled(q, e, instant), e.id # OtherId
  PROVE  InOrderOfDates(q) /\ Prompt(q, instant)
BY DEF Scheduled, Prompt

\* What an event or an action is registered with.
LEMMA InjectAction ==
  ASSUME clock \in Nat
  PROVE  /\ Loop!Timed(InjectId, 0) \in MetaAction
         /\ Loop!Timed(InjectId, 0).id = InjectId /\ Loop!Timed(InjectId, 0).date = clock
<1>1. Loop!Timed(InjectId, 0) = [id |-> InjectId, date |-> clock + 0]
  BY DEF Loop!Timed
<1>2. clock + 0 = clock
  OBVIOUS
<1> QED BY <1>1, <1>2 DEF MetaAction

LEMMA InitLists ==
  ASSUME MetaInit
  PROVE  /\ DOMAIN injections = {} /\ DOMAIN expired = {} /\ DOMAIN actions = {} /\ DOMAIN timeouts = {}
         /\ EventsType /\ OneOwner /\ PlaceByPlace
         /\ \A attr \in TimeoutIds : /\ Count(timeouts, attr) = 0 /\ Count(Ids(actions), attr) = 0
                                     /\ Count(Attrs(expired), attr) = 0
<1> USE DEF MetaInit
<1>1. EventsType
  BY DEF EventsType
<1>2. DOMAIN injections = {} /\ DOMAIN expired = {} /\ DOMAIN actions = {} /\ DOMAIN timeouts = {}
  OBVIOUS
<1>3. OneOwner
  <2>1. \A h \in Handles : built[h] = 0
    OBVIOUS
  <2> QED BY <1>2, <2>1 DEF OneOwner
<1>4. PlaceByPlace
  <2>1. Len(injections) = 0 /\ Len(posted) = 0 /\ Len(queue) = 0
    OBVIOUS
  <2> QED BY <2>1 DEF PlaceByPlace
<1>5. DOMAIN Ids(actions) = {} /\ DOMAIN Attrs(expired) = {}
  BY <1>2 DEF Ids, Attrs
<1>6. \A s : DOMAIN s = {} => \A x : Count(s, x) = 0
  BY FS_EmptySet DEF Count
<1> QED BY <1>1, <1>2, <1>3, <1>4, <1>5, <1>6

LEMMA InitDormant == ASSUME MetaInit, next_action = NoNext PROVE Dormant
<1>1. analysed = "none" /\ posted = <<>> /\ expired = <<>>
  BY DEF MetaInit
<1>2. InOrderOfDates(actions)
  BY InitLists DEF InOrderOfDates
<1>3. TimeoutsCounted
  <2>1. NoNext.id \notin TimeoutIds
    BY DEF NoNext, Id, TimeoutIds
  <2>2. \A attr \in TimeoutIds : HeldCount(attr) = 0
    BY <2>1 DEF HeldCount
  <2> QED BY <2>2, InitLists DEF TimeoutsCounted
<1> QED BY <1>1, <1>2, <1>3, InitLists DEF Dormant

LEMMA InitMeta == ASSUME MetaInit, next_action # NoNext PROVE MetaInv
<1> USE DEF MetaInit
<1>0. /\ InjectId # OtherId /\ OtherId \notin TimeoutIds /\ PollEvery \in Nat
      /\ next_action.id = OtherId /\ next_action.date = PollEvery
  BY KindsDiffer, TimesAreNumbers
<1>1. MetaType
  <2>1. next_action \in MetaAction
    BY <1>0 DEF MetaAction
  <2> QED BY <2>1, InitLists DEF MetaType
<1>2. Served
  BY DEF Served
<1>3. DOMAIN injections = {} /\ DOMAIN expired = {} /\ DOMAIN actions = {} /\ DOMAIN timeouts = {}
  BY InitLists
<1>4. OneOwner /\ PlaceByPlace
  BY InitLists
<1>6. Waiting(actions) = {}
  BY <1>3 DEF Waiting
<1>7. Timeline
  <2>1. Scheduled(actions, next_action, clock)
    <3>1. InOrderOfDates(actions)
      BY <1>3 DEF InOrderOfDates
    <3>2. clock = 0
      OBVIOUS
    <3> QED BY <1>0, <1>6, <3>1, <3>2 DEF Scheduled
  <2>2. InjectionDue
    BY <1>6 DEF InjectionDue
  <2>3. InTime
    <3>1. Len(injections) = 0 /\ Len(posted) = 0
      OBVIOUS
    <3> QED BY <3>1 DEF InTime
  <2>4. TimeoutDates /\ TimeoutsKnown
    BY <1>0, <1>3, <1>6 DEF TimeoutDates, TimeoutsKnown
  <2> QED BY <2>1, <2>2, <2>3, <2>4 DEF Timeline
<1>8. TimeoutsCounted
  <2>1. \A attr \in TimeoutIds : HeldCount(attr) = 0
    BY <1>0 DEF HeldCount
  <2> QED BY <2>1, InitLists DEF TimeoutsCounted
<1> QED BY <1>1, <1>2, <1>4, <1>7, <1>8 DEF MetaInv

-----------------------------------------------------------------------------
\* What does not read the list of actions does not change with it.
LEMMA OwnersStay ==
  ASSUME OneOwner, PlaceByPlace, UNCHANGED <<built, made, queue, injections, posted>>
  PROVE  OneOwner' /\ PlaceByPlace'
BY DEF OneOwner, PlaceByPlace

LEMMA TimelineStays ==
  ASSUME Timeline, UNCHANGED <<queue, injections, posted, actions, next_action, clock, timeouts, expired>>
  PROVE  Timeline'
<1>1. Scheduled(actions, next_action, clock)'
  BY DEF Timeline
<1>2. InjectionDue'
  BY DEF Timeline, InjectionDue
<1>3. InTime' /\ TimeoutDates' /\ TimeoutsKnown'
  BY DEF Timeline, InTime, TimeoutDates, TimeoutsKnown
<1> QED BY <1>1, <1>2, <1>3 DEF Timeline

LEMMA CountsStay ==
  ASSUME TimeoutsCounted, UNCHANGED <<actions, next_action, timeouts, expired>>,
         analysed' = "timeout" <=> analysed = "timeout"
  PROVE  TimeoutsCounted'
<1>1. \A attr : HeldCount(attr)' = HeldCount(attr)
  BY DEF HeldCount
<1>2. \A attr : /\ Count(timeouts, attr)' = Count(timeouts, attr)
                /\ Count(Ids(actions), attr)' = Count(Ids(actions), attr)
                /\ Count(Attrs(expired), attr)' = Count(Attrs(expired), attr)
  OBVIOUS
<1> QED BY <1>1, <1>2 DEF TimeoutsCounted

\* A handle is emptied, or it begins an event.
LEMMA BuildOwners ==
  ASSUME EventsType, OneOwner, NEW h \in Handles, issdl_build_event(h) \/ issdl_set_event_field(h)
  PROVE  /\ UNCHANGED <<queue, injections, posted, actions, next_action, clock, analysed, timeouts, expired>>
         /\ EventsType' /\ OneOwner'
<1>1. UNCHANGED <<queue, injections, posted, actions, next_action, clock, analysed, timeouts, expired>>
  BY DEF issdl_build_event, issdl_set_event_field, loopVars
<1> DEFINE n == built'[h]
<1>2. /\ n \in Nat /\ built' = [built EXCEPT ![h] = n]
      /\ made' \in Nat /\ made' >= made
      /\ n = 0 \/ (n = made' /\ n = made + 1)
  <2>1. made \in Nat /\ built \in [Handles -> Nat]
    BY DEF EventsType
  <2>2. CASE issdl_build_event(h)
    BY <2>1, <2>2 DEF issdl_build_event
  <2>3. CASE issdl_set_event_field(h)
    BY <2>1, <2>3 DEF issdl_set_event_field
  <2> QED BY <2>2, <2>3
<1> HIDE DEF n
<1>3. EventsType'
  BY <1>1, <1>2 DEF EventsType
<1>4. /\ \A g \in Handles : built[g] \in Nat /\ built[g] <= made
      /\ \A g \in Handles : built'[g] = IF g = h THEN n ELSE built[g]
      /\ made \in Nat
  BY <1>2 DEF EventsType, OneOwner
<1>5. \A i \in DOMAIN injections : injections[i].event \in 1..made
  BY DEF OneOwner
<1>6. OneOwner'
  <2>1. \A g \in Handles : built'[g] <= made'
    BY <1>2, <1>4
  <2>2. \A f, g \in Handles : f # g /\ built'[f] = built'[g] => built'[f] = 0
    BY <1>2, <1>4 DEF OneOwner
  <2>3. \A i \in DOMAIN injections : injections[i].event \in 1..made'
    BY <1>2, <1>4, <1>5
  <2>4. \A i \in DOMAIN injections : n # injections[i].event
    BY <1>2, <1>4, <1>5
  <2>5. \A i \in DOMAIN injections, g \in Handles : built'[g] # injections[i].event
    BY <1>4, <2>4 DEF OneOwner
  <2>6. \A i, j \in DOMAIN injections : i # j => injections[i].event # injections[j].event
    BY DEF OneOwner
  <2> QED BY <1>1, <2>1, <2>2, <2>3, <2>5, <2>6 DEF OneOwner
<1> QED BY <1>1, <1>3, <1>6

LEMMA BuildMeta ==
  ASSUME MetaInv, NEW h \in Handles, issdl_build_event(h) \/ issdl_set_event_field(h)
  PROVE  MetaInv'
<1>1. /\ UNCHANGED <<queue, injections, posted, actions, next_action, clock, analysed, timeouts, expired>>
      /\ EventsType' /\ OneOwner'
  BY BuildOwners DEF MetaInv, MetaType
<1>2. MetaType' /\ Served' /\ PlaceByPlace'
  BY <1>1 DEF MetaInv, MetaType, Served, PlaceByPlace
<1>3. Timeline' /\ TimeoutsCounted'
  BY <1>1, TimelineStays, CountsStay DEF MetaInv
<1> QED BY <1>1, <1>2, <1>3 DEF MetaInv

\* The action that an injection registers is due at once.
LEMMA InjectRegistered ==
  ASSUME MetaInv, actions' = Loop!Register(actions, Loop!Timed(InjectId, 0)), UNCHANGED <<next_action, clock>>
  PROVE  /\ actions' \in Seq(MetaAction)
         /\ Scheduled(actions, next_action, clock)'
         /\ \E a \in Waiting(actions') : a.id = InjectId
         /\ \A a \in Waiting(actions') : a.id = InjectId => a.date <= clock
         /\ \A a \in Waiting(actions') : a.id \in TimeoutIds => a \in Waiting(actions)
         /\ \A attr \in TimeoutIds : Count(Ids(actions'), attr) = Count(Ids(actions), attr)
<1> USE DEF MetaInv, Timeline
<1> DEFINE a == Loop!Timed(InjectId, 0)
<1>1. a \in MetaAction /\ a.id = InjectId /\ a.date = clock /\ clock \in Nat
  BY InjectAction DEF MetaType, EventsType
<1>2. actions' = Loop!Register(actions, a)
  OBVIOUS
<1> HIDE DEF a
<1>3. /\ actions \in Seq(MetaAction) /\ next_action \in MetaAction /\ InOrderOfDates(actions)
      /\ Scheduled(actions, next_action, clock) /\ clock <= a.date
  BY <1>1 DEF MetaType, EventsType, Scheduled
<1>4. actions' \in Seq(MetaAction) /\ Waiting(actions') = Waiting(actions) \cup {a}
  BY <1>1, <1>2, <1>3, RegisterWaits
<1>5. Scheduled(actions', next_action, clock)
  BY <1>1, <1>2, <1>3, RegisterScheduled
<1>6. \A b \in Waiting(actions') : b.id = InjectId => b.date <= clock
  BY <1>1, <1>4 DEF InjectionDue
<1>7. InjectId \notin TimeoutIds
  BY KindsDiffer
<1>8. \A attr \in TimeoutIds : Count(Ids(actions'), attr) = Count(Ids(actions), attr)
  <2> TAKE attr \in TimeoutIds
  <2>1. /\ Count(Ids(actions), attr) \in Nat
        /\ Count(Ids(actions'), attr) = Count(Ids(actions), attr) + (IF a.id = attr THEN 1 ELSE 0)
    BY <1>1, <1>2, <1>3, CountRegistered
  <2>2. a.id # attr
    BY <1>1, <1>7
  <2> QED BY <2>1, <2>2
<1>9. \A b \in Waiting(actions') : b.id \in TimeoutIds => b \in Waiting(actions)
  BY <1>1, <1>4, <1>7
<1> QED BY <1>1, <1>4, <1>5, <1>6, <1>8, <1>9

\* What a handle or an injection without one gives to inject_event().
Gives(e) ==
    /\ made' \in Nat /\ made' >= made /\ e <= made'
    /\ built' \in [Handles -> Nat]
    /\ \A h \in Handles : built'[h] <= made' /\ (built'[h] = e => e = 0)
    /\ \A g, h \in Handles : g # h /\ built'[g] = built'[h] => built'[g] = 0
    /\ \A h \in Handles : built'[h] = 0 \/ built'[h] = built[h]
    /\ \A i \in DOMAIN injections : injections[i].event # e

\* An event that is injected has no other owner, and the last place.
LEMMA InjectOwners ==
  ASSUME EventsType, OneOwner, PlaceByPlace, NEW e \in Nat, Inject(e), UNCHANGED <<loopVars, timeouts>>, Gives(e)
  PROVE  /\ OneOwner' /\ PlaceByPlace'
         /\ queue' \in Seq(Nat) /\ injections' \in Seq(Logged)
         /\ e = 0 => UNCHANGED <<queue, injections>>
         /\ e # 0 => injections' = Append(injections, [event |-> e, at |-> clock])
         /\ \/ UNCHANGED <<actions, queue, injections>>
            \/ actions' = Loop!Register(actions, Loop!Timed(InjectId, 0))
<1> USE DEF Gives
<1>0. UNCHANGED <<next_action, clock, analysed, inputs, posted, expired, timeouts>>
  BY DEF loopVars
<1>t. /\ queue \in Seq(Nat) /\ injections \in Seq(Logged) /\ posted \in Seq(Logged) /\ clock \in Nat
      /\ made \in Nat
  BY DEF EventsType
<1>n. /\ Len(queue) \in Nat /\ Len(injections) \in Nat /\ Len(posted) \in Nat
      /\ DOMAIN injections = 1 .. Len(injections)
      /\ \A i \in 1 .. Len(injections) : injections[i] \in Logged
  BY <1>t, LenProperties
<1>1. CASE e = 0
  <2>1. UNCHANGED <<queue, injections>>
    BY <1>1 DEF Inject
  <2>2. OneOwner'
    <3>1. \A i \in DOMAIN injections : injections[i].event \in 1..made'
      BY <1>t DEF OneOwner
    <3>2. \A i \in DOMAIN injections, h \in Handles : built'[h] # injections[i].event
      BY <3>1 DEF OneOwner
    <3> QED BY <2>1, <3>1, <3>2 DEF OneOwner
  <2>3. PlaceByPlace'
    BY <1>0, <2>1 DEF PlaceByPlace
  <2> QED BY <1>t, <1>1, <2>1, <2>2, <2>3 DEF Inject, register_rtcallback
<1>2. CASE e # 0
  <2>1. /\ queue' = Append(queue, e)
        /\ injections' = Append(injections, [event |-> e, at |-> clock])
        /\ actions' = Loop!Register(actions, Loop!Timed(InjectId, 0))
    BY <1>2 DEF Inject, register_rtcallback
  <2>2. [event |-> e, at |-> clock] \in Logged
    BY <1>t DEF Logged
  <2>3. /\ queue' \in Seq(Nat) /\ Len(queue') = Len(queue) + 1
        /\ \A i \in 1 .. Len(queue) : queue'[i] = queue[i]
        /\ queue'[Len(queue) + 1] = e
    BY <1>t, <2>1, AppendProperties
  <2>4. /\ injections' \in Seq(Logged) /\ Len(injections') = Len(injections) + 1
        /\ \A i \in 1 .. Len(injections) : injections'[i] = injections[i]
        /\ injections'[Len(injections) + 1] = [event |-> e, at |-> clock]
    BY <1>t, <2>1, <2>2, AppendProperties
  <2>5. DOMAIN injections' = 1 .. Len(injections) + 1
    BY <2>4, LenProperties
  <2> DEFINE ev(i) == injections'[i].event
  <2>7. \A i \in 1 .. Len(injections) + 1 : ev(i) = IF i = Len(injections) + 1 THEN e ELSE injections[i].event
    BY <1>n, <2>4
  <2>9. OneOwner'
    <3>1. \A i \in DOMAIN injections : injections[i].event \in 1..made
      BY DEF OneOwner
    <3>2. e \in 1 .. made'
      BY <1>2
    <3>3. \A i \in 1 .. Len(injections) + 1 : ev(i) \in 1..made'
      <4> TAKE i \in 1 .. Len(injections) + 1
      <4>1. CASE i = Len(injections) + 1
        BY <2>7, <3>2, <4>1
      <4>2. CASE i # Len(injections) + 1
        <5>1. i \in DOMAIN injections /\ ev(i) = injections[i].event
          BY <1>n, <2>7, <4>2
        <5>2. ev(i) \in 1..made
          BY <3>1, <5>1
        <5> HIDE DEF ev
        <5> QED BY <1>t, <5>2
      <4> QED BY <4>1, <4>2
    <3>4. \A i \in 1 .. Len(injections) + 1, h \in Handles : built'[h] # ev(i)
      <4> TAKE i \in 1 .. Len(injections) + 1, h \in Handles
      <4>1. CASE i = Len(injections) + 1
        BY <1>2, <2>7, <4>1
      <4>2. CASE i # Len(injections) + 1
        <5>1. i \in DOMAIN injections /\ ev(i) = injections[i].event
          BY <1>n, <2>7, <4>2
        <5>2. ev(i) # built[h] /\ ev(i) # 0
          BY <3>1, <5>1 DEF OneOwner
        <5> QED BY <5>2
      <4> QED BY <4>1, <4>2
    <3>5. \A i, j \in 1 .. Len(injections) + 1 : i # j => ev(i) # ev(j)
      <4> TAKE i, j \in 1 .. Len(injections) + 1
      <4>1. \A k \in 1 .. Len(injections) + 1 : k # Len(injections) + 1 => k \in DOMAIN injections
        BY <1>n
      <4> QED BY <2>7, <4>1 DEF OneOwner
    <3> HIDE DEF ev
    <3>6. \A i, j \in DOMAIN injections' : i # j => ev(i) # ev(j)
      BY <2>5, <3>5
    <3>7. \A i \in DOMAIN injections' : ev(i) \in 1..made' /\ \A h \in Handles : built'[h] # ev(i)
      BY <2>5, <3>3, <3>4
    <3> QED BY <3>6, <3>7 DEF OneOwner, ev
  <2>10. PlaceByPlace'
    <3>1. /\ Len(injections) = Len(posted) + Len(queue)
          /\ \A i \in 1..Len(posted) : posted[i].event = injections[i].event
          /\ \A i \in 1..Len(queue) : queue[i] = injections[Len(posted) + i].event
      BY DEF PlaceByPlace
    <3>2. Len(injections') = Len(posted) + Len(queue')
      BY <1>n, <2>3, <2>4, <3>1
    <3>3. \A i \in 1..Len(posted) : posted[i].event = ev(i)
      BY <1>n, <2>7, <3>1
    <3>4. \A i \in 1..Len(queue) + 1 : queue'[i] = ev(Len(posted) + i)
      <4> TAKE i \in 1..Len(queue) + 1
      <4>1. CASE i = Len(queue) + 1
        <5>1. Len(posted) + i = Len(injections) + 1
          BY <1>n, <3>1, <4>1
        <5> QED BY <1>n, <2>3, <2>7, <4>1, <5>1
      <4>2. CASE i # Len(queue) + 1
        <5>1. i \in 1 .. Len(queue) /\ Len(posted) + i \in 1 .. Len(injections)
          BY <1>n, <3>1, <4>2
        <5>2. queue'[i] = injections[Len(posted) + i].event
          BY <2>3, <3>1, <5>1
        <5>3. ev(Len(posted) + i) = injections[Len(posted) + i].event
          BY <2>4, <5>1
        <5> QED BY <5>2, <5>3
      <4> QED BY <4>1, <4>2
    <3>5. \A i \in 1..Len(queue') : queue'[i] = ev(Len(posted) + i)
      BY <2>3, <3>4
    <3> QED BY <1>0, <3>2, <3>3, <3>5 DEF PlaceByPlace
  <2> HIDE DEF ev, Gives
  <2> QED BY <1>2, <2>1, <2>3, <2>4, <2>9, <2>10
<1> QED BY <1>1, <1>2

\* Without an event and with an empty list inject_event() does nothing; with
\* an empty event it may register an action too much.
LEMMA InjectMeta ==
  ASSUME MetaInv, NEW e \in Nat, Inject(e), UNCHANGED <<loopVars, timeouts>>, Gives(e)
  PROVE  MetaInv'
<1> USE DEF MetaInv
<1>0. UNCHANGED <<next_action, clock, analysed, inputs, posted, expired, timeouts>>
  BY DEF loopVars
<1>t. /\ queue \in Seq(Nat) /\ injections \in Seq(Logged) /\ posted \in Seq(Logged) /\ clock \in Nat
      /\ EventsType /\ next_action \in MetaAction /\ made' \in Nat /\ built' \in [Handles -> Nat]
  BY DEF MetaType, EventsType, Gives
<1>n. /\ Len(queue) \in Nat /\ Len(injections) \in Nat /\ Len(posted) \in Nat
      /\ DOMAIN injections = 1 .. Len(injections)
  BY <1>t, LenProperties
<1>s. Served'
  BY <1>0 DEF Served
<1>o. /\ OneOwner' /\ PlaceByPlace'
      /\ queue' \in Seq(Nat) /\ injections' \in Seq(Logged)
      /\ e = 0 => UNCHANGED <<queue, injections>>
      /\ e # 0 => injections' = Append(injections, [event |-> e, at |-> clock])
      /\ \/ UNCHANGED <<actions, queue, injections>>
         \/ actions' = Loop!Register(actions, Loop!Timed(InjectId, 0))
  BY <1>t, InjectOwners
<1>1. CASE UNCHANGED <<actions, queue, injections>>
  <2>1. MetaType'
    BY <1>0, <1>t, <1>1 DEF MetaType, EventsType
  <2>2. Timeline' /\ TimeoutsCounted'
    BY <1>0, <1>1, TimelineStays, CountsStay
  <2> QED BY <1>s, <1>o, <2>1, <2>2
<1>2. CASE actions' = Loop!Register(actions, Loop!Timed(InjectId, 0))
  <2>6. /\ actions' \in Seq(MetaAction)
        /\ Scheduled(actions, next_action, clock)'
        /\ \E a \in Waiting(actions') : a.id = InjectId
        /\ \A a \in Waiting(actions') : a.id = InjectId => a.date <= clock
        /\ \A a \in Waiting(actions') : a.id \in TimeoutIds => a \in Waiting(actions)
        /\ \A attr \in TimeoutIds : Count(Ids(actions'), attr) = Count(Ids(actions), attr)
    BY <1>0, <1>2, InjectRegistered
  <2>8. MetaType'
    BY <1>0, <1>t, <1>o, <2>6 DEF MetaType, EventsType
  <2>11. InjectionDue'
    BY <1>0, <2>6 DEF InjectionDue
  <2>12. InTime'
    <3>1. CASE e = 0
      BY <1>0, <1>o, <3>1 DEF InTime, Timeline
    <3>2. CASE e # 0
      <4>a. injections' = Append(injections, [event |-> e, at |-> clock])
        BY <1>o, <3>2
      <4>b. [event |-> e, at |-> clock] \in Logged
        BY <1>t DEF Logged
      <4>c. /\ injections' \in Seq(Logged) /\ Len(injections') = Len(injections) + 1
            /\ \A i \in 1 .. Len(injections) : injections'[i] = injections[i]
            /\ injections'[Len(injections) + 1] = [event |-> e, at |-> clock]
        BY <1>t, <4>a, <4>b, AppendProperties
      <4>0. PollEvery \in Nat
        BY TimesAreNumbers
      <4>1. Len(posted) <= Len(injections)
        BY <1>n DEF PlaceByPlace
      <4>2. \A i \in 1..Len(posted) : posted[i].at <= injections'[i].at + PollEvery
        <5> TAKE i \in 1..Len(posted)
        <5>1. i \in 1 .. Len(injections)
          BY <1>n, <4>1
        <5> QED BY <4>c, <5>1 DEF InTime, Timeline
      <4>3. \A i \in Len(posted) + 1..Len(injections) + 1 :
              /\ clock <= injections'[i].at + PollEvery
              /\ next_action.date <= injections'[i].at + PollEvery
        <5> TAKE i \in Len(posted) + 1..Len(injections) + 1
        <5>1. CASE i = Len(injections) + 1
          <6>1. injections'[i].at = clock
            BY <4>c, <5>1
          <6>2. next_action.date <= clock + PollEvery
            BY DEF Timeline, Scheduled
          <6> QED BY <1>t, <4>0, <6>1, <6>2
        <5>2. CASE i # Len(injections) + 1
          <6>1. i \in 1 .. Len(injections) /\ i \in Len(posted) + 1 .. Len(injections)
            BY <1>n, <5>2
          <6> QED BY <4>c, <6>1 DEF InTime, Timeline
        <5> QED BY <5>1, <5>2
      <4>4. \A i \in Len(posted) + 1..Len(injections') :
              /\ clock <= injections'[i].at + PollEvery
              /\ next_action.date <= injections'[i].at + PollEvery
        BY <4>c, <4>3
      <4> QED BY <1>0, <4>2, <4>4 DEF InTime
    <3> QED BY <3>1, <3>2
  <2>13. TimeoutDates' /\ TimeoutsKnown'
    BY <1>0, <2>6 DEF TimeoutDates, TimeoutsKnown, Timeline
  <2>14. TimeoutsCounted'
    BY <1>0, <2>6 DEF TimeoutsCounted, HeldCount
  <2> QED BY <1>s, <1>o, <2>6, <2>8, <2>11, <2>12, <2>13, <2>14 DEF Timeline
<1> QED BY <1>o, <1>1, <1>2

\* The attributes of the timeouts that expired, as a sequence.
LEMMA AttrsShape ==
  ASSUME NEW log \in Seq([attr : TimeoutIds, date : Nat])
  PROVE  /\ Attrs(log) \in Seq(TimeoutIds)
         /\ Len(Attrs(log)) = Len(log) /\ \A i \in 1 .. Len(log) : Attrs(log)[i] = log[i].attr
<1>1. /\ Len(log) \in Nat /\ DOMAIN log = 1 .. Len(log)
      /\ \A i \in 1 .. Len(log) : log[i] \in [attr : TimeoutIds, date : Nat]
  BY LenProperties
<1>2. Attrs(log) = [i \in 1 .. Len(log) |-> log[i].attr]
  BY <1>1 DEF Attrs
<1>3. Attrs(log) \in [1 .. Len(log) -> TimeoutIds]
  BY <1>1, <1>2
<1>4. Attrs(log) \in Seq(TimeoutIds)
  BY <1>1, <1>3, SeqDef
<1>5. Len(Attrs(log)) = Len(log)
  BY <1>1, <1>2, <1>4, LenProperties
<1> QED BY <1>2, <1>4, <1>5

LEMMA CountIsNatural ==
  ASSUME expired \in Seq([attr : TimeoutIds, date : Nat]), NEW x
  PROVE  Count(Attrs(expired), x) \in Nat
<1>1. Attrs(expired) \in Seq(TimeoutIds)
  BY AttrsShape
<1> DEFINE s == Attrs(expired)
<1> HIDE DEF s
<1>2. Len(s) \in Nat /\ DOMAIN s = 1 .. Len(s)
  BY <1>1, LenProperties DEF s
<1>3. IsFiniteSet(1 .. Len(s)) /\ {i \in DOMAIN s : s[i] = x} \subseteq 1 .. Len(s)
  BY <1>2, FS_Interval
<1>4. Cardinality({i \in DOMAIN s : s[i] = x}) \in Nat
  BY <1>3, FS_Subset, FS_CardinalityType
<1> QED BY <1>4 DEF Count, s

\* The event of a handle leaves it, and an event that was just made has none.
LEMMA InjectGives ==
  ASSUME EventsType, OneOwner, (\E h \in Handles : issdl_inject_event(h)) \/ issdl_inject_single_event
  PROVE  /\ UNCHANGED <<loopVars, timeouts>>
         /\ \E e \in Nat : Inject(e) /\ Gives(e)
<1>t. /\ made \in Nat /\ built \in [Handles -> Nat] /\ \A h \in Handles : built[h] \in Nat /\ built[h] <= made
      /\ \A g, h \in Handles : g # h /\ built[g] = built[h] => built[h] = 0
      /\ \A i \in DOMAIN injections : injections[i].event \in 1..made
      /\ \A i \in DOMAIN injections, h \in Handles : built[h] # injections[i].event
  BY DEF EventsType, OneOwner
<1>u. UNCHANGED <<loopVars, timeouts>>
  BY DEF issdl_inject_event, issdl_inject_single_event
<1>1. ASSUME NEW h \in Handles, issdl_inject_event(h) PROVE \E e \in Nat : Inject(e) /\ Gives(e)
  <2>1. Inject(built[h]) /\ made' = made /\ built' = [built EXCEPT ![h] = 0]
    BY <1>1 DEF issdl_inject_event
  <2> DEFINE e == built[h]
  <2>2. /\ e \in Nat /\ Inject(e) /\ made' \in Nat /\ made' >= made /\ e <= made'
        /\ \A i \in DOMAIN injections : injections[i].event # e
    BY <1>t, <2>1
  <2>3. /\ built' \in [Handles -> Nat]
        /\ \A g \in Handles : built'[g] = IF g = h THEN 0 ELSE built[g]
    BY <1>t, <2>1
  <2>4. \A g \in Handles : built'[g] <= made' /\ (built'[g] = e => e = 0)
    BY <1>t, <2>1, <2>3
  <2>5. \A f, g \in Handles : f # g /\ built'[f] = built'[g] => built'[f] = 0
    BY <1>t, <2>3
  <2>6. \A g \in Handles : built'[g] = 0 \/ built'[g] = built[g]
    BY <2>3
  <2> HIDE DEF e
  <2> QED BY <2>2, <2>3, <2>4, <2>5, <2>6 DEF Gives
<1>2. CASE issdl_inject_single_event
  <2>1. UNCHANGED built
    BY <1>2 DEF issdl_inject_single_event
  <2>2. /\ built' \in [Handles -> Nat]
        /\ \A f, g \in Handles : f # g /\ built'[f] = built'[g] => built'[f] = 0
        /\ \A g \in Handles : built'[g] = 0 \/ built'[g] = built[g]
    BY <1>t, <2>1
  <2>3. CASE Inject(0) /\ UNCHANGED made
    <3>1. /\ \A g \in Handles : built'[g] <= made' /\ (built'[g] = 0 => 0 = 0)
          /\ \A i \in DOMAIN injections : injections[i].event # 0
          /\ made' \in Nat /\ made' >= made /\ 0 <= made' /\ 0 \in Nat
      BY <1>t, <2>1, <2>3
    <3>2. Gives(0)
      BY <2>2, <3>1 DEF Gives
    <3> QED BY <1>u, <2>3, <3>1, <3>2
  <2>4. CASE made' = made + 1 /\ Inject(made')
    <3> DEFINE e == made'
    <3>1. /\ \A g \in Handles : built'[g] <= e /\ built'[g] # e
          /\ \A i \in DOMAIN injections : injections[i].event # e
          /\ e \in Nat /\ e >= made /\ e <= e /\ Inject(e)
      BY <1>t, <2>1, <2>4
    <3>2. e = made'
      OBVIOUS
    <3> HIDE DEF e
    <3>3. Gives(e)
      BY <2>2, <3>1, <3>2 DEF Gives
    <3> QED BY <1>u, <3>1, <3>3
  <2> QED BY <1>2, <2>3, <2>4 DEF issdl_inject_single_event
<1> QED BY <1>u, <1>1, <1>2

LEMMA InjectEventMeta ==
  ASSUME MetaInv, (\E h \in Handles : issdl_inject_event(h)) \/ issdl_inject_single_event
  PROVE  MetaInv'
<1>1. /\ UNCHANGED <<loopVars, timeouts>>
      /\ \E e \in Nat : Inject(e) /\ Gives(e)
  BY InjectGives DEF MetaInv, MetaType
<1> QED BY <1>1, InjectMeta

\* A timeout that is asked for waits in the list, with its own attributes.
LEMMA TimeoutMeta ==
  ASSUME MetaInv, NEW name \in TimeoutNames, NEW delay \in TimeoutDelays, issdl_timeout(name, delay)
  PROVE  MetaInv'
<1> USE DEF MetaInv, Timeline
<1> DEFINE attr == Id("timeout_rtcallback", name, clock, delay)
           a == Loop!Timed(attr, delay)
<1>1. /\ timeouts' = Append(timeouts, attr)
      /\ actions' = Loop!Register(actions, a)
      /\ UNCHANGED <<built, made, queue, injections, next_action, clock, analysed, posted, expired>>
  BY DEF issdl_timeout, register_rtcallback, builtVars, loopVars
<1>2. /\ clock \in Nat /\ delay \in Nat /\ actions \in Seq(MetaAction) /\ next_action \in MetaAction
      /\ timeouts \in Seq(TimeoutIds)
  BY TimesAreNumbers DEF MetaType, EventsType
<1>3. attr \in TimeoutIds /\ attr.regdate = clock /\ attr.delay = delay
  BY <1>2 DEF Id, TimeoutIds
<1>4. a = [id |-> attr, date |-> clock + delay]
  BY DEF Loop!Timed
<1>5. a \in MetaAction /\ a.id = attr /\ a.date = DateOf(attr) /\ clock <= a.date
  <2>1. clock + delay \in Nat /\ clock <= clock + delay
    BY <1>2
  <2> HIDE DEF attr, a
  <2> QED BY <1>3, <1>4, <2>1 DEF MetaAction, DateOf
<1> HIDE DEF attr, a
<1>6. /\ actions' \in Seq(MetaAction) /\ Waiting(actions') = Waiting(actions) \cup {a}
      /\ Scheduled(actions', next_action, clock)
  BY <1>1, <1>2, <1>5, RegisterWaits, RegisterScheduled DEF Scheduled
<1>7. /\ timeouts' \in Seq(TimeoutIds) /\ Len(timeouts') = Len(timeouts) + 1
      /\ \A i \in 1 .. Len(timeouts) : timeouts'[i] = timeouts[i]
      /\ timeouts'[Len(timeouts) + 1] = attr /\ Len(timeouts) \in Nat
  BY <1>1, <1>2, <1>3, AppendProperties, LenProperties
<1>8. ToSet(timeouts) \subseteq ToSet(timeouts') /\ attr \in ToSet(timeouts')
  <2>1. DOMAIN timeouts = 1 .. Len(timeouts) /\ DOMAIN timeouts' = 1 .. Len(timeouts) + 1
    BY <1>2, <1>7, LenProperties
  <2>2. \A i \in DOMAIN timeouts : i \in DOMAIN timeouts' /\ timeouts'[i] = timeouts[i]
    BY <1>7, <2>1
  <2>3. Len(timeouts) + 1 \in DOMAIN timeouts'
    BY <1>7, <2>1
  <2> QED BY <1>7, <2>2, <2>3 DEF ToSet
<1>9. attr # InjectId /\ attr # OtherId
  BY <1>3, KindsDiffer
<1>10. MetaType' /\ Served'
  BY <1>1, <1>6, <1>7 DEF MetaType, EventsType, Served
<1>11. OneOwner' /\ PlaceByPlace'
  BY <1>1, OwnersStay
<1>12. InjectionDue' /\ InTime'
  BY <1>1, <1>5, <1>6, <1>9 DEF InjectionDue, InTime
<1>13. TimeoutDates' /\ TimeoutsKnown'
  <2>1. \A b \in Waiting(actions') \cup {next_action'} : b.id \in TimeoutIds =>
          b.date = DateOf(b.id) /\ b.id \in ToSet(timeouts')
    BY <1>1, <1>5, <1>6, <1>8 DEF TimeoutDates, TimeoutsKnown
  <2>2. \A i \in DOMAIN expired' :
          /\ expired'[i].attr \in ToSet(timeouts')
          /\ DateOf(expired'[i].attr) <= expired'[i].date
          /\ expired'[i].date <= DateOf(expired'[i].attr) + PollEvery
    BY <1>1, <1>8 DEF TimeoutDates
  <2> QED BY <2>1, <2>2 DEF TimeoutDates, TimeoutsKnown
<1>14. TimeoutsCounted'
  <2> SUFFICES ASSUME NEW x \in TimeoutIds
               PROVE  Count(timeouts', x) = Count(Ids(actions'), x) + HeldCount(x) + Count(Attrs(expired), x)
    BY <1>1 DEF TimeoutsCounted, HeldCount
  <2>1. /\ Count(timeouts, x) \in Nat
        /\ Count(timeouts', x) = Count(timeouts, x) + (IF attr = x THEN 1 ELSE 0)
    BY <1>1, <1>2, <1>3, CountAppended
  <2>2. /\ Count(Ids(actions), x) \in Nat
        /\ Count(Ids(actions'), x) = Count(Ids(actions), x) + (IF attr = x THEN 1 ELSE 0)
    BY <1>1, <1>2, <1>5, CountRegistered
  <2>3. Count(timeouts, x) = Count(Ids(actions), x) + HeldCount(x) + Count(Attrs(expired), x)
    BY DEF TimeoutsCounted
  <2>4. HeldCount(x) \in Nat
    BY DEF HeldCount
  <2>5. Count(Attrs(expired), x) \in Nat
    BY CountIsNatural DEF MetaType, EventsType
  <2> QED BY <2>1, <2>2, <2>3, <2>4, <2>5
<1> QED BY <1>1, <1>6, <1>10, <1>11, <1>12, <1>13, <1>14

\* The main loop goes on with the first action of a list.
LEMMA TakeMeta ==
  ASSUME MetaInv, NEW q \in Seq(MetaAction), InOrderOfDates(q), Prompt(q, clock), Next_action(q),
         UNCHANGED <<builtVars, clock, posted, expired, timeouts>>, analysed' = "none",
         \A a \in Waiting(q) : a.id = InjectId => a.date <= clock,
         queue # <<>> => \E a \in Waiting(q) : a.id = InjectId,
         \A a \in Waiting(q) : a.id \in TimeoutIds => a \in Waiting(actions),
         \A attr \in TimeoutIds : Count(Ids(q), attr) = Count(Ids(actions), attr) /\ HeldCount(attr) = 0
  PROVE  MetaInv'
<1> USE DEF MetaInv, Timeline
<1> DEFINE h == Head(q)
           t == Tail(q)
<1>1. /\ q # <<>> /\ h \in MetaAction /\ t \in Seq(MetaAction)
      /\ Waiting(q) = Waiting(t) \cup {h}
      /\ \A a \in Waiting(q) : h.date <= a.date
      /\ Scheduled(t, h, clock)
  BY TakeScheduled DEF MetaType, EventsType
<1>2. next_action' = h /\ actions' = t
  BY <1>1 DEF Next_action
<1>3. \A attr \in TimeoutIds : /\ Count(Ids(t), attr) \in Nat
                               /\ Count(Ids(q), attr) = Count(Ids(t), attr) + (IF h.id = attr THEN 1 ELSE 0)
  BY <1>1, CountTaken
<1> HIDE DEF h, t
<1>4. UNCHANGED <<built, made, queue, injections>>
  BY DEF builtVars
<1>5. MetaType' /\ Served'
  BY <1>1, <1>2, <1>4 DEF MetaType, EventsType, Served
<1>6. OneOwner' /\ PlaceByPlace'
  BY <1>4, OwnersStay
<1>7. Scheduled(actions, next_action, clock)'
  BY <1>1, <1>2
<1>8. InjectionDue'
  BY <1>1, <1>2, <1>4 DEF InjectionDue
<1>9. InTime'
  <2>0. PollEvery \in Nat /\ clock \in Nat /\ h.date \in Nat
    BY <1>1, TimesAreNumbers, MetaActionDate DEF MetaType, EventsType
  <2>1. \A i \in Len(posted) + 1 .. Len(injections) : h.date <= injections[i].at + PollEvery
    <3> TAKE i \in Len(posted) + 1 .. Len(injections)
    <3>1. /\ Len(injections) = Len(posted) + Len(queue) /\ Len(posted) \in Nat /\ Len(queue) \in Nat
          /\ queue \in Seq(Nat) /\ injections \in Seq(Logged) /\ DOMAIN injections = 1 .. Len(injections)
      BY LenProperties DEF PlaceByPlace, MetaType, EventsType
    <3>2. queue # <<>>
      BY <3>1, EmptySeq
    <3>3. PICK a \in Waiting(q) : a.id = InjectId
      BY <3>2
    <3>4. a.date <= clock /\ h.date <= a.date /\ a.date \in Nat
      BY <1>1, <3>3, WaitingIsAction
    <3>5. clock <= injections[i].at + PollEvery
      BY DEF InTime
    <3>6. i \in 1 .. Len(injections)
      BY <3>1
    <3>7. injections[i].at \in Nat
      <4>1. injections[i] \in Logged
        BY <3>1, <3>6, ElementOfSeq
      <4> QED BY <4>1 DEF Logged
    <3> QED BY <2>0, <3>4, <3>5, <3>7
  <2> QED BY <1>2, <1>4, <2>1 DEF InTime
<1>10. TimeoutDates' /\ TimeoutsKnown'
  BY <1>1, <1>2 DEF TimeoutDates, TimeoutsKnown
<1>11. TimeoutsCounted'
  <2> SUFFICES ASSUME NEW x \in TimeoutIds
               PROVE  Count(timeouts, x) = Count(Ids(t), x) + HeldCount(x)' + Count(Attrs(expired), x)
    BY <1>2 DEF TimeoutsCounted
  <2>1. HeldCount(x)' = IF h.id = x THEN 1 ELSE 0
    BY <1>2 DEF HeldCount
  <2>2. Count(timeouts, x) = Count(Ids(q), x) + 0 + Count(Attrs(expired), x)
    BY DEF TimeoutsCounted
  <2>3. Count(Attrs(expired), x) \in Nat
    BY CountIsNatural DEF MetaType, EventsType
  <2> QED BY <1>3, <2>1, <2>2, <2>3
<1> QED BY <1>5, <1>6, <1>7, <1>8, <1>9, <1>10, <1>11

\* The event at the head of the list is posted.
LEMMA PostMeta ==
  ASSUME MetaInv, ~RuleActs, Due, metaevent_callback, queue # <<>>, UNCHANGED <<clock, inputs>>
  PROVE  MetaInv'
<1> USE DEF MetaInv, Timeline
<1>1. /\ queue' = Tail(queue)
      /\ posted' = Append(posted, [event |-> Head(queue), at |-> clock])
      /\ analysed' = "metaevent" /\ next_action.id = InjectId
      /\ UNCHANGED <<actions, next_action, built, made, injections, timeouts, expired, clock>>
  BY DEF metaevent_callback
<1>2. analysed # "timeout"
  BY DEF RuleActs
<1>3. /\ queue \in Seq(Nat) /\ posted \in Seq(Logged) /\ injections \in Seq(Logged) /\ clock \in Nat
      /\ Len(queue) \in Nat /\ Len(posted) \in Nat /\ Len(injections) \in Nat
  BY LenProperties DEF MetaType, EventsType
<1>4. /\ Len(queue) >= 1 /\ queue' \in Seq(Nat) /\ Len(queue') = Len(queue) - 1
      /\ Head(queue) = queue[1] /\ Head(queue) \in Nat
      /\ \A i \in 1 .. Len(queue') : queue'[i] = queue[i + 1]
  BY <1>1, <1>3, EmptySeq, HeadTailProperties
<1>5. /\ posted' \in Seq(Logged) /\ Len(posted') = Len(posted) + 1
      /\ \A i \in 1 .. Len(posted) : posted'[i] = posted[i]
      /\ posted'[Len(posted) + 1] = [event |-> queue[1], at |-> clock]
  <2>1. [event |-> Head(queue), at |-> clock] \in Logged
    BY <1>3, <1>4 DEF Logged
  <2> QED BY <1>1, <1>3, <1>4, <2>1, AppendProperties
<1>6. /\ Len(injections) = Len(posted) + Len(queue)
      /\ \A i \in 1..Len(posted) : posted[i].event = injections[i].event
      /\ \A i \in 1..Len(queue) : queue[i] = injections[Len(posted) + i].event
  BY DEF PlaceByPlace
<1>7. MetaType' /\ Served'
  BY <1>1, <1>4, <1>5 DEF MetaType, EventsType, Served
<1>8. OneOwner'
  BY <1>1 DEF OneOwner
<1>9. PlaceByPlace'
  <2>1. Len(injections) = Len(posted') + Len(queue')
    BY <1>3, <1>4, <1>5, <1>6
  <2>2. \A i \in 1..Len(posted) + 1 : posted'[i].event = injections[i].event
    <3> TAKE i \in 1..Len(posted) + 1
    <3>1. CASE i = Len(posted) + 1
      <4>1. 1 \in 1 .. Len(queue)
        BY <1>3, <1>4
      <4> QED BY <1>5, <1>6, <3>1, <4>1
    <3>2. CASE i # Len(posted) + 1
      <4>1. i \in 1 .. Len(posted)
        BY <1>3, <3>2
      <4> QED BY <1>5, <1>6, <4>1
    <3> QED BY <3>1, <3>2
  <2>3. \A i \in 1..Len(queue') : queue'[i] = injections[Len(posted') + i].event
    <3> TAKE i \in 1..Len(queue')
    <3>1. i + 1 \in 1 .. Len(queue) /\ Len(posted') + i = Len(posted) + (i + 1)
      BY <1>3, <1>4, <1>5
    <3> QED BY <1>4, <1>6, <3>1
  <2> QED BY <1>1, <1>5, <2>1, <2>2, <2>3 DEF PlaceByPlace
<1>10. Scheduled(actions, next_action, clock)' /\ InjectionDue'
  BY <1>1 DEF InjectionDue
<1>11. InTime'
  <2>1. \A i \in 1..Len(posted) + 1 : posted'[i].at <= injections[i].at + PollEvery
    <3> TAKE i \in 1..Len(posted) + 1
    <3>1. CASE i = Len(posted) + 1
      <4>1. i \in Len(posted) + 1 .. Len(injections)
        BY <1>3, <1>4, <1>6, <3>1
      <4>2. clock <= injections[i].at + PollEvery
        BY <4>1 DEF InTime
      <4> QED BY <1>5, <3>1, <4>2
    <3>2. CASE i # Len(posted) + 1
      <4>1. i \in 1 .. Len(posted)
        BY <1>3, <3>2
      <4> QED BY <1>5, <4>1 DEF InTime
    <3> QED BY <3>1, <3>2
  <2>2. \A i \in Len(posted') + 1 .. Len(injections) : i \in Len(posted) + 1 .. Len(injections)
    BY <1>3, <1>5
  <2> QED BY <1>1, <1>5, <2>1, <2>2 DEF InTime
<1>12. TimeoutDates' /\ TimeoutsKnown'
  BY <1>1 DEF TimeoutDates, TimeoutsKnown
<1>13. TimeoutsCounted'
  BY <1>1, <1>2, CountsStay
<1> QED BY <1>7, <1>8, <1>9, <1>10, <1>11, <1>12, <1>13

\* Nothing is counted for the loop when it waits for no timeout, or posts one.
LEMMA NotHeld ==
  ASSUME NEW attr \in TimeoutIds, next_action.id \in {InjectId, OtherId} \/ analysed = "timeout"
  PROVE  HeldCount(attr) = 0
BY KindsDiffer DEF HeldCount

\* The callback finds an empty list: another action took the events before.
LEMMA NothingMeta ==
  ASSUME MetaInv, ~RuleActs, metaevent_callback, queue = <<>>, UNCHANGED <<clock, inputs>>
  PROVE  MetaInv'
<1>1. /\ next_action.id = InjectId /\ Next_action(actions) /\ analysed' = "none"
      /\ UNCHANGED <<builtVars, clock, posted, expired, timeouts>>
  BY DEF metaevent_callback, RuleActs, builtVars
<1>2. next_action.id # OtherId
  BY <1>1, KindsDiffer
<1>3. /\ actions \in Seq(MetaAction) /\ InOrderOfDates(actions) /\ Prompt(actions, clock)
      /\ \A a \in Waiting(actions) : a.id = InjectId => a.date <= clock
  BY <1>2, ScheduledIsPrompt DEF MetaInv, MetaType, EventsType, Timeline, InjectionDue
<1>4. \A attr \in TimeoutIds : Count(Ids(actions), attr) = Count(Ids(actions), attr) /\ HeldCount(attr) = 0
  BY <1>1, NotHeld
<1> QED BY <1>1, <1>3, <1>4, TakeMeta

\* The end of the callback registers it again while there are events.
LEMMA PostedMeta ==
  ASSUME MetaInv, metaevent_posted PROVE MetaInv'
<1>1. /\ next_action.id = InjectId /\ analysed' = "none"
      /\ UNCHANGED <<builtVars, clock, posted, expired, timeouts>>
  BY DEF metaevent_posted, MetaInv, Served
<1>2. next_action.id # OtherId
  BY <1>1, KindsDiffer
<1>3. /\ actions \in Seq(MetaAction) /\ InOrderOfDates(actions) /\ Prompt(actions, clock) /\ clock \in Nat
      /\ \A a \in Waiting(actions) : a.id = InjectId => a.date <= clock
  BY <1>2, ScheduledIsPrompt DEF MetaInv, MetaType, EventsType, Timeline, InjectionDue
<1>4. \A attr \in TimeoutIds : HeldCount(attr) = 0
  BY <1>1, NotHeld
<1>5. CASE queue = <<>>
  <2>1. Next_action(actions)
    BY <1>5 DEF metaevent_posted
  <2>2. \A attr \in TimeoutIds : Count(Ids(actions), attr) = Count(Ids(actions), attr) /\ HeldCount(attr) = 0
    BY <1>4
  <2> QED BY <1>1, <1>3, <1>5, <2>1, <2>2, TakeMeta
<1>6. CASE queue # <<>>
  <2> DEFINE a == Loop!Timed(InjectId, 0)
             q == Loop!Register(actions, a)
  <2>1. Next_action(q)
    BY <1>6 DEF metaevent_posted
  <2>2. a \in MetaAction /\ a.id = InjectId /\ a.date = clock
    BY <1>3, InjectAction
  <2> HIDE DEF a
  <2>3. q \in Seq(MetaAction) /\ InOrderOfDates(q) /\ Waiting(q) = Waiting(actions) \cup {a}
    BY <1>3, <2>2, RegisterWaits
  <2>4. \A attr \in TimeoutIds : /\ Count(Ids(actions), attr) \in Nat
                                 /\ Count(Ids(q), attr) = Count(Ids(actions), attr)
                                                            + (IF a.id = attr THEN 1 ELSE 0)
    BY <1>3, <2>2, CountRegistered
  <2> HIDE DEF q
  <2>5. InjectId \notin TimeoutIds
    BY KindsDiffer
  <2>6. \A attr \in TimeoutIds : Count(Ids(q), attr) = Count(Ids(actions), attr) /\ HeldCount(attr) = 0
    <3> TAKE attr \in TimeoutIds
    <3>1. a.id # attr
      BY <2>2, <2>5
    <3> QED BY <1>4, <2>4, <3>1
  <2>7. Prompt(q, clock)
    <3>1. clock <= a.date + PollEvery
      BY <1>3, <2>2, TimesAreNumbers
    <3> QED BY <1>3, <2>3, <3>1 DEF Prompt
  <2>8. \A b \in Waiting(q) : b.id = InjectId => b.date <= clock
    BY <1>3, <2>2, <2>3
  <2>9. \E b \in Waiting(q) : b.id = InjectId
    BY <2>2, <2>3
  <2>10. \A b \in Waiting(q) : b.id \in TimeoutIds => b \in Waiting(actions)
    BY <2>2, <2>3, <2>5
  <2> QED BY <1>1, <2>1, <2>3, <2>6, <2>7, <2>8, <2>9, <2>10, TakeMeta
<1> QED BY <1>5, <1>6

\* The event of a timeout is posted.
LEMMA ExpireMeta ==
  ASSUME MetaInv, ~RuleActs, Due, timeout_rtcallback, UNCHANGED <<clock, inputs>>
  PROVE  MetaInv'
<1> USE DEF MetaInv, Timeline
<1> DEFINE attr == next_action.id
           e == [attr |-> attr, date |-> clock]
<1>1. /\ attr.cb = "timeout_rtcallback" /\ analysed' = "timeout" /\ analysed # "timeout"
      /\ expired' = Append(expired, e)
      /\ UNCHANGED <<built, made, queue, injections, actions, next_action, posted, timeouts, clock>>
  BY DEF timeout_rtcallback, RuleActs, builtVars
<1>2. /\ next_action \in MetaAction /\ clock \in Nat /\ expired \in Seq([attr : TimeoutIds, date : Nat])
      /\ next_action.date <= clock
  BY DEF MetaType, EventsType, Due
<1>3. attr \in TimeoutIds
  <2>1. attr \in {InjectId, OtherId} \cup TimeoutIds
    BY <1>2 DEF MetaAction
  <2> QED BY <1>1, <2>1, KindsDiffer
<1>4. /\ attr \in ToSet(timeouts) /\ next_action.date = DateOf(attr)
      /\ clock <= next_action.date + PollEvery
  BY <1>3 DEF TimeoutDates, TimeoutsKnown, Scheduled
<1>5. /\ e \in [attr : TimeoutIds, date : Nat] /\ e.attr = attr /\ e.date = clock
  BY <1>2, <1>3
<1> HIDE DEF attr, e
<1>6. /\ expired' \in Seq([attr : TimeoutIds, date : Nat]) /\ Len(expired') = Len(expired) + 1
      /\ \A i \in 1 .. Len(expired) : expired'[i] = expired[i]
      /\ expired'[Len(expired) + 1] = e /\ Len(expired) \in Nat
      /\ DOMAIN expired = 1 .. Len(expired)
  BY <1>1, <1>2, <1>5, AppendProperties, LenProperties
<1>7. DOMAIN expired' = 1 .. Len(expired) + 1
  BY <1>6, LenProperties
<1>8. MetaType' /\ Served'
  BY <1>1, <1>3, <1>6 DEF MetaType, EventsType, Served, attr
<1>9. OneOwner' /\ PlaceByPlace'
  BY <1>1, OwnersStay
<1>10. Scheduled(actions, next_action, clock)' /\ InjectionDue' /\ InTime' /\ TimeoutsKnown'
  BY <1>1 DEF InjectionDue, InTime, TimeoutsKnown
<1>11. TimeoutDates'
  <2>1. \A i \in 1 .. Len(expired) + 1 :
          /\ expired'[i].attr \in ToSet(timeouts)
          /\ DateOf(expired'[i].attr) <= expired'[i].date
          /\ expired'[i].date <= DateOf(expired'[i].attr) + PollEvery
    <3> TAKE i \in 1 .. Len(expired) + 1
    <3>1. CASE i = Len(expired) + 1
      BY <1>2, <1>4, <1>5, <1>6, <3>1
    <3>2. CASE i # Len(expired) + 1
      <4>1. i \in DOMAIN expired /\ expired'[i] = expired[i]
        BY <1>6, <3>2
      <4> QED BY <4>1 DEF TimeoutDates
    <3> QED BY <3>1, <3>2
  <2> QED BY <1>1, <1>7, <2>1 DEF TimeoutDates
<1>12. TimeoutsCounted'
  <2> SUFFICES ASSUME NEW x \in TimeoutIds
               PROVE  Count(timeouts, x) = Count(Ids(actions), x) + HeldCount(x)' + Count(Attrs(expired'), x)
    BY <1>1 DEF TimeoutsCounted
  <2>1. HeldCount(x) = (IF attr = x THEN 1 ELSE 0) /\ HeldCount(x)' = 0
    BY <1>1 DEF HeldCount, attr
  <2>2. /\ Count(Attrs(expired), x) \in Nat
        /\ Count(Attrs(expired'), x) = Count(Attrs(expired), x) + (IF attr = x THEN 1 ELSE 0)
    <3>1. /\ Attrs(expired) \in Seq(TimeoutIds) /\ Attrs(expired') \in Seq(TimeoutIds)
          /\ Len(Attrs(expired)) = Len(expired) /\ Len(Attrs(expired')) = Len(expired) + 1
          /\ \A i \in 1 .. Len(expired) : Attrs(expired)[i] = expired[i].attr
          /\ \A i \in 1 .. Len(expired) + 1 : Attrs(expired')[i] = expired'[i].attr
      BY <1>2, <1>6, AttrsShape
    <3>2. \A i \in 1 .. Len(expired) + 1 : Attrs(expired')[i] =
            IF i < Len(expired) + 1 THEN Attrs(expired)[i]
            ELSE IF i = Len(expired) + 1 THEN attr ELSE Attrs(expired)[i - 1]
      BY SMTT(60), <1>5, <1>6, <3>1
    <3>3. Inserted(Attrs(expired'), Attrs(expired), Len(expired) + 1, attr)
      BY <1>6, <3>1, <3>2 DEF Inserted
    <3> QED BY <3>1, <3>3, CountInserted
  <2>3. Count(timeouts, x) = Count(Ids(actions), x) + HeldCount(x) + Count(Attrs(expired), x)
    BY DEF TimeoutsCounted
  <2>4. Count(Ids(actions), x) \in Nat
    <3>1. /\ actions \in Seq(MetaAction) /\ Loop!Timed(InjectId, 0) \in MetaAction
      BY <1>2, InjectAction DEF MetaType, EventsType
    <3> QED BY <3>1, CountRegistered
  <2> QED BY <2>1, <2>2, <2>3, <2>4
<1> QED BY <1>8, <1>9, <1>10, <1>11, <1>12

LEMMA ExpiredMeta ==
  ASSUME MetaInv, timeout_posted PROVE MetaInv'
<1>1. /\ analysed = "timeout" /\ Next_action(actions) /\ analysed' = "none"
      /\ UNCHANGED <<builtVars, clock, posted, expired, timeouts>>
      /\ next_action.id \in TimeoutIds
  BY DEF timeout_posted, MetaInv, Served
<1>2. next_action.id # OtherId /\ next_action.id # InjectId
  BY <1>1, KindsDiffer
<1>3. /\ actions \in Seq(MetaAction) /\ InOrderOfDates(actions) /\ Prompt(actions, clock)
      /\ \A a \in Waiting(actions) : a.id = InjectId => a.date <= clock
      /\ queue # <<>> => \E a \in Waiting(actions) : a.id = InjectId
  BY <1>2, ScheduledIsPrompt DEF MetaInv, MetaType, EventsType, Timeline, InjectionDue
<1>4. \A attr \in TimeoutIds : Count(Ids(actions), attr) = Count(Ids(actions), attr) /\ HeldCount(attr) = 0
  BY <1>1, NotHeld
<1> QED BY <1>1, <1>3, <1>4, TakeMeta

\* The other module registers its action again, a period later.
LEMMA OtherMeta ==
  ASSUME MetaInv, ~RuleActs, Due, OtherCallback, UNCHANGED <<clock, inputs>>
  PROVE  MetaInv'
<1> DEFINE a == [next_action EXCEPT !.date = @ + PollEvery]
           q == Loop!Register(actions, a)
<1>1. /\ next_action.id = OtherId /\ Next_action(q) /\ analysed' = "none"
      /\ UNCHANGED <<builtVars, clock, posted, expired, timeouts>>
  BY DEF OtherCallback, RuleActs
<1>2. /\ next_action \in MetaAction /\ next_action.date \in Nat /\ clock \in Nat /\ PollEvery \in Nat
      /\ next_action.date <= clock /\ clock <= next_action.date + PollEvery
      /\ actions \in Seq(MetaAction) /\ InOrderOfDates(actions)
  BY MetaActionDate, TimesAreNumbers DEF MetaInv, MetaType, EventsType, Due, Timeline, Scheduled
<1>3. a \in MetaAction /\ a.id = OtherId /\ a.date = next_action.date + PollEvery
  <2>1. next_action.date + PollEvery \in Nat
    BY <1>2
  <2> QED BY <1>1, <1>2, <2>1 DEF MetaAction
<1> HIDE DEF a
<1>4. q \in Seq(MetaAction) /\ InOrderOfDates(q) /\ Waiting(q) = Waiting(actions) \cup {a}
  BY <1>2, <1>3, RegisterWaits
<1>5. \A attr \in TimeoutIds : /\ Count(Ids(actions), attr) \in Nat
                               /\ Count(Ids(q), attr) = Count(Ids(actions), attr)
                                                          + (IF a.id = attr THEN 1 ELSE 0)
  BY <1>2, <1>3, CountRegistered
<1> HIDE DEF q
<1>6. OtherId \notin TimeoutIds /\ OtherId # InjectId
  BY KindsDiffer
<1>7. \A attr \in TimeoutIds : Count(Ids(q), attr) = Count(Ids(actions), attr) /\ HeldCount(attr) = 0
  <2> TAKE attr \in TimeoutIds
  <2>1. a.id # attr
    BY <1>3, <1>6
  <2> QED BY <1>1, <1>5, <2>1, NotHeld
<1>8. Prompt(q, clock)
  <2>1. a.date <= clock + PollEvery /\ clock <= a.date + PollEvery
    BY <1>2, <1>3
  <2>2. \A b \in Waiting(actions) : clock <= b.date + PollEvery
    BY DEF MetaInv, Timeline, Scheduled
  <2> QED BY <1>3, <1>4, <2>1, <2>2 DEF Prompt
<1>9. /\ \A b \in Waiting(q) : b.id = InjectId => b.date <= clock
      /\ queue # <<>> => \E b \in Waiting(q) : b.id = InjectId
      /\ \A b \in Waiting(q) : b.id \in TimeoutIds => b \in Waiting(actions)
  BY <1>1, <1>3, <1>4, <1>6 DEF MetaInv, Timeline, InjectionDue
<1> QED BY <1>1, <1>4, <1>7, <1>8, <1>9, TakeMeta

\* Time passes only until the action that the loop waits for is due.
LEMMA TimeMeta ==
  ASSUME MetaInv, LoopTime PROVE MetaInv'
<1> USE DEF MetaInv, Timeline
<1>1. /\ clock' = clock + 1
      /\ UNCHANGED <<built, made, queue, injections, actions, next_action, analysed, posted, timeouts, expired>>
  BY DEF LoopTime, builtVars
<1>2. next_action \in MetaAction /\ next_action.date \in Nat /\ clock \in Nat /\ PollEvery \in Nat
      /\ actions \in Seq(MetaAction)
  BY MetaActionDate, TimesAreNumbers DEF MetaType, EventsType
<1>3. clock' <= next_action.date
  <2>1. next_action # NoNext
    <3>1. NoNext.id.cb = "none" /\ InjectId.cb = "rtaction_inject_event" /\ OtherId.cb = "other"
      BY DEF NoNext, InjectId, OtherId, Id
    <3>2. next_action.id \in {InjectId, OtherId} \cup TimeoutIds
      BY <1>2 DEF MetaAction
    <3> QED BY <3>1, <3>2, KindsDiffer
  <2> QED BY <1>1, <1>2, <2>1 DEF LoopTime, Due
<1>4. MetaType' /\ Served'
  BY <1>1, <1>2 DEF MetaType, EventsType, Served
<1>5. OneOwner' /\ PlaceByPlace'
  BY <1>1, OwnersStay
<1>6. Scheduled(actions, next_action, clock')
  <2>1. next_action.date <= clock' + PollEvery /\ clock' <= next_action.date + PollEvery
    <3>1. next_action.date <= clock + PollEvery
      BY DEF Scheduled
    <3> QED BY <1>1, <1>2, <1>3, <3>1
  <2>2. \A a \in Waiting(actions) : clock' <= a.date + PollEvery /\ next_action.date <= a.date + PollEvery
    <3> TAKE a \in Waiting(actions)
    <3>1. next_action.date <= a.date + PollEvery /\ a.date \in Nat
      BY <1>2, WaitingIsAction DEF Scheduled
    <3> QED BY <1>1, <1>2, <1>3, <3>1
  <2>3. \/ next_action.id = OtherId
        \/ \E a \in Waiting(actions) : a.id = OtherId /\ a.date <= clock' + PollEvery
    <3>1. CASE next_action.id = OtherId
      BY <3>1
    <3>2. ASSUME NEW a \in Waiting(actions), a.id = OtherId, a.date <= clock + PollEvery
          PROVE  a.date <= clock' + PollEvery
      <4>1. a.date \in Nat
        BY <1>2, WaitingIsAction
      <4> QED BY <1>1, <1>2, <3>2, <4>1
    <3> QED BY <3>1, <3>2 DEF Scheduled
  <2> QED BY <2>1, <2>2, <2>3 DEF Scheduled
<1>7. InjectionDue'
  <2>1. \A a \in Waiting(actions) : a.id = InjectId => a.date <= clock'
    <3> TAKE a \in Waiting(actions)
    <3>1. a.date \in Nat /\ (a.id = InjectId => a.date <= clock)
      BY <1>2, WaitingIsAction DEF InjectionDue
    <3> QED BY <1>1, <1>2, <3>1
  <2> QED BY <1>1, <2>1 DEF InjectionDue
<1>8. InTime'
  <2>1. \A i \in Len(posted) + 1 .. Len(injections) : clock' <= injections[i].at + PollEvery
    <3> TAKE i \in Len(posted) + 1 .. Len(injections)
    <3>1. next_action.date <= injections[i].at + PollEvery
      BY DEF InTime
    <3>2. injections[i].at \in Nat
      <4>1. /\ injections \in Seq(Logged) /\ Len(injections) \in Nat /\ Len(posted) \in Nat
        BY LenProperties DEF MetaType, EventsType
      <4>2. i \in 1 .. Len(injections)
        BY <4>1
      <4>3. injections[i] \in Logged
        BY <4>1, <4>2, ElementOfSeq
      <4> QED BY <4>3 DEF Logged
    <3> QED BY <1>1, <1>2, <1>3, <3>1, <3>2
  <2> QED BY <1>1, <2>1 DEF InTime
<1>9. TimeoutDates' /\ TimeoutsKnown'
  BY <1>1 DEF TimeoutDates, TimeoutsKnown
<1>10. TimeoutsCounted'
  BY <1>1, CountsStay
<1> QED BY <1>1, <1>4, <1>5, <1>6, <1>7, <1>8, <1>9, <1>10

\* An input event is analysed.
LEMMA InputMeta ==
  ASSUME MetaInv, InputCallback \/ InputPosted PROVE MetaInv'
<1>1. /\ UNCHANGED <<built, made, queue, injections, actions, next_action, clock, posted, timeouts, expired>>
      /\ analysed' \in {"input", "none"} /\ analysed # "timeout"
  BY DEF InputCallback, InputPosted, RuleActs, builtVars
<1>2. MetaType' /\ Served'
  BY <1>1 DEF MetaInv, MetaType, EventsType, Served
<1>3. OneOwner' /\ PlaceByPlace' /\ Timeline' /\ TimeoutsCounted'
  BY <1>1, OwnersStay, TimelineStays, CountsStay DEF MetaInv
<1> QED BY <1>2, <1>3 DEF MetaInv

-----------------------------------------------------------------------------
\* A loop that holds no action registers what rules ask for, and no more.
LEMMA InjectDormant ==
  ASSUME Dormant, (\E h \in Handles : issdl_inject_event(h)) \/ issdl_inject_single_event
  PROVE  Dormant'
<1> USE DEF Dormant
<1>1. PICK e \in Nat : Inject(e) /\ Gives(e)
  BY InjectGives
<1>2. /\ UNCHANGED <<loopVars, timeouts>>
      /\ UNCHANGED <<next_action, clock, analysed, posted, expired, timeouts>>
  BY InjectGives DEF loopVars
<1>3. /\ OneOwner' /\ PlaceByPlace'
      /\ queue' \in Seq(Nat) /\ injections' \in Seq(Logged)
      /\ \/ UNCHANGED <<actions, queue, injections>>
         \/ actions' = Loop!Register(actions, Loop!Timed(InjectId, 0))
  BY <1>1, <1>2, InjectOwners
<1> DEFINE a == Loop!Timed(InjectId, 0)
<1>4. clock \in Nat /\ actions \in Seq(MetaAction) /\ a \in MetaAction /\ a.id = InjectId
  BY InjectAction DEF EventsType
<1> HIDE DEF a
<1>5. actions' \in Seq(MetaAction) /\ InOrderOfDates(actions')
  BY <1>3, <1>4, RegisterWaits DEF a
<1>6. EventsType'
  BY <1>1, <1>2, <1>3, <1>5 DEF EventsType, Gives
<1>7. TimeoutsCounted'
  <2>1. \A attr \in TimeoutIds : Count(Ids(actions'), attr) = Count(Ids(actions), attr)
    <3> TAKE attr \in TimeoutIds
    <3>1. a.id # attr
      BY <1>4, KindsDiffer
    <3>2. CASE actions' = Loop!Register(actions, a)
      <4>1. /\ Count(Ids(actions), attr) \in Nat
            /\ Count(Ids(actions'), attr) = Count(Ids(actions), attr) + (IF a.id = attr THEN 1 ELSE 0)
        BY <1>4, <3>2, CountRegistered
      <4> QED BY <3>1, <4>1
    <3> QED BY <1>3, <3>2 DEF a
  <2> QED BY <1>2, <2>1 DEF TimeoutsCounted, HeldCount
<1> QED BY <1>2, <1>3, <1>5, <1>6, <1>7

LEMMA TimeoutDormant ==
  ASSUME Dormant, NEW name \in TimeoutNames, NEW delay \in TimeoutDelays, issdl_timeout(name, delay)
  PROVE  Dormant'
<1> USE DEF Dormant
<1> DEFINE attr == Id("timeout_rtcallback", name, clock, delay)
           a == Loop!Timed(attr, delay)
<1>1. /\ timeouts' = Append(timeouts, attr)
      /\ actions' = Loop!Register(actions, a)
      /\ UNCHANGED <<built, made, queue, injections, next_action, clock, analysed, posted, expired>>
  BY DEF issdl_timeout, register_rtcallback, builtVars, loopVars
<1>2. /\ actions \in Seq(MetaAction) /\ timeouts \in Seq(TimeoutIds) /\ clock \in Nat /\ delay \in Nat
  BY TimesAreNumbers DEF EventsType
<1>3. attr \in TimeoutIds
  BY <1>2 DEF Id, TimeoutIds
<1>4. a \in MetaAction /\ a.id = attr
  <2>1. a = [id |-> attr, date |-> clock + delay] /\ clock + delay \in Nat
    BY <1>2 DEF Loop!Timed
  <2> HIDE DEF attr, a
  <2> QED BY <1>3, <2>1 DEF MetaAction
<1> HIDE DEF attr, a
<1>5. actions' \in Seq(MetaAction) /\ InOrderOfDates(actions') /\ timeouts' \in Seq(TimeoutIds)
  BY <1>1, <1>2, <1>3, <1>4, RegisterWaits, AppendProperties
<1>6. EventsType' /\ OneOwner' /\ PlaceByPlace'
  BY <1>1, <1>5, OwnersStay DEF EventsType
<1>7. TimeoutsCounted'
  <2> SUFFICES ASSUME NEW x \in TimeoutIds
               PROVE  Count(timeouts', x) = Count(Ids(actions'), x) + HeldCount(x) + Count(Attrs(expired), x)
    BY <1>1 DEF TimeoutsCounted, HeldCount
  <2>1. /\ Count(timeouts, x) \in Nat
        /\ Count(timeouts', x) = Count(timeouts, x) + (IF attr = x THEN 1 ELSE 0)
    BY <1>1, <1>2, <1>3, CountAppended
  <2>2. /\ Count(Ids(actions), x) \in Nat
        /\ Count(Ids(actions'), x) = Count(Ids(actions), x) + (IF attr = x THEN 1 ELSE 0)
    BY <1>1, <1>2, <1>4, CountRegistered
  <2>3. Count(timeouts, x) = Count(Ids(actions), x) + HeldCount(x) + Count(Attrs(expired), x)
    BY DEF TimeoutsCounted
  <2>4. HeldCount(x) \in Nat /\ Count(Attrs(expired), x) \in Nat
    BY CountIsNatural DEF HeldCount, EventsType
  <2> QED BY <2>1, <2>2, <2>3, <2>4
<1> QED BY <1>1, <1>5, <1>6, <1>7

LEMMA NextDormant == ASSUME Dormant, [MetaNext]_metaVars PROVE Dormant'
<1> USE DEF Dormant
<1>1. ASSUME NEW h \in Handles, issdl_build_event(h) \/ issdl_set_event_field(h) PROVE Dormant'
  <2>1. /\ UNCHANGED <<queue, injections, posted, actions, next_action, clock, analysed, timeouts, expired>>
        /\ EventsType' /\ OneOwner'
    BY <1>1, BuildOwners
  <2>2. PlaceByPlace' /\ TimeoutsCounted' /\ InOrderOfDates(actions')
    BY <2>1, CountsStay DEF PlaceByPlace
  <2> QED BY <2>1, <2>2
<1>2. ASSUME NEW name \in TimeoutNames, NEW delay \in TimeoutDelays, issdl_timeout(name, delay)
      PROVE  Dormant'
  BY <1>2, TimeoutDormant
<1>3. CASE InputCallback \/ InputPosted \/ LoopTime \/ UNCHANGED metaVars
  <2>1. /\ UNCHANGED <<built, made, queue, injections, actions, next_action, posted, timeouts, expired>>
        /\ analysed' \in {"none", "input"} /\ clock' \in {clock, clock + 1}
    BY <1>3 DEF InputCallback, InputPosted, LoopTime, metaVars, builtVars, loopVars
  <2>2. EventsType'
    BY <2>1 DEF EventsType
  <2>3. OneOwner' /\ PlaceByPlace' /\ TimeoutsCounted' /\ InOrderOfDates(actions')
    BY <2>1, OwnersStay, CountsStay
  <2> QED BY <2>1, <2>2, <2>3
<1>4. ~ Fires /\ ~ metaevent_posted /\ ~ timeout_posted
  BY DEF Fires, Due, metaevent_posted, timeout_posted
<1> QED BY <1>1, <1>2, <1>3, <1>4, InjectDormant DEF MetaNext

-----------------------------------------------------------------------------
LEMMA NextMeta == ASSUME MetaInv, [MetaNext]_metaVars PROVE MetaInv'
<1>1. ASSUME NEW h \in Handles, issdl_build_event(h) \/ issdl_set_event_field(h) PROVE MetaInv'
  BY <1>1, BuildMeta
<1>2. ASSUME NEW name \in TimeoutNames, NEW delay \in TimeoutDelays, issdl_timeout(name, delay)
      PROVE  MetaInv'
  BY <1>2, TimeoutMeta
<1>3. CASE Fires
  <2>1. ~RuleActs /\ Due /\ UNCHANGED <<clock, inputs>>
    BY <1>3 DEF Fires
  <2>2. CASE metaevent_callback
    BY <2>1, <2>2, PostMeta, NothingMeta
  <2>3. CASE timeout_rtcallback
    BY <2>1, <2>3, ExpireMeta
  <2>4. CASE OtherCallback
    BY <2>1, <2>4, OtherMeta
  <2> QED BY <1>3, <2>2, <2>3, <2>4 DEF Fires
<1>4. CASE UNCHANGED metaVars
  <2>1. UNCHANGED <<built, made, queue, injections, actions, next_action, clock, analysed, posted, timeouts,
                    expired>>
    BY <1>4 DEF metaVars, builtVars, loopVars
  <2>2. MetaType' /\ Served'
    BY <2>1 DEF MetaInv, MetaType, EventsType, Served
  <2>3. OneOwner' /\ PlaceByPlace' /\ Timeline' /\ TimeoutsCounted'
    BY <2>1, OwnersStay, TimelineStays, CountsStay DEF MetaInv
  <2> QED BY <2>2, <2>3 DEF MetaInv
<1> QED BY <1>1, <1>2, <1>3, <1>4, InjectEventMeta, PostedMeta, ExpiredMeta, InputMeta, TimeMeta DEF MetaNext

\* What the invariants say of the injected events.
LEMMA OwnersInOrder == ASSUME EventsType, OneOwner, PlaceByPlace PROVE QueuedOnceInOrder
<1>1. /\ queue \in Seq(Nat) /\ injections \in Seq(Logged) /\ posted \in Seq(Logged) /\ clock \in Nat
      /\ Len(queue) \in Nat /\ Len(injections) \in Nat /\ Len(posted) \in Nat
      /\ DOMAIN injections = 1 .. Len(injections) /\ DOMAIN posted = 1 .. Len(posted)
      /\ \A i \in 1 .. Len(injections) : injections[i] \in Logged
      /\ \A i \in 1 .. Len(posted) : posted[i] \in Logged
  BY LenProperties DEF EventsType
<1>2. \A log \in Seq(Logged) :
        /\ EventsOf(log) \in Seq(Nat) /\ Len(EventsOf(log)) = Len(log)
        /\ \A i \in 1 .. Len(log) : EventsOf(log)[i] = log[i].event
  <2> TAKE log \in Seq(Logged)
  <2>1. Len(log) \in Nat /\ DOMAIN log = 1 .. Len(log) /\ \A i \in 1 .. Len(log) : log[i] \in Logged
    BY LenProperties
  <2>2. EventsOf(log) = [i \in 1 .. Len(log) |-> log[i].event]
    BY <2>1 DEF EventsOf
  <2>3. EventsOf(log) \in [1 .. Len(log) -> Nat]
    BY <2>1, <2>2 DEF Logged
  <2>4. EventsOf(log) \in Seq(Nat)
    BY <2>1, <2>3, SeqDef
  <2>5. Len(EventsOf(log)) = Len(log)
    BY <2>1, <2>2, <2>4, LenProperties
  <2> QED BY <2>2, <2>4, <2>5
<1>3. EventsOf(posted) \o queue = EventsOf(injections)
  <2> DEFINE p == EventsOf(posted)
             j == EventsOf(injections)
  <2>1. /\ p \in Seq(Nat) /\ Len(p) = Len(posted) /\ \A i \in 1 .. Len(posted) : p[i] = posted[i].event
        /\ j \in Seq(Nat) /\ Len(j) = Len(injections) /\ \A i \in 1 .. Len(injections) : j[i] = injections[i].event
    BY <1>1, <1>2
  <2> HIDE DEF p, j
  <2>2. /\ p \o queue \in Seq(Nat) /\ Len(p \o queue) = Len(p) + Len(queue)
        /\ \A i \in 1 .. Len(p) + Len(queue) : (p \o queue)[i] = IF i <= Len(p) THEN p[i] ELSE queue[i - Len(p)]
    <3>1. p \in Seq(Nat) /\ queue \in Seq(Nat)
      BY <1>1, <2>1
    <3> QED BY ONLY <3>1, ConcatProperties
  <2>3. /\ Len(injections) = Len(posted) + Len(queue)
        /\ \A i \in 1..Len(posted) : posted[i].event = injections[i].event
        /\ \A i \in 1..Len(queue) : queue[i] = injections[Len(posted) + i].event
    BY DEF PlaceByPlace
  <2>4. Len(p \o queue) = Len(j)
    BY <2>1, <2>2, <2>3
  <2>5. \A i \in 1 .. Len(p \o queue) : (p \o queue)[i] = j[i]
    <3> TAKE i \in 1 .. Len(p \o queue)
    <3>1. i \in 1 .. Len(p) + Len(queue) /\ i \in 1 .. Len(injections)
      BY <2>1, <2>2, <2>3
    <3>2. CASE i <= Len(p)
      <4>1. i \in 1 .. Len(posted)
        BY <2>1, <3>1, <3>2
      <4> QED BY <2>1, <2>2, <2>3, <3>1, <3>2, <4>1
    <3>3. CASE ~ (i <= Len(p))
      <4>1. i - Len(posted) \in 1 .. Len(queue) /\ Len(posted) + (i - Len(posted)) = i
        BY <1>1, <2>1, <3>1, <3>3
      <4>2. (p \o queue)[i] = queue[i - Len(posted)]
        BY <2>1, <2>2, <3>1, <3>3
      <4>3. queue[i - Len(posted)] = injections[i].event
        BY <2>3, <4>1
      <4> QED BY <2>1, <3>1, <4>2, <4>3
    <3> QED BY <3>2, <3>3
  <2>6. p \o queue = j
    BY <2>1, <2>2, <2>4, <2>5, SeqEqual
  <2> QED BY <2>6 DEF p, j
<1>4. /\ DOMAIN EventsOf(injections) = DOMAIN injections
      /\ \A i \in DOMAIN injections : EventsOf(injections)[i] = injections[i].event
  BY DEF EventsOf
<1>5. IsInjective(EventsOf(injections))
  BY <1>4 DEF IsInjective, OneOwner
<1>6. \A h \in Handles : built[h] \notin ToSet(EventsOf(injections))
  BY <1>4 DEF ToSet, OneOwner
<1> QED BY <1>3, <1>5, <1>6 DEF QueuedOnceInOrder

LEMMA InvInjected == ASSUME MetaInv PROVE InjectedOnceInOrder
<1>1. /\ injections \in Seq(Logged) /\ posted \in Seq(Logged) /\ clock \in Nat
      /\ Len(injections) \in Nat /\ Len(posted) \in Nat
      /\ DOMAIN injections = 1 .. Len(injections) /\ DOMAIN posted = 1 .. Len(posted)
      /\ \A i \in 1 .. Len(injections) : injections[i] \in Logged
      /\ \A i \in 1 .. Len(posted) : posted[i] \in Logged
      /\ PollEvery \in Nat
  BY LenProperties, TimesAreNumbers DEF MetaInv, MetaType, EventsType
<1>2. QueuedOnceInOrder
  BY OwnersInOrder DEF MetaInv, MetaType
<1>3. InjectedWithoutDelay
  <2> SUFFICES ASSUME NEW i \in DOMAIN injections
               PROVE  (IF i \in DOMAIN posted THEN posted[i].at ELSE clock) - injections[i].at <= PollEvery
    BY DEF InjectedWithoutDelay
  <2>1. injections[i].at \in Nat
    BY <1>1 DEF Logged
  <2>2. CASE i \in DOMAIN posted
    <3>1. posted[i].at <= injections[i].at + PollEvery
      BY <1>1, <2>2 DEF MetaInv, Timeline, InTime
    <3>2. posted[i].at \in Nat
      BY <1>1, <2>2 DEF Logged
    <3> QED BY <1>1, <2>1, <2>2, <3>1, <3>2
  <2>3. CASE i \notin DOMAIN posted
    <3>1. i \in Len(posted) + 1 .. Len(injections)
      BY <1>1, <2>3
    <3>2. clock <= injections[i].at + PollEvery
      BY <3>1 DEF MetaInv, Timeline, InTime
    <3> QED BY <1>1, <2>1, <2>3, <3>2
  <2> QED BY <2>2, <2>3
<1> QED BY <1>2, <1>3 DEF InjectedOnceInOrder

\* And of the timeouts.
LEMMA InvTimeouts == ASSUME MetaInv PROVE TimeoutsExpireOnce
<1>1. /\ timeouts \in Seq(TimeoutIds) /\ expired \in Seq([attr : TimeoutIds, date : Nat]) /\ PollEvery \in Nat
      /\ DOMAIN timeouts = 1 .. Len(timeouts) /\ \A i \in DOMAIN timeouts : timeouts[i] \in TimeoutIds
      /\ DOMAIN expired = 1 .. Len(expired)
      /\ \A i \in DOMAIN expired : expired[i] \in [attr : TimeoutIds, date : Nat]
  <2>1. timeouts \in Seq(TimeoutIds) /\ expired \in Seq([attr : TimeoutIds, date : Nat]) /\ PollEvery \in Nat
    BY TimesAreNumbers DEF MetaInv, MetaType, EventsType
  <2>2. DOMAIN timeouts = 1 .. Len(timeouts) /\ \A i \in DOMAIN timeouts : timeouts[i] \in TimeoutIds
    BY <2>1, LenProperties
  <2>3. /\ DOMAIN expired = 1 .. Len(expired)
        /\ \A i \in DOMAIN expired : expired[i] \in [attr : TimeoutIds, date : Nat]
    BY <2>1, LenProperties
  <2> QED BY <2>1, <2>2, <2>3
<1>2. \A attr \in ToSet(timeouts) : attr \in TimeoutIds
  BY <1>1 DEF ToSet
<1>3. \A attr \in ToSet(timeouts) :
        Count(timeouts, attr)
          = Count([i \in DOMAIN actions |-> actions[i].id], attr)
            + (IF next_action.id = attr /\ analysed # "timeout" THEN 1 ELSE 0)
            + Count([i \in DOMAIN expired |-> expired[i].attr], attr)
  BY <1>2 DEF MetaInv, TimeoutsCounted, Ids, Attrs, HeldCount
<1>4. \A i \in DOMAIN expired :
        /\ expired[i].attr \in ToSet(timeouts)
        /\ expired[i].date - (expired[i].attr.regdate + expired[i].attr.delay) \in 0..PollEvery
  <2> TAKE i \in DOMAIN expired
  <2>1. expired[i].attr \in TimeoutIds /\ expired[i].date \in Nat
    BY <1>1
  <2>2. DateOf(expired[i].attr) \in Nat
    BY <2>1, AttrNumbers
  <2>3. /\ expired[i].attr \in ToSet(timeouts)
        /\ DateOf(expired[i].attr) <= expired[i].date
        /\ expired[i].date <= DateOf(expired[i].attr) + PollEvery
    BY DEF MetaInv, Timeline, TimeoutDates
  <2>4. expired[i].date - DateOf(expired[i].attr) \in 0..PollEvery
    BY <1>1, <2>1, <2>2, <2>3
  <2> QED BY <2>3, <2>4 DEF DateOf
<1> QED BY <1>3, <1>4 DEF TimeoutsExpireOnce

LEMMA DormantKeeps == ASSUME Dormant PROVE InjectedOnceInOrder /\ TimeoutsExpireOnce
<1> USE DEF Dormant
<1>1. InjectedOnceInOrder
  BY OwnersInOrder DEF InjectedOnceInOrder, InjectedWithoutDelay
<1>2. timeouts \in Seq(TimeoutIds) /\ DOMAIN expired = {}
  BY DEF EventsType
<1>3. \A attr \in ToSet(timeouts) : attr \in TimeoutIds
  BY <1>2, LenProperties DEF ToSet
<1>4. TimeoutsExpireOnce
  BY <1>2, <1>3 DEF TimeoutsCounted, Ids, Attrs, HeldCount, TimeoutsExpireOnce
<1> QED BY <1>1, <1>4

\* A loop either holds an action from its start on, or never holds one.
LEMMA MetaInvariance == MetaSpec => [](MetaInv \/ Dormant)
<1>1. MetaInit => MetaInv \/ Dormant
  BY InitMeta, InitDormant
<1>2. (MetaInv \/ Dormant) /\ [MetaNext]_metaVars => (MetaInv \/ Dormant)'
  BY NextMeta, NextDormant
<1> QED BY <1>1, <1>2, PTL DEF MetaSpec

\* inject_event() and rtaction_inject_event(): for any rules, the events that
\* rules inject are posted once, in the order of their injections and at the
\* latest with the action that the main loop waits for, if it has one, and no
\* rule keeps one.
THEOREM InjectedAlwaysInOrder == MetaSpec => []InjectedOnceInOrder
<1>1. MetaInv \/ Dormant => InjectedOnceInOrder
  BY InvInjected, DormantKeeps
<1> QED BY <1>1, MetaInvariance, PTL

\* issdl_timeout() and timeout_rtcallback(): every call posts one event with
\* its own attributes, after its delay and no later than a period after it, or
\* waits in the list of a loop that holds no action.
THEOREM TimeoutsAlwaysExpireOnce == MetaSpec => []TimeoutsExpireOnce
<1>1. MetaInv \/ Dormant => TimeoutsExpireOnce
  BY InvTimeouts, DormantKeeps
<1> QED BY <1>1, MetaInvariance, PTL

-----------------------------------------------------------------------------
(* The pages.                                                               *)

ContextFields == {"up", "dir", "start", "lock", "cur_loop_time", "last_ruleinst_act", "new_last_act",
                  "last_evt_act", "hist"}
ProcFields == {"pc", "i", "ctx", "lockfile", "key", "fd", "there"}

PagesType ==
    /\ inst \in Instances
    /\ now \in 1..inst.time /\ dirTime \in 0..Sec /\ killed \in Nat
    /\ DOMAIN reports \subseteq inst.reports
    /\ DOMAIN link = DOMAIN pages
    /\ DOMAIN hctx = ContextFields /\ hctx.start \in 1..now
    /\ DOMAIN proc = Renderers
    /\ \A r \in Renderers :
         /\ DOMAIN proc[r] = ProcFields
         /\ proc[r].pc \in {"none", "lock", "stat", "create", "write", "unlink", "link", "end"}
         /\ proc[r].ctx.start \in 0..now
         /\ Rendering(r) => proc[r].i \in DOMAIN pages

\* Names and links lead to files.
NamesLead ==
    /\ \A n \in DOMAIN cache : cache[n] \in DOMAIN file
    /\ \A k \in DOMAIN pages : link[k] = NoFile \/ link[k] \in DOMAIN file

\* Two renderers never have one lock file, and those that the monitor of now
\* forked have the ones that were there since its start.
LocksApart ==
    /\ lockfile \in Nat /\ hctx.lock \in 1..lockfile
    /\ \A r \in Renderers : Rendering(r) =>
         /\ \A s \in Renderers \ {r} : Rendering(s) => proc[s].lockfile # proc[r].lockfile
         /\ proc[r].ctx.start = hctx.start => proc[r].lockfile \in hctx.lock..lockfile

\* A file that is not complete is being written.
Written ==
    /\ \A r \in Renderers : proc[r].pc = "write" => proc[r].fd \in DOMAIN file
    /\ \A f \in DOMAIN file : DOMAIN file[f] = {"body", "done", "mtime"}
    /\ killed = 0 => \A f \in DOMAIN file :
         file[f].done \/ \E r \in Renderers : proc[r].pc = "write" /\ proc[r].fd = f

\* Only the cleanup removes names, and none that it chose is gone.
CleanupSafe ==
    /\ DOMAIN clean = {"i", "victims", "scanned"}
    /\ clean.victims \subseteq DOMAIN cache
    /\ ~hctx.up => ~hctx.dir

HtmlInv == PagesType /\ NamesLead /\ LocksApart /\ Written /\ CleanupSafe

\* What a renderer may turn into.
AtWork == {"stat", "create", "write", "unlink", "link"}
IsRenderer(q, t) ==
    /\ DOMAIN q = ProcFields
    /\ q.pc \in {"none", "lock", "end"} \cup AtWork
    /\ q.ctx.start \in 0..t

-----------------------------------------------------------------------------
\* Time only goes on, and so does its second.
LEMMA SecondsGoOn ==
  ASSUME NEW a \in Nat, NEW b \in Nat, a <= b, NEW k \in Nat \ {0}
  PROVE  a \div k \in Nat /\ b \div k \in Nat /\ a \div k <= b \div k
OBVIOUS

LEMMA IdleIs ==
  ASSUME NEW pc
  PROVE  LET q == Idle(pc) IN DOMAIN q = ProcFields /\ q.pc = pc /\ q.ctx.start = 0
BY DEF Idle, ProcFields, StartContext

\* A renderer that turns to a page that is there works on it, and after the
\* last one it exits.
LEMMA AtPageIs ==
  ASSUME PagesType, NEW pr, DOMAIN pr = ProcFields, NEW i \in Nat \ {0}
  PROVE  LET q == AtPage(pr, i)
         IN  /\ DOMAIN q = ProcFields
             /\ \/ q.pc = "end" /\ q.ctx.start = 0
                \/ /\ q.pc = "stat" /\ q.i = i /\ i \in DOMAIN pages
                   /\ q.lockfile = pr.lockfile /\ q.ctx = pr.ctx
<1>1. inst.pages \in Seq(STRING)
  BY InstancesAssumption DEF PagesType
<1>2. Len(pages) \in Nat /\ DOMAIN pages = 1 .. Len(pages)
  BY <1>1, LenProperties DEF pages
<1>3. CASE i > Len(pages)
  BY <1>3, IdleIs DEF AtPage
<1>4. CASE ~ (i > Len(pages))
  <2>1. i \in DOMAIN pages
    BY <1>2, <1>4
  <2> QED BY <1>4, <2>1 DEF AtPage, ProcFields
<1> QED BY <1>3, <1>4

-----------------------------------------------------------------------------
\* One renderer goes on or leaves, and the context stays.
LEMMA RendererGoes ==
  ASSUME HtmlInv, NEW r \in Renderers, NEW q, proc' = [proc EXCEPT ![r] = q], IsRenderer(q, now),
         q.pc \in AtWork => /\ q.i \in DOMAIN pages /\ Rendering(r)
                            /\ q.lockfile = proc[r].lockfile /\ q.ctx = proc[r].ctx,
         killed' \in Nat, DOMAIN link' = DOMAIN link,
         UNCHANGED <<inst, now, hctx, reports, dirTime, lockfile>>
  PROVE  PagesType' /\ LocksApart'
<1>1. pages' = pages /\ Sec' = Sec
  BY DEF pages, Sec
<1>2. DOMAIN proc = Renderers /\ DOMAIN proc' = Renderers
  BY DEF HtmlInv, PagesType
<1>3. /\ proc'[r] = q
      /\ \A s \in Renderers \ {r} : proc'[s] = proc[s]
  BY <1>2
<1>4. \A s \in Renderers \ {r} : Rendering(s)' <=> Rendering(s)
  BY <1>3 DEF Rendering
<1>5. Rendering(r)' <=> q.pc \in AtWork
  BY <1>3 DEF Rendering, AtWork
<1>6. PagesType'
  <2>1. \A s \in Renderers :
         /\ DOMAIN proc'[s] = ProcFields
         /\ proc'[s].pc \in {"none", "lock", "stat", "create", "write", "unlink", "link", "end"}
         /\ proc'[s].ctx.start \in 0..now
         /\ Rendering(s)' => proc'[s].i \in DOMAIN pages
    <3> TAKE s \in Renderers
    <3>1. CASE s = r
      BY <1>3, <1>5, <3>1 DEF IsRenderer, AtWork
    <3>2. CASE s # r
      BY <1>3, <1>4, <3>2 DEF HtmlInv, PagesType
    <3> QED BY <3>1, <3>2
  <2> QED BY <1>1, <1>2, <2>1 DEF HtmlInv, PagesType
<1>7. LocksApart'
  <2> SUFFICES ASSUME NEW s \in Renderers, Rendering(s)'
               PROVE  /\ \A t \in Renderers \ {s} : Rendering(t)' => proc'[t].lockfile # proc'[s].lockfile
                      /\ proc'[s].ctx.start = hctx.start => proc'[s].lockfile \in hctx.lock..lockfile
    BY DEF HtmlInv, LocksApart
  <2>1. \A t \in Renderers : Rendering(t)' =>
          Rendering(t) /\ proc'[t].lockfile = proc[t].lockfile /\ proc'[t].ctx = proc[t].ctx
    BY <1>3, <1>4, <1>5
  <2> QED BY <2>1 DEF HtmlInv, LocksApart
<1> QED BY <1>6, <1>7

\* A renderer that does not write a file goes on, and the files keep what
\* they show.
LEMMA FilesStay ==
  ASSUME HtmlInv, NEW r \in Renderers, NEW q, proc' = [proc EXCEPT ![r] = q], q.pc # "write",
         proc[r].pc # "write" \/ killed' # 0, killed' = 0 => killed = 0,
         DOMAIN file' = DOMAIN file, \A f \in DOMAIN file : file'[f].done = file[f].done /\ DOMAIN file'[f] = DOMAIN file[f]
  PROVE  Written'
<1>1. DOMAIN proc = Renderers
  BY DEF HtmlInv, PagesType
<1>2. proc'[r] = q /\ \A s \in Renderers \ {r} : proc'[s] = proc[s]
  BY <1>1
<1>3. \A s \in Renderers : proc'[s].pc = "write" => proc[s].pc = "write" /\ proc'[s].fd = proc[s].fd
  BY <1>2
<1>4. killed' = 0 => \A f \in DOMAIN file' :
         file'[f].done \/ \E s \in Renderers : proc'[s].pc = "write" /\ proc'[s].fd = f
  <2> SUFFICES ASSUME killed' = 0, NEW f \in DOMAIN file, ~ file'[f].done
               PROVE  \E s \in Renderers : proc'[s].pc = "write" /\ proc'[s].fd = f
    OBVIOUS
  <2>1. PICK s \in Renderers : proc[s].pc = "write" /\ proc[s].fd = f
    BY DEF HtmlInv, Written
  <2>2. s # r
    BY <2>1
  <2> QED BY <1>2, <2>1, <2>2
<1>5. \A f \in DOMAIN file' : DOMAIN file'[f] = {"body", "done", "mtime"}
  BY DEF HtmlInv, Written
<1> QED BY <1>3, <1>4, <1>5 DEF HtmlInv, Written

\* Renderer r becomes q.
Becomes(r, q) ==
    /\ proc' = [proc EXCEPT ![r] = q] /\ IsRenderer(q, now)
    /\ q.pc \in AtWork => /\ q.i \in DOMAIN pages /\ Rendering(r)
                          /\ q.lockfile = proc[r].lockfile /\ q.ctx = proc[r].ctx

LEMMA StepBecomes ==
  ASSUME HtmlInv, NEW r \in Renderers, Rendering(r), NEW pc \in AtWork, Step(r, pc)
  PROVE  \E q : Becomes(r, q) /\ q.pc = pc
<1> DEFINE q == [proc[r] EXCEPT !.pc = pc]
<1>1. /\ DOMAIN proc = Renderers /\ DOMAIN proc[r] = ProcFields /\ proc[r].ctx.start \in 0..now
      /\ proc[r].i \in DOMAIN pages
  BY DEF HtmlInv, PagesType
<1>2. /\ DOMAIN q = ProcFields /\ q.pc = pc /\ q.i = proc[r].i
      /\ q.lockfile = proc[r].lockfile /\ q.ctx = proc[r].ctx
  BY <1>1 DEF ProcFields
<1>3. proc' = [proc EXCEPT ![r] = q]
  BY DEF Step
<1> HIDE DEF q
<1>4. IsRenderer(q, now)
  BY <1>1, <1>2 DEF IsRenderer
<1> QED BY <1>1, <1>2, <1>3, <1>4 DEF Becomes

LEMMA NextPageBecomes ==
  ASSUME HtmlInv, NEW r \in Renderers, Rendering(r), NextPage(r)
  PROVE  \E q : Becomes(r, q) /\ q.pc \in {"stat", "end"}
<1> DEFINE q == AtPage(proc[r], proc[r].i + 1)
<1>1. /\ DOMAIN proc = Renderers /\ DOMAIN proc[r] = ProcFields /\ proc[r].ctx.start \in 0..now
      /\ proc[r].i \in DOMAIN pages /\ PagesType /\ now \in Nat
  BY InstancesAssumption DEF HtmlInv, PagesType
<1>2. proc[r].i + 1 \in Nat \ {0}
  <2>1. inst.pages \in Seq(STRING)
    BY InstancesAssumption, <1>1 DEF PagesType
  <2>2. Len(pages) \in Nat /\ DOMAIN pages = 1 .. Len(pages)
    BY <2>1, LenProperties DEF pages
  <2> DEFINE i == proc[r].i
  <2>3. i \in 1 .. Len(pages)
    BY <1>1, <2>2
  <2> HIDE DEF i
  <2>4. i + 1 \in Nat \ {0}
    BY ONLY <2>2, <2>3
  <2> QED BY <2>4 DEF i
<1>3. /\ DOMAIN q = ProcFields
      /\ \/ q.pc = "end" /\ q.ctx.start = 0
         \/ /\ q.pc = "stat" /\ q.i = proc[r].i + 1 /\ proc[r].i + 1 \in DOMAIN pages
            /\ q.lockfile = proc[r].lockfile /\ q.ctx = proc[r].ctx
  BY <1>1, <1>2, AtPageIs
<1>4. proc' = [proc EXCEPT ![r] = q]
  BY DEF NextPage
<1> HIDE DEF q
<1>5. IsRenderer(q, now)
  BY <1>1, <1>3 DEF IsRenderer, AtWork
<1> QED BY <1>3, <1>4, <1>5 DEF Becomes, AtWork

LEMMA ExitBecomes ==
  ASSUME HtmlInv, NEW r \in Renderers, XExit(r)
  PROVE  \E q : Becomes(r, q) /\ q.pc = "end"
<1> DEFINE q == Idle("end")
<1>1. DOMAIN q = ProcFields /\ q.pc = "end" /\ q.ctx.start = 0
  BY IdleIs
<1>2. proc' = [proc EXCEPT ![r] = q]
  BY DEF XExit
<1>3. now \in Nat
  BY InstancesAssumption DEF HtmlInv, PagesType
<1> HIDE DEF q
<1>4. IsRenderer(q, now)
  BY <1>1, <1>3 DEF IsRenderer
<1>5. Becomes(r, q)
  BY <1>1, <1>2, <1>4 DEF Becomes, AtWork
<1> QED BY <1>1, <1>5

\* The lock file belongs to one renderer: who finds it taken leaves.
LEMMA LockPages == ASSUME HtmlInv, NEW r \in Renderers, do_html_output(r) PROVE HtmlInv'
<1>1. /\ proc[r].pc = "lock"
      /\ UNCHANGED <<inst, now, hctx, reports, dirTime, cache, file, link, clean, lockfile, killed>>
  BY DEF do_html_output
<1>2. NamesLead' /\ CleanupSafe'
  BY <1>1 DEF HtmlInv, NamesLead, CleanupSafe, pages
<1>3. killed \in Nat
  BY DEF HtmlInv, PagesType
<1>4. CASE XExit(r)
  <2>1. PICK q : Becomes(r, q) /\ q.pc = "end"
    BY <1>4, ExitBecomes
  <2>2. PagesType' /\ LocksApart'
    BY <1>1, <1>3, <2>1, RendererGoes DEF Becomes
  <2>3. Written'
    BY <1>1, <2>1, FilesStay DEF Becomes
  <2> QED BY <1>2, <2>2, <2>3 DEF HtmlInv
<1>5. CASE /\ \A s \in Renderers \ {r} : Rendering(s) => proc[s].lockfile # lockfile
           /\ proc' = [proc EXCEPT ![r] = AtPage([@ EXCEPT !.lockfile = lockfile], 1)]
  <2> DEFINE pr == [proc[r] EXCEPT !.lockfile = lockfile]
             q == AtPage(pr, 1)
  <2>1. /\ DOMAIN proc = Renderers /\ DOMAIN proc[r] = ProcFields /\ proc[r].ctx.start \in 0..now
        /\ PagesType /\ ~ Rendering(r) /\ now \in Nat
    BY <1>1, InstancesAssumption DEF HtmlInv, PagesType, Rendering
  <2>2. DOMAIN pr = ProcFields /\ pr.ctx = proc[r].ctx /\ pr.lockfile = lockfile
    BY <2>1 DEF ProcFields
  <2>3. proc' = [proc EXCEPT ![r] = q]
    BY <1>5
  <2> HIDE DEF pr
  <2>4. /\ DOMAIN q = ProcFields
        /\ \/ q.pc = "end" /\ q.ctx.start = 0
           \/ /\ q.pc = "stat" /\ q.i = 1 /\ 1 \in DOMAIN pages
              /\ q.lockfile = lockfile /\ q.ctx = proc[r].ctx
    BY <2>1, <2>2, AtPageIs
  <2> HIDE DEF q
  <2>5. proc'[r] = q /\ DOMAIN proc' = Renderers /\ \A s \in Renderers \ {r} : proc'[s] = proc[s]
    BY <2>1, <2>3
  <2>6. \A s \in Renderers \ {r} : Rendering(s)' <=> Rendering(s)
    BY <2>5 DEF Rendering
  <2>7. PagesType'
    <3>1. \A s \in Renderers :
         /\ DOMAIN proc'[s] = ProcFields
         /\ proc'[s].pc \in {"none", "lock", "stat", "create", "write", "unlink", "link", "end"}
         /\ proc'[s].ctx.start \in 0..now
         /\ Rendering(s)' => proc'[s].i \in DOMAIN pages
      <4> TAKE s \in Renderers
      <4>1. CASE s = r
        BY <2>1, <2>4, <2>5, <4>1 DEF Rendering
      <4>2. CASE s # r
        BY <2>5, <2>6, <4>2 DEF HtmlInv, PagesType
      <4> QED BY <4>1, <4>2
    <3>2. pages' = pages /\ Sec' = Sec
      BY <1>1 DEF pages, Sec
    <3> QED BY <1>1, <2>5, <3>1, <3>2 DEF HtmlInv, PagesType
  <2>8. LocksApart'
    <3> SUFFICES ASSUME NEW s \in Renderers, Rendering(s)'
                 PROVE  /\ \A t \in Renderers \ {s} : Rendering(t)' => proc'[t].lockfile # proc'[s].lockfile
                        /\ proc'[s].ctx.start = hctx.start => proc'[s].lockfile \in hctx.lock..lockfile
      BY <1>1 DEF HtmlInv, LocksApart
    <3>1. Rendering(r)' => proc'[r].lockfile = lockfile
      BY <2>4, <2>5 DEF Rendering
    <3>0. lockfile \in hctx.lock..lockfile
      BY DEF HtmlInv, LocksApart
    <3>2. CASE s = r
      BY <1>5, <2>5, <2>6, <3>0, <3>1, <3>2
    <3>3. CASE s # r
      BY <1>5, <2>5, <2>6, <3>1, <3>3 DEF HtmlInv, LocksApart
    <3> QED BY <3>2, <3>3
  <2>9. Written'
    <3>1. q.pc # "write" /\ proc[r].pc # "write"
      BY <1>1, <2>4
    <3> QED BY <1>1, <2>3, <3>1, FilesStay
  <2> QED BY <1>2, <2>7, <2>8, <2>9 DEF HtmlInv
<1> QED BY <1>4, <1>5 DEF do_html_output

\* stat()
LEMMA StatPages == ASSUME HtmlInv, NEW r \in Renderers, fopen_cached(r) PROVE HtmlInv'
<1>1. /\ proc[r].pc = "stat" /\ Rendering(r)
      /\ UNCHANGED <<inst, now, hctx, reports, dirTime, cache, link, clean, lockfile, killed>>
  BY DEF fopen_cached, Rendering
<1>2. \E q : Becomes(r, q) /\ q.pc # "write"
  <2>1. CASE Step(r, "unlink")
    BY <1>1, <2>1, StepBecomes DEF AtWork
  <2>2. CASE Step(r, "create")
    BY <1>1, <2>2, StepBecomes DEF AtWork
  <2>3. CASE NextPage(r)
    BY <1>1, <2>3, NextPageBecomes
  <2> QED BY <2>1, <2>2, <2>3 DEF fopen_cached
<1>3. DOMAIN file' = DOMAIN file /\ \A f \in DOMAIN file : file'[f].done = file[f].done /\ DOMAIN file'[f] = DOMAIN file[f]
  <2>1. CASE UNCHANGED file
    BY <2>1
  <2>2. CASE ~ UNCHANGED file
    <3>1. Name(r) \in DOMAIN cache /\ file' = [file EXCEPT ![cache[Name(r)]].mtime = Sec]
      BY <2>2 DEF fopen_cached
    <3>2. \A f \in DOMAIN file : DOMAIN file[f] = {"body", "done", "mtime"}
      BY DEF HtmlInv, Written
    <3> QED BY <3>1, <3>2
  <2> QED BY <2>1, <2>2
<1>4. PICK q : Becomes(r, q) /\ q.pc # "write"
  BY <1>2
<1>5. killed \in Nat
  BY DEF HtmlInv, PagesType
<1>6. PagesType' /\ LocksApart'
  BY <1>1, <1>4, <1>5, RendererGoes DEF Becomes
<1>7. Written'
  BY <1>1, <1>3, <1>4, FilesStay DEF Becomes
<1>8. NamesLead' /\ CleanupSafe'
  BY <1>1, <1>3 DEF HtmlInv, NamesLead, CleanupSafe, pages
<1> QED BY <1>6, <1>7, <1>8 DEF HtmlInv

\* fopen(name, "w"): what was complete may be empty again, and is being written.
LEMMA CreatePages == ASSUME HtmlInv, NEW r \in Renderers, create_html_file(r) PROVE HtmlInv'
<1> DEFINE f == IF Name(r) \in DOMAIN cache THEN cache[Name(r)] ELSE <<Page(r), proc[r].key, r>>
           blank == [Blank EXCEPT !.mtime = Sec]
           q == [proc[r] EXCEPT !.pc = "write", !.fd = f]
<1>1. /\ proc[r].pc = "create" /\ Rendering(r)
      /\ UNCHANGED <<inst, now, hctx, reports, dirTime, link, clean, lockfile, killed>>
  BY DEF create_html_file, Rendering
<1>2. cache' = Put(cache, Name(r), f) /\ file' = Put(file, f, blank) /\ proc' = [proc EXCEPT ![r] = q]
  BY DEF create_html_file
<1>3. DOMAIN blank = {"body", "done", "mtime"}
  BY DEF Blank
<1>4. /\ DOMAIN proc = Renderers /\ DOMAIN proc[r] = ProcFields /\ proc[r].ctx.start \in 0..now
      /\ proc[r].i \in DOMAIN pages
  BY <1>1 DEF HtmlInv, PagesType
<1>5. /\ DOMAIN q = ProcFields /\ q.pc = "write" /\ q.fd = f /\ q.i = proc[r].i
      /\ q.lockfile = proc[r].lockfile /\ q.ctx = proc[r].ctx
  BY <1>4 DEF ProcFields
<1> HIDE DEF f, blank, q
<1>6. /\ DOMAIN cache' = DOMAIN cache \cup {Name(r)}
      /\ \A n \in DOMAIN cache' : cache'[n] = IF n = Name(r) THEN f ELSE cache[n]
      /\ DOMAIN file' = DOMAIN file \cup {f}
      /\ \A g \in DOMAIN file' : file'[g] = IF g = f THEN blank ELSE file[g]
  BY <1>2 DEF Put
<1>7. PagesType' /\ LocksApart'
  <2>1. IsRenderer(q, now) /\ killed \in Nat
    BY <1>4, <1>5 DEF IsRenderer, AtWork, HtmlInv, PagesType
  <2> QED BY <1>1, <1>2, <1>4, <1>5, <2>1, RendererGoes
<1>8. NamesLead' /\ CleanupSafe'
  BY <1>1, <1>6 DEF HtmlInv, NamesLead, CleanupSafe, pages
<1>9. Written'
  <2>1. proc'[r] = q /\ \A s \in Renderers \ {r} : proc'[s] = proc[s]
    BY <1>2, <1>4
  <2>2. \A s \in Renderers : proc'[s].pc = "write" => proc'[s].fd \in DOMAIN file'
    <3> TAKE s \in Renderers
    <3>1. CASE s = r
      BY <1>5, <1>6, <2>1, <3>1
    <3>2. CASE s # r
      BY <1>6, <2>1, <3>2 DEF HtmlInv, Written
    <3> QED BY <3>1, <3>2
  <2>3. \A g \in DOMAIN file' : DOMAIN file'[g] = {"body", "done", "mtime"}
    BY <1>3, <1>6 DEF HtmlInv, Written
  <2>4. killed' = 0 => \A g \in DOMAIN file' :
          file'[g].done \/ \E s \in Renderers : proc'[s].pc = "write" /\ proc'[s].fd = g
    <3> SUFFICES ASSUME killed = 0, NEW g \in DOMAIN file', ~ file'[g].done
                 PROVE  \E s \in Renderers : proc'[s].pc = "write" /\ proc'[s].fd = g
      BY <1>1
    <3>1. CASE g = f
      BY <1>5, <2>1, <3>1
    <3>2. CASE g # f
      <4>1. PICK s \in Renderers : proc[s].pc = "write" /\ proc[s].fd = g
        BY <1>6, <3>2 DEF HtmlInv, Written
      <4>2. s # r
        BY <1>1, <4>1
      <4> QED BY <2>1, <4>1, <4>2
    <3> QED BY <3>1, <3>2
  <2> QED BY <2>2, <2>3, <2>4 DEF Written
<1> QED BY <1>7, <1>8, <1>9 DEF HtmlInv

\* Who stops to write a file leaves it complete.
LEMMA WritePages == ASSUME HtmlInv, NEW r \in Renderers, generate_page(r) PROVE HtmlInv'
<1> DEFINE g == proc[r].fd
           whole == [body |-> Body(Page(r), proc[r].ctx), done |-> TRUE, mtime |-> Sec]
<1>1. /\ proc[r].pc = "write" /\ Rendering(r) /\ file' = [file EXCEPT ![g] = whole]
      /\ UNCHANGED <<inst, now, hctx, reports, dirTime, cache, link, clean, lockfile, killed>>
  BY DEF generate_page, Rendering
<1>2. whole.done /\ DOMAIN whole = {"body", "done", "mtime"}
  OBVIOUS
<1> HIDE DEF whole
<1>3. \E q : Becomes(r, q) /\ q.pc # "write"
  <2>1. CASE Step(r, "unlink")
    BY <1>1, <2>1, StepBecomes DEF AtWork
  <2>2. CASE NextPage(r)
    BY <1>1, <2>2, NextPageBecomes
  <2> QED BY <2>1, <2>2 DEF generate_page
<1>4. PICK q : Becomes(r, q) /\ q.pc # "write"
  BY <1>3
<1>5. killed \in Nat /\ DOMAIN proc = Renderers
  BY DEF HtmlInv, PagesType
<1>6. PagesType' /\ LocksApart'
  BY <1>1, <1>4, <1>5, RendererGoes DEF Becomes
<1>7. g \in DOMAIN file
  BY <1>1 DEF HtmlInv, Written
<1> HIDE DEF g
<1>8. DOMAIN file' = DOMAIN file /\ \A f \in DOMAIN file : file'[f] = IF f = g THEN whole ELSE file[f]
  BY <1>1
<1>9. proc'[r] = q /\ \A s \in Renderers \ {r} : proc'[s] = proc[s]
  BY <1>4, <1>5 DEF Becomes
<1>10. Written'
  <2>1. \A s \in Renderers : proc'[s].pc = "write" => proc'[s].fd \in DOMAIN file'
    BY <1>4, <1>8, <1>9 DEF HtmlInv, Written
  <2>2. \A f \in DOMAIN file' : DOMAIN file'[f] = {"body", "done", "mtime"}
    BY <1>2, <1>8 DEF HtmlInv, Written
  <2>3. killed' = 0 => \A f \in DOMAIN file' :
          file'[f].done \/ \E s \in Renderers : proc'[s].pc = "write" /\ proc'[s].fd = f
    <3> SUFFICES ASSUME killed = 0, NEW f \in DOMAIN file, ~ file'[f].done
                 PROVE  \E s \in Renderers : proc'[s].pc = "write" /\ proc'[s].fd = f
      BY <1>1, <1>8
    <3>1. f # g
      BY <1>2, <1>8
    <3>2. PICK s \in Renderers : proc[s].pc = "write" /\ proc[s].fd = f
      BY <1>8, <3>1 DEF HtmlInv, Written
    <3>3. s # r
      BY <3>1, <3>2 DEF g
    <3> QED BY <1>9, <3>2, <3>3
  <2> QED BY <2>1, <2>2, <2>3 DEF Written
<1>11. NamesLead' /\ CleanupSafe'
  BY <1>1, <1>8 DEF HtmlInv, NamesLead, CleanupSafe, pages
<1> QED BY <1>6, <1>10, <1>11 DEF HtmlInv

\* unlink() and Xlink()
LEMMA LinkPages == ASSUME HtmlInv, NEW r \in Renderers, unlink(r) \/ Xlink(r) PROVE HtmlInv'
<1>1. /\ proc[r].pc \in {"unlink", "link"} /\ Rendering(r)
      /\ UNCHANGED <<inst, now, hctx, reports, dirTime, cache, file, clean, lockfile, killed>>
  BY DEF unlink, Xlink, Rendering
<1>2. \E q : Becomes(r, q) /\ q.pc # "write"
  <2>1. CASE Step(r, "link")
    BY <1>1, <2>1, StepBecomes DEF AtWork
  <2>2. CASE NextPage(r)
    BY <1>1, <2>2, NextPageBecomes
  <2>3. CASE XExit(r)
    BY <2>3, ExitBecomes
  <2> QED BY <2>1, <2>2, <2>3 DEF unlink, Xlink
<1>3. DOMAIN link' = DOMAIN link
  BY DEF unlink, Xlink
<1>4. \A k \in DOMAIN pages : link'[k] = NoFile \/ link'[k] \in DOMAIN file
  BY DEF unlink, Xlink, HtmlInv, NamesLead, PagesType
<1>5. PICK q : Becomes(r, q) /\ q.pc # "write"
  BY <1>2
<1>6. killed \in Nat
  BY DEF HtmlInv, PagesType
<1>7. PagesType' /\ LocksApart'
  BY <1>1, <1>3, <1>5, <1>6, RendererGoes DEF Becomes
<1>8. Written'
  <2>1. proc[r].pc # "write"
    BY <1>1
  <2> QED BY <1>1, <1>5, <2>1, FilesStay DEF Becomes
<1>9. NamesLead' /\ CleanupSafe'
  BY <1>1, <1>4 DEF HtmlInv, NamesLead, CleanupSafe, pages
<1> QED BY <1>7, <1>8, <1>9 DEF HtmlInv

\* A signal ends a renderer; what it wrote may stay a part of a page.
LEMMA KillPages == ASSUME HtmlInv, NEW r \in Renderers, KillRenderer(r) PROVE HtmlInv'
<1>1. /\ killed' = killed + 1 /\ XExit(r) /\ killed \in Nat
      /\ UNCHANGED <<inst, now, hctx, reports, dirTime, cache, file, link, clean, lockfile>>
  BY DEF KillRenderer, HtmlInv, PagesType
<1>2. killed' \in Nat /\ killed' # 0
  BY <1>1
<1>3. PICK q : Becomes(r, q) /\ q.pc = "end"
  BY <1>1, ExitBecomes
<1>4. PagesType' /\ LocksApart'
  BY <1>1, <1>2, <1>3, RendererGoes DEF Becomes
<1>5. Written'
  BY <1>1, <1>2, <1>3, FilesStay DEF Becomes
<1>6. NamesLead' /\ CleanupSafe'
  BY <1>1 DEF HtmlInv, NamesLead, CleanupSafe, pages
<1> QED BY <1>4, <1>5, <1>6 DEF HtmlInv

-----------------------------------------------------------------------------
\* What an event does to the context leaves the dates of the start alone.
LEMMA ContextKeeps ==
  ASSUME NEW s, DOMAIN s = ContextFields, NEW t \in Effects(Changed(s, "posts"))
  PROVE  /\ DOMAIN t = ContextFields /\ t.start = s.start /\ t.lock = s.lock
         /\ t.dir = s.dir /\ t.up = s.up
<1> DEFINE Keeps(a, b) == /\ DOMAIN a = ContextFields /\ DOMAIN b = ContextFields
                          /\ b.start = a.start /\ b.lock = a.lock /\ b.dir = a.dir /\ b.up = a.up
<1>1. \A a : DOMAIN a = ContextFields =>
        Keeps(a, Changed(a, "posts")) /\ Keeps(a, Transition(a)) /\ Keeps(a, Reap(a)) /\ Keeps(a, Keep(a))
  BY DEF Changed, Transition, Reap, Keep, ContextFields
<1>2. \A a, b, c : Keeps(a, b) /\ Keeps(b, c) => Keeps(a, c)
  OBVIOUS
<1> DEFINE u == Changed(s, "posts")
<1>3. Keeps(s, u)
  BY <1>1
<1>4. t \in {u, Transition(u), Keep(Transition(u)), Reap(u), Keep(Reap(u))}
  BY DEF Effects
<1> HIDE DEF u
<1>5. \A a \in {u, Transition(u), Keep(Transition(u)), Reap(u), Keep(Reap(u))} : Keeps(u, a)
  <2>1. DOMAIN u = ContextFields
    BY <1>3
  <2>2. Keeps(u, u) /\ Keeps(u, Transition(u)) /\ Keeps(u, Reap(u))
    BY <1>1, <2>1
  <2>3. Keeps(Transition(u), Keep(Transition(u))) /\ Keeps(Reap(u), Keep(Reap(u)))
    BY <1>1, <2>2
  <2> HIDE DEF Keeps
  <2> QED BY <1>2, <2>2, <2>3
<1>6. Keeps(s, t)
  <2> HIDE DEF Keeps
  <2> QED BY <1>2, <1>3, <1>4, <1>5
<1> QED BY <1>6

\* The monitor changes no file and no renderer that works.
LEMMA MonitorGoes ==
  ASSUME HtmlInv, UNCHANGED <<inst, file, link, proc, lockfile, killed>>,
         now' \in now .. inst.time, DOMAIN hctx' = ContextFields, hctx'.start = hctx.start,
         hctx'.lock = hctx.lock,
         DOMAIN reports' \subseteq inst.reports, dirTime' \in {dirTime, Sec}
  PROVE  PagesType' /\ LocksApart' /\ Written'
<1>1. /\ inst \in Instances /\ inst.time \in Nat \ {0} /\ PerSecond \in Nat \ {0}
      /\ now \in 1 .. inst.time /\ dirTime \in 0 .. Sec
  BY InstancesAssumption DEF HtmlInv, PagesType
<1>2. now \in Nat /\ now' \in Nat /\ now <= now' /\ now' \in 1 .. inst.time
  BY <1>1
<1>3. Sec \in Nat /\ Sec' \in Nat /\ Sec <= Sec'
  BY <1>1, <1>2, SecondsGoOn DEF Sec
<1>4. dirTime' \in 0 .. Sec'
  BY <1>1, <1>3
<1>5. /\ \A r \in Renderers : Rendering(r)' <=> Rendering(r)
      /\ pages' = pages
  BY DEF Rendering, pages
<1>6. PagesType'
  <2>1. \A r \in Renderers : proc[r].ctx.start \in 0 .. now'
    BY <1>2 DEF HtmlInv, PagesType
  <2>2. hctx'.start \in 1 .. now'
    BY <1>2 DEF HtmlInv, PagesType
  <2> QED BY <1>2, <1>4, <1>5, <2>1, <2>2 DEF HtmlInv, PagesType
<1>7. LocksApart'
  BY <1>5 DEF HtmlInv, LocksApart
<1>8. Written'
  BY DEF HtmlInv, Written
<1> QED BY <1>6, <1>7, <1>8

LEMMA LoopPages == ASSUME HtmlInv, Iterate \/ inject_one PROVE HtmlInv'
<1>0. /\ inst.time \in Nat \ {0} /\ now \in 1 .. inst.time /\ DOMAIN hctx = ContextFields
  BY InstancesAssumption DEF HtmlInv, PagesType
<1>1. UNCHANGED <<inst, reports, dirTime, cache, file, link, proc, clean, lockfile, killed>>
  BY DEF Iterate, inject_one
<1>2. now' \in now .. inst.time
  BY <1>0 DEF Iterate, inject_one
<1>3. /\ DOMAIN hctx' = ContextFields /\ hctx'.start = hctx.start /\ hctx'.lock = hctx.lock
      /\ hctx'.dir = hctx.dir /\ hctx'.up = hctx.up
  <2>1. CASE Iterate
    BY <1>0, <2>1 DEF Iterate, ContextFields
  <2>2. CASE inject_one
    BY <1>0, <2>2, ContextKeeps DEF inject_one
  <2> QED BY <2>1, <2>2
<1>4. PagesType' /\ LocksApart' /\ Written'
  <2>1. DOMAIN reports \subseteq inst.reports
    BY DEF HtmlInv, PagesType
  <2> QED BY <1>1, <1>2, <1>3, <2>1, MonitorGoes
<1>5. NamesLead' /\ CleanupSafe'
  BY <1>1, <1>3 DEF HtmlInv, NamesLead, CleanupSafe, pages
<1> QED BY <1>4, <1>5 DEF HtmlInv

\* The directory of the reports
LEMMA ReportPages == ASSUME HtmlInv, NEW id \in inst.reports, generate_html_report(id) PROVE HtmlInv'
<1>1. /\ UNCHANGED <<inst, now, hctx, cache, file, link, proc, clean, lockfile, killed>>
      /\ reports' = Put(reports, id, Sec) /\ dirTime' = Sec
  BY DEF generate_html_report
<1>2. DOMAIN reports' \subseteq inst.reports
  BY <1>1 DEF Put, HtmlInv, PagesType
<1>3. /\ inst.time \in Nat \ {0} /\ now \in 1 .. inst.time /\ DOMAIN hctx = ContextFields
  BY InstancesAssumption DEF HtmlInv, PagesType
<1>4. now' \in now .. inst.time
  BY <1>1, <1>3
<1>5. PagesType' /\ LocksApart' /\ Written'
  BY <1>1, <1>2, <1>3, <1>4, MonitorGoes
<1>6. NamesLead' /\ CleanupSafe'
  BY <1>1 DEF HtmlInv, NamesLead, CleanupSafe, pages
<1> QED BY <1>5, <1>6 DEF HtmlInv

\* The cleanup turns to a prefix with nothing chosen yet.
LEMMA PrefixIs ==
  \A i : DOMAIN PrefixFrom(i) = {"i", "victims", "scanned"} /\ PrefixFrom(i).victims = {}
BY DEF PrefixFrom, NotCleaning

LEMMA CleanupPages ==
  ASSUME HtmlInv, html_output_cache_cleanup \/ cache_gc \/ Xunlink PROVE HtmlInv'
<1>0. /\ inst.time \in Nat \ {0} /\ now \in 1 .. inst.time /\ DOMAIN hctx = ContextFields
      /\ DOMAIN reports \subseteq inst.reports
  BY InstancesAssumption DEF HtmlInv, PagesType
<1>1. UNCHANGED <<inst, now, reports, dirTime, file, link, proc, lockfile, killed>>
  BY DEF html_output_cache_cleanup, cache_gc, Xunlink
<1>2. now' \in now .. inst.time
  BY <1>0, <1>1
<1>3. UNCHANGED hctx \/ (~ hctx.dir /\ hctx' = [hctx EXCEPT !.up = FALSE])
  <2>1. CASE html_output_cache_cleanup
    BY <2>1 DEF html_output_cache_cleanup
  <2>2. CASE cache_gc
    BY <2>2 DEF cache_gc
  <2>3. CASE Xunlink
    <3>1. clean.victims \subseteq DOMAIN cache
      BY DEF HtmlInv, CleanupSafe
    <3> QED BY <2>3, <3>1 DEF Xunlink
  <2> QED BY <2>1, <2>2, <2>3
<1>8. /\ DOMAIN hctx' = ContextFields /\ hctx'.start = hctx.start /\ hctx'.lock = hctx.lock
      /\ hctx'.dir = hctx.dir
      /\ ~ hctx'.up => ~ hctx'.dir
  BY <1>0, <1>3 DEF ContextFields, HtmlInv, CleanupSafe
<1>4. PagesType' /\ LocksApart' /\ Written'
  BY <1>0, <1>1, <1>2, <1>8, MonitorGoes
<1>5. /\ DOMAIN cache' \subseteq DOMAIN cache
      /\ \A n \in DOMAIN cache' : cache'[n] = cache[n]
  BY DEF html_output_cache_cleanup, cache_gc, Xunlink
<1>6. NamesLead'
  BY <1>1, <1>5 DEF HtmlInv, NamesLead, pages
<1>7. CleanupSafe'
  <2>1. ~ hctx'.up => ~ hctx'.dir
    BY <1>8
  <2>2. CASE html_output_cache_cleanup
    BY <2>1, <2>2, PrefixIs DEF html_output_cache_cleanup, HtmlInv, CleanupSafe
  <2>3. CASE cache_gc
    <3>1. PICK stay : clean' = [clean EXCEPT !.victims = {n \in DOMAIN cache : n[1] \in CachePrefixes[clean.i]} \ stay,
                                             !.scanned = TRUE]
      BY <2>3 DEF cache_gc
    <3>2. DOMAIN clean' = {"i", "victims", "scanned"} /\ clean'.victims \subseteq DOMAIN cache
      BY <3>1 DEF HtmlInv, CleanupSafe
    <3> QED BY <2>1, <2>3, <3>2 DEF CleanupSafe, cache_gc
  <2>4. CASE Xunlink
    BY <2>1, <2>4, PrefixIs DEF Xunlink, CleanupSafe, NotCleaning
  <2> QED BY <2>2, <2>3, <2>4
<1> QED BY <1>4, <1>6, <1>7 DEF HtmlInv

\* The lock file of a monitor that is started again is a new one, and the
\* renderers of the old monitor are not its own.
LEMMA RestartPages == ASSUME HtmlInv, Restart PROVE HtmlInv'
<1>1. /\ hctx.up /\ now < inst.time /\ lockfile' = lockfile + 1 /\ now' = now + 1
      /\ hctx' = StartContext(hctx.dir, now + 1, lockfile')
      /\ UNCHANGED <<inst, reports, dirTime, cache, file, link, proc, clean, killed>>
  BY DEF Restart, Up
<1>2. /\ inst \in Instances /\ inst.time \in Nat \ {0} /\ PerSecond \in Nat \ {0}
      /\ now \in 1 .. inst.time /\ dirTime \in 0 .. Sec
  BY InstancesAssumption DEF HtmlInv, PagesType
<1>3. now \in Nat /\ now' \in Nat /\ now <= now' /\ now' \in 1 .. inst.time
  BY <1>1, <1>2
<1>4. Sec \in Nat /\ Sec' \in Nat /\ Sec <= Sec'
  BY <1>2, <1>3, SecondsGoOn DEF Sec
<1>5. dirTime' \in 0 .. Sec'
  BY <1>1, <1>2, <1>4
<1>6. DOMAIN hctx' = ContextFields /\ hctx'.start = now' /\ hctx'.lock = lockfile' /\ hctx'.up
  BY <1>1 DEF StartContext, ContextFields
<1>7. /\ \A r \in Renderers : Rendering(r)' <=> Rendering(r)
      /\ pages' = pages
  BY <1>1 DEF Rendering, pages
<1>8. \A r \in Renderers : proc[r].ctx.start \in 0 .. now' /\ proc[r].ctx.start # now'
  <2>1. \A x \in 0 .. now : x \in 0 .. now' /\ x # now'
    BY <1>1, <1>3
  <2> QED BY <2>1 DEF HtmlInv, PagesType
<1>9. PagesType'
  <2>1. hctx'.start \in 1 .. now'
    BY <1>3, <1>6
  <2> QED BY <1>1, <1>3, <1>5, <1>6, <1>7, <1>8, <2>1 DEF HtmlInv, PagesType
<1>10. LocksApart'
  <2>1. lockfile' \in Nat /\ hctx'.lock \in 1..lockfile'
    BY <1>1, <1>6 DEF HtmlInv, LocksApart
  <2> QED BY <1>1, <1>6, <1>7, <1>8, <2>1 DEF HtmlInv, LocksApart
<1>11. Written' /\ NamesLead' /\ CleanupSafe'
  BY <1>1, <1>6, <1>7 DEF HtmlInv, Written, NamesLead, CleanupSafe
<1> QED BY <1>9, <1>10, <1>11 DEF HtmlInv

\* A rival start makes the renderers to come lock a new file.
LEMMA RivalPages == ASSUME HtmlInv, RivalStart PROVE HtmlInv'
<1>1. /\ lockfile' = lockfile + 1
      /\ UNCHANGED <<inst, now, hctx, reports, dirTime, cache, file, link, proc, clean, killed>>
  BY DEF RivalStart
<1>2. /\ \A r \in Renderers : Rendering(r)' <=> Rendering(r)
      /\ pages' = pages /\ Sec' = Sec
  BY <1>1 DEF Rendering, pages, Sec
<1>3. PagesType' /\ NamesLead' /\ Written' /\ CleanupSafe'
  BY <1>1, <1>2 DEF HtmlInv, PagesType, NamesLead, Written, CleanupSafe
<1>4. lockfile' \in Nat /\ \A a \in Nat : a..lockfile \subseteq a..lockfile'
  BY <1>1 DEF HtmlInv, LocksApart
<1>5. 1 \in Nat /\ hctx.lock \in Nat
  BY DEF HtmlInv, LocksApart
<1>6. LocksApart'
  BY <1>1, <1>2, <1>4, <1>5 DEF HtmlInv, LocksApart
<1> QED BY <1>3, <1>6 DEF HtmlInv

\* A renderer that was forked has the context of its monitor, and waits for
\* the lock.
LEMMA ForkPages == ASSUME HtmlInv, NEW r \in Renderers, html_output(r) PROVE HtmlInv'
<1> DEFINE q == [Idle("lock") EXCEPT !.ctx = hctx]
<1>1. /\ proc[r].pc = "none" /\ proc' = [proc EXCEPT ![r] = q]
      /\ UNCHANGED <<inst, now, hctx, reports, dirTime, cache, file, link, clean, lockfile, killed>>
  BY DEF html_output
<1>2. DOMAIN q = ProcFields /\ q.pc = "lock" /\ q.ctx = hctx
  BY DEF Idle, ProcFields
<1> HIDE DEF q
<1>3. hctx.start \in 1 .. now /\ now \in Nat /\ killed \in Nat
  BY InstancesAssumption DEF HtmlInv, PagesType
<1>4. q.ctx.start \in 0 .. now
  BY <1>2, <1>3
<1>5. IsRenderer(q, now) /\ q.pc \notin AtWork
  BY <1>2, <1>4 DEF IsRenderer, AtWork
<1>6. PagesType' /\ LocksApart'
  BY <1>1, <1>3, <1>5, RendererGoes
<1>7. Written'
  <2>1. q.pc # "write" /\ proc[r].pc # "write"
    BY <1>1, <1>2
  <2> QED BY <1>1, <2>1, FilesStay
<1>8. NamesLead' /\ CleanupSafe'
  BY <1>1 DEF HtmlInv, NamesLead, CleanupSafe, pages
<1> QED BY <1>6, <1>7, <1>8 DEF HtmlInv

LEMMA InitPages == ASSUME HtmlInit PROVE HtmlInv
<1>1. /\ inst \in Instances /\ now = 1 /\ hctx = StartContext(inst.dir, 1, 1) /\ lockfile = 1
      /\ reports = <<>> /\ dirTime = 0 /\ cache = <<>> /\ file = <<>>
      /\ link = [k \in DOMAIN pages |-> NoFile] /\ proc = [r \in Renderers |-> Idle("none")]
      /\ clean = NotCleaning /\ killed = 0
  BY DEF HtmlInit
<1>2. inst.time \in Nat \ {0} /\ PerSecond \in Nat \ {0}
  BY <1>1, InstancesAssumption
<1>3. Sec \in Nat /\ now \in 1 .. inst.time
  BY <1>1, <1>2, SecondsGoOn DEF Sec
<1>4. \A r \in Renderers : DOMAIN proc[r] = ProcFields /\ proc[r].pc = "none" /\ proc[r].ctx.start = 0
  BY <1>1, IdleIs
<1>5. \A r \in Renderers : ~ Rendering(r)
  BY <1>4 DEF Rendering
<1>6. DOMAIN hctx = ContextFields /\ hctx.start = 1 /\ hctx.lock = 1 /\ hctx.up
  BY <1>1 DEF StartContext, ContextFields
<1>7. DOMAIN reports = {} /\ DOMAIN cache = {} /\ DOMAIN file = {}
  BY <1>1
<1>8. PagesType
  <2>1. \A r \in Renderers : proc[r].ctx.start \in 0 .. now
    BY <1>1, <1>4
  <2>2. DOMAIN proc = Renderers /\ DOMAIN link = DOMAIN pages
    BY <1>1
  <2>3. dirTime \in 0 .. Sec /\ hctx.start \in 1 .. now
    BY <1>1, <1>3, <1>6
  <2> QED BY <1>1, <1>3, <1>4, <1>5, <1>6, <1>7, <2>1, <2>2, <2>3 DEF PagesType
<1>9. NamesLead
  BY <1>1, <1>7 DEF NamesLead
<1>10. LocksApart
  BY <1>1, <1>5, <1>6 DEF LocksApart
<1>11. Written
  BY <1>4, <1>7 DEF Written
<1>12. CleanupSafe
  BY <1>1, <1>6 DEF CleanupSafe, NotCleaning
<1> QED BY <1>8, <1>9, <1>10, <1>11, <1>12 DEF HtmlInv

\* Every step of the monitor and of a renderer preserves the invariant.
LEMMA NextPages == ASSUME HtmlInv, [HtmlNext]_htmlVars PROVE HtmlInv'
<1>1. ASSUME NEW r \in Renderers, Render(r) PROVE HtmlInv'
  BY <1>1, LockPages, StatPages, CreatePages, WritePages, LinkPages, KillPages DEF Render
<1>2. CASE Monitor
  BY <1>2, LoopPages, CleanupPages, RestartPages, RivalPages, ForkPages, ReportPages DEF Monitor
<1>3. CASE UNCHANGED htmlVars
  <2>1. UNCHANGED <<inst, now, hctx, reports, dirTime, cache, file, link, proc, clean, lockfile, killed>>
    BY <1>3 DEF htmlVars
  <2>2. /\ \A r \in Renderers : Rendering(r)' <=> Rendering(r)
        /\ pages' = pages /\ Sec' = Sec
    BY <2>1 DEF Rendering, pages, Sec
  <2> QED BY <2>1, <2>2 DEF HtmlInv, PagesType, NamesLead, LocksApart, Written, CleanupSafe
<1> QED BY <1>1, <1>2, <1>3 DEF HtmlNext

\* The lock files of a monitor bound the renderers that work for it.
LEMMA LocksBound == ASSUME HtmlInv PROVE OneRenderer
<1> DEFINE W == {r \in Renderers : Rendering(r) /\ proc[r].ctx.start = hctx.start}
           L == hctx.lock..lockfile
           held == [r \in W |-> proc[r].lockfile]
<1>1. lockfile \in Nat /\ hctx.lock \in 1..lockfile
  BY DEF HtmlInv, LocksApart
<1>2. hctx.lock \in Int /\ lockfile \in Int /\ hctx.lock <= lockfile
  BY <1>1
<1>3. IsFiniteSet(L) /\ Cardinality(L) = lockfile - hctx.lock + 1
  BY <1>2, FS_Interval
<1>4. held \in Injection(W, L)
  <2>1. \A r \in W : proc[r].lockfile \in L
    BY DEF HtmlInv, LocksApart
  <2>2. \A r, s \in W : proc[r].lockfile = proc[s].lockfile => r = s
    BY DEF HtmlInv, LocksApart
  <2> QED BY <2>1, <2>2 DEF Injection, IsInjective
<1>5. IsFiniteSet(W) /\ Cardinality(W) <= Cardinality(L)
  BY <1>3, <1>4, FS_Injection
<1> HIDE DEF W, L
<1>6. Cardinality(W) <= 1 + (lockfile - hctx.lock)
  <2>1. Cardinality(W) \in Nat
    BY <1>5, FS_CardinalityType
  <2> QED BY <1>2, <1>3, <1>5, <2>1
<1> QED BY <1>6 DEF OneRenderer, W

\* do_html_output(), fopen_cached(), cache_gc(), the restarts and the rival
\* starts: for any renderers, instances and limits, no more renderers of one
\* monitor work at the same time than it has had lock files (one, when no
\* rival start removed it), a page that can be seen is complete or being written
\* unless a renderer was killed, no name and no link leads nowhere, and a
\* cleanup never ends a monitor that has its directory.
THEOREM PagesAlwaysSound == HtmlSpec => []PagesSound
<1>1. HtmlInit => HtmlInv
  BY InitPages
<1>2. HtmlInv /\ [HtmlNext]_htmlVars => HtmlInv'
  BY NextPages
<1>3. HtmlInv => PagesSound
  <2> SUFFICES ASSUME HtmlInv PROVE PagesSound
    OBVIOUS
  <2>1. HtmlTypeOK
    BY DEF HtmlInv, PagesType, NamesLead, HtmlTypeOK
  <2>2. OneRenderer
    BY LocksBound
  <2>3. PagesComplete
    BY DEF HtmlInv, Written, PagesComplete
  <2>4. MonitorSurvives
    BY DEF HtmlInv, CleanupSafe, MonitorSurvives
  <2> QED BY <2>1, <2>2, <2>3, <2>4 DEF PagesSound
<1> QED BY <1>1, <1>2, <1>3, PTL DEF HtmlSpec
=============================================================================
