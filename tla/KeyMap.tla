------------------------------- MODULE KeyMap -------------------------------
(***************************************************************************)
(* What a table of src/util promises: it keeps, for each key, a pile of    *)
(* data; every operation works on the newest datum of a key.               *)
(***************************************************************************)
EXTENDS SequencesExt

CONSTANTS Keys, Data, None

VARIABLES
  map,    \* key -> the data of the key, the newest first
  ret,    \* what the last operation returned
  seen    \* the data that the last walk visited

vars == << map, ret, seen >>

Newest(k) == IF map[k] = << >> THEN None ELSE Head(map[k])
All       == UNION {ToSet(map[k]) : k \in Keys}
Replaced(k, d) == [map EXCEPT ![k] = << d >> \o Tail(@)]
Added(k, d)    == [map EXCEPT ![k] = << d >> \o @]

Init == map = [k \in Keys |-> << >>] /\ ret = None /\ seen = {}

Add(k, d) == map' = Added(k, d) /\ ret' = None /\ seen' = {}

CheckAndAdd(k, d) ==
  /\ map' = IF map[k] = << >> THEN Added(k, d) ELSE map
  /\ ret' = Newest(k) /\ seen' = {}

Update(k, d) ==
  /\ map' = IF map[k] = << >> THEN map ELSE Replaced(k, d)
  /\ ret' = Newest(k) /\ seen' = {}

UpdateOrAdd(k, d) ==
  /\ map' = IF map[k] = << >> THEN Added(k, d) ELSE Replaced(k, d)
  /\ ret' = Newest(k) /\ seen' = {}

Del(k) ==
  /\ map' = IF map[k] = << >> THEN map ELSE [map EXCEPT ![k] = Tail(@)]
  /\ ret' = Newest(k) /\ seen' = {}

Get(k) == ret' = Newest(k) /\ seen' = {} /\ UNCHANGED map

Clear == map' = [k \in Keys |-> << >>] /\ ret' = None /\ seen' = {}

\* A copy has the same data, and of two data of a key the older one first.
Clone == map' = [k \in Keys |-> Reverse(map[k])] /\ ret' = None /\ seen' = {}

Visit == seen' = All /\ ret' = None /\ UNCHANGED map

\* A walk that stops at the datum d has visited d and some of the others.
VisitUntil(d) ==
  /\ d \in All
  /\ seen' \in {S \in SUBSET All : d \in S}
  /\ ret' = d /\ UNCHANGED map

Next ==
  \/ \E k \in Keys, d \in Data :
       Add(k, d) \/ CheckAndAdd(k, d) \/ Update(k, d) \/ UpdateOrAdd(k, d)
  \/ \E k \in Keys : Del(k) \/ Get(k)
  \/ \E d \in Data : VisitUntil(d)
  \/ Clear \/ Clone \/ Visit

Spec == Init /\ [][Next]_vars
=============================================================================
