-------------------------- MODULE EngineHeapProofs --------------------------
(***************************************************************************)
(* Proofs about the tree of state instances, which cut() and the marks     *)
(* walk: its pointers stay within a rule instance, the lists of threads    *)
(* are those that wait, and every walk comes to an end.                    *)
(* Then of the order of the queue, which the commits of the loop keep.     *)
(***************************************************************************)
EXTENDS EngineEventProofs, WellFoundedInduction

-----------------------------------------------------------------------------
(* The parts of the invariant.                                              *)

\* The state instances of the same rule instance, and NULL.
Kin(s) == {NULL} \cup StatesOf(si[s].inst)

\* The first child leads to its parent, and siblings have the same one.
LinksOK(s) ==
  /\ {si[s].parent, si[s].first_child, si[s].next_sibling} \subseteq Kin(s)
  /\ {si[s].mark, si[s].extptr} \subseteq Kin(s)
  /\ si[s].first_child # NULL => si[si[s].first_child].parent = s
  /\ si[s].next_sibling # NULL =>
       si[s].parent # NULL /\ si[si[s].next_sibling].parent = si[s].parent

\* The threads that wait in a state instance are in its list, once.
Waiting(s) == {t \in Threads : thr[t].si = s /\ ~ thr[t].once}
ListOK(s) ==
  /\ si[s].thread_list \in Seq(ThreadId) /\ Distinct(si[s].thread_list)
  /\ Elems(si[s].thread_list) = Waiting(s)

\* A child is one deeper than its parent, and siblings were born in an order.
Grows(depth, born, n) ==
  \A s \in States :
    /\ depth[s] < n /\ born[s] < n
    /\ si[s].parent # NULL => depth[s] = depth[si[s].parent] + 1
    /\ si[s].next_sibling # NULL => born[si[s].next_sibling] < born[s]
Grown == \E depth, born \in [StateId -> Nat], n \in Nat : Grows(depth, born, n)

Tree == (\A s \in States : LinksOK(s) /\ ListOK(s)) /\ Grown

-----------------------------------------------------------------------------
(* What the invariant says.                                                 *)

\* The parts of the invariant give the property that the runs check.
LEMMA TreeConsequence == ASSUME Inv, Tree PROVE TreeIsLive
<1> SUFFICES ASSUME NEW s \in States
             PROVE  /\ {si[s].parent, si[s].first_child, si[s].next_sibling, si[s].mark, si[s].extptr}
                         \subseteq {NULL} \cup StatesOf(si[s].inst)
                    /\ \A x \in {si[s].first_child, si[s].next_sibling} \ {NULL} :
                         si[x].parent = IF x = si[s].first_child THEN s ELSE si[s].parent
                    /\ Elems(si[s].thread_list) = {t \in Threads : thr[t].si = s /\ ~ thr[t].once}
  BY DEF TreeIsLive
<1>1. LinksOK(s) /\ ListOK(s)
  BY DEF Tree
<1>2. ASSUME NEW x \in {si[s].first_child, si[s].next_sibling} \ {NULL}
      PROVE  si[x].parent = IF x = si[s].first_child THEN s ELSE si[s].parent
  BY <1>1 DEF LinksOK
<1>3. Elems(si[s].thread_list) = {t \in Threads : thr[t].si = s /\ ~ thr[t].once}
  BY <1>1 DEF ListOK, Waiting
<1>4. {si[s].parent, si[s].first_child, si[s].next_sibling, si[s].mark, si[s].extptr}
        \subseteq {NULL} \cup StatesOf(si[s].inst)
  BY <1>1 DEF LinksOK, Kin
<1> QED BY <1>2, <1>3, <1>4

\* Every set of numbers has a least one.
LEMMA LeastOf ==
  ASSUME NEW T \in SUBSET Nat, T # {}
  PROVE  \E n \in T : \A m \in T : n <= m
<1> DEFINE U == {1 .. n : n \in T}
<1> DEFINE R == StrictSubsetOrdering(Nat)
<1> DEFINE F == FiniteSubsetsOf(Nat)
<1>1. IsWellFoundedOn(R, F)
  BY FS_StrictSubsetOrderingWellFounded
<1>2. U \subseteq F
  <2> SUFFICES ASSUME NEW n \in T PROVE 1 .. n \in F
    OBVIOUS
  <2>1. IsFiniteSet(1 .. n)
    BY FS_Interval
  <2> QED BY <2>1 DEF FiniteSubsetsOf
<1>3. U # {}
  OBVIOUS
<1>4. PICK x \in U : \A y \in U : ~ (<< y, x >> \in R)
  <2> HIDE DEF U, R, F
  <2> QED BY <1>1, <1>2, <1>3, WFMin
<1>5. PICK n \in T : x = 1 .. n
  OBVIOUS
<1>6. ASSUME NEW m \in T, m < n PROVE FALSE
  <2>1. 1 .. m \in U
    OBVIOUS
  <2>2. 1 .. m \subseteq 1 .. n /\ 1 .. m # 1 .. n
    BY <1>6
  <2>3. << 1 .. m, 1 .. n >> \in R
    BY <2>2, <1>2, <2>1, <1>5 DEF StrictSubsetOrdering, FiniteSubsetsOf
  <2> QED BY <2>1, <2>3, <1>4, <1>5
<1> QED BY <1>6

\* cut() and mark_cut() end, as do the walks to the parent: some state
\* instance of every set has neither child nor sibling in it, and some has no
\* parent in it.
PathsEnd ==
  \A S \in SUBSET States :
    S # {} =>
      /\ \E s \in S : {si[s].first_child, si[s].next_sibling} \cap S = {}
      /\ \E s \in S : si[s].parent \notin S

\* The deepest state instances have no child in the set, and the eldest of them no
\* sibling either; the least deep ones have no parent.
LEMMA PathsConsequence == ASSUME Tree PROVE PathsEnd
<1> SUFFICES ASSUME NEW S \in SUBSET States, S # {}
             PROVE  /\ \E s \in S : {si[s].first_child, si[s].next_sibling} \cap S = {}
                    /\ \E s \in S : si[s].parent \notin S
  BY DEF PathsEnd
<1>1. PICK depth, born \in [StateId -> Nat], n \in Nat : Grows(depth, born, n)
  BY DEF Tree, Grown
<1>2. \A s \in S : /\ s \in States /\ depth[s] \in Nat /\ born[s] \in Nat /\ n - depth[s] \in Nat
                   /\ LinksOK(s)
  BY <1>1 DEF Grows, States, Tree
<1>3. \E s \in S : {si[s].first_child, si[s].next_sibling} \cap S = {}
  <2>1. PICK a \in {n - depth[s] : s \in S} : \A b \in {n - depth[s] : s \in S} : a <= b
    <3>1. {n - depth[s] : s \in S} \in SUBSET Nat /\ {n - depth[s] : s \in S} # {}
      BY <1>2
    <3> QED BY <3>1, LeastOf
  <2>2. PICK x \in S : a = n - depth[x]
    BY <2>1
  <2> DEFINE D == {s \in S : depth[s] = depth[x]}
  <2>3. PICK c \in {born[s] : s \in D} : \A b \in {born[s] : s \in D} : c <= b
    <3>1. {born[s] : s \in D} \in SUBSET Nat /\ {born[s] : s \in D} # {}
      BY <1>2, <2>2
    <3> HIDE DEF D
    <3> QED BY <3>1, LeastOf
  <2>4. PICK s \in D : c = born[s]
    BY <2>3
  <2>5. \A u \in S : depth[u] <= depth[s]
    <3>1. \A u \in S : n - depth[x] <= n - depth[u]
      BY <2>1, <2>2
    <3>2. \A u \in S : depth[u] \in Nat
      BY <1>2
    <3>3. depth[s] = depth[x]
      BY <2>4
    <3> HIDE DEF D
    <3>4. \A u \in S : depth[u] <= depth[x]
      BY <3>1, <3>2
    <3> QED BY <3>3, <3>4
  <2>6. \A u \in S : depth[u] = depth[s] => born[s] <= born[u]
    BY <2>3, <2>4
  <2>7. si[s].first_child \notin S
    <3>1. ASSUME NEW u \in S, u = si[s].first_child PROVE FALSE
      <4>1. u # NULL /\ s # NULL
        BY <1>2, <3>1, <2>4, NullIsNone DEF States
      <4>2. si[u].parent = s
        BY <1>2, <2>4, <3>1, <4>1 DEF LinksOK
      <4>3. depth[u] = depth[s] + 1
        BY <1>1, <1>2, <4>1, <4>2 DEF Grows
      <4> QED BY <1>2, <2>4, <2>5, <4>3
    <3> QED BY <3>1
  <2>8. si[s].next_sibling \notin S
    <3>1. ASSUME NEW u \in S, u = si[s].next_sibling PROVE FALSE
      <4>1. u # NULL
        BY <1>2, <3>1, NullIsNone DEF States
      <4>2. si[s].parent # NULL /\ si[u].parent = si[s].parent
        BY <1>2, <2>4, <3>1, <4>1 DEF LinksOK
      <4>3. /\ depth[u] = depth[si[u].parent] + 1 /\ depth[s] = depth[si[s].parent] + 1
            /\ born[u] < born[s]
        BY <1>1, <1>2, <2>4, <3>1, <4>1, <4>2 DEF Grows
      <4>4. depth[u] = depth[s]
        BY <4>2, <4>3
      <4> QED BY <1>2, <2>4, <2>6, <4>3, <4>4
    <3> QED BY <3>1
  <2> QED BY <2>4, <2>7, <2>8
<1>4. \E s \in S : si[s].parent \notin S
  <2>1. PICK a \in {depth[s] : s \in S} : \A b \in {depth[s] : s \in S} : a <= b
    <3>1. {depth[s] : s \in S} \in SUBSET Nat /\ {depth[s] : s \in S} # {}
      BY <1>2
    <3> QED BY <3>1, LeastOf
  <2>2. PICK s \in S : a = depth[s]
    BY <2>1
  <2>3. ASSUME si[s].parent \in S PROVE FALSE
    <3>1. si[s].parent # NULL
      BY <2>3, <1>2, NullIsNone DEF States
    <3>2. depth[s] = depth[si[s].parent] + 1
      BY <1>1, <1>2, <3>1 DEF Grows
    <3>3. depth[s] <= depth[si[s].parent]
      BY <2>1, <2>2, <2>3
    <3>4. depth[si[s].parent] \in Nat
      BY <1>2, <2>3
    <3> QED BY <3>2, <3>3, <3>4
  <2> QED BY <2>3
<1> QED BY <1>3, <1>4

-----------------------------------------------------------------------------
(* What becomes of the tree.                                                *)

\* State instances go with all their kin, or stay with their links; only marks
\* move, within the kin.
LinksKept ==
  /\ States' \subseteq States
  /\ \A s \in States' :
       /\ si'[s].inst = si[s].inst /\ si'[s].parent = si[s].parent
       /\ si'[s].first_child = si[s].first_child /\ si'[s].next_sibling = si[s].next_sibling
       /\ {si'[s].mark, si'[s].extptr} \subseteq Kin(s)
       /\ StatesOf(si[s].inst) \subseteq States'

\* Then the links are still right.
LEMMA LinksStay ==
  ASSUME Tree, LinksKept
  PROVE  (\A s \in States' : LinksOK(s)') /\ Grown'
<1>1. ASSUME NEW s \in States'
      PROVE  LinksOK(s)' /\ \A x \in Kin(s) : x # NULL => x \in States'
  <2>1. s \in States /\ LinksOK(s)
    BY DEF LinksKept, Tree
  <2>2. /\ si'[s].inst = si[s].inst /\ si'[s].parent = si[s].parent
        /\ si'[s].first_child = si[s].first_child /\ si'[s].next_sibling = si[s].next_sibling
        /\ {si'[s].mark, si'[s].extptr} \subseteq Kin(s)
        /\ StatesOf(si[s].inst) \subseteq States'
    BY DEF LinksKept
  <2>3. \A x \in Kin(s) : x # NULL => x \in States' /\ x \in StatesOf(si[s].inst)
    BY <2>2 DEF Kin
  <2>4. \A x \in StatesOf(si[s].inst) : si'[x].inst = si[s].inst /\ si'[x].parent = si[x].parent
    BY <2>2 DEF LinksKept, StatesOf
  <2>5. Kin(s) \subseteq Kin(s)'
    BY <2>2, <2>4 DEF Kin, StatesOf
  <2>6. /\ {si[s].parent, si[s].first_child, si[s].next_sibling} \subseteq Kin(s)
        /\ si[s].first_child # NULL => si[si[s].first_child].parent = s
        /\ si[s].next_sibling # NULL =>
             si[s].parent # NULL /\ si[si[s].next_sibling].parent = si[s].parent
    BY <2>1 DEF LinksOK
  <2>7. si'[s].first_child # NULL => si'[si'[s].first_child].parent = s
    BY <2>2, <2>3, <2>4, <2>6
  <2>8. si'[s].next_sibling # NULL =>
          si'[s].parent # NULL /\ si'[si'[s].next_sibling].parent = si'[s].parent
    BY <2>2, <2>3, <2>4, <2>6
  <2>9. /\ {si'[s].parent, si'[s].first_child, si'[s].next_sibling} \subseteq Kin(s)'
        /\ {si'[s].mark, si'[s].extptr} \subseteq Kin(s)'
    BY <2>2, <2>5, <2>6
  <2> QED BY <2>3, <2>7, <2>8, <2>9 DEF LinksOK
<1>2. Grown'
  <2>1. PICK depth, born \in [StateId -> Nat], n \in Nat : Grows(depth, born, n)
    BY DEF Tree, Grown
  <2>2. Grows(depth, born, n)'
    BY <2>1 DEF Grows, LinksKept
  <2> QED BY <2>2 DEF Grown
<1> QED BY <1>1, <1>2

\* A state instance f is new: the first child of p, or the initial one.
ChildAdded(f, p) ==
  /\ f \in StateId /\ f \notin States /\ States' = States \cup {f} /\ p \in {NULL} \cup States
  /\ \A s \in States :
       /\ si'[s].inst = si[s].inst /\ si'[s].parent = si[s].parent
       /\ si'[s].first_child = (IF s = p THEN f ELSE si[s].first_child)
       /\ si'[s].next_sibling = si[s].next_sibling
       /\ si'[s].mark = si[s].mark /\ si'[s].extptr = si[s].extptr
  /\ si'[f].parent = p /\ si'[f].first_child = NULL /\ si'[f].extptr = NULL
  /\ IF p = NULL THEN si'[f].next_sibling = NULL /\ si'[f].mark = NULL
     ELSE /\ si'[f].inst = si[p].inst /\ si'[f].mark = si[p].mark
          /\ si'[f].next_sibling = si[p].first_child

\* It is the deepest of its path and the last born.
LEMMA LinksGrow ==
  ASSUME Tree, NEW f, NEW p, ChildAdded(f, p)
  PROVE  (\A s \in States' : LinksOK(s)') /\ Grown'
<1>1. /\ f \in StateId /\ f \notin States /\ States' = States \cup {f} /\ p \in {NULL} \cup States
      /\ f # NULL /\ NULL \notin States
  BY NullIsNone DEF ChildAdded, States
<1>2. ASSUME NEW s \in States
      PROVE  /\ si'[s].inst = si[s].inst /\ si'[s].parent = si[s].parent
             /\ si'[s].first_child = (IF s = p THEN f ELSE si[s].first_child)
             /\ si'[s].next_sibling = si[s].next_sibling
             /\ si'[s].mark = si[s].mark /\ si'[s].extptr = si[s].extptr
             /\ LinksOK(s) /\ Kin(s) \subseteq {NULL} \cup States /\ Kin(s) \subseteq Kin(s)'
  <2>1. /\ si'[s].inst = si[s].inst /\ si'[s].parent = si[s].parent
        /\ si'[s].first_child = (IF s = p THEN f ELSE si[s].first_child)
        /\ si'[s].next_sibling = si[s].next_sibling
        /\ si'[s].mark = si[s].mark /\ si'[s].extptr = si[s].extptr
    BY DEF ChildAdded
  <2>2. \A x \in StatesOf(si[s].inst) : x \in States
    BY DEF StatesOf, States
  <2>3. Kin(s) \subseteq Kin(s)'
    BY <2>1, <2>2 DEF Kin, StatesOf, ChildAdded
  <2> QED BY <2>1, <2>2, <2>3 DEF Kin, Tree
<1>3. /\ si'[f].parent = p /\ si'[f].first_child = NULL /\ si'[f].extptr = NULL
      /\ IF p = NULL THEN si'[f].next_sibling = NULL /\ si'[f].mark = NULL
         ELSE /\ si'[f].inst = si[p].inst /\ si'[f].mark = si[p].mark
              /\ si'[f].next_sibling = si[p].first_child
  BY DEF ChildAdded
<1>4. p # NULL => p \in States /\ f \in Kin(p)' /\ Kin(p)' = Kin(f)' /\ p \in Kin(p)
  BY <1>1, <1>2, <1>3 DEF Kin, StatesOf, States
<1>5. ASSUME NEW s \in States PROVE LinksOK(s)'
  <2>1. /\ si[s].parent \in Kin(s) /\ si[s].next_sibling \in Kin(s) /\ si[s].first_child \in Kin(s)
        /\ si[s].mark \in Kin(s) /\ si[s].extptr \in Kin(s)
        /\ si[s].first_child # NULL => si[si[s].first_child].parent = s
        /\ si[s].next_sibling # NULL =>
             si[s].parent # NULL /\ si[si[s].next_sibling].parent = si[s].parent
    BY <1>2 DEF LinksOK
  <2>2. si[s].next_sibling # NULL => si[s].next_sibling \in States
    BY <1>2, <2>1
  <2>3. si[s].first_child # NULL => si[s].first_child \in States
    BY <1>2, <2>1
  <2>4. si'[s].first_child \in Kin(s)' /\ (si'[s].first_child # NULL => si'[si'[s].first_child].parent = s)
    <3>1. CASE s = p
      BY <1>1, <1>2, <1>3, <1>4, <3>1
    <3>2. CASE s # p
      BY <1>2, <2>1, <2>3, <3>2
    <3> QED BY <3>1, <3>2
  <2>5. si'[s].next_sibling # NULL =>
          si'[s].parent # NULL /\ si'[si'[s].next_sibling].parent = si'[s].parent
    BY <1>2, <2>1, <2>2
  <2>6. /\ si'[s].parent \in Kin(s)' /\ si'[s].next_sibling \in Kin(s)'
        /\ si'[s].mark \in Kin(s)' /\ si'[s].extptr \in Kin(s)'
    BY <1>2, <2>1
  <2> QED BY <2>4, <2>5, <2>6 DEF LinksOK
<1>6. LinksOK(f)'
  <2>1. CASE p = NULL
    BY <1>3, <2>1 DEF LinksOK, Kin
  <2>2. CASE p # NULL
    <3>1. p \in States /\ Kin(p) \subseteq Kin(f)' /\ p \in Kin(f)' /\ LinksOK(p) /\ NULL \in Kin(f)'
      BY <1>2, <1>4, <2>2 DEF Kin
    <3>2. /\ si[p].first_child \in Kin(p) /\ si[p].mark \in Kin(p)
          /\ si[p].first_child # NULL => si[si[p].first_child].parent = p
      BY <3>1 DEF LinksOK
    <3>3. si[p].first_child # NULL =>
            si[p].first_child \in States /\ si'[si[p].first_child].parent = p
      BY <1>2, <3>1, <3>2
    <3>4. /\ si'[f].parent \in Kin(f)' /\ si'[f].first_child \in Kin(f)' /\ si'[f].next_sibling \in Kin(f)'
          /\ si'[f].mark \in Kin(f)' /\ si'[f].extptr \in Kin(f)'
      BY <1>3, <2>2, <3>1, <3>2
    <3> QED BY <1>3, <2>2, <3>3, <3>4 DEF LinksOK
  <2> QED BY <2>1, <2>2
<1>7. Grown'
  <2>1. PICK depth, born \in [StateId -> Nat], n \in Nat : Grows(depth, born, n)
    BY DEF Tree, Grown
  <2> DEFINE depth2 == [depth EXCEPT ![f] = IF p = NULL THEN 0 ELSE depth[p] + 1]
             born2  == [born EXCEPT ![f] = n]
  <2>2. p # NULL => depth[p] \in Nat /\ depth[p] < n
    BY <1>4, <2>1 DEF Grows, States
  <2>3. /\ depth2 \in [StateId -> Nat] /\ born2 \in [StateId -> Nat] /\ n + 1 \in Nat
        /\ depth2[f] = (IF p = NULL THEN 0 ELSE depth[p] + 1) /\ born2[f] = n
        /\ \A s \in States : depth2[s] = depth[s] /\ born2[s] = born[s]
    BY <1>1, <2>2 DEF States
  <2> HIDE DEF depth2, born2
  <2>4. ASSUME NEW s \in States
        PROVE  /\ depth2[s] < n + 1 /\ born2[s] < n + 1
               /\ si'[s].parent # NULL => depth2[s] = depth2[si'[s].parent] + 1
               /\ si'[s].next_sibling # NULL => born2[si'[s].next_sibling] < born2[s]
    <3>1. /\ depth[s] < n /\ born[s] < n /\ depth[s] \in Nat /\ born[s] \in Nat
          /\ si[s].parent # NULL => depth[s] = depth[si[s].parent] + 1
          /\ si[s].next_sibling # NULL => born[si[s].next_sibling] < born[s]
      BY <2>1 DEF Grows, States
    <3>2. /\ si[s].parent # NULL => si[s].parent \in States
          /\ si[s].next_sibling # NULL => si[s].next_sibling \in States
      BY <1>2 DEF LinksOK
    <3>3. /\ si'[s].parent # NULL => depth2[s] = depth2[si'[s].parent] + 1
          /\ si'[s].next_sibling # NULL => born2[si'[s].next_sibling] < born2[s]
      BY <1>2, <2>3, <3>1, <3>2
    <3> QED BY <2>3, <3>1, <3>3
  <2>5. /\ depth2[f] < n + 1 /\ born2[f] < n + 1
        /\ si'[f].parent # NULL => depth2[f] = depth2[si'[f].parent] + 1
        /\ si'[f].next_sibling # NULL => born2[si'[f].next_sibling] < born2[f]
    <3>1. CASE p = NULL
      BY <1>3, <2>3, <3>1
    <3>2. CASE p # NULL
      <4>1. si[p].first_child # NULL => si[p].first_child \in States
        BY <1>2, <1>4, <3>2 DEF LinksOK
      <4>2. si[p].first_child # NULL => born[si[p].first_child] < n
        BY <2>1, <4>1 DEF Grows
      <4> QED BY <1>3, <1>4, <2>2, <2>3, <3>2, <4>1, <4>2
    <3> QED BY <3>1, <3>2
  <2>6. Grows(depth2, born2, n + 1)'
    BY <1>1, <2>4, <2>5 DEF Grows
  <2> QED BY <2>3, <2>6 DEF Grown
<1> QED BY <1>1, <1>5, <1>6, <1>7

\* The list of a state instance that keeps its threads.
LEMMA ListStays ==
  ASSUME Tree, NEW s \in States, si'[s].thread_list = si[s].thread_list,
         \A t \in ThreadId : thr[t].si = s /\ ~ thr[t].once <=> thr'[t].si = s /\ ~ thr'[t].once
  PROVE  ListOK(s)'
<1>1. ListOK(s) /\ s # NULL
  BY NullIsNone DEF Tree, States
<1>2. Waiting(s)' = Waiting(s)
  BY <1>1 DEF Waiting, Threads
<1> QED BY <1>1, <1>2 DEF ListOK

\* A step that only marks threads and leaves the state instances alone.
LEMMA TreeStays ==
  ASSUME Tree, \A t \in ThreadId : thr'[t].si = thr[t].si /\ thr'[t].once = thr[t].once,
         si' = si
  PROVE  Tree'
<1>1. States' = States
  BY DEF States
<1>2. LinksKept
  <2>1. \A s \in States : LinksOK(s) /\ StatesOf(si[s].inst) \subseteq States
    BY DEF Tree, StatesOf, States
  <2> QED BY <1>1, <2>1 DEF LinksKept, LinksOK
<1>3. \A s \in States : ListOK(s)'
  BY ListStays
<1> QED BY <1>1, <1>2, <1>3, LinksStay DEF Tree

\* A rule instance goes with its state instances, and no other thread waits in them.
LEMMA InstanceTree ==
  ASSUME Inv, Tree, NEW i \in Insts, si' = FreedStates(i),
         \A t \in Threads' : /\ t \in Threads /\ thr'[t].si = thr[t].si /\ thr'[t].once = thr[t].once
                             /\ InstOf(t) # i,
         \A t \in Threads : InstOf(t) # i => t \in Threads'
  PROVE  Tree'
<1>1. i # NULL
  BY NullIsNone DEF Insts
<1>2. \A s \in StateId : si'[s] = IF si[s].inst = i THEN NullState ELSE si[s]
  BY DEF FreedStates
<1>3. NullState.inst = NULL
  BY DEF NullState
<1>4. /\ States' = {s \in States : si[s].inst # i}
      /\ \A s \in States' : s \in States /\ si'[s] = si[s] /\ si[s].inst # i
  <2> HIDE DEF NullState
  <2> QED BY <1>1, <1>2, <1>3 DEF States
<1>5. LinksKept
  <2>1. \A s \in States' : LinksOK(s) /\ StatesOf(si[s].inst) \subseteq States'
    BY <1>4 DEF Tree, StatesOf, States
  <2> QED BY <1>4, <2>1 DEF LinksKept, LinksOK
<1>6. ASSUME NEW s \in States' PROVE ListOK(s)'
  <2>1. s \in States /\ si'[s] = si[s] /\ si[s].inst # i /\ ListOK(s)
    BY <1>4 DEF Tree
  <2>2. \A t \in Threads : thr[t].si = s => InstOf(t) # i
    BY <2>1 DEF InstOf
  <2>3. Waiting(s)' = Waiting(s)
    BY <2>2 DEF Waiting
  <2> QED BY <2>1, <2>3 DEF ListOK
<1> QED BY <1>4, <1>5, <1>6, LinksStay DEF Tree

-----------------------------------------------------------------------------
(* The simulation.                                                          *)

\* A state is entered: its action may move the marks.
LEMMA EnterTree ==
  ASSUME Inv, Tree, Entering, RunAction, NEW S, thr' = Kill(thr, S) PROVE Tree'
<1>a. PICK x : x = Top.si
  OBVIOUS
<1>1. x \in States /\ x \in StateId /\ x # NULL
  BY <1>a, EnteringKeeps, NullIsNone
<1>2. /\ \A t \in ThreadId : thr'[t].si = thr[t].si /\ thr'[t].once = thr[t].once
      /\ \A s \in StateId : si'[s].inst = si[s].inst
  BY EnteringKeeps, KillKeeps DEF Inv
<1>3. \A s \in StateId :
        /\ si'[s].parent = si[s].parent
        /\ si'[s].first_child = si[s].first_child /\ si'[s].next_sibling = si[s].next_sibling
        /\ si'[s].thread_list = si[s].thread_list
        /\ si'[s].mark = IF s = x THEN MarkOf(x) ELSE si[s].mark
        /\ si'[s].extptr = si[s].extptr \/ (s = MarkOf(x) /\ si'[s].extptr = x)
  BY <1>a, <1>1, ActionTree DEF Inv
<1>4. States' = States
  BY <1>2 DEF States
<1>5. \A s \in States : LinksOK(s) /\ s \in StateId /\ s # NULL
  BY NullIsNone DEF Tree, States
<1>6. MarkOf(x) \in Kin(x)
  <2>1. x \in Kin(x) /\ si[x].mark \in Kin(x)
    BY <1>1, <1>5 DEF LinksOK, Kin, StatesOf
  <2> QED BY <2>1 DEF MarkOf
<1>7. ASSUME NEW s \in States
      PROVE  {si'[s].mark, si'[s].extptr} \subseteq Kin(s) /\ StatesOf(si[s].inst) \subseteq States
  <2>1. si'[s].mark \in Kin(s)
    BY <1>3, <1>5, <1>6 DEF LinksOK
  <2>2. s = MarkOf(x) => x \in Kin(s)
    BY <1>1, <1>5, <1>6 DEF Kin, StatesOf
  <2>3. si'[s].extptr \in Kin(s)
    BY <1>3, <1>5, <2>2 DEF LinksOK
  <2>4. StatesOf(si[s].inst) \subseteq States
    BY DEF StatesOf, States
  <2> QED BY <2>1, <2>3, <2>4
<1>8. LinksKept
  BY <1>2, <1>3, <1>4, <1>5, <1>7 DEF LinksKept
<1>9. \A s \in States : ListOK(s)'
  BY <1>2, <1>3, <1>5, ListStays
<1> QED BY <1>4, <1>8, <1>9, LinksStay DEF Tree

\* A state instance is new: nobody waits in it.
LEMMA AddedTree ==
  ASSUME Inv, Tree, NEW f, NEW p, ChildAdded(f, p), thr' = thr,
         \A s \in States : si'[s].thread_list = si[s].thread_list, si'[f].thread_list = << >>
  PROVE  Tree'
<1>1. States' = States \cup {f} /\ f \notin States
  BY DEF ChildAdded
<1>2. \A s \in States : ListOK(s)'
  BY ListStays
<1>3. ListOK(f)'
  <2>1. Waiting(f)' = {}
    BY <1>1 DEF Waiting, Threads, Inv, Live
  <2> QED BY <2>1 DEF ListOK, Elems, Distinct
<1> QED BY <1>1, <1>2, <1>3, LinksGrow DEF Tree

\* A transition is passed or matched.
LEMMA ChildJoins ==
  ASSUME Inv, Tree, NEW s \in States, States # StateId, NEW dest, NEW e,
         si' = WithChild(s, dest, e), thr' = thr
  PROVE  Tree'
<1>a. PICK f : f = FreeState
  OBVIOUS
<1>1. f \in StateId /\ f \notin States /\ si[f].inst = NULL /\ s \in StateId /\ s # NULL
  BY <1>a, MallocState, NullIsNone DEF States
<1>2. \A x \in StateId :
        /\ si'[x].parent = IF x = f THEN s ELSE si[x].parent
        /\ si'[x].first_child = IF x = f THEN NULL
                                ELSE IF x = s THEN f ELSE si[x].first_child
        /\ si'[x].next_sibling = IF x = f THEN si[s].first_child ELSE si[x].next_sibling
        /\ si'[x].thread_list = IF x = f THEN << >> ELSE si[x].thread_list
        /\ si'[x].mark = IF x = f THEN si[s].mark ELSE si[x].mark
        /\ si'[x].extptr = IF x = f THEN NULL ELSE si[x].extptr
  BY <1>a, ChildTree DEF Inv
<1>3. \A x \in StateId : si'[x].inst = IF x = f THEN si[s].inst ELSE si[x].inst
  BY <1>a, ChildIs DEF Inv
<1>4. States' = States \cup {f}
  BY <1>1, <1>3 DEF States
<1>5. \A x \in States : x \in StateId /\ x # f
  BY <1>1 DEF States
<1>6. ChildAdded(f, s)
  <2>1. \A x \in States :
          /\ si'[x].inst = si[x].inst /\ si'[x].parent = si[x].parent
          /\ si'[x].first_child = (IF x = s THEN f ELSE si[x].first_child)
          /\ si'[x].next_sibling = si[x].next_sibling
          /\ si'[x].mark = si[x].mark /\ si'[x].extptr = si[x].extptr
    BY <1>2, <1>3, <1>5
  <2>2. /\ si'[f].parent = s /\ si'[f].first_child = NULL /\ si'[f].extptr = NULL
        /\ si'[f].inst = si[s].inst /\ si'[f].mark = si[s].mark
        /\ si'[f].next_sibling = si[s].first_child
    BY <1>1, <1>2, <1>3
  <2> QED BY <1>1, <1>4, <2>1, <2>2 DEF ChildAdded
<1> QED BY <1>1, <1>2, <1>5, <1>6, AddedTree

\* An e-transition passes.
LEMMA PassTree == ASSUME Inv, Tree, PassETransition PROVE Tree'
<1>1. /\ pc = "simul" /\ States # StateId /\ thr' = thr
      /\ si' = WithChild(Top.si, TopTrans[Top.t].dest, NULL)
  BY DEF PassETransition, AtTransition
<1>2. Top.si \in States
  BY <1>1, AdvanceAt DEF Inv, Control, Top
<1> QED BY <1>1, <1>2, ChildJoins

\* The first state instance of a new rule instance.
LEMMA CreateInitialTree == ASSUME Inv, Tree, CreateInitialInstance PROVE Tree'
<1>a. PICK f : f = FreeState
  OBVIOUS
<1>b. PICK i : i = FreeInst
  OBVIOUS
<1>1. /\ States # StateId /\ Insts # InstId /\ thr' = thr
      /\ si' = [si EXCEPT ![f] = [NullState EXCEPT !.inst = i, !.state = 1]]
  BY <1>a, <1>b DEF CreateInitialInstance
<1>2. f \in StateId /\ f \notin States /\ i # NULL
  BY <1>a, <1>b, <1>1, MallocState, MallocInst, NullIsNone
<1>3. /\ \A s \in StateId : s # f => si'[s] = si[s]
      /\ si'[f] = [NullState EXCEPT !.inst = i, !.state = 1]
  BY <1>1, <1>2 DEF Inv, Shape
<1>4. /\ si'[f].inst = i /\ si'[f].parent = NULL /\ si'[f].first_child = NULL
      /\ si'[f].next_sibling = NULL /\ si'[f].mark = NULL /\ si'[f].extptr = NULL
      /\ si'[f].thread_list = << >>
  BY <1>3 DEF NullState
<1>5. States' = States \cup {f}
  BY <1>2, <1>3, <1>4 DEF States
<1>6. \A s \in States : s \in StateId /\ s # f /\ si'[s] = si[s] /\ s # NULL
  BY <1>2, <1>3, NullIsNone DEF States
<1>7. ChildAdded(f, NULL)
  BY <1>2, <1>4, <1>5, <1>6 DEF ChildAdded
<1> QED BY <1>1, <1>4, <1>6, <1>7, AddedTree

\* Lists of threads change, and no link.
LEMMA RelinkedTree ==
  ASSUME Inv, Tree, NEW x \in StateId, NEW list, si' = [si EXCEPT ![x].thread_list = list]
  PROVE  /\ States' = States /\ si'[x].thread_list = list
         /\ \A s \in StateId : s # x => si'[s] = si[s]
         /\ (\A s \in States : LinksOK(s)') /\ Grown'
<1>1. /\ \A s \in StateId : IsState(si[s])
      /\ \A s \in StateId : si'[s] = IF s = x THEN [si[s] EXCEPT !.thread_list = list] ELSE si[s]
  BY DEF Inv, Shape
<1>2. \A s \in StateId :
        /\ si'[s].inst = si[s].inst /\ si'[s].parent = si[s].parent
        /\ si'[s].first_child = si[s].first_child /\ si'[s].next_sibling = si[s].next_sibling
        /\ si'[s].mark = si[s].mark /\ si'[s].extptr = si[s].extptr
  <2> TAKE s \in StateId
  <2>1. IsState(si[s]) /\ (si'[s] = si[s] \/ si'[s] = [si[s] EXCEPT !.thread_list = list])
    BY <1>1
  <2> QED BY ONLY <2>1 DEF IsState
<1>3. si'[x].thread_list = list
  <2>1. IsState(si[x]) /\ si'[x] = [si[x] EXCEPT !.thread_list = list]
    BY <1>1
  <2> QED BY ONLY <2>1 DEF IsState
<1>4. States' = States
  BY <1>2 DEF States
<1>5. LinksKept
  <2>1. \A s \in States : LinksOK(s) /\ s \in StateId /\ StatesOf(si[s].inst) \subseteq States
    BY DEF Tree, StatesOf, States
  <2>2. \A s \in States : {si'[s].mark, si'[s].extptr} \subseteq Kin(s)
    BY <1>2, <2>1 DEF LinksOK
  <2> QED BY <1>2, <1>4, <2>1, <2>2 DEF LinksKept
<1> QED BY <1>1, <1>3, <1>4, <1>5, LinksStay

\* A thread that is not an initial one is the first of its list.
LEMMA ThreadTree == ASSUME Inv, Tree, CreateThread PROVE Tree'
<1>a. PICK f : f = FreeThread
  OBVIOUS
<1>b. PICK x : x = Top.si
  OBVIOUS
<1>c. PICK list : list = IF phase = "init" THEN si[x].thread_list ELSE << f >> \o si[x].thread_list
  OBVIOUS
<1>1. /\ pc = "simul" /\ Threads # ThreadId /\ thr' = [thr EXCEPT ![f] = NewThread]
      /\ si' = [si EXCEPT ![x].thread_list = list]
  BY <1>a, <1>b, <1>c DEF CreateThread, AtTransition, InThreadList
<1>2. x \in States /\ x \in StateId /\ x # NULL
  BY <1>b, <1>1, AdvanceAt, NullIsNone DEF Inv, Control, Top, States
<1>3. f \in ThreadId /\ f \notin Threads
  BY <1>a, <1>1, MallocThread
<1>4. /\ thr'[f].si = x /\ (thr'[f].once <=> phase = "init")
      /\ \A t \in ThreadId : t # f => thr'[t] = thr[t]
  <2>1. thr'[f] = NewThread /\ \A t \in ThreadId : t # f => thr'[t] = thr[t]
    BY <1>1, <1>3 DEF Inv, Shape
  <2>2. NewThread.si = Top.si /\ (NewThread.once <=> phase = "init")
    BY DEF NewThread
  <2> HIDE DEF NewThread
  <2> QED BY <1>b, <2>1, <2>2
<1>5. /\ States' = States /\ si'[x].thread_list = list
      /\ \A s \in StateId : s # x => si'[s] = si[s]
      /\ (\A s \in States : LinksOK(s)') /\ Grown'
  BY <1>1, <1>2, RelinkedTree
<1>6. Threads' = Threads \cup {f}
  BY <1>2, <1>3, <1>4 DEF Threads
<1>7. ASSUME NEW s \in States PROVE Waiting(s)' =
        IF s = x /\ phase # "init" THEN Waiting(s) \cup {f} ELSE Waiting(s)
  <2>1. \A t \in Threads : t \in ThreadId /\ t # f /\ thr'[t] = thr[t]
    BY <1>3, <1>4 DEF Threads
  <2> QED BY <1>4, <1>6, <2>1 DEF Waiting
<1>8. ListOK(x)'
  <2>1. ListOK(x)
    BY <1>2 DEF Tree
  <2>2. CASE phase = "init"
    BY <1>c, <1>2, <1>5, <1>7, <2>1, <2>2 DEF ListOK
  <2>3. CASE phase # "init"
    <3>1. /\ si[x].thread_list \in Seq(ThreadId) /\ Distinct(si[x].thread_list)
          /\ Elems(si[x].thread_list) = Waiting(x) /\ f \notin Waiting(x)
      BY <1>3, <2>1 DEF ListOK, Waiting
    <3>2. /\ << f >> \in Seq(ThreadId) /\ Elems(<< f >>) = {f} /\ Distinct(<< f >>)
      BY <1>3 DEF Elems, Distinct
    <3>3. Disjoint(<< f >>, si[x].thread_list)
      BY <3>1, <3>2 DEF Disjoint
    <3>4. list \in Seq(ThreadId) /\ Elems(list) = {f} \cup Waiting(x) /\ Distinct(list)
      BY <1>c, <2>3, <3>1, <3>2, <3>3, Joined
    <3> QED BY <1>2, <1>5, <1>7, <2>3, <3>4 DEF ListOK
  <2> QED BY <2>2, <2>3
<1>9. ASSUME NEW s \in States, s # x PROVE ListOK(s)'
  <2>1. ListOK(s) /\ si'[s] = si[s] /\ Waiting(s)' = Waiting(s)
    BY <1>5, <1>7, <1>9 DEF Tree, States
  <2> QED BY <2>1 DEF ListOK
<1> QED BY <1>5, <1>8, <1>9 DEF Tree

-----------------------------------------------------------------------------
(* The initial threads and the evt-loop.                                    *)

\* An instance that never began goes; it has no thread.
LEMMA DropTree == ASSUME Inv, Tree, NoInitialThreads, DropInitialInstance PROVE Tree'
<1>a. PICK i : i = Subject
  OBVIOUS
<1>1. /\ pc = "ret" /\ phase = "init" /\ ret <= 0 /\ thr' = thr /\ si' = FreedStates(i)
  BY <1>a DEF DropInitialInstance, InitReturned, Subject, FreeRuleInstance
<1>2. i \in Insts
  BY <1>a, <1>1 DEF Inv, Control, Live, Subject
<1>3. \A t \in Threads : InstOf(t) # i
  BY <1>a, <1>1 DEF NoInitialThreads, InitReturned, Subject, ThreadsOf
<1>4. Threads' = Threads
  BY <1>1 DEF Threads
<1> QED BY <1>1, <1>2, <1>3, <1>4, InstanceTree

\* The place of a thread in its list closes up.
LEMMA UnlinkedList ==
  ASSUME NEW list \in Seq(ThreadId), Distinct(list), NEW t \in Elems(list),
         NEW at \in 1 .. Len(list), list[at] = t
  PROVE  \A rest : rest = SubSeq(list, 1, at - 1) \o SubSeq(list, at + 1, Len(list)) =>
           rest \in Seq(ThreadId) /\ Elems(rest) = Elems(list) \ {t} /\ Distinct(rest)
<1> SUFFICES ASSUME NEW rest,
                    rest = SubSeq(list, 1, at - 1) \o SubSeq(list, at + 1, Len(list))
             PROVE  rest \in Seq(ThreadId) /\ Elems(rest) = Elems(list) \ {t} /\ Distinct(rest)
  OBVIOUS
<1>1. DOMAIN list = 1 .. Len(list) /\ Len(list) \in Nat /\ \A n \in 1 .. Len(list) : list[n] \in ThreadId
  BY LenProperties, ElementOfSeq
<1>2. at \in 1 .. Len(list) /\ at \in Nat /\ list[at] = t
  BY <1>1
<1> DEFINE p == SubSeq(list, 1, at - 1)
           q == SubSeq(list, at + 1, Len(list))
<1>3. /\ p \in Seq(ThreadId) /\ Len(p) = at - 1 /\ \A n \in 1 .. Len(p) : p[n] = list[n]
      /\ q \in Seq(ThreadId) /\ Len(q) = Len(list) - at /\ \A n \in 1 .. Len(q) : q[n] = list[n + at]
  <2>1. at - 1 \in 0 .. Len(list) /\ 1 \in 1 .. Len(list) + 1 /\ at + 1 \in 1 .. Len(list) + 1
    BY <1>1, <1>2
  <2>2. \A n \in 1 .. at - 1 : n \in 1 .. Len(list)
    BY <1>1, <1>2
  <2>3. \A n \in at + 1 .. Len(list) : n \in 1 .. Len(list)
    BY <1>1, <1>2
  <2>4. /\ p \in Seq(ThreadId) /\ Len(p) = (IF 1 <= at - 1 THEN at - 1 - 1 + 1 ELSE 0)
        /\ \A n \in 1 .. at - 1 - 1 + 1 : p[n] = list[1 + n - 1]
    BY <1>1, <2>1, <2>2, SubSeqProperties
  <2>5. /\ q \in Seq(ThreadId) /\ Len(q) = (IF at + 1 <= Len(list) THEN Len(list) - (at + 1) + 1 ELSE 0)
        /\ \A n \in 1 .. Len(list) - (at + 1) + 1 : q[n] = list[at + 1 + n - 1]
    BY <1>1, <2>1, <2>3, SubSeqProperties
  <2> HIDE DEF p, q
  <2>6. p \in Seq(ThreadId) /\ Len(p) = at - 1 /\ \A n \in 1 .. Len(p) : p[n] = list[n]
    BY <1>1, <1>2, <2>4
  <2>7. q \in Seq(ThreadId) /\ Len(q) = Len(list) - at /\ \A n \in 1 .. Len(q) : q[n] = list[n + at]
    <3>1. q \in Seq(ThreadId) /\ Len(q) = Len(list) - at
      BY <1>1, <1>2, <2>5
    <3>2. ASSUME NEW n \in 1 .. Len(q) PROVE q[n] = list[n + at]
      <4>1. n \in 1 .. Len(list) - (at + 1) + 1 /\ at + 1 + n - 1 = n + at
        BY <1>1, <1>2, <3>1
      <4>2. q[n] = list[at + 1 + n - 1]
        BY <2>5, <4>1
      <4> QED BY <4>1, <4>2
    <3> QED BY <3>1, <3>2
  <2> QED BY <2>6, <2>7
<1>4. DOMAIN p = 1 .. at - 1 /\ DOMAIN q = 1 .. Len(list) - at
  BY <1>3, LenProperties
<1>5. rest = p \o q
  OBVIOUS
<1> HIDE DEF p, q
<1>6. Elems(p) \cup Elems(q) = Elems(list) \ {t}
  <2>1. ASSUME NEW u \in Elems(p) \cup Elems(q) PROVE u \in Elems(list) \ {t}
    <3>1. PICK n \in 1 .. Len(list) : u = list[n] /\ n # at
      BY SMTT(60), <1>1, <1>2, <1>3, <1>4 DEF Elems
    <3> QED BY <1>1, <1>2, <3>1 DEF Elems, Distinct
  <2>2. ASSUME NEW n \in 1 .. Len(list), list[n] # t PROVE list[n] \in Elems(p) \cup Elems(q)
    <3>1. CASE n < at
      <4>1. n \in DOMAIN p /\ p[n] = list[n]
        BY <1>1, <1>2, <1>3, <1>4, <3>1
      <4> QED BY <4>1 DEF Elems
    <3>2. CASE n > at
      <4>1. n - at \in DOMAIN q /\ q[n - at] = list[n]
        BY <1>1, <1>2, <1>3, <1>4, <3>2
      <4> QED BY <4>1 DEF Elems
    <3> QED BY <1>1, <1>2, <2>2, <3>1, <3>2
  <2> QED BY <1>1, <2>1, <2>2 DEF Elems
<1>7. Disjoint(p, q)
  <2> SUFFICES ASSUME NEW m \in DOMAIN p, NEW n \in DOMAIN q, p[m] = q[n] PROVE FALSE
    BY DEF Disjoint, Elems
  <2>1. /\ m \in 1 .. Len(list) /\ n + at \in 1 .. Len(list) /\ m # n + at
        /\ list[m] = list[n + at]
    <3>1. m \in 1 .. at - 1 /\ n \in 1 .. Len(list) - at
      BY <1>4
    <3>2. p[m] = list[m] /\ q[n] = list[n + at]
      BY <1>3, <3>1
    <3>3. m \in 1 .. Len(list) /\ n + at \in 1 .. Len(list) /\ m # n + at
      <4>1. /\ Len(list) \in Nat /\ at \in Nat /\ at <= Len(list) /\ m \in Nat /\ n \in Nat
            /\ 1 <= m /\ m <= at - 1 /\ 1 <= n /\ n <= Len(list) - at
        BY <1>1, <1>2, <3>1
      <4> QED BY ONLY <4>1
    <3> QED BY <3>2, <3>3
  <2> QED BY <1>1, <2>1 DEF Distinct
<1>8. Distinct(p) /\ Distinct(q)
  <2>1. Distinct(p)
    BY <1>1, <1>2, <1>3, <1>4 DEF Distinct
  <2>2. ASSUME NEW m \in DOMAIN q, NEW n \in DOMAIN q, q[m] = q[n] PROVE m = n
    <3>1. m + at \in DOMAIN list /\ n + at \in DOMAIN list /\ list[m + at] = list[n + at]
      BY <1>1, <1>2, <1>3, <1>4, <2>2
    <3>2. m + at = n + at
      BY <3>1 DEF Distinct
    <3> QED BY <1>2, <1>4, <3>2
  <2> QED BY <2>1, <2>2 DEF Distinct
<1>9. p \in Seq(ThreadId) /\ q \in Seq(ThreadId)
  BY <1>3
<1>10. p \o q \in Seq(ThreadId) /\ Elems(p \o q) = Elems(p) \cup Elems(q) /\ Distinct(p \o q)
  BY <1>7, <1>8, <1>9, Joined
<1> QED BY <1>5, <1>6, <1>10

\* A thread that goes is taken out of the list of its state instance (engine.c:311).
LEMMA ReapTree ==
  ASSUME Inv, Tree, AtHead, LoopGoesOn, NEW th, LockMarks(th), Reap(Head(cur), th)
  PROVE  Tree'
<1>a. PICK t : t = Head(cur)
  OBVIOUS
<1>b. PICK i : i = InstOf(t)
  OBVIOUS
<1>c. PICK x : x = thr[t].si
  OBVIOUS
<1>1. t \in Threads /\ t \in ThreadId /\ i \in Insts /\ i \in InstId /\ x \in StateId
  BY <1>a, <1>b, <1>c, HeadLives DEF AtHead
<1>2. ri[i].linked
  BY <1>1 DEF AtHead, Inv, Initial
<1>3. /\ thr' = [th EXCEPT ![t] = NullThread]
      /\ ri[i].threads - 1 = 0 => FreeRuleInstance(i, ctx.threads - 1)
      /\ ri[i].threads - 1 # 0 =>
           si' = IF ri[i].threads = 1 THEN si ELSE [si EXCEPT ![x].thread_list = Unlinked(t)]
  BY <1>a, <1>b, <1>c, <1>2 DEF Reap
<1>4. \A u \in ThreadId : /\ u = t => thr'[u].si = NULL
                          /\ u # t => thr'[u].si = thr[u].si /\ thr'[u].once = thr[u].once
  <2>1. NullThread.si = NULL
    BY DEF NullThread
  <2> HIDE DEF NullThread
  <2> QED BY <1>1, <1>3, <2>1 DEF LockMarks, Marks
<1>5. /\ Threads' = Threads \ {t}
      /\ \A u \in Threads' : /\ u \in Threads /\ u # t
                             /\ thr'[u].si = thr[u].si /\ thr'[u].once = thr[u].once
  BY <1>4 DEF Threads
<1>6. CASE ri[i].threads - 1 = 0
  <2>1. si' = FreedStates(i)
    BY <1>3, <1>6 DEF FreeRuleInstance
  <2>2. \A u \in Threads : u # t => InstOf(u) # i
    <3>1. ri[i].threads \in Nat /\ ri[i].threads = Cardinality(ThreadsOf(i))
      BY <1>1 DEF Inv, Counted, ThreadsCounted, Shape
    <3>2. Cardinality(ThreadsOf(i)) = 1
      BY <1>6, <3>1
    <3>3. t \in ThreadsOf(i)
      BY <1>b, <1>1 DEF ThreadsOf
    <3>4. PICK v : ThreadsOf(i) = {v}
      BY <3>2, FiniteParts, FS_Singleton DEF ThreadsOf, Threads
    <3> QED BY <3>3, <3>4 DEF ThreadsOf
  <2>3. \A u \in Threads : InstOf(u) # i => u \in Threads'
    BY <1>b, <1>5
  <2> QED BY <1>1, <1>5, <2>1, <2>2, <2>3, InstanceTree
<1>7. CASE ri[i].threads - 1 # 0
  <2>a. PICK list : list = Unlinked(t)
    OBVIOUS
  <2>1. si' = [si EXCEPT ![x].thread_list = list]
    <3>1. ri[i].threads # 1
      BY <1>7
    <3> QED BY <1>3, <1>7, <2>a, <3>1
  <2>2. /\ States' = States /\ si'[x].thread_list = list
        /\ \A s \in StateId : s # x => si'[s] = si[s]
        /\ (\A s \in States : LinksOK(s)') /\ Grown'
    BY <1>1, <2>1, RelinkedTree
  <2>3. x \in States /\ x # NULL
    BY <1>c, <1>1, NullIsNone DEF Inv, Live
  <2>4. ListOK(x)
    BY <2>3 DEF Tree
  <2>5. \A s \in States : Waiting(s)' = Waiting(s) \ {t}
    BY <1>5 DEF Waiting
  <2>6. ListOK(x)'
    <3>a. PICK old : old = si[x].thread_list
      OBVIOUS
    <3>1. old \in Seq(ThreadId) /\ Distinct(old) /\ Elems(old) = Waiting(x)
      BY <2>4, <3>a DEF ListOK
    <3>2. CASE t \in Elems(old)
      <4>1. PICK at : at = CHOOSE n \in DOMAIN old : old[n] = t
        OBVIOUS
      <4>2. at \in 1 .. Len(old) /\ old[at] = t
        BY <3>1, <3>2, <4>1, LenProperties DEF Elems
      <4>3. list = SubSeq(old, 1, at - 1) \o SubSeq(old, at + 1, Len(old))
        BY <1>c, <2>a, <3>a, <3>2, <4>1 DEF Unlinked
      <4>4. list \in Seq(ThreadId) /\ Elems(list) = Elems(old) \ {t} /\ Distinct(list)
        <5>1. \A rest : rest = SubSeq(old, 1, at - 1) \o SubSeq(old, at + 1, Len(old)) =>
                rest \in Seq(ThreadId) /\ Elems(rest) = Elems(old) \ {t} /\ Distinct(rest)
          BY <3>1, <3>2, <4>2, UnlinkedList
        <5> QED BY <4>3, <5>1
      <4> QED BY <2>2, <2>3, <2>5, <3>1, <4>4 DEF ListOK
    <3>3. CASE t \notin Elems(old)
      <4>1. list = old
        BY <1>c, <2>a, <3>a, <3>3 DEF Unlinked
      <4> QED BY <2>2, <2>3, <2>5, <3>1, <3>3, <4>1 DEF ListOK
    <3> QED BY <3>2, <3>3
  <2>7. ASSUME NEW s \in States, s # x PROVE ListOK(s)'
    <3>1. ListOK(s) /\ si'[s] = si[s]
      BY <2>2, <2>7 DEF Tree, States
    <3>2. Waiting(s)' = Waiting(s)
      BY <1>c, <2>5, <2>7 DEF Waiting
    <3> QED BY <3>1, <3>2 DEF ListOK
  <2> QED BY <2>2, <2>6, <2>7 DEF Tree
<1> QED BY <1>6, <1>7

\* A thread that waits again keeps its place in the list.
LEMMA RetriggerTree ==
  ASSUME Inv, Tree, NEW th, LockMarks(th), Retrigger(Head(cur), th) PROVE Tree'
<1>1. /\ (\E q : thr' = Bumped(th, q)) \/ thr' = th
      /\ si' = si
  BY DEF Retrigger
<1>2. LockMarks(thr')
  BY <1>1, MarksKept
<1> QED BY <1>1, <1>2, TreeStays DEF LockMarks, Marks

\* A thread matches: its state instance gets a child.
LEMMA MatchTree == ASSUME Inv, Tree, ThreadMatches PROVE Tree'
<1>1. /\ cur # << >> /\ States # StateId /\ thr' = thr
      /\ \E dest, e : si' = WithChild(thr[Head(cur)].si, dest, e)
  BY DEF ThreadMatches, InLoop
<1>2. thr[Head(cur)].si \in States
  BY <1>1, HeadLives DEF Inv, Live
<1> QED BY <1>1, <1>2, ChildJoins

-----------------------------------------------------------------------------
(* The invariant.                                                           *)

\* The steps that leave the state instances alone.
LEMMA OtherTree ==
  ASSUME Inv, Tree,
         \/ SkipETransition \/ ReturnFromSimulate \/ LinkInitialInstance \/ MergeQueues
         \/ FinishEvent \/ Tick \/ UNCHANGED vars
         \/ \E k \in Keys \cup {NoKey} : InjectEvent(k)
  PROVE  Tree'
<1>1. si' = si /\ (thr' = thr \/ \E u : thr' = [thr EXCEPT ![u].bump = TRUE])
  BY DEF SkipETransition, ReturnFromSimulate, LinkInitialInstance, MergeQueues, FinishEvent,
     Tick, InjectEvent, vars, heap
<1>2. \A t \in ThreadId : thr'[t].si = thr[t].si /\ thr'[t].once = thr[t].once
  <2>1. \A t \in ThreadId :
          IsThread(thr[t]) /\ (thr'[t] = thr[t] \/ thr'[t] = [thr[t] EXCEPT !.bump = TRUE])
    BY <1>1 DEF Inv, Shape
  <2> QED BY ONLY <2>1 DEF IsThread
<1> QED BY <1>1, <1>2, TreeStays

\* Every step of the engine and of its environment.
LEMMA TreeInductive == ASSUME Inv, Tree, NoInitialThreads, [Next]_vars PROVE Tree'
<1>1. CASE EnterTerminalState \/ PruneState \/ EnterState
  <2>1. Entering /\ RunAction /\ \E S : thr' = Kill(thr, S)
    BY <1>1 DEF EnterTerminalState, PruneState, EnterState
  <2> QED BY <2>1, EnterTree
<1>2. CASE PassETransition \/ CreateThread \/ CreateInitialInstance \/ DropInitialInstance \/ ThreadMatches
  BY <1>2, PassTree, ThreadTree, CreateInitialTree, DropTree, MatchTree
<1>3. CASE ReapKilledThread \/ ThreadFails \/ AfterMatch
  <2>1. /\ AtHead /\ LoopGoesOn
        /\ \E th : LockMarks(th) /\ (Reap(Head(cur), th) \/ Retrigger(Head(cur), th))
    BY <1>3, Iterates DEF TimeMarks
  <2> QED BY <2>1, ReapTree, RetriggerTree
<1>4. CASE \/ SkipETransition \/ ReturnFromSimulate \/ LinkInitialInstance \/ MergeQueues
           \/ FinishEvent \/ Tick \/ UNCHANGED vars
           \/ \E k \in Keys \cup {NoKey} : InjectEvent(k)
  BY <1>4, OtherTree
<1> QED BY <1>1, <1>2, <1>3, <1>4
        DEF Next, EngineStep, EnvironmentStep, SimulateStep, InitialThreadsStep, EvtLoopStep

\* There is no state instance at first.
LEMMA TreeInitially == ASSUME Init PROVE Tree
<1>1. States = {}
  BY DEF Init, States, NullState
<1>2. PICK zero : zero = [s \in StateId |-> 0]
  OBVIOUS
<1>3. Grows(zero, zero, 0) /\ zero \in [StateId -> Nat]
  BY <1>1, <1>2 DEF Grows
<1> QED BY <1>1, <1>3 DEF Tree, Grown

\* No pointer of the heap dangles: free_rule_instance() takes the state instances
\* of a rule instance with all that leads to them, and engine.c:311 takes a thread
\* out of the list that cut() kills from. Threads, state instances, parents,
\* children, siblings, the marks of mod_mark.c and the events that an environment
\* leads to are alive, and of the rule instance that leads to them.
THEOREM HeapAlwaysLive == QuietRules /\ Spec => []HeapLive
<1>1. QuietRules /\ Spec => []NoInitialThreads
  BY NoInstanceDropped
<1>2. Spec /\ []NoInitialThreads => []ReferencesExact /\ []EnvironmentAlive
  BY ReferencesAlwaysExact, EnvironmentsAlwaysAlive
<1>3. Init => Inv /\ Tree
  BY Initially, TreeInitially
<1>4. Inv /\ Tree /\ NoInitialThreads /\ [Next]_vars => Inv' /\ Tree'
  BY Inductive, TreeInductive
<1>5. Inv /\ Tree /\ ReferencesExact /\ EnvironmentAlive => HeapLive
  BY TreeConsequence DEF HeapLive, ReferencesExact
<1> QED BY <1>1, <1>2, <1>3, <1>4, <1>5, PTL DEF Spec

\* do_recursive_cut() (lang.c:2384, mod_mark.c:60) recurs into the first child and
\* the next sibling with no bound, whatever SF_PRUNED says, and the search for the state
\* that cut() names (lang.c:2427), like report(), climbs to the parents: no path of
\* these pointers ever comes back to where it was, so each of them ends.
THEOREM WalksEnd == QuietRules /\ Spec => []PathsEnd
<1>1. QuietRules /\ Spec => []NoInitialThreads
  BY NoInstanceDropped
<1>2. Init => Inv /\ Tree
  BY Initially, TreeInitially
<1>3. Inv /\ Tree /\ NoInitialThreads /\ [Next]_vars => Inv' /\ Tree'
  BY Inductive, TreeInductive
<1>4. Tree => PathsEnd
  BY PathsConsequence
<1> QED BY <1>1, <1>2, <1>3, <1>4, PTL DEF Spec

-----------------------------------------------------------------------------
(* The order of the queue.                                                  *)

\* What the order of the queues depends on: the age of a thread is that of its
\* rule instance.
Tags ==
  [t \in Threads |-> [inst |-> InstOf(t), born |-> ri[InstOf(t)].born,
                      rule |-> ri[InstOf(t)].rule, bump |-> thr[t].bump]]

NotAfter(a, t, u) ==
  a[t].born < a[u].born \/ (a[t].born = a[u].born /\ a[t].rule <= a[u].rule)
InOrder(a, q) == \A m, n \in DOMAIN q : m < n => NotAfter(a, q[m], q[n])
AllBefore(a, p, q) == \A t \in Elems(p), u \in Elems(q) : NotAfter(a, t, u)

\* A thread is marked or is followed by one of its rule instance, and the last
\* one of the new queue may be of the instance that is growing.
Ends(a, q, n) ==
  \/ a[q[n]].bump
  \/ n + 1 \in DOMAIN q /\ a[q[n + 1]].inst = a[q[n]].inst
Line(a, new, old, next) ==
  /\ InOrder(a, new) /\ InOrder(a, old) /\ InOrder(a, next)
  /\ AllBefore(a, new, old) /\ AllBefore(a, new, next) /\ AllBefore(a, old, next)
Groups(a, new, old, next, growing) ==
  /\ \A n \in DOMAIN next : Ends(a, next, n)
  /\ \A n \in DOMAIN new : Ends(a, new, n) \/ (n = Len(new) /\ a[new[n]].inst = growing)
  /\ \A t \in Elems(old) : next # << >> /\ a[t].inst = a[next[1]].inst

\* The rule instance that gets new threads.
Growing ==
  IF phase = "init" THEN Subject
  ELSE IF cur = << >> THEN NULL ELSE InstOf(cur[1])

\* No rule instance is younger than the one that is made now.
Births ==
  /\ events \in Nat
  /\ \A i \in Insts : ri[i].born \in Nat /\ ri[i].rule \in Nat /\ ri[i].born <= events
  /\ pc = "init" \/ phase = "init" =>
       \A i \in Insts : ri[i].born < events \/ ri[i].rule <= rulePos
  /\ phase = "init" => ri[Subject].born = events /\ ri[Subject].rule = rulePos

OrderInv ==
  /\ Births
  /\ phase = "loop" => InstOf(cur[1]) = Subject
  /\ ~ uncommitted => /\ Line(Tags, newq, retrig, cur)
                      /\ Groups(Tags, newq, retrig, cur, Growing)

\* What is said of the tags: an instance has one age.
TagsOK(a, S) ==
  /\ \A t \in S : a[t].born \in Nat /\ a[t].rule \in Nat
  /\ \A t, u \in S : a[t].inst = a[u].inst => a[t].born = a[u].born /\ a[t].rule = a[u].rule

\* The threads of S are what they were, but some may be marked.
Later(a, b, S) ==
  \A t \in S : /\ b[t].inst = a[t].inst /\ b[t].born = a[t].born /\ b[t].rule = a[t].rule
               /\ a[t].bump => b[t].bump

\* The order of threads does not change while they live.
LEMMA OrderLater ==
  ASSUME NEW a, NEW b, NEW p \in Seq(ThreadId), NEW q \in Seq(ThreadId),
         Later(a, b, Elems(p)), Later(a, b, Elems(q))
  PROVE  /\ InOrder(a, p) => InOrder(b, p)
         /\ AllBefore(a, p, q) => AllBefore(b, p, q)
         /\ \A n \in DOMAIN p : Ends(a, p, n) => Ends(b, p, n)
<1>1. \A n \in DOMAIN p : p[n] \in Elems(p)
  BY DEF Elems
<1>2. InOrder(a, p) => InOrder(b, p)
  BY <1>1 DEF InOrder, NotAfter, Later
<1>3. AllBefore(a, p, q) => AllBefore(b, p, q)
  BY DEF AllBefore, NotAfter, Later
<1>4. \A n \in DOMAIN p : Ends(a, p, n) => Ends(b, p, n)
  BY <1>1 DEF Ends, Later
<1> QED BY <1>2, <1>3, <1>4

\* Two queues, of which the first one comes first.
LEMMA OrderJoined ==
  ASSUME NEW a, NEW p \in Seq(ThreadId), NEW q \in Seq(ThreadId),
         InOrder(a, p), InOrder(a, q), AllBefore(a, p, q)
  PROVE  InOrder(a, p \o q)
<1> DEFINE c == p \o q
<1>1. /\ c \in Seq(ThreadId) /\ Len(c) = Len(p) + Len(q)
      /\ \A n \in 1 .. Len(p) + Len(q) : c[n] = IF n <= Len(p) THEN p[n] ELSE q[n - Len(p)]
  BY ConcatProperties
<1>2. /\ Len(p) \in Nat /\ Len(q) \in Nat /\ DOMAIN p = 1 .. Len(p) /\ DOMAIN q = 1 .. Len(q)
      /\ DOMAIN c = 1 .. Len(p) + Len(q)
  BY <1>1, LenProperties
<1> HIDE DEF c
<1> SUFFICES ASSUME NEW m \in DOMAIN c, NEW n \in DOMAIN c, m < n
             PROVE  NotAfter(a, c[m], c[n])
  BY DEF InOrder, c
<1>3. CASE n <= Len(p)
  <2>1. m \in DOMAIN p /\ n \in DOMAIN p /\ c[m] = p[m] /\ c[n] = p[n]
    BY <1>1, <1>2, <1>3
  <2> QED BY <2>1 DEF InOrder
<1>4. CASE m <= Len(p) /\ ~ n <= Len(p)
  <2>1. m \in DOMAIN p /\ n - Len(p) \in DOMAIN q /\ c[m] = p[m] /\ c[n] = q[n - Len(p)]
    BY <1>1, <1>2, <1>4
  <2> QED BY <2>1 DEF AllBefore, Elems
<1>5. CASE ~ m <= Len(p)
  <2>1. /\ m - Len(p) \in DOMAIN q /\ n - Len(p) \in DOMAIN q /\ m - Len(p) < n - Len(p)
        /\ c[m] = q[m - Len(p)] /\ c[n] = q[n - Len(p)]
    BY <1>1, <1>2, <1>5
  <2> QED BY <2>1 DEF InOrder
<1>6. m <= Len(p) \/ ~ m <= Len(p)
  OBVIOUS
<1> QED BY <1>3, <1>4, <1>5, <1>6

\* The groups of two queues, when the first one ends with a mark or is empty.
LEMMA EndsJoined ==
  ASSUME NEW a, NEW p \in Seq(ThreadId), NEW q \in Seq(ThreadId),
         \A n \in DOMAIN p : Ends(a, p, n), \A n \in DOMAIN q : Ends(a, q, n)
  PROVE  \A n \in DOMAIN (p \o q) : Ends(a, p \o q, n)
<1> DEFINE c == p \o q
<1>1. /\ c \in Seq(ThreadId) /\ Len(c) = Len(p) + Len(q)
      /\ \A n \in 1 .. Len(p) + Len(q) : c[n] = IF n <= Len(p) THEN p[n] ELSE q[n - Len(p)]
  BY ConcatProperties
<1>2. /\ Len(p) \in Nat /\ Len(q) \in Nat /\ DOMAIN p = 1 .. Len(p) /\ DOMAIN q = 1 .. Len(q)
      /\ DOMAIN c = 1 .. Len(p) + Len(q)
  BY <1>1, LenProperties
<1> HIDE DEF c
<1> SUFFICES ASSUME NEW n \in DOMAIN c PROVE Ends(a, c, n)
  BY DEF c
<1>3. CASE n <= Len(p)
  <2>1. n \in DOMAIN p /\ c[n] = p[n]
    BY <1>1, <1>2, <1>3
  <2>2. n + 1 \in DOMAIN p => n + 1 \in DOMAIN c /\ c[n + 1] = p[n + 1]
    BY <1>1, <1>2
  <2> QED BY <2>1, <2>2 DEF Ends
<1>4. CASE ~ n <= Len(p)
  <2>1. n - Len(p) \in DOMAIN q /\ c[n] = q[n - Len(p)]
    BY <1>1, <1>2, <1>4
  <2>2. (n - Len(p)) + 1 \in DOMAIN q =>
          n + 1 \in DOMAIN c /\ c[n + 1] = q[(n - Len(p)) + 1]
    <3>1. ASSUME (n - Len(p)) + 1 \in DOMAIN q
          PROVE  n + 1 \in DOMAIN c /\ ~ n + 1 <= Len(p) /\ (n + 1) - Len(p) = (n - Len(p)) + 1
      BY <1>2, <1>4, <3>1
    <3> QED BY <1>1, <1>2, <3>1
  <2> QED BY <2>1, <2>2 DEF Ends
<1> QED BY <1>3, <1>4

\* A step that leaves the queues alone.
LEMMA QueuesLater ==
  ASSUME NEW a, NEW b, NEW new \in Seq(ThreadId), NEW old \in Seq(ThreadId),
         NEW next \in Seq(ThreadId), NEW g, NEW h,
         Later(a, b, Elems(new)), Later(a, b, Elems(old)), Later(a, b, Elems(next)),
         Line(a, new, old, next), Groups(a, new, old, next, g),
         \A n \in DOMAIN new :
           n = Len(new) /\ a[new[n]].inst = g => b[new[n]].bump \/ b[new[n]].inst = h
  PROVE  Line(b, new, old, next) /\ Groups(b, new, old, next, h)
<1>1. Line(b, new, old, next)
  BY OrderLater DEF Line
<1>2. \A n \in DOMAIN next : Ends(b, next, n)
  BY OrderLater DEF Groups
<1>3. \A n \in DOMAIN new : Ends(a, new, n) => Ends(b, new, n)
  BY OrderLater
<1>4. \A n \in DOMAIN new : Ends(b, new, n) \/ (n = Len(new) /\ b[new[n]].inst = h)
  <2> TAKE n \in DOMAIN new
  <2>1. CASE Ends(a, new, n)
    BY <1>3, <2>1
  <2>2. CASE n = Len(new) /\ a[new[n]].inst = g
    <3>1. b[new[n]].bump \/ b[new[n]].inst = h
      BY <2>2
    <3> QED BY <2>2, <3>1 DEF Ends
  <2> QED BY <2>1, <2>2 DEF Groups
<1>5. \A t \in Elems(old) : next # << >> /\ b[t].inst = b[next[1]].inst
  <2> TAKE t \in Elems(old)
  <2>1. next # << >> /\ a[t].inst = a[next[1]].inst
    BY DEF Groups
  <2>2. next[1] \in Elems(next)
    BY <2>1, HeadIn
  <2> QED BY <2>1, <2>2 DEF Later
<1> QED BY <1>1, <1>2, <1>4, <1>5 DEF Groups

\* A new thread of the instance that is growing is the last of the new queue.
LEMMA ThreadJoins ==
  ASSUME NEW a, NEW b, NEW new \in Seq(ThreadId), NEW old \in Seq(ThreadId),
         NEW next \in Seq(ThreadId), NEW g, NEW t \in ThreadId,
         Later(a, b, Elems(new)), Later(a, b, Elems(old)), Later(a, b, Elems(next)),
         Line(a, new, old, next), Groups(a, new, old, next, g), b[t].inst = g,
         \A u \in Elems(new) : NotAfter(b, u, t),
         \A u \in Elems(old) : NotAfter(b, t, u),
         \A u \in Elems(next) : NotAfter(b, t, u)
  PROVE  Line(b, Append(new, t), old, next) /\ Groups(b, Append(new, t), old, next, g)
<1>a. PICK p : p = Append(new, t)
  OBVIOUS
<1>1. /\ p \in Seq(ThreadId) /\ Len(p) = Len(new) + 1 /\ p[Len(new) + 1] = t
      /\ \A n \in 1 .. Len(new) : p[n] = new[n]
  BY <1>a, AppendProperties
<1>2. Len(new) \in Nat /\ DOMAIN new = 1 .. Len(new) /\ DOMAIN p = 1 .. Len(new) + 1
  BY <1>1, LenProperties
<1>3. \A n \in DOMAIN p : (n \in DOMAIN new /\ p[n] = new[n]) \/ (n = Len(p) /\ p[n] = t)
  BY <1>1, <1>2
<1>4. \A n \in DOMAIN new : n \in DOMAIN p /\ n + 1 \in DOMAIN p /\ n < Len(p)
  BY <1>1, <1>2
<1>5. Elems(p) = Elems(new) \cup {t}
  <2>1. Len(p) \in DOMAIN p
    BY <1>1, <1>2
  <2> QED BY <1>1, <1>3, <1>4, <2>1 DEF Elems
<1>6. /\ InOrder(b, new) /\ InOrder(b, old) /\ InOrder(b, next)
      /\ AllBefore(b, new, old) /\ AllBefore(b, new, next) /\ AllBefore(b, old, next)
  BY OrderLater DEF Line
<1>7. InOrder(b, p)
  <2> SUFFICES ASSUME NEW m \in DOMAIN p, NEW n \in DOMAIN p, m < n
               PROVE  NotAfter(b, p[m], p[n])
    BY DEF InOrder
  <2>1. m \in DOMAIN new /\ p[m] = new[m]
    BY <1>1, <1>2, <1>3
  <2>2. CASE n \in DOMAIN new /\ p[n] = new[n]
    BY <1>6, <2>1, <2>2 DEF InOrder
  <2>3. CASE p[n] = t
    BY <2>1, <2>3 DEF Elems
  <2> QED BY <1>3, <2>2, <2>3
<1>8. AllBefore(b, p, old) /\ AllBefore(b, p, next)
  BY <1>5, <1>6 DEF AllBefore
<1>9. \A n \in DOMAIN p : Ends(b, p, n) \/ (n = Len(p) /\ b[p[n]].inst = g)
  <2> TAKE n \in DOMAIN p
  <2>1. CASE n = Len(p) /\ p[n] = t
    BY <2>1
  <2>2. CASE n \in DOMAIN new /\ p[n] = new[n]
    <3>1. new[n] \in Elems(new) /\ n + 1 \in DOMAIN p
      BY <1>4, <2>2 DEF Elems
    <3>2. CASE a[new[n]].bump
      BY <2>2, <3>1, <3>2 DEF Ends, Later
    <3>3. CASE n + 1 \in DOMAIN new /\ a[new[n + 1]].inst = a[new[n]].inst
      <4>1. p[n + 1] = new[n + 1] /\ new[n + 1] \in Elems(new)
        BY <1>1, <1>2, <3>3 DEF Elems
      <4> QED BY <2>2, <3>1, <3>3, <4>1 DEF Ends, Later
    <3>4. CASE n = Len(new) /\ a[new[n]].inst = g
      <4>1. p[n + 1] = t
        BY <1>1, <3>4
      <4> QED BY <2>2, <3>1, <3>4, <4>1 DEF Ends, Later
    <3> QED BY <2>2, <3>2, <3>3, <3>4 DEF Groups, Ends
  <2> QED BY <1>3, <2>1, <2>2
<1>10. \A n \in DOMAIN next : Ends(b, next, n)
  BY OrderLater DEF Groups
<1>11. \A u \in Elems(old) : next # << >> /\ b[u].inst = b[next[1]].inst
  <2> TAKE u \in Elems(old)
  <2>1. next # << >> /\ a[u].inst = a[next[1]].inst
    BY DEF Groups
  <2>2. next[1] \in Elems(next)
    BY <2>1, HeadIn
  <2> QED BY <2>1, <2>2 DEF Later
<1>12. Line(b, p, old, next) /\ Groups(b, p, old, next, g)
  BY <1>6, <1>7, <1>8, <1>9, <1>10, <1>11 DEF Line, Groups
<1> QED BY <1>a, <1>12

\* The threads of q are of the instance of h, and h ends it or is followed by one.
Alike(a, q, h) == \A t \in Elems(q) : a[t].inst = a[h].inst
Leads(a, h, p) == a[h].bump \/ (p # << >> /\ a[p[1]].inst = a[h].inst)

\* The thread at the head leaves the queue of the loop, and waits again or not.
LEMMA HeadLeaves ==
  ASSUME NEW a, NEW new \in Seq(ThreadId), NEW old \in Seq(ThreadId),
         NEW next \in Seq(ThreadId), next # << >>, NEW q \in Seq(ThreadId),
         q = old \/ q = Append(old, next[1]),
         Line(a, new, old, next), Groups(a, new, old, next, a[next[1]].inst),
         TagsOK(a, Elems(old) \cup Elems(next))
  PROVE  /\ Tail(next) \in Seq(ThreadId) /\ Line(a, new, q, Tail(next))
         /\ \A n \in DOMAIN Tail(next) : Ends(a, Tail(next), n)
         /\ Alike(a, q, next[1]) /\ Leads(a, next[1], Tail(next))
<1>a. PICK p : p = Tail(next)
  OBVIOUS
<1>b. PICK h : h = next[1]
  OBVIOUS
<1>1. /\ p \in Seq(ThreadId) /\ Len(p) = Len(next) - 1
      /\ \A n \in 1 .. Len(p) : p[n] = next[n + 1]
  BY <1>a, HeadTailProperties
<1>2. /\ Len(next) \in Nat \ {0} /\ DOMAIN next = 1 .. Len(next) /\ DOMAIN p = 1 .. Len(next) - 1
      /\ h \in Elems(next) /\ 1 \in DOMAIN next
  <2>1. Len(next) \in Nat \ {0} /\ DOMAIN next = 1 .. Len(next) /\ DOMAIN p = 1 .. Len(next) - 1
    BY <1>1, HeadIn, LenProperties
  <2>2. 1 \in DOMAIN next
    BY <2>1
  <2> QED BY <1>b, <2>1, <2>2 DEF Elems
<1>3. \A n \in DOMAIN p : n + 1 \in DOMAIN next /\ 1 < n + 1 /\ p[n] = next[n + 1]
  BY <1>1, <1>2
<1>4. \A t \in Elems(p) : t \in Elems(next) /\ NotAfter(a, h, t)
  <2> TAKE t \in Elems(p)
  <2>1. PICK n \in DOMAIN p : t = p[n]
    BY DEF Elems
  <2>2. n + 1 \in DOMAIN next /\ 1 < n + 1 /\ t = next[n + 1]
    BY <1>3, <2>1
  <2>3. t \in Elems(next)
    BY <2>2 DEF Elems
  <2> QED BY <1>b, <1>2, <2>2, <2>3 DEF Line, InOrder
<1>5. InOrder(a, p)
  <2> SUFFICES ASSUME NEW m \in DOMAIN p, NEW n \in DOMAIN p, m < n
               PROVE  NotAfter(a, p[m], p[n])
    BY DEF InOrder
  <2>1. m + 1 < n + 1
    BY <1>2
  <2> QED BY <1>3, <2>1 DEF Line, InOrder
<1>6. \A n \in DOMAIN p : Ends(a, p, n)
  <2> TAKE n \in DOMAIN p
  <2>1. CASE a[next[n + 1]].bump
    BY <1>3, <2>1 DEF Ends
  <2>2. CASE (n + 1) + 1 \in DOMAIN next /\ a[next[(n + 1) + 1]].inst = a[next[n + 1]].inst
    <3>1. n + 1 \in DOMAIN p
      BY <1>2, <2>2
    <3> QED BY <1>3, <2>2, <3>1 DEF Ends
  <2> QED BY <1>3, <2>1, <2>2 DEF Groups, Ends
<1>7. \A t \in Elems(old) : a[t].inst = a[h].inst
  BY <1>b DEF Groups
<1>8. /\ Elems(q) \subseteq Elems(old) \cup {h}
      /\ \A t \in Elems(q) : t \in Elems(old) \cup Elems(next) /\ a[t].inst = a[h].inst
  <2>1. \A n \in DOMAIN q : q[n] \in Elems(old) \cup {h}
    <3>1. CASE q = old
      BY <3>1 DEF Elems
    <3>2. CASE q = Append(old, h)
      <4>1. /\ Len(q) = Len(old) + 1 /\ q[Len(old) + 1] = h
            /\ \A n \in 1 .. Len(old) : q[n] = old[n]
        <5>1. h \in ThreadId
          BY <1>b, <1>2, LenProperties
        <5> QED BY <3>2, <5>1, AppendProperties
      <4>2. Len(old) \in Nat /\ DOMAIN old = 1 .. Len(old) /\ DOMAIN q = 1 .. Len(q)
        BY LenProperties
      <4> QED BY <4>1, <4>2 DEF Elems
    <3> QED BY <1>b, <3>1, <3>2
  <2>2. Elems(q) \subseteq Elems(old) \cup {h}
    BY <2>1 DEF Elems
  <2> QED BY <1>2, <1>7, <2>2
<1>9. \A t, u \in Elems(q) : NotAfter(a, t, u)
  <2> TAKE t, u \in Elems(q)
  <2>1. /\ t \in Elems(old) \cup Elems(next) /\ u \in Elems(old) \cup Elems(next)
        /\ a[t].inst = a[u].inst
    BY <1>8
  <2>2. /\ a[t].born = a[u].born /\ a[t].rule = a[u].rule
        /\ a[t].rule \in Nat
    BY <2>1 DEF TagsOK
  <2> QED BY <2>2 DEF NotAfter
<1>10. InOrder(a, q)
  BY <1>9 DEF InOrder, Elems
<1>11. AllBefore(a, new, q)
  BY <1>2, <1>8 DEF AllBefore, Line
<1>12. AllBefore(a, new, p)
  BY <1>4 DEF AllBefore, Line
<1>13. AllBefore(a, q, p)
  BY <1>4, <1>8 DEF AllBefore, Line
<1>14. Line(a, new, q, p)
  BY <1>5, <1>10, <1>11, <1>12, <1>13 DEF Line
<1>15. a[h].bump \/ (p # << >> /\ a[p[1]].inst = a[h].inst)
  <2>1. CASE a[next[1]].bump
    BY <1>b, <2>1
  <2>2. CASE 1 + 1 \in DOMAIN next /\ a[next[1 + 1]].inst = a[next[1]].inst
    <3>1. 1 \in DOMAIN p
      BY <1>2, <2>2
    <3>2. p[1] = next[1 + 1] /\ p # << >>
      BY <1>3, <3>1
    <3> QED BY <1>b, <2>2, <3>2
  <2> QED BY <1>2, <2>1, <2>2 DEF Groups, Ends
<1>16. Alike(a, q, h) /\ Leads(a, h, p)
  BY <1>8, <1>15 DEF Alike, Leads
<1> QED BY <1>a, <1>b, <1>1, <1>6, <1>14, <1>16

\* Inside a group the next thread is of the same instance.
LEMMA GroupGoesOn ==
  ASSUME NEW a, NEW b, NEW new \in Seq(ThreadId), NEW old \in Seq(ThreadId),
         NEW next \in Seq(ThreadId), next # << >>, NEW q \in Seq(ThreadId),
         q = old \/ q = Append(old, next[1]),
         Line(a, new, old, next), Groups(a, new, old, next, a[next[1]].inst),
         TagsOK(a, Elems(old) \cup Elems(next)),
         Later(a, b, Elems(new)), Later(a, b, Elems(q)), Later(a, b, Elems(Tail(next))),
         ~ a[next[1]].bump
  PROVE  /\ Tail(next) # << >> /\ b[Tail(next)[1]].inst = a[next[1]].inst
         /\ Line(b, new, q, Tail(next))
         /\ Groups(b, new, q, Tail(next), b[Tail(next)[1]].inst)
<1>a. PICK p : p = Tail(next)
  OBVIOUS
<1>0. /\ Tail(next) \in Seq(ThreadId) /\ Line(a, new, q, Tail(next))
      /\ \A n \in DOMAIN Tail(next) : Ends(a, Tail(next), n)
      /\ Alike(a, q, next[1]) /\ Leads(a, next[1], Tail(next))
  BY HeadLeaves
<1>1. /\ p \in Seq(ThreadId) /\ Line(a, new, q, p) /\ \A n \in DOMAIN p : Ends(a, p, n)
      /\ \A t \in Elems(q) : a[t].inst = a[next[1]].inst
      /\ p # << >> /\ a[p[1]].inst = a[next[1]].inst
  BY <1>a, <1>0 DEF Alike, Leads
<1>2. p[1] \in Elems(p) /\ b[p[1]].inst = a[p[1]].inst
  BY <1>a, <1>1, HeadIn DEF Later
<1>b. PICK g : g = a[next[1]].inst
  OBVIOUS
<1>3. Groups(a, new, q, p, g) /\ b[p[1]].inst = g
  BY <1>b, <1>1, <1>2 DEF Groups
<1>4. \A n \in DOMAIN new : n = Len(new) /\ a[new[n]].inst = g => b[new[n]].bump \/ b[new[n]].inst = g
  BY DEF Later, Elems
<1>6. Later(a, b, Elems(p)) /\ Line(a, new, q, p)
  BY <1>a, <1>1
<1>5. Line(b, new, q, p) /\ Groups(b, new, q, p, g)
  BY <1>1, <1>3, <1>4, <1>6, QueuesLater
<1> QED BY <1>a, <1>b, <1>1, <1>3, <1>5

\* At the end of a group it is put behind the older ones.
LEMMA GroupCommitted ==
  ASSUME NEW a, NEW b, NEW new \in Seq(ThreadId), NEW old \in Seq(ThreadId),
         NEW next \in Seq(ThreadId), next # << >>, NEW q \in Seq(ThreadId),
         q = old \/ q = Append(old, next[1]),
         Line(a, new, old, next), Groups(a, new, old, next, a[next[1]].inst),
         TagsOK(a, Elems(old) \cup Elems(next)),
         Later(a, b, Elems(new)), Later(a, b, Elems(q)), Later(a, b, Elems(Tail(next))),
         \A n \in DOMAIN new : n = Len(new) => b[new[n]].bump,
         \A n \in DOMAIN q : n = Len(q) => b[q[n]].bump,
         NEW g
  PROVE  Line(b, new \o q, << >>, Tail(next)) /\ Groups(b, new \o q, << >>, Tail(next), g)
<1>a. PICK p : p = Tail(next)
  OBVIOUS
<1>b. PICK c : c = new \o q
  OBVIOUS
<1>0. /\ Tail(next) \in Seq(ThreadId) /\ Line(a, new, q, Tail(next))
      /\ \A n \in DOMAIN Tail(next) : Ends(a, Tail(next), n)
      /\ Alike(a, q, next[1]) /\ Leads(a, next[1], Tail(next))
  BY HeadLeaves
<1>1. /\ p \in Seq(ThreadId) /\ Line(a, new, q, p) /\ \A n \in DOMAIN p : Ends(a, p, n)
      /\ \A t \in Elems(q) : a[t].inst = a[next[1]].inst
  BY <1>a, <1>0 DEF Alike, Leads
<1>2. /\ InOrder(b, new) /\ InOrder(b, q) /\ InOrder(b, p)
      /\ AllBefore(b, new, q) /\ AllBefore(b, new, p) /\ AllBefore(b, q, p)
      /\ \A n \in DOMAIN p : Ends(b, p, n)
  BY <1>a, <1>1, OrderLater DEF Line
<1>3. InOrder(b, c)
  BY <1>b, <1>2, OrderJoined
<1>4. \A t \in Elems(c) : t \in Elems(new) \/ t \in Elems(q)
  <2>1. /\ \A n \in DOMAIN c : n \in 1 .. Len(new) + Len(q)
        /\ \A n \in 1 .. Len(new) + Len(q) : c[n] = IF n <= Len(new) THEN new[n] ELSE q[n - Len(new)]
    BY <1>b, ConcatProperties, LenProperties
  <2>2. /\ Len(new) \in Nat /\ Len(q) \in Nat
        /\ DOMAIN new = 1 .. Len(new) /\ DOMAIN q = 1 .. Len(q)
    BY LenProperties
  <2>3. ASSUME NEW n \in DOMAIN c
        PROVE  \/ n \in DOMAIN new /\ c[n] = new[n]
               \/ n - Len(new) \in DOMAIN q /\ c[n] = q[n - Len(new)]
    <3>1. n \in 1 .. Len(new) + Len(q) /\ c[n] = IF n <= Len(new) THEN new[n] ELSE q[n - Len(new)]
      BY <2>1
    <3>4. \A k, l \in Nat : \A m \in 1 .. k + l :
            /\ m <= k => m \in 1 .. k
            /\ ~ m <= k => m - k \in 1 .. l
      OBVIOUS
    <3>5. n \in 1 .. Len(new) + Len(q) /\ Len(new) \in Nat /\ Len(q) \in Nat
      BY <2>2, <3>1
    <3>7. /\ n <= Len(new) => n \in 1 .. Len(new)
          /\ ~ n <= Len(new) => n - Len(new) \in 1 .. Len(q)
      BY ONLY <3>4, <3>5
    <3>2. n <= Len(new) \/ n - Len(new) \in DOMAIN q
      BY <2>2, <3>7
    <3>3. n <= Len(new) => n \in DOMAIN new
      BY <2>2, <3>7
    <3>6. CASE n <= Len(new)
      BY <3>1, <3>3, <3>6
    <3> QED BY <3>1, <3>2, <3>6
  <2> QED BY <2>3 DEF Elems
<1>5. AllBefore(b, c, p)
  BY <1>2, <1>4 DEF AllBefore
<1>6. \A n \in DOMAIN new : Ends(b, new, n)
  <2> TAKE n \in DOMAIN new
  <2>1. \A m \in DOMAIN new : new[m] \in Elems(new)
    BY DEF Elems
  <2>2. n = Len(new) \/ n + 1 \in DOMAIN new
    <3>1. Len(new) \in Nat /\ DOMAIN new = 1 .. Len(new)
      BY LenProperties
    <3> QED BY <3>1
  <2>3. CASE n = Len(new)
    BY <2>3 DEF Ends
  <2>4. CASE n # Len(new)
    <3>1. Ends(a, new, n)
      BY <2>4 DEF Groups
    <3> QED BY <3>1, OrderLater
  <2> QED BY <2>3, <2>4
<1>7. \A n \in DOMAIN q : Ends(b, q, n)
  <2> TAKE n \in DOMAIN q
  <2>1. \A m \in DOMAIN q : q[m] \in Elems(q)
    BY DEF Elems
  <2>2. n = Len(q) \/ n + 1 \in DOMAIN q
    <3>1. Len(q) \in Nat /\ DOMAIN q = 1 .. Len(q) /\ n \in 1 .. Len(q)
      BY LenProperties
    <3>2. n = Len(q) \/ n + 1 \in 1 .. Len(q)
      BY ONLY <3>1
    <3> QED BY <3>1, <3>2
  <2>3. CASE n = Len(q)
    BY <2>3 DEF Ends
  <2>4. CASE n + 1 \in DOMAIN q
    <3>1. a[q[n + 1]].inst = a[next[1]].inst /\ a[q[n]].inst = a[next[1]].inst
      BY <1>1, <2>1, <2>4
    <3>2. b[q[n + 1]].inst = b[q[n]].inst
      BY <2>1, <2>4, <3>1 DEF Later
    <3> QED BY <2>4, <3>2 DEF Ends
  <2> QED BY <2>2, <2>3, <2>4
<1>8. \A n \in DOMAIN c : Ends(b, c, n)
  BY <1>b, <1>6, <1>7, EndsJoined
<1>9. /\ InOrder(b, << >>) /\ AllBefore(b, c, << >>) /\ AllBefore(b, << >>, p)
      /\ Elems(<< >>) = {}
  BY DEF InOrder, AllBefore, Elems
<1>10. Line(b, c, << >>, p) /\ Groups(b, c, << >>, p, g)
  BY <1>2, <1>3, <1>5, <1>8, <1>9 DEF Line, Groups
<1> QED BY <1>a, <1>b, <1>10

-----------------------------------------------------------------------------
(* The tags of a state and of the next one.                                 *)

\* A thread is what it was, as far as its place in the queue is concerned.
SamePlace(t) ==
  SameThread(t) /\ ri'[InstOf(t)].born = ri[InstOf(t)].born /\ (thr[t].bump => thr'[t].bump)

\* The threads in the queues have tags.
LEMMA TagsAre ==
  ASSUME Inv, Births
  PROVE  /\ \A t \in Threads : /\ Tags[t].inst = InstOf(t) /\ Tags[t].born = ri[InstOf(t)].born
                               /\ Tags[t].rule = ri[InstOf(t)].rule
                               /\ Tags[t].bump <=> thr[t].bump
                               /\ InstOf(t) \in Insts /\ InstOf(t) # NULL
         /\ TagsOK(Tags, Threads)
         /\ Elems(cur) \subseteq Threads /\ Elems(retrig) \subseteq Threads
         /\ Elems(newq) \subseteq Threads
<1>1. \A t \in Threads : /\ Tags[t].inst = InstOf(t) /\ Tags[t].born = ri[InstOf(t)].born
                         /\ Tags[t].rule = ri[InstOf(t)].rule
                         /\ Tags[t].bump <=> thr[t].bump
  BY DEF Tags
<1>2. \A t \in Threads : InstOf(t) \in Insts /\ InstOf(t) # NULL
  BY NullIsNone DEF Inv, Live, InstOf, Insts
<1>3. TagsOK(Tags, Threads)
  BY <1>1, <1>2 DEF TagsOK, Births
<1>4. /\ Elems(cur) \subseteq Threads /\ Elems(retrig) \subseteq Threads
      /\ Elems(newq) \subseteq Threads
  BY DEF Inv, Queued
<1> QED BY <1>1, <1>2, <1>3, <1>4

LEMMA TagsLater ==
  ASSUME NEW S, S \subseteq Threads, S \subseteq Threads', \A t \in S : SamePlace(t)
  PROVE  Later(Tags, Tags', S)
<1> SUFFICES ASSUME NEW t \in S
             PROVE  /\ Tags'[t].inst = Tags[t].inst /\ Tags'[t].born = Tags[t].born
                    /\ Tags'[t].rule = Tags[t].rule /\ (Tags[t].bump => Tags'[t].bump)
  BY DEF Later
<1>1. /\ Tags[t].inst = InstOf(t) /\ Tags[t].born = ri[InstOf(t)].born
      /\ Tags[t].rule = ri[InstOf(t)].rule /\ (Tags[t].bump <=> thr[t].bump)
  BY DEF Tags
<1>2. /\ Tags'[t].inst = InstOf(t)' /\ Tags'[t].born = ri'[InstOf(t)'].born
      /\ Tags'[t].rule = ri'[InstOf(t)'].rule /\ (Tags'[t].bump <=> thr'[t].bump)
  BY DEF Tags
<1> QED BY <1>1, <1>2 DEF SamePlace, SameThread

\* The head of the queue of the loop is of the instance that grows.
LEMMA GrowingIs ==
  ASSUME Inv, Births
  PROVE  /\ phase = "init" => Growing = Subject
         /\ phase # "init" /\ cur = << >> => Growing = NULL
         /\ cur # << >> => /\ phase # "init" /\ cur[1] \in Elems(cur) /\ Head(cur) = cur[1]
                           /\ Growing = Tags[cur[1]].inst /\ Growing = InstOf(cur[1])
<1>1. cur # << >> => phase # "init" /\ cur[1] \in Elems(cur) /\ Head(cur) = cur[1]
  BY HeadIn DEF Inv, Initial, Shape
<1>2. cur # << >> => Growing = InstOf(cur[1])
  BY <1>1 DEF Growing
<1> QED BY <1>1, <1>2, TagsAre DEF Growing

\* A step that leaves the queues alone and frees no thread.
LEMMA OrderStays ==
  ASSUME Inv, OrderInv, Births', Threads' = Threads, cur' = cur, retrig' = retrig, newq' = newq,
         \A t \in Threads : SamePlace(t), uncommitted => uncommitted',
         \A t \in Threads : newq # << >> /\ t = newq[Len(newq)] /\ InstOf(t) = Growing
                              => InstOf(t) = Growing' \/ thr'[t].bump,
         phase' = "loop" => InstOf(cur[1])' = Subject'
  PROVE  OrderInv'
<1>a. PICK a : a = Tags
  OBVIOUS
<1>b. PICK b : b = Tags'
  OBVIOUS
<1>c. PICK g : g = Growing
  OBVIOUS
<1>d. PICK h : h = Growing'
  OBVIOUS
<1> SUFFICES ASSUME ~ uncommitted'
             PROVE  Line(b, newq, retrig, cur) /\ Groups(b, newq, retrig, cur, h)
  BY <1>b, <1>d DEF OrderInv
<1>1. /\ newq \in Seq(ThreadId) /\ retrig \in Seq(ThreadId) /\ cur \in Seq(ThreadId)
      /\ Elems(newq) \subseteq Threads /\ Elems(retrig) \subseteq Threads /\ Elems(cur) \subseteq Threads
  BY TagsAre DEF OrderInv, Inv, Shape
<1>2. Later(a, b, Elems(newq)) /\ Later(a, b, Elems(retrig)) /\ Later(a, b, Elems(cur))
  BY <1>a, <1>b, <1>1, TagsLater
<1>3. Line(a, newq, retrig, cur) /\ Groups(a, newq, retrig, cur, g)
  BY <1>a, <1>c DEF OrderInv
<1>4. \A n \in DOMAIN newq : n = Len(newq) /\ a[newq[n]].inst = g => b[newq[n]].bump \/ b[newq[n]].inst = h
  <2> SUFFICES ASSUME NEW n \in DOMAIN newq, n = Len(newq), a[newq[n]].inst = g
               PROVE  b[newq[n]].bump \/ b[newq[n]].inst = h
    OBVIOUS
  <2>1. PICK t : t = newq[n]
    OBVIOUS
  <2>2. t \in Threads /\ newq # << >>
    BY <1>1, <2>1 DEF Elems
  <2>3. InstOf(t) = Growing
    BY <1>a, <1>c, <2>1, <2>2, TagsAre DEF OrderInv
  <2>4. InstOf(t) = h \/ thr'[t].bump
    BY <1>d, <2>1, <2>2, <2>3
  <2>5. InstOf(t)' = InstOf(t) /\ b[t].inst = InstOf(t)' /\ (b[t].bump <=> thr'[t].bump)
    BY <1>b, <2>2 DEF Tags, SamePlace, SameThread
  <2> QED BY <2>1, <2>4, <2>5
<1> QED BY <1>1, <1>2, <1>3, <1>4, QueuesLater

-----------------------------------------------------------------------------
(* The steps that leave the queues alone.                                   *)

\* The rule instances that are left have the ages they had.
SameAge(i) == ri'[i].rule = ri[i].rule /\ ri'[i].born = ri[i].born

\* A step that makes no rule instance.
LEMMA BirthsStay ==
  ASSUME Births, events' = events, Insts' \subseteq Insts, \A i \in Insts' : SameAge(i),
         {rulePos, rulePos'} \subseteq Nat, rulePos' >= rulePos,
         pc' = "init" \/ phase' = "init" => pc = "init" \/ phase = "init",
         phase' = "init" => /\ phase = "init" /\ rulePos' = rulePos
                            /\ Subject' = Subject /\ Subject \in Insts'
  PROVE  Births'
<1>1. /\ events' \in Nat
      /\ \A i \in Insts' : ri'[i].born \in Nat /\ ri'[i].rule \in Nat /\ ri'[i].born <= events'
  BY DEF Births, SameAge
<1>2. ASSUME pc' = "init" \/ phase' = "init", NEW i \in Insts'
      PROVE  ri'[i].born < events' \/ ri'[i].rule <= rulePos'
  <2>1. /\ ri[i].born < events \/ ri[i].rule <= rulePos
        /\ ri[i].rule \in Nat /\ ri'[i].rule = ri[i].rule /\ ri'[i].born = ri[i].born
    BY <1>2 DEF Births, SameAge
  <2>2. \A k, m, n \in Nat : k <= m /\ n >= m => k <= n
    OBVIOUS
  <2>3. ri[i].rule <= rulePos => ri[i].rule <= rulePos'
    BY <2>1, <2>2
  <2> QED BY <2>1, <2>3
<1>3. phase' = "init" => ri'[Subject'].born = events' /\ ri'[Subject'].rule = rulePos'
  BY DEF Births, SameAge
<1> QED BY <1>1, <1>2, <1>3 DEF Births

\* No rule instance ends, and the simulation, if any, is of the same one.
LEMMA AgesStay ==
  ASSUME Inv, Births, Insts' = Insts, \A i \in Insts : SameAge(i), events' = events,
         rulePos' = rulePos, phase' = "init" => phase = "init" /\ Subject' = Subject,
         pc' = "init" => pc = "init" \/ phase = "init"
  PROVE  Births'
<1>1. phase = "init" => Subject \in Insts
  BY DEF Inv, Control, Shape, Live, Subject
<1>2. rulePos \in Nat
  BY DEF Inv, Shape
<1>3. rulePos >= rulePos
  BY <1>2
<1> QED BY <1>1, <1>2, <1>3, BirthsStay

\* A thread in a live instance keeps its place when neither of them changes.
LEMMA PlacesStay ==
  ASSUME Inv, \A t \in Threads : SameThread(t), \A i \in Insts : SameAge(i),
         \A t \in Threads : thr[t].bump => thr'[t].bump
  PROVE  \A t \in Threads : SamePlace(t)
<1>1. \A t \in Threads : InstOf(t) \in Insts
  BY DEF Inv, Live, InstOf
<1> QED BY <1>1 DEF SamePlace, SameAge

\* The simulation, but for the threads it makes.
LEMMA SimulationOrder ==
  ASSUME Inv, LockInv, Single, OrderInv, rules' = rules, SimulateStep, ~ CreateThread,
         uncommitted => uncommitted'
  PROVE  OrderInv'
<1>1. /\ Threads' = Threads /\ \A t \in Threads : SameThread(t)
      /\ phase' = phase /\ pc = "simul" /\ subject' = subject
      /\ \A s \in States : si'[s].inst = si[s].inst
      /\ \A i \in Insts : ri'[i].rule = ri[i].rule
  BY SimulationSame DEF Single
<1>2. /\ cur' = cur /\ retrig' = retrig /\ newq' = newq /\ rulePos' = rulePos /\ events' = events
      /\ pc' # "init"
  BY <1>1 DEF SimulateStep, EnterTerminalState, PruneState, EnterState, PassETransition,
     SkipETransition, ReturnFromSimulate, Unwind, Entering, AtTransition, queue, clock
<1>3. \A t \in ThreadId : thr'[t].bump = thr[t].bump
  <2>1. thr' = thr \/ \E S : thr' = Kill(thr, S)
    BY DEF SimulateStep, EnterTerminalState, PruneState, EnterState, PassETransition,
           SkipETransition, ReturnFromSimulate, heap
  <2> QED BY <2>1, KillKeeps DEF Inv
<1>4. \A i \in InstId : ri'[i].rule = ri[i].rule /\ ri'[i].born = ri[i].born
  <2>1. \/ ri' = ri
        \/ ri' = [ri EXCEPT ![si[Top.si].inst].killed = TRUE]
        \/ ri' = [ri EXCEPT ![si[Top.si].inst].locks = @ \cup {Top.si}]
    BY DEF SimulateStep, EnterTerminalState, PruneState, EnterState, PassETransition,
         SkipETransition, ReturnFromSimulate, heap
  <2>2. CASE ri' = ri
    BY <2>2
  <2>3. CASE ri' = [ri EXCEPT ![si[Top.si].inst].killed = TRUE]
    BY SMTT(60), <2>3 DEF Inv, Shape, IsInst
  <2>4. CASE ri' = [ri EXCEPT ![si[Top.si].inst].locks = @ \cup {Top.si}]
    BY <2>4 DEF Inv, Shape, IsInst
  <2> QED BY <2>1, <2>2, <2>3, <2>4
<1>5. Insts' = Insts /\ \A i \in Insts : SameAge(i)
  BY <1>4 DEF Insts, SameAge
<1>6. Subject' = Subject /\ subject \in States
  BY <1>1 DEF Subject, Inv, Control
<1>7. Births'
  BY <1>1, <1>2, <1>5, <1>6, AgesStay DEF OrderInv
<1>8. \A t \in Threads : SamePlace(t)
  BY <1>1, <1>3, <1>5, PlacesStay DEF Threads
<1>9. cur # << >> => InstOf(cur[1])' = InstOf(cur[1])
  <2>1. cur # << >> => cur[1] \in Threads
    BY GrowingIs, TagsAre DEF OrderInv
  <2> QED BY <1>1, <1>2, <2>1 DEF SameThread, InstOf
<1>10. Growing' = Growing
  BY <1>1, <1>2, <1>6, <1>9 DEF Growing
<1>11. phase' = "loop" => InstOf(cur[1])' = Subject'
  BY <1>1, <1>6, <1>9 DEF OrderInv, Inv, Control
<1> QED BY <1>1, <1>2, <1>7, <1>8, <1>10, <1>11, OrderStays

\* A transition matched: the instance of the thread at the head goes on.
LEMMA MatchOrder ==
  ASSUME Inv, OrderInv, ThreadMatches, uncommitted => uncommitted' PROVE OrderInv'
<1>a. PICK t : t = Head(cur)
  OBVIOUS
<1>b. PICK i : i = InstOf(t)
  OBVIOUS
<1>1. /\ i \in Insts /\ i \in InstId /\ t \in Threads
      /\ FreeState \in StateId /\ FreeState \notin States
      /\ Insts' = Insts /\ \A s \in States : si'[s].inst = si[s].inst
  BY <1>a, <1>b, MatchStarts
<1>2. /\ thr' = thr /\ cur' = cur /\ retrig' = retrig /\ newq' = newq /\ rulePos' = rulePos
      /\ events' = events /\ phase' = "loop" /\ pc = "loop" /\ pc' = "simul" /\ cur # << >>
      /\ subject' = FreeState
      /\ \E b : ri' = [ri EXCEPT ![i].created = b]
      /\ \E dest, e : si' = WithChild(thr[t].si, dest, e)
  BY <1>a, <1>b DEF ThreadMatches, InLoop, Simulate, clock
<1>3. phase = "none"
  BY <1>2 DEF Inv, Control
<1>4. \A j \in Insts : SameAge(j)
  <2>1. PICK b : ri' = [ri EXCEPT ![i].created = b]
    BY <1>2
  <2>2. \A j \in InstId : ri'[j] = ri[j] \/ ri'[j] = [ri[j] EXCEPT !.created = b]
    BY <2>1 DEF Inv, Shape
  <2>3. \A j \in InstId : IsInst(ri[j])
    BY DEF Inv, Shape
  <2>4. \A j \in InstId : ri'[j].rule = ri[j].rule /\ ri'[j].born = ri[j].born
    BY ONLY <2>2, <2>3 DEF IsInst
  <2> QED BY <2>4 DEF Insts, SameAge
<1>5. Births'
  BY <1>1, <1>2, <1>4, AgesStay DEF OrderInv
<1>6. Threads' = Threads /\ \A u \in Threads : InstOf(u)' = InstOf(u)
  BY <1>1, <1>2 DEF Threads, InstOf, Inv, Live
<1>7. \A u \in Threads : SamePlace(u)
  <2>1. \A u \in Threads : SameThread(u)
    <3>1. \A u \in Threads : InstOf(u) \in Insts
      BY DEF Inv, Live, InstOf
    <3> QED BY <1>2, <1>4, <1>6, <3>1 DEF SameThread, SameAge
  <2> QED BY <1>2, <1>4, <2>1, PlacesStay
<1>8. cur[1] = t
  BY <1>a, <1>2, GrowingIs DEF OrderInv
<1>9. Growing' = Growing
  BY <1>1, <1>2, <1>3, <1>6, <1>8 DEF Growing
<1>10. InstOf(cur[1])' = Subject'
  <2>1. thr[t].si \in States /\ thr[t].si \in StateId
    BY <1>1 DEF Inv, Live, States
  <2>2. States # StateId
    BY DEF ThreadMatches
  <2>3. \A x \in StateId : si'[x].inst = IF x = FreeState THEN si[thr[t].si].inst ELSE si[x].inst
    <3>1. PICK dest, e : si' = WithChild(thr[t].si, dest, e)
      BY <1>2
    <3> QED BY <2>1, <2>2, <3>1, ChildIs DEF Inv
  <2>4. Subject' = InstOf(t)
    BY <1>1, <1>2, <2>3 DEF Subject, InstOf
  <2> QED BY <1>1, <1>2, <1>6, <1>8, <2>4
<1> QED BY <1>2, <1>5, <1>6, <1>7, <1>9, <1>10, OrderStays

-----------------------------------------------------------------------------
(* The initial threads.                                                     *)

\* Before the loop there is no queue of the loop, and no thread waits again.
LEMMA NothingBefore ==
  ASSUME Inv, OrderInv, cur = << >>, ~ uncommitted
  PROVE  Elems(retrig) = {} /\ Elems(cur) = {}
<1>1. \A t \in Elems(retrig) : cur # << >>
  BY DEF OrderInv, Groups
<1>2. Elems(cur) = {}
  BY DEF Elems
<1> QED BY <1>1, <1>2

\* Outside of inject_event(), at its two ends, and when the clock advances.
LEMMA StutterOrder ==
  ASSUME Inv, OrderInv, uncommitted => uncommitted',
         \/ FinishEvent \/ Tick \/ UNCHANGED vars
         \/ \E k \in Keys \cup {NoKey} : InjectEvent(k)
  PROVE  OrderInv'
<1>1. /\ thr' = thr /\ si' = si /\ ri' = ri /\ cur' = cur /\ retrig' = retrig /\ newq' = newq
      /\ phase' = phase /\ subject' = subject
  BY DEF FinishEvent, Tick, InjectEvent, vars, heap, queue, call
<1>2. Threads' = Threads /\ Insts' = Insts /\ Subject' = Subject /\ Growing' = Growing
  BY <1>1 DEF Threads, Insts, Subject, Growing, InstOf
<1>3. \A i \in Insts : SameAge(i)
  BY <1>1 DEF SameAge
<1>4. Births'
  <2>1. CASE \E k \in Keys \cup {NoKey} : InjectEvent(k)
    <3>1. events' = events + 1 /\ rulePos' = 1 /\ pc = "idle"
      BY <2>1 DEF InjectEvent
    <3>2. phase' # "init"
      BY <1>1, <3>1 DEF Inv, Control
    <3>3. \A m, n \in Nat : m <= n => m < n + 1 /\ m <= n + 1 /\ n + 1 \in Nat
      OBVIOUS
    <3>4. /\ events \in Nat
          /\ \A i \in Insts : ri[i].born \in Nat /\ ri[i].rule \in Nat /\ ri[i].born <= events
      BY DEF OrderInv, Births
    <3>5. events' \in Nat /\ \A i \in Insts : ri[i].born < events' /\ ri[i].born <= events'
      BY <3>1, <3>3, <3>4
    <3> QED BY <1>1, <1>2, <3>2, <3>4, <3>5 DEF Births
  <2>2. CASE FinishEvent \/ Tick \/ UNCHANGED vars
    <3>1. events' = events /\ rulePos' = rulePos /\ (pc' = "init" => pc = "init")
      BY <2>2 DEF FinishEvent, Tick, vars, clock
    <3> QED BY <1>1, <1>2, <1>3, <3>1, AgesStay DEF OrderInv
  <2> QED BY <2>1, <2>2
<1>5. \A t \in Threads : SamePlace(t)
  BY <1>1 DEF SamePlace, SameThread, InstOf
<1>6. phase' = "loop" => InstOf(cur[1])' = Subject'
  BY <1>1, <1>2 DEF OrderInv, InstOf
<1> QED BY <1>1, <1>2, <1>4, <1>5, <1>6, OrderStays

\* The youngest rule instance begins.
LEMMA CreateInitialOrder ==
  ASSUME Inv, OrderInv, CreateInitialInstance, uncommitted => uncommitted' PROVE OrderInv'
<1>a. PICK f : f = FreeState
  OBVIOUS
<1>b. PICK g : g = FreeInst
  OBVIOUS
<1>c. PICK x : x = [NullState EXCEPT !.inst = g, !.state = 1]
  OBVIOUS
<1>d. PICK y : y = [NullInst EXCEPT !.rule = rulePos, !.born = events]
  OBVIOUS
<1>1. /\ si' = [si EXCEPT ![f] = x] /\ ri' = [ri EXCEPT ![g] = y] /\ thr' = thr
      /\ States # StateId /\ Insts # InstId /\ subject' = f /\ phase' = "init" /\ pc = "init"
      /\ cur' = cur /\ retrig' = retrig /\ newq' = newq /\ rulePos' = rulePos /\ events' = events
  BY <1>a, <1>b, <1>c, <1>d DEF CreateInitialInstance, Simulate, queue, clock
<1>2. f \in StateId /\ g \in InstId /\ f \notin States /\ g \notin Insts
  BY <1>a, <1>b, <1>1, MallocState, MallocInst
<1>3. x.inst = g /\ y.rule = rulePos /\ y.born = events
  BY <1>c, <1>d DEF NullState, NullInst
<1>4. /\ \A s \in States : si'[s] = si[s]
      /\ \A i \in Insts : ri'[i] = ri[i]
      /\ Threads' = Threads /\ si'[f] = x /\ ri'[g] = y
      /\ \A i \in InstId : i # g => ri'[i] = ri[i]
  BY <1>1, <1>2 DEF Inv, Shape, States, Insts, Threads
<1>5. Subject' = g /\ Insts' \subseteq Insts \cup {g}
  BY <1>1, <1>3, <1>4 DEF Subject, Insts
<1>6. Births'
  <2>1. rulePos \in Nat /\ events \in Nat /\ events <= events /\ rulePos <= rulePos
    BY DEF OrderInv, Births, Inv, Shape
  <2>2. \A i \in Insts' : /\ ri'[i].born \in Nat /\ ri'[i].rule \in Nat /\ ri'[i].born <= events
                          /\ ri'[i].born < events \/ ri'[i].rule <= rulePos
    <3>1. \A i \in Insts : /\ ri'[i].born \in Nat /\ ri'[i].rule \in Nat /\ ri'[i].born <= events
                           /\ ri'[i].born < events \/ ri'[i].rule <= rulePos
      BY <1>1, <1>4 DEF OrderInv, Births
    <3> QED BY <1>3, <1>4, <1>5, <2>1, <3>1
  <2> QED BY <1>1, <1>3, <1>4, <1>5, <2>1, <2>2 DEF Births
<1>7. \A t \in Threads : SamePlace(t)
  <2>1. \A t \in Threads : thr[t].si \in States /\ InstOf(t) \in Insts
    BY DEF Inv, Live, InstOf
  <2> QED BY <1>1, <1>4, <2>1 DEF SamePlace, SameThread, InstOf
<1>8. phase = "none" /\ cur = << >>
  BY <1>1 DEF Inv, Control, Initial
<1>9. \A t \in Threads : InstOf(t) # Growing
  BY <1>8, GrowingIs, TagsAre DEF OrderInv
<1> QED BY <1>1, <1>4, <1>6, <1>7, <1>9, OrderStays

\* The initial threads of a rule instance get their mark.
LEMMA LinkOrder ==
  ASSUME Inv, OrderInv, LinkInitialInstance, uncommitted => uncommitted' PROVE OrderInv'
<1>1. /\ si' = si /\ ri' = [ri EXCEPT ![Subject].threads = ret, ![Subject].linked = TRUE]
      /\ thr' = IF newq = << >> THEN thr ELSE [thr EXCEPT ![newq[Len(newq)]].bump = TRUE]
      /\ rulePos' = rulePos + 1 /\ phase = "init" /\ phase' = "none" /\ pc' = "init"
      /\ cur' = cur /\ retrig' = retrig /\ newq' = newq /\ events' = events
  BY DEF LinkInitialInstance, InitReturned, Subject, Returned, queue, clock
<1>2. \A i \in InstId : ri'[i].rule = ri[i].rule /\ ri'[i].born = ri[i].born
  <2>1. \A i \in InstId : ri'[i] = ri[i] \/ ri'[i] = [ri[i] EXCEPT !.threads = ret, !.linked = TRUE]
    BY <1>1 DEF Inv, Shape
  <2>2. \A i \in InstId : IsInst(ri[i])
    BY DEF Inv, Shape
  <2> QED BY ONLY <2>1, <2>2 DEF IsInst
<1>3. Insts' = Insts /\ \A i \in Insts : SameAge(i)
  BY <1>2 DEF Insts, SameAge
<1>4. Births'
  <2>1. rulePos \in Nat /\ rulePos + 1 \in Nat /\ rulePos + 1 >= rulePos
    BY DEF Inv, Shape
  <2> QED BY <1>1, <1>3, <2>1, BirthsStay DEF OrderInv
<1>5. \A t \in ThreadId : /\ thr'[t].si = thr[t].si /\ thr'[t].once = thr[t].once
                          /\ thr[t].bump => thr'[t].bump
                          /\ newq # << >> /\ t = newq[Len(newq)] => thr'[t].bump
  <2>1. CASE newq = << >>
    BY <1>1, <2>1
  <2>2. CASE newq # << >>
    <3>a. PICK b : b = newq[Len(newq)]
      OBVIOUS
    <3>1. thr' = [thr EXCEPT ![b].bump = TRUE]
      BY <1>1, <2>2, <3>a
    <3>2. \A t \in ThreadId : IF t = b THEN thr'[t] = [thr[t] EXCEPT !.bump = TRUE]
                              ELSE thr'[t] = thr[t]
      BY <3>1 DEF Inv, Shape
    <3>3. \A t \in ThreadId : IsThread(thr[t])
      BY DEF Inv, Shape
    <3>4. \A t \in ThreadId : thr'[t].si = thr[t].si /\ thr'[t].once = thr[t].once
      BY ONLY <3>2, <3>3 DEF IsThread
    <3>5. \A t \in ThreadId : (thr[t].bump => thr'[t].bump) /\ (t = b => thr'[t].bump)
      BY ONLY <3>2, <3>3 DEF IsThread
    <3> QED BY <3>a, <3>4, <3>5
  <2> QED BY <2>1, <2>2
<1>6. Threads' = Threads /\ \A t \in Threads : t \in ThreadId
  BY <1>5 DEF Threads
<1>7. \A t \in Threads : SamePlace(t)
  <2>1. \A t \in Threads : SameThread(t)
    <3>1. \A t \in Threads : InstOf(t) \in Insts
      BY DEF Inv, Live, InstOf
    <3> QED BY <1>1, <1>3, <1>5, <1>6, <3>1 DEF SameThread, SameAge, InstOf
  <2> QED BY <1>3, <1>5, <1>6, <2>1, PlacesStay
<1> QED BY <1>1, <1>4, <1>5, <1>6, <1>7, OrderStays

\* A rule instance that has no thread is given up.
LEMMA DropOrder ==
  ASSUME Inv, OrderInv, NoInitialThreads, DropInitialInstance, uncommitted => uncommitted'
  PROVE  OrderInv'
<1>a. PICK i : i = Subject
  OBVIOUS
<1>1. /\ FreeRuleInstance(i, ctx.threads) /\ phase = "init" /\ thr' = thr
      /\ phase' = "none" /\ pc' = "init" /\ rulePos' = rulePos + 1
      /\ cur' = cur /\ retrig' = retrig /\ newq' = newq /\ events' = events
  BY <1>a DEF DropInitialInstance, InitReturned, Subject, Returned, queue, clock
<1>2. ThreadsOf(i) = {}
  BY <1>a DEF DropInitialInstance, NoInitialThreads, Subject
<1>3. /\ \A s \in StateId : si[s].inst # i => si'[s] = si[s]
      /\ \A j \in InstId : j # i => ri'[j] = ri[j]
      /\ ri'[i] = NullInst \/ i \notin InstId
  BY <1>1 DEF FreeRuleInstance, FreedStates, Inv, Shape
<1>4. /\ Insts' \subseteq Insts /\ \A j \in Insts' : SameAge(j)
  <2>1. NullInst.rule = 0
    BY DEF NullInst
  <2>2. \A j \in Insts' : j # i /\ j \in InstId
    BY <1>3, <2>1 DEF Insts
  <2> QED BY <1>3, <2>2 DEF Insts, SameAge
<1>5. Births'
  <2>1. rulePos \in Nat /\ rulePos + 1 \in Nat /\ rulePos + 1 >= rulePos
    BY DEF Inv, Shape
  <2> QED BY <1>1, <1>4, <2>1, BirthsStay DEF OrderInv
<1>6. Threads' = Threads /\ \A t \in Threads : t \in ThreadId
  BY <1>1 DEF Threads
<1>7. \A t \in Threads : InstOf(t) # i /\ thr[t].si \in StateId /\ InstOf(t) \in InstId
  BY <1>2 DEF ThreadsOf, Inv, Live, States, Insts, InstOf
<1>8. \A t \in Threads : SamePlace(t)
  BY <1>1, <1>3, <1>6, <1>7 DEF SamePlace, SameThread, InstOf
<1>9. \A t \in Threads : InstOf(t) # Growing
  BY <1>a, <1>1, <1>7 DEF Growing
<1> QED BY <1>1, <1>5, <1>6, <1>8, <1>9, OrderStays

\* q_cur = q_new @ q_retrig: the new queue is all there is.
LEMMA MergeOrder ==
  ASSUME Inv, OrderInv, MergeQueues, uncommitted => uncommitted' PROVE OrderInv'
<1>1. /\ thr' = thr /\ si' = si /\ ri' = ri /\ cur' = newq \o retrig /\ retrig' = << >>
      /\ newq' = << >> /\ pc = "init" /\ pc' = "loop" /\ events' = events
      /\ phase' = phase /\ subject' = subject /\ rulePos' = rulePos
  BY DEF MergeQueues, heap, call, clock
<1>2. phase = "none" /\ cur = << >>
  BY <1>1 DEF Inv, Control, Initial
<1>3. Insts' = Insts /\ \A i \in Insts : SameAge(i)
  BY <1>1 DEF Insts, SameAge
<1>4. Births'
  BY <1>1, <1>2, <1>3, AgesStay DEF OrderInv
<1> SUFFICES ASSUME ~ uncommitted'
             PROVE  Line(Tags', newq', retrig', cur') /\ Groups(Tags', newq', retrig', cur', Growing')
  BY <1>1, <1>2, <1>4 DEF OrderInv
<1>a. PICK a : a = Tags
  OBVIOUS
<1>5. Tags' = a
  BY <1>1, <1>a DEF Tags, Threads, InstOf
<1>6. cur' = newq
  <2>1. Elems(retrig) = {} /\ newq \in Seq(ThreadId) /\ retrig \in Seq(ThreadId)
    BY <1>2, NothingBefore DEF Inv, Shape
  <2>2. retrig = << >>
    BY <2>1, HeadIn
  <2> QED BY <1>1, <2>1, <2>2, ConcatEmptySeq
<1>7. InOrder(a, newq) /\ \A n \in DOMAIN newq : Ends(a, newq, n)
  <2>1. Line(a, newq, retrig, cur) /\ Groups(a, newq, retrig, cur, Growing) /\ Growing = NULL
    BY <1>a, <1>2, GrowingIs DEF OrderInv
  <2>2. \A n \in DOMAIN newq : a[newq[n]].inst # NULL
    <3>1. \A n \in DOMAIN newq : newq[n] \in Threads
      BY TagsAre DEF OrderInv, Elems
    <3> QED BY <1>a, <3>1, TagsAre DEF OrderInv
  <2> QED BY <2>1, <2>2 DEF Line, Groups
<1>8. /\ InOrder(a, << >>) /\ AllBefore(a, << >>, << >>) /\ AllBefore(a, << >>, newq)
      /\ Elems(<< >>) = {}
  BY DEF InOrder, AllBefore, Elems
<1>9. \A g : Line(a, << >>, << >>, newq) /\ Groups(a, << >>, << >>, newq, g)
  BY <1>7, <1>8 DEF Line, Groups
<1> QED BY <1>1, <1>5, <1>6, <1>9

-----------------------------------------------------------------------------
(* The threads that are made.                                               *)

\* A new thread is of the instance that grows, which is the youngest one or the
\* one at the head of the queue of the loop.
LEMMA YoungestOrHead ==
  ASSUME Inv, OrderInv, pc = "simul", ~ uncommitted, NEW a, a = Tags,
         NEW b, NEW r, b = ri[Subject].born, r = ri[Subject].rule
  PROVE  /\ \A u \in Elems(newq) : a[u].born < b \/ (a[u].born = b /\ a[u].rule <= r)
         /\ \A u \in Elems(retrig) \cup Elems(cur) :
              b < a[u].born \/ (b = a[u].born /\ r <= a[u].rule)
<1>1. /\ \A t \in Threads : /\ a[t].inst = InstOf(t) /\ a[t].born = ri[InstOf(t)].born
                            /\ a[t].rule = ri[InstOf(t)].rule /\ InstOf(t) \in Insts
      /\ Elems(cur) \subseteq Threads /\ Elems(retrig) \subseteq Threads
      /\ Elems(newq) \subseteq Threads
  BY TagsAre DEF OrderInv
<1>2. Subject \in Insts /\ b \in Nat /\ r \in Nat
  <2>1. Subject \in Insts
    BY DEF Inv, Control, Live, Subject
  <2> QED BY <2>1 DEF OrderInv, Births
<1>3. CASE phase = "init"
  <2>1. cur = << >>
    BY <1>3 DEF Inv, Initial
  <2>2. Elems(retrig) = {} /\ Elems(cur) = {}
    BY <2>1, NothingBefore
  <2>3. b = events /\ r = rulePos
    BY <1>3 DEF OrderInv, Births
  <2>4. ASSUME NEW i \in Insts
        PROVE  ri[i].born < b \/ (ri[i].born = b /\ ri[i].rule <= r)
    <3>1. /\ ri[i].born \in Nat /\ events \in Nat /\ ri[i].born <= events
          /\ ri[i].born < events \/ ri[i].rule <= rulePos
      BY <1>3 DEF OrderInv, Births
    <3>2. \A m, n \in Nat : m <= n => m < n \/ m = n
      OBVIOUS
    <3> QED BY <2>3, <3>1, <3>2
  <2> QED BY <1>1, <2>2, <2>4
<1>4. CASE phase = "loop"
  <2>a. PICK h : h = cur[1]
    OBVIOUS
  <2>1. cur # << >> /\ h \in Elems(cur) /\ cur \in Seq(ThreadId)
    BY <1>4, <2>a, GrowingIs DEF OrderInv, Inv, Control, Shape
  <2>2. InstOf(h) = Subject
    BY <1>4, <2>a DEF OrderInv
  <2>3. a[h].inst = Subject /\ a[h].born = b /\ a[h].rule = r
    BY <1>1, <2>1, <2>2
  <2>4. Line(a, newq, retrig, cur) /\ Groups(a, newq, retrig, cur, Growing)
    BY DEF OrderInv
  <2>5. \A u \in Elems(newq) : a[u].born < b \/ (a[u].born = b /\ a[u].rule <= r)
    BY <2>1, <2>3, <2>4 DEF Line, AllBefore, NotAfter
  <2>6. \A u \in Elems(retrig) : b = a[u].born /\ r <= a[u].rule
    <3>1. r <= r
      BY <1>2
    <3>2. \A u \in Elems(retrig) : a[u].inst = Subject
      BY <2>a, <2>3, <2>4 DEF Groups
    <3> QED BY <1>1, <3>1, <3>2
  <2>7. ASSUME NEW u \in Elems(cur) PROVE b < a[u].born \/ (b = a[u].born /\ r <= a[u].rule)
    <3>1. PICK n \in DOMAIN cur : u = cur[n]
      BY DEF Elems
    <3>2. DOMAIN cur = 1 .. Len(cur) /\ Len(cur) \in Nat \ {0}
      BY <2>1, HeadIn
    <3>3. n = 1 \/ 1 < n
      BY <3>2
    <3>4. 1 \in DOMAIN cur
      BY <3>2
    <3>5. CASE n = 1
      BY <1>2, <2>a, <2>3, <3>1, <3>5
    <3>6. CASE 1 < n
      <4>1. NotAfter(a, h, u)
        BY <2>a, <2>4, <3>1, <3>4, <3>6 DEF Line, InOrder
      <4> QED BY <2>3, <4>1 DEF NotAfter
    <3> QED BY <3>3, <3>5, <3>6
  <2> QED BY <2>5, <2>6, <2>7
<1>5. phase \in {"init", "loop"}
  BY DEF Inv, Control
<1> QED BY <1>3, <1>4, <1>5

\* A new thread comes last in the new queue.
LEMMA ThreadOrder ==
  ASSUME Inv, OrderInv, CreateThread, uncommitted => uncommitted' PROVE OrderInv'
<1>a. PICK f : f = FreeThread
  OBVIOUS
<1>b. PICK a : a = Tags
  OBVIOUS
<1>c. PICK b : b = Tags'
  OBVIOUS
<1>d. PICK i : i = Subject
  OBVIOUS
<1>1. /\ pc = "simul" /\ pc' = pc /\ f \in ThreadId /\ f \notin Threads
      /\ thr' = [thr EXCEPT ![f] = NewThread]
      /\ ri' = [ri EXCEPT ![si[Top.si].inst].threads = @ + 1]
      /\ \E list : si' = [si EXCEPT ![Top.si].thread_list = list]
      /\ phase' = phase /\ subject' = subject /\ cur' = cur /\ retrig' = retrig
      /\ newq' = Append(newq, f) /\ rulePos' = rulePos /\ events' = events
  BY <1>a, MallocThread DEF CreateThread, InThreadList, AtTransition, clock
<1>2. Top.si \in States /\ si[Top.si].inst = i /\ Top.si \in StateId /\ i \in Insts /\ i \in InstId
  <2>1. stack # << >> /\ stack \in Seq([si : StateId, t : Nat])
    BY <1>1 DEF Inv, Control, Shape
  <2>2. Len(stack) \in DOMAIN stack
    BY <2>1, EmptySeq, LenProperties
  <2>3. Top.si \in States /\ si[Top.si].inst = i
    BY <1>d, <2>2 DEF Top, Inv, Control
  <2> QED BY <2>3 DEF States, Inv, Live, Insts
<1>3. NewThread.si = Top.si
  BY DEF NewThread
<1> HIDE DEF NewThread
<1>4. \A t \in ThreadId : IF t = f THEN thr'[t].si = Top.si ELSE thr'[t] = thr[t]
  BY <1>1, <1>3 DEF Inv, Shape
<1>5. Threads' = Threads \cup {f}
  <2>1. Top.si # NULL
    BY <1>2, NullIsNone
  <2> QED BY <1>1, <1>4, <2>1 DEF Threads
<1>6. \A s \in StateId : si'[s].inst = si[s].inst
  <2>1. PICK list : si' = [si EXCEPT ![Top.si].thread_list = list]
    BY <1>1
  <2>2. \A s \in StateId : si'[s] = si[s] \/ si'[s] = [si[s] EXCEPT !.thread_list = list]
    BY <1>2, <2>1 DEF Inv, Shape
  <2>3. \A s \in StateId : IsState(si[s])
    BY DEF Inv, Shape
  <2> QED BY ONLY <2>2, <2>3 DEF IsState
<1>7. \A j \in InstId : ri'[j].rule = ri[j].rule /\ ri'[j].born = ri[j].born
  BY <1>1 DEF Inv, Shape, IsInst
<1>8. Insts' = Insts /\ \A j \in Insts : SameAge(j)
  BY <1>7 DEF Insts, SameAge
<1>9. \A t \in Threads : t \in ThreadId /\ thr'[t] = thr[t] /\ InstOf(t)' = InstOf(t)
  BY <1>1, <1>4, <1>6 DEF Threads, InstOf, Inv, Live, States
<1>10. InstOf(f)' = i /\ Subject' = i
  <2>1. InstOf(f)' = si'[thr'[f].si].inst
    BY DEF InstOf
  <2>2. subject \in StateId
    BY <1>1 DEF Inv, Control, States
  <2> QED BY <1>d, <1>1, <1>2, <1>4, <1>6, <2>1, <2>2 DEF Subject
<1>11. Births'
  BY <1>d, <1>1, <1>8, <1>10, AgesStay DEF OrderInv
<1>12. \A t \in Threads : SamePlace(t)
  <2>1. \A t \in Threads : SameThread(t)
    <3>1. \A t \in Threads : InstOf(t) \in Insts
      BY DEF Inv, Live, InstOf
    <3> QED BY <1>8, <1>9, <3>1 DEF SameThread, SameAge
  <2> QED BY <1>8, <1>9, <2>1, PlacesStay
<1>13. /\ newq \in Seq(ThreadId) /\ retrig \in Seq(ThreadId) /\ cur \in Seq(ThreadId)
       /\ Elems(newq) \subseteq Threads /\ Elems(retrig) \subseteq Threads /\ Elems(cur) \subseteq Threads
  BY TagsAre DEF OrderInv, Inv, Shape
<1>14. Later(a, b, Elems(newq)) /\ Later(a, b, Elems(retrig)) /\ Later(a, b, Elems(cur))
  <2>1. Threads \subseteq Threads'
    BY <1>5
  <2> QED BY <1>b, <1>c, <1>12, <1>13, <2>1, TagsLater
<1>15. b[f].inst = i /\ b[f].born = ri[i].born /\ b[f].rule = ri[i].rule
  <2>1. f \in Threads'
    BY <1>5
  <2>2. b[f].inst = InstOf(f)' /\ b[f].born = ri'[InstOf(f)'].born /\ b[f].rule = ri'[InstOf(f)'].rule
    BY <1>c, <2>1 DEF Tags
  <2> QED BY <1>2, <1>7, <1>10, <2>2
<1>16. Growing = i /\ Growing' = i
  <2>1. CASE phase = "init"
    BY <1>d, <1>1, <1>10, <2>1 DEF Growing
  <2>2. CASE phase = "loop"
    <3>1. cur # << >> /\ cur[1] \in Threads /\ InstOf(cur[1]) = i
      BY <1>d, <1>13, <2>2, GrowingIs DEF OrderInv, Inv, Control
    <3>2. InstOf(cur[1])' = InstOf(cur[1])
      BY <1>1, <1>9, <3>1 DEF InstOf
    <3> QED BY <1>1, <2>2, <3>1, <3>2 DEF Growing
  <2> QED BY <1>1, <2>1, <2>2 DEF Inv, Control
<1>17. phase' = "loop" => InstOf(cur[1])' = Subject'
  <2> SUFFICES ASSUME phase = "loop" PROVE InstOf(cur[1])' = Subject'
    BY <1>1
  <2>1. cur # << >> /\ cur[1] \in Threads /\ InstOf(cur[1]) = i
    BY <1>d, <1>13, GrowingIs DEF OrderInv, Inv, Control
  <2>2. InstOf(cur[1])' = InstOf(cur[1])
    BY <1>1, <1>9, <2>1 DEF InstOf
  <2> QED BY <1>10, <2>1, <2>2
<1>18. ASSUME ~ uncommitted'
       PROVE  Line(b, newq', retrig, cur) /\ Groups(b, newq', retrig, cur, i)
  <2>0. ~ uncommitted
    BY <1>18
  <2>1. Line(a, newq, retrig, cur) /\ Groups(a, newq, retrig, cur, i)
    BY <1>b, <1>16, <2>0 DEF OrderInv
  <2>2. /\ \A u \in Elems(newq) : NotAfter(b, u, f)
        /\ \A u \in Elems(retrig) : NotAfter(b, f, u)
        /\ \A u \in Elems(cur) : NotAfter(b, f, u)
    <3>1. /\ \A u \in Elems(newq) :
               a[u].born < ri[i].born \/ (a[u].born = ri[i].born /\ a[u].rule <= ri[i].rule)
          /\ \A u \in Elems(retrig) \cup Elems(cur) :
               ri[i].born < a[u].born \/ (ri[i].born = a[u].born /\ ri[i].rule <= a[u].rule)
      BY <1>b, <1>d, <1>1, <2>0, YoungestOrHead
    <3>2. \A u \in Elems(newq) \cup Elems(retrig) \cup Elems(cur) :
            b[u].born = a[u].born /\ b[u].rule = a[u].rule
      BY <1>14 DEF Later
    <3> QED BY <1>15, <3>1, <3>2 DEF NotAfter
  <2>3. Line(b, Append(newq, f), retrig, cur) /\ Groups(b, Append(newq, f), retrig, cur, i)
    BY <1>1, <1>13, <1>14, <1>15, <2>1, <2>2, ThreadJoins
  <2> QED BY <1>1, <2>3
<1> QED BY <1>c, <1>1, <1>11, <1>16, <1>17, <1>18 DEF OrderInv

-----------------------------------------------------------------------------
(* The evt-loop.                                                            *)

\* The thread at the head waits again, in q, or not; then its group goes on or
\* is put at the end of the new queue.
LEMMA HeadMoves ==
  ASSUME Inv, OrderInv, AtHead, LoopGoesOn, Births', uncommitted => uncommitted',
         cur' = Tail(cur), NEW q \in Seq(ThreadId), q = retrig \/ q = Append(retrig, cur[1]),
         \A t \in Elems(newq) \cup Elems(q) \cup Elems(Tail(cur)) :
           t \in Threads /\ t \in Threads' /\ SamePlace(t),
         \/ newq' = newq /\ retrig' = q /\ (thr[cur[1]].bump => uncommitted')
         \/ /\ newq' = newq \o q /\ retrig' = << >>
            /\ \A n \in DOMAIN newq : n = Len(newq) => thr'[newq[n]].bump
            /\ \A n \in DOMAIN q : n = Len(q) => thr'[q[n]].bump
  PROVE  OrderInv'
<1>a. PICK a : a = Tags
  OBVIOUS
<1>b. PICK b : b = Tags'
  OBVIOUS
<1>c. PICK g : g = Growing'
  OBVIOUS
<1>d. PICK next : next = cur
  OBVIOUS
<1>0. phase' = "none"
  BY DEF LoopGoesOn
<1> SUFFICES ASSUME ~ uncommitted'
             PROVE  Line(b, newq', retrig', Tail(next)) /\ Groups(b, newq', retrig', Tail(next), g)
  BY <1>b, <1>c, <1>d, <1>0 DEF OrderInv
<1>1. /\ newq \in Seq(ThreadId) /\ retrig \in Seq(ThreadId) /\ next \in Seq(ThreadId)
      /\ next # << >> /\ Elems(retrig) \subseteq Threads /\ Elems(next) \subseteq Threads
      /\ next[1] \in Threads
  BY <1>d, TagsAre, GrowingIs DEF OrderInv, Inv, Shape, AtHead
<1>2. Line(a, newq, retrig, next) /\ Groups(a, newq, retrig, next, a[next[1]].inst)
  BY <1>a, <1>d, GrowingIs DEF OrderInv, AtHead
<1>3. TagsOK(a, Elems(retrig) \cup Elems(next))
  BY <1>a, <1>1, TagsAre DEF OrderInv, TagsOK
<1>4. Later(a, b, Elems(newq)) /\ Later(a, b, Elems(q)) /\ Later(a, b, Elems(Tail(next)))
  <2>1. \A S : S \subseteq Elems(newq) \cup Elems(q) \cup Elems(Tail(cur)) => Later(Tags, Tags', S)
    BY TagsLater
  <2> QED BY <1>a, <1>b, <1>d, <2>1
<1>5. q = retrig \/ q = Append(retrig, next[1])
  BY <1>d
<1>6. CASE newq' = newq /\ retrig' = q /\ (thr[cur[1]].bump => uncommitted')
  <2>1. ~ a[next[1]].bump
    BY <1>a, <1>d, <1>1, <1>6, TagsAre DEF OrderInv
  <2>2. /\ Tail(next) # << >>
        /\ Line(b, newq, q, Tail(next))
        /\ Groups(b, newq, q, Tail(next), b[Tail(next)[1]].inst)
    BY <1>1, <1>2, <1>3, <1>4, <1>5, <2>1, GroupGoesOn
  <2>3. g = b[Tail(next)[1]].inst
    <3>1. Tail(next) \in Seq(ThreadId)
      BY <1>1, HeadTailProperties
    <3>2. Tail(cur)[1] \in Elems(Tail(cur))
      BY <1>d, <2>2, <3>1, HeadIn
    <3>3. Tail(cur)[1] \in Threads'
      BY <3>2
    <3>4. g = InstOf(cur[1])'
      BY <1>c, <1>d, <1>0, <2>2 DEF Growing
    <3>5. g = si'[thr'[Tail(cur)[1]].si].inst
      BY <3>4 DEF InstOf
    <3>6. \A t \in Threads' : b[t].inst = si'[thr'[t].si].inst
      BY <1>b DEF Tags, InstOf
    <3> QED BY <1>d, <3>3, <3>5, <3>6
  <2> QED BY <1>6, <2>2, <2>3
<1>7. CASE /\ newq' = newq \o q /\ retrig' = << >>
           /\ \A n \in DOMAIN newq : n = Len(newq) => thr'[newq[n]].bump
           /\ \A n \in DOMAIN q : n = Len(q) => thr'[q[n]].bump
  <2>1. \A t \in Threads' : b[t].bump <=> thr'[t].bump
    BY <1>b DEF Tags
  <2>2. /\ \A n \in DOMAIN newq : newq[n] \in Threads'
        /\ \A n \in DOMAIN q : q[n] \in Threads'
    BY DEF Elems
  <2>3. /\ \A n \in DOMAIN newq : n = Len(newq) => b[newq[n]].bump
        /\ \A n \in DOMAIN q : n = Len(q) => b[q[n]].bump
    BY <1>7, <2>1, <2>2
  <2>4. /\ Line(b, newq \o q, << >>, Tail(next))
        /\ Groups(b, newq \o q, << >>, Tail(next), g)
    BY <1>1, <1>2, <1>3, <1>4, <1>5, <2>3, GroupCommitted
  <2> QED BY <1>7, <2>4
<1> QED BY <1>6, <1>7

\* The marks of a commit, and those that were there.
LEMMA BumpedEnds ==
  ASSUME Inv, NEW th, TimeMarks(th), NEW q
  PROVE  /\ \A n \in DOMAIN newq : n = Len(newq) => Bumped(th, q)[newq[n]].bump
         /\ q \in Seq(ThreadId) => \A n \in DOMAIN q : n = Len(q) => Bumped(th, q)[q[n]].bump
         /\ \A t \in ThreadId : th[t].bump => Bumped(th, q)[t].bump
<1>1. \A t \in ThreadId : [th[t] EXCEPT !.bump = TRUE].bump
  BY DEF TimeMarks, LockMarks, Marks, IsThread
<1>2. ASSUME NEW t \in ThreadId,
             (newq # << >> /\ t = newq[Len(newq)]) \/ (q # << >> /\ t = q[Len(q)])
      PROVE  Bumped(th, q)[t].bump
  BY <1>1, <1>2 DEF Bumped
<1>3. \A t \in ThreadId : th[t].bump => Bumped(th, q)[t].bump
  BY <1>1 DEF Bumped
<1>4. \A p \in Seq(ThreadId) : \A n \in DOMAIN p : p # << >> /\ p[n] \in ThreadId
  BY ElementOfSeq, LenProperties
<1>5. newq \in Seq(ThreadId)
  BY DEF Inv, Shape
<1> QED BY <1>2, <1>3, <1>4, <1>5

\* The rule instances that are left when a thread is freed.
LEMMA ReapBirths ==
  ASSUME Inv, Births, AtHead, LoopGoesOn, events' = events, NEW th, Reap(Head(cur), th)
  PROVE  Births'
<1>a. PICK i : i = InstOf(Head(cur))
  OBVIOUS
<1>1. \/ ri' = [ri EXCEPT ![i] = NullInst]
      \/ \E m, n : ri' = [ri EXCEPT ![i].threads = m, ![i].killed = n]
  <2>1. \/ ri' = [ri EXCEPT ![i] = NullInst]
        \/ ri' = [ri EXCEPT ![i].threads = @ - 1, ![i].killed = @ \/ ri[i].threads = 1]
    BY <1>a DEF Reap, FreeRuleInstance
  <2>2. PICK m, n : m = ri[i].threads - 1 /\ n = (ri[i].killed \/ ri[i].threads = 1)
    OBVIOUS
  <2>3. ri' = [ri EXCEPT ![i] = NullInst] \/ ri' = [ri EXCEPT ![i].threads = m, ![i].killed = n]
    BY <2>1, <2>2
  <2> QED BY <2>3
<1>2. Insts' \subseteq Insts /\ \A j \in Insts' : SameAge(j)
  <2>1. CASE ri' = [ri EXCEPT ![i] = NullInst]
    <3>1. \A j \in InstId : ri'[j] = ri[j] \/ ri'[j].rule = 0
      BY <2>1 DEF NullInst, Inv, Shape
    <3> QED BY <3>1 DEF Insts, SameAge
  <2>2. CASE \E m, n : ri' = [ri EXCEPT ![i].threads = m, ![i].killed = n]
    <3>1. PICK m, n : ri' = [ri EXCEPT ![i].threads = m, ![i].killed = n]
      BY <2>2
    <3>2. \A j \in InstId : ri'[j] = ri[j] \/ ri'[j] = [ri[j] EXCEPT !.threads = m, !.killed = n]
      BY <3>1 DEF Inv, Shape
    <3>3. \A j \in InstId : IsInst(ri[j])
      BY DEF Inv, Shape
    <3>4. \A j \in InstId : ri'[j].rule = ri[j].rule /\ ri'[j].born = ri[j].born
      BY ONLY <3>2, <3>3 DEF IsInst
    <3> QED BY <3>4 DEF Insts, SameAge
  <2> QED BY <1>1, <2>1, <2>2
<1>3. rulePos \in Nat /\ rulePos' = rulePos /\ rulePos >= rulePos
  BY DEF Inv, Shape, LoopGoesOn
<1> QED BY <1>2, <1>3, BirthsStay DEF LoopGoesOn

\* The thread at the head is freed.
LEMMA ReapOrder ==
  ASSUME Inv, OrderInv, AtHead, LoopGoesOn, events' = events, uncommitted => uncommitted',
         NEW th, TimeMarks(th), \A t \in ThreadId : thr[t].bump => th[t].bump,
         \/ /\ newq' = newq /\ retrig' = retrig /\ Reap(Head(cur), th)
            /\ thr[Head(cur)].bump => uncommitted'
         \/ /\ newq' = newq \o retrig /\ retrig' = << >>
            /\ Reap(Head(cur), Bumped(th, retrig))
  PROVE  OrderInv'
<1>a. PICK t : t = Head(cur)
  OBVIOUS
<1>1. /\ cur # << >> /\ cur[1] = t /\ cur \in Seq(ThreadId) /\ newq \in Seq(ThreadId)
      /\ retrig \in Seq(ThreadId)
  BY <1>a, HeadLives DEF AtHead, Inv, Shape
<1>2. \A u \in Elems(newq) \cup Elems(retrig) \cup Elems(Tail(cur)) : u \in Threads \ {t}
  <2>1. Elems(Tail(cur)) = Elems(cur) \ {t} /\ t \in Elems(cur)
    BY <1>a, <1>1, TailOf DEF Inv, Queued
  <2> QED BY <2>1 DEF Inv, Queued, Disjoint
<1>3. ASSUME NEW new, TimeMarks(new), \A u \in ThreadId : th[u].bump => new[u].bump, Reap(t, new)
      PROVE  /\ cur' = Tail(cur) /\ Births'
             /\ \A u \in Elems(newq) \cup Elems(retrig) \cup Elems(Tail(cur)) :
                  u \in Threads /\ u \in Threads' /\ SamePlace(u) /\ thr'[u] = new[u]
  <2>1. cur' = Tail(cur) /\ Births'
    BY <1>a, <1>3, ReapBirths DEF Reap, OrderInv
  <2>2. Threads' = Threads \ {t}
    <3>1. /\ cur # << >> /\ phase # "init" /\ pc # "idle" /\ pc' # "idle"
          /\ active_event_cur' = active_event_cur /\ Marks(new)
      BY <1>3 DEF AtHead, LoopGoesOn, TimeMarks, LockMarks
    <3> QED BY <1>a, <1>3, <3>1, ThreadFreed
  <2>3. \A u \in Threads' : /\ u \in ThreadId /\ SameThread(u) /\ thr'[u] = new[u]
                            /\ ri'[InstOf(u)].born = ri[InstOf(u)].born
    BY <1>a, <1>3, ReapSame
  <2>4. \A u \in Threads' : thr[u].bump => thr'[u].bump
    BY <1>3, <2>3
  <2> QED BY SMTT(60), <1>2, <2>1, <2>2, <2>3, <2>4 DEF SamePlace
<1>4. CASE /\ newq' = newq /\ retrig' = retrig /\ Reap(Head(cur), th)
           /\ thr[Head(cur)].bump => uncommitted'
  <2>1. /\ cur' = Tail(cur) /\ Births'
        /\ \A u \in Elems(newq) \cup Elems(retrig) \cup Elems(Tail(cur)) :
             u \in Threads /\ u \in Threads' /\ SamePlace(u)
    BY <1>a, <1>3, <1>4
  <2>2. thr[cur[1]].bump => uncommitted'
    BY <1>a, <1>1, <1>4
  <2> QED BY <1>1, <1>4, <2>1, <2>2, HeadMoves
<1>5. CASE /\ newq' = newq \o retrig /\ retrig' = << >>
           /\ Reap(Head(cur), Bumped(th, retrig))
  <2>a. PICK new : new = Bumped(th, retrig)
    OBVIOUS
  <2>1. TimeMarks(new) /\ \A u \in ThreadId : th[u].bump => new[u].bump
    BY <2>a, TimesKept, BumpedEnds
  <2>2. /\ cur' = Tail(cur) /\ Births'
        /\ \A u \in Elems(newq) \cup Elems(retrig) \cup Elems(Tail(cur)) :
             u \in Threads /\ u \in Threads' /\ SamePlace(u) /\ thr'[u] = new[u]
    BY <1>a, <1>3, <1>5, <2>a, <2>1
  <2>3. /\ \A n \in DOMAIN newq : n = Len(newq) => new[newq[n]].bump
        /\ \A n \in DOMAIN retrig : n = Len(retrig) => new[retrig[n]].bump
    BY <1>1, <2>a, BumpedEnds
  <2>4. /\ \A n \in DOMAIN newq : n = Len(newq) => thr'[newq[n]].bump
        /\ \A n \in DOMAIN retrig : n = Len(retrig) => thr'[retrig[n]].bump
    BY <2>2, <2>3 DEF Elems
  <2> QED BY <1>1, <1>5, <2>2, <2>4, HeadMoves
<1> QED BY <1>4, <1>5

\* The thread at the head waits again.
LEMMA RetriggerOrder ==
  ASSUME Inv, OrderInv, AtHead, LoopGoesOn, events' = events, uncommitted => uncommitted',
         NEW th, TimeMarks(th), \A t \in ThreadId : th[t].bump <=> thr[t].bump,
         Retrigger(Head(cur), th)
  PROVE  OrderInv'
<1>a. PICK t : t = Head(cur)
  OBVIOUS
<1>b. PICK q : q = Append(retrig, t)
  OBVIOUS
<1>1. /\ cur # << >> /\ cur[1] = t /\ cur \in Seq(ThreadId) /\ newq \in Seq(ThreadId)
      /\ retrig \in Seq(ThreadId) /\ t \in Threads /\ t \in ThreadId
  BY <1>a, HeadLives DEF AtHead, Inv, Shape
<1>2. /\ cur' = Tail(cur) /\ si' = si /\ ri' = ri
      /\ \/ /\ thr' = Bumped(th, q) /\ newq' = newq \o q /\ retrig' = << >>
         \/ ~ th[t].bump /\ thr' = th /\ retrig' = q /\ newq' = newq
  BY <1>a, <1>b DEF Retrigger
<1>3. TimeMarks(thr') /\ \A u \in ThreadId : thr[u].bump => thr'[u].bump
  BY <1>2, TimesKept, BumpedEnds
<1>4. Threads' = Threads /\ \A u \in Threads : u \in ThreadId /\ SamePlace(u)
  <2>1. \A u \in ThreadId : thr'[u].si = thr[u].si /\ thr'[u].once = thr[u].once
    BY <1>3 DEF TimeMarks, LockMarks, Marks
  <2>2. Threads' = Threads /\ \A u \in Threads : u \in ThreadId
    BY <2>1 DEF Threads
  <2>3. \A u \in Threads : SameThread(u)
    BY <1>2, <2>1, <2>2 DEF SameThread, InstOf
  <2> QED BY <1>2, <1>3, <2>2, <2>3 DEF SamePlace
<1>5. Births'
  <2>1. Insts' = Insts /\ \A i \in Insts : SameAge(i)
    BY <1>2 DEF Insts, SameAge
  <2> QED BY <2>1, AgesStay DEF OrderInv, LoopGoesOn
<1>6. /\ q \in Seq(ThreadId)
      /\ \A u \in Elems(newq) \cup Elems(q) \cup Elems(Tail(cur)) : u \in Threads
  <2>1. Elems(q) = Elems(retrig) \cup {t} /\ q \in Seq(ThreadId)
    <3>1. t \in Elems(cur)
      BY <1>a, <1>1, HeadIn
    <3>2. t \notin Elems(retrig) /\ Distinct(retrig)
      BY <3>1 DEF Inv, Queued, Disjoint
    <3> QED BY <1>b, <1>1, <3>2, AppendTo
  <2>2. Elems(Tail(cur)) \subseteq Elems(cur)
    BY <1>1, TailOf DEF Inv, Queued
  <2> QED BY <1>1, <2>1, <2>2, TagsAre DEF OrderInv
<1>7. \/ newq' = newq /\ retrig' = q /\ (thr[cur[1]].bump => uncommitted')
      \/ /\ newq' = newq \o q /\ retrig' = << >>
         /\ \A n \in DOMAIN newq : n = Len(newq) => thr'[newq[n]].bump
         /\ \A n \in DOMAIN q : n = Len(q) => thr'[q[n]].bump
  <2>1. CASE /\ thr' = Bumped(th, q) /\ newq' = newq \o q /\ retrig' = << >>
    BY <1>6, <2>1, BumpedEnds
  <2>2. CASE ~ th[t].bump /\ thr' = th /\ retrig' = q /\ newq' = newq
    BY <1>1, <2>2
  <2> QED BY <1>2, <2>1, <2>2
<1>8. q = retrig \/ q = Append(retrig, cur[1])
  BY <1>b, <1>1
<1>9. \A u \in Elems(newq) \cup Elems(q) \cup Elems(Tail(cur)) :
        u \in Threads /\ u \in Threads' /\ SamePlace(u)
  BY <1>4, <1>6
<1> QED BY <1>2, <1>5, <1>6, <1>7, <1>8, <1>9, HeadMoves

\* The end of an iteration: an initial thread is freed, any other waits again,
\* and a mark that is freed with its thread is remembered.
LEMMA IterationOrder ==
  ASSUME Inv, OrderInv, ReapKilledThread \/ ThreadFails \/ AfterMatch,
         uncommitted' = (uncommitted \/ CommitLost)
  PROVE  OrderInv'
<1>1. /\ AtHead /\ LoopGoesOn /\ events' = events /\ (uncommitted => uncommitted')
  BY Iterates DEF ReapKilledThread, ThreadFails, AfterMatch, clock
<1>2. CASE ReapKilledThread
  <2>1. /\ newq' = newq /\ retrig' = retrig /\ Reap(Head(cur), thr)
        /\ thr[Head(cur)].bump => uncommitted'
    BY <1>2 DEF ReapKilledThread, CommitLost
  <2> QED BY <1>1, <2>1, TimesKept, ReapOrder
<1>3. CASE ThreadFails \/ AfterMatch
  <2>a. PICK t : t = Head(cur)
    OBVIOUS
  <2>1. PICK th : /\ th = thr \/ \E S : th = Kill(thr, S)
                  /\ ReapInitialThread(t, th) \/ Retrigger(t, th)
    BY <1>3, <2>a DEF ThreadFails, AfterMatch
  <2>2. TimeMarks(th)
    BY <2>1, TimesKept
  <2>3. \A u \in ThreadId : th[u].bump = thr[u].bump
    BY <2>1, KillKeeps DEF Inv
  <2>4. t \in ThreadId
    BY <1>1, <2>a, HeadLives DEF AtHead
  <2>5. CASE Retrigger(t, th)
    BY <1>1, <2>a, <2>2, <2>3, <2>5, RetriggerOrder
  <2>6. CASE ReapInitialThread(t, th)
    <3>1. \/ /\ newq' = newq /\ retrig' = retrig /\ Reap(t, th)
             /\ thr[t].bump => uncommitted'
          \/ /\ newq' = newq \o retrig /\ retrig' = << >>
             /\ Reap(t, Bumped(th, retrig))
      BY <2>3, <2>4, <2>6 DEF ReapInitialThread
    <3> QED BY <1>1, <2>a, <2>2, <2>3, <3>1, ReapOrder
  <2> QED BY <2>1, <2>5, <2>6
<1> QED BY <1>2, <1>3

-----------------------------------------------------------------------------
(* The order at any time, and between two events.                           *)

\* Every step of the engine and of its environment.
LEMMA OrderInductive ==
  ASSUME Inv, LockInv, Single, NoInitialThreads, OrderInv, [Next]_vars PROVE OrderInv'
<1>1. CASE UNCHANGED vars
  BY <1>1, StutterOrder DEF vars
<1>2. CASE EnvironmentStep
  BY <1>2, StutterOrder DEF EnvironmentStep
<1>3. CASE EngineStep
  <2>1. rules' = rules /\ uncommitted' = (uncommitted \/ CommitLost) /\ (uncommitted => uncommitted')
    BY <1>3 DEF EngineStep
  <2>2. CASE SimulateStep
    BY <2>1, <2>2, SimulationOrder, ThreadOrder
  <2>3. CASE InitialThreadsStep
    BY <2>1, <2>3, CreateInitialOrder, LinkOrder, DropOrder, MergeOrder DEF InitialThreadsStep
  <2>4. CASE EvtLoopStep
    BY <2>1, <2>4, MatchOrder, IterationOrder, StutterOrder DEF EvtLoopStep
  <2> QED BY <1>3, <2>2, <2>3, <2>4 DEF EngineStep
<1> QED BY <1>1, <1>2, <1>3 DEF Next

\* There is no thread and no rule instance at first.
LEMMA OrderInitially == ASSUME Init PROVE OrderInv
<1>1. Insts = {}
  BY DEF Init, Insts, NullInst
<1>2. Births
  BY <1>1 DEF Init, Births
<1>3. \A a, g : Line(a, << >>, << >>, << >>) /\ Groups(a, << >>, << >>, << >>, g)
  BY DEF Line, Groups, InOrder, AllBefore, Elems
<1> QED BY <1>2, <1>3 DEF Init, OrderInv

\* Between two events the new queue is all there is.
LEMMA OrderConsequence == ASSUME Inv, OrderInv PROVE QueueInOrder
<1> SUFFICES ASSUME pc = "idle", ~ uncommitted,
                    NEW m \in DOMAIN (newq \o retrig), NEW n \in DOMAIN (newq \o retrig), m < n
             PROVE  LET q == newq \o retrig
                        Age(t) == << ri[InstOf(t)].born, ri[InstOf(t)].rule >>
                    IN  \/ Age(q[m]) = Age(q[n])
                        \/ Age(q[m])[1] < Age(q[n])[1]
                        \/ Age(q[m])[1] = Age(q[n])[1] /\ Age(q[m])[2] < Age(q[n])[2]
  BY DEF QueueInOrder
<1>a. PICK a : a = Tags
  OBVIOUS
<1>1. newq \in Seq(ThreadId) /\ retrig \in Seq(ThreadId)
  BY DEF Inv, Shape
<1>2. newq \o retrig = newq
  <2>1. cur = << >>
    BY DEF Inv, Initial
  <2>2. retrig = << >>
    BY <1>1, <2>1, NothingBefore, HeadIn
  <2> QED BY <1>1, <2>2, ConcatEmptySeq
<1>3. NotAfter(a, newq[m], newq[n])
  BY <1>a, <1>2 DEF OrderInv, Line, InOrder
<1>4. newq[m] \in Threads /\ newq[n] \in Threads
  BY <1>2, TagsAre DEF OrderInv, Elems
<1>b. PICK t, u : t = newq[m] /\ u = newq[n]
  OBVIOUS
<1>c. PICK k, l : k = ri[InstOf(t)] /\ l = ri[InstOf(u)]
  OBVIOUS
<1>5. k.born < l.born \/ (k.born = l.born /\ k.rule <= l.rule)
  BY <1>a, <1>b, <1>c, <1>3, <1>4, TagsAre DEF OrderInv, NotAfter
<1>6. k.rule \in Nat /\ l.rule \in Nat
  BY <1>b, <1>c, <1>4, TagsAre DEF OrderInv, Births
<1>7. k.rule <= l.rule => k.rule = l.rule \/ k.rule < l.rule
  BY <1>6
<1>8. \/ << k.born, k.rule >> = << l.born, l.rule >>
      \/ k.born < l.born
      \/ k.born = l.born /\ k.rule < l.rule
  BY <1>5, <1>7
<1> QED BY <1>b, <1>c, <1>2, <1>8

\* When inject_event() returns, the threads wait in the order of their rule
\* instances (the commits of engine.c:532 to 600), as long as no thread was freed
\* with the mark of the end of its group.
THEOREM QueueAlwaysInOrder == QuietRules /\ Spec => []QueueInOrder
<1> DEFINE All == Inv /\ LockInv /\ Quiet /\ Single /\ OrderInv
<1>1. Init /\ QuietRules => All
  BY Initially, LocksInitially, QuietInitially, SingleInitially, OrderInitially
<1>2. All /\ [Next]_vars => All'
  BY Inductive, LocksInductive, QuietInductive, QuietConsequence, SingleInductive, OrderInductive
<1>3. All => QueueInOrder
  BY OrderConsequence
<1> QED BY <1>1, <1>2, <1>3, PTL DEF Spec
=============================================================================
