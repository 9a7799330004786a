----------------------------- MODULE HashTables -----------------------------
(***************************************************************************)
(* The three chained hash tables of src/util: strhash (string keys), hash  *)
(* (keys with a length) and objhash (keys with a comparison).  One of them *)
(* is run with one hash function, any function at all: h->hash is a        *)
(* pointer, and nothing may depend on which of the samples it points to.   *)
(***************************************************************************)
EXTENDS Integers, SequencesExt

CONSTANTS
  Keys,      \* keys, no two of them equal for strcmp(), memcmp() or cmp()
  Data,      \* what the tables hold
  None,      \* the null pointer
  TableSize, \* number of buckets
  MaxElmts   \* bound: elements ever added since the last clear

ASSUME SizeAssumption == TableSize \in Nat \ {0} /\ None \notin Data

VARIABLES
  table,  \* which of the three tables it is
  hash,   \* h->hash(key) % h->size
  htable, \* h->htable: bucket -> chain of elements
  elmts,  \* h->elmts
  ret,    \* what the last operation returned
  seen    \* the data that the last walk visited

hashVars == << table, hash, htable, elmts, ret, seen >>

Buckets == 0 .. TableSize - 1
Element == [key : Keys, data : Data]

\* The loop over a chain: the place of the first element with the key, or 0.
Find(k) == SelectInSeq(htable[hash[k]], LAMBDA e : e.key = k)

Found(k) == IF Find(k) = 0 THEN None ELSE htable[hash[k]][Find(k)].data
Chain(elements) == LET elmt[i \in 0 .. Len(elements)] ==
                         IF i = 0 THEN << >> ELSE << elements[i] >> \o elmt[i - 1]
                   IN  elmt[Len(elements)]
Empty == [b \in Buckets |-> << >>]

\* The mutants hang the element at the end of the chain, or forget to count it.
LinkLast(k, d) ==
  /\ htable' = [htable EXCEPT ![hash[k]] = Append(@, [key |-> k, data |-> d])]
  /\ elmts' = elmts + 1
LinkUncounted(k, d) ==
  /\ htable' = [htable EXCEPT ![hash[k]] = << [key |-> k, data |-> d] >> \o @]
  /\ elmts' = IF htable[hash[k]] = << >> THEN elmts + 1 ELSE elmts

\* A new element is the head of its chain.
Link(k, d) ==
  /\ htable' = [htable EXCEPT ![hash[k]] = << [key |-> k, data |-> d] >> \o @]
  /\ elmts' = elmts + 1

Overwrite(k, d) ==
  /\ htable' = [htable EXCEPT ![hash[k]][Find(k)].data = d]
  /\ UNCHANGED elmts

\* The element leaves its chain; elmts is not decremented.
Unlink(k) ==
  /\ htable' = [htable EXCEPT ![hash[k]] = RemoveAt(@, Find(k))]
  /\ UNCHANGED elmts

Keep == UNCHANGED << htable, elmts >>

\* Every bucket in turn, every element of its chain.
Walk == LET bucket[b \in 0 .. TableSize] ==
              IF b = 0 THEN << >> ELSE bucket[b - 1] \o htable[b - 1]
        IN  bucket[TableSize]

Returns(r) == ret' = r /\ seen' = {} /\ UNCHANGED << table, hash >>
-----------------------------------------------------------------------------
(* strhash.c                                                               *)

strhash_add(k, d) == Link(k, d) /\ Returns(None)

strhash_check_and_add(k, d) ==
  /\ IF Find(k) # 0 THEN Keep ELSE Link(k, d)
  /\ Returns(Found(k))

strhash_update(k, d) ==
  /\ IF Find(k) # 0 THEN Overwrite(k, d) ELSE Keep
  /\ Returns(Found(k))

strhash_update_or_add(k, d) ==
  /\ IF Find(k) # 0 THEN Overwrite(k, d) ELSE Link(k, d)
  /\ Returns(Found(k))

strhash_del(k) ==
  /\ IF Find(k) # 0 THEN Unlink(k) ELSE Keep
  /\ Returns(Found(k))

strhash_get(k) == Keep /\ Returns(Found(k))

clear_strhash == htable' = Empty /\ elmts' = 0 /\ Returns(None)

\* free_strhash(), then new_strhash().
free_strhash == htable' = Empty /\ elmts' = 0 /\ Returns(None)

\* strhash_add() of every element in the order of the walk reverses a chain.
strhash_clone ==
  /\ htable' = [b \in Buckets |-> Chain(htable[b])]
  /\ elmts' = Len(Walk)
  /\ Returns(None)

\* The array has elmts places, and one is written for every element.
strhash_to_array ==
  /\ seen' = {e.data : e \in ToSet(Walk)}
  /\ ret' = None
  /\ UNCHANGED << table, hash, htable, elmts >>

\* The walk ends at the first element for which func() does not return 0.
WalkTo(stop) ==
  LET at == SelectInSeq(Walk, LAMBDA e : e.data = stop)
  IN  /\ seen' = {e.data : e \in ToSet(IF at = 0 THEN Walk ELSE SubSeq(Walk, 1, at))}
      /\ ret' = IF at = 0 THEN None ELSE stop
      /\ UNCHANGED << table, hash, htable, elmts >>
strhash_walk(stop) == WalkTo(stop)
-----------------------------------------------------------------------------
(* hash.c: the same operations; a key is equal when its length is too.     *)

hash_add(k, d)           == strhash_add(k, d)
hash_check_and_add(k, d) == strhash_check_and_add(k, d)
hash_update(k, d)        == strhash_update(k, d)
hash_update_or_add(k, d) == strhash_update_or_add(k, d)
hash_del(k)              == strhash_del(k)
hash_get(k)              == strhash_get(k)
clear_hash               == clear_strhash
free_hash                == free_strhash
hash_clone               == strhash_clone
hash_to_array            == strhash_to_array
hash_walk(stop)          == strhash_walk(stop)
-----------------------------------------------------------------------------
(* objhash.c: no update, no clear.                                         *)

objhash_add(k, d)  == strhash_add(k, d)
objhash_del(k)     == strhash_del(k)
objhash_get(k)     == strhash_get(k)
objhash_walk(stop) == strhash_walk(stop)
-----------------------------------------------------------------------------
HashInit ==
  /\ table \in {"strhash", "hash", "objhash"}
  /\ hash \in [Keys -> Buckets]
  /\ htable = Empty /\ elmts = 0 /\ ret = None /\ seen = {}

HasRoom == elmts < MaxElmts

StrHashNext ==
  /\ table = "strhash"
  /\ \/ \E k \in Keys, d \in Data :
          \/ HasRoom /\ (strhash_add(k, d) \/ strhash_check_and_add(k, d)
                      \/ strhash_update_or_add(k, d))
          \/ strhash_update(k, d)
     \/ \E k \in Keys : strhash_del(k) \/ strhash_get(k)
     \/ \E d \in Data \cup {None} : strhash_walk(d)
     \/ clear_strhash \/ free_strhash \/ strhash_clone \/ strhash_to_array

MemHashNext ==
  /\ table = "hash"
  /\ \/ \E k \in Keys, d \in Data :
          \/ HasRoom /\ (hash_add(k, d) \/ hash_check_and_add(k, d)
                      \/ hash_update_or_add(k, d))
          \/ hash_update(k, d)
     \/ \E k \in Keys : hash_del(k) \/ hash_get(k)
     \/ \E d \in Data \cup {None} : hash_walk(d)
     \/ clear_hash \/ free_hash \/ hash_clone \/ hash_to_array

ObjHashNext ==
  /\ table = "objhash"
  /\ \/ \E k \in Keys, d \in Data : HasRoom /\ objhash_add(k, d)
     \/ \E k \in Keys : objhash_del(k) \/ objhash_get(k)
     \/ \E d \in Data \cup {None} : objhash_walk(d)

HashNext == StrHashNext \/ MemHashNext \/ ObjHashNext
-----------------------------------------------------------------------------
(* Properties.                                                             *)

HashTypeOK ==
  /\ htable \in [Buckets -> Seq(Element)]
  /\ elmts \in 0 .. MaxElmts
  /\ ret \in Data \cup {None} /\ seen \subseteq Data

\* The buckets hold elements, and strhash_to_array(), which allocates elmts
\* places and writes one for every element, stays in its array, although elmts
\* counts what was deleted too.
ToArrayFits == HashTypeOK /\ Len(Walk) <= elmts

\* Whatever the hash function and however the keys collide, a table is a map
\* from keys to piles of data: the operations of KeyMap, with their results.
DataOf(k) == LET mine == SelectSeq(htable[hash[k]], LAMBDA e : e.key = k)
             IN  [i \in DOMAIN mine |-> mine[i].data]

Map == INSTANCE KeyMap WITH map <- [k \in Keys |-> DataOf(k)]

IsKeyMap == Map!Spec
=============================================================================
