---------------------------- MODULE IdAllocator ----------------------------
(***************************************************************************)
(* sql/storage/id_allocator.cc: ids for databases, tables and columns.     *)
(* A name hashes to one of Capacity buckets; each bucket has a counter in  *)
(* the key-value store, Incrby moves it by a multiple of Capacity, and the *)
(* ids handed out lie one Capacity apart, offset by the bucket, so that    *)
(* buckets need not know of each other.  BatchAllocateID works on a copy   *)
(* of its cached AllocInfo, so left_num is 0 on every call and every call  *)
(* goes to the store.                                                      *)
(*                                                                         *)
(* counter  the stored counters (no record reads as 0)                     *)
(* issued   history: the ids handed out so far, by type                    *)
(* last     the answer to the last request                                 *)
(***************************************************************************)
EXTENDS Integers, FiniteSets

CONSTANTS
  IDType,      \* Database, Table, Column
  Names,       \* names of databases and tables
  Capacity,    \* bucket_capacity_
  BucketOf,    \* std::hash of the name, reduced to a bucket
  MaxBatch,    \* bound: ids asked for in one request
  MaxCounter   \* bound: value of a stored counter

ASSUME AllocatorAssumption ==
  /\ Capacity \in Nat \ {0}
  /\ BucketOf \in [Names -> 0 .. Capacity - 1]
  /\ MaxBatch \in Nat
  /\ MaxCounter \in Nat

VARIABLES counter, issued, last

allocVars == <<counter, issued, last>>

Buckets == 0 .. Capacity - 1

AllocInit ==
  /\ counter = [t \in IDType |-> [b \in Buckets |-> 0]]
  /\ issued = [t \in IDType |-> {}]
  /\ last = [asked |-> 0, ids |-> {}]

\* need_fetch_num: a request is clipped to the number of buckets.
FetchNum(batch) == IF batch > Capacity THEN Capacity ELSE batch

\* Mutant: the counter moves by one id, whatever the request.
IncrbyOne(type, b, n) ==
  counter' = [counter EXCEPT ![type][b] = @ + Capacity]

\* LevelDbClient::Incrby by n * bucket_capacity_; its delete and put are one batch.
Incrby(type, b, n) ==
  counter' = [counter EXCEPT ![type][b] = @ + n * Capacity]

\* Mutants: ids from 0 on; the first id left out; ids one apart; ids without the
\* offset of the bucket.
IdsFromZero(curId, b, n) == {curId + i * Capacity + b : i \in 0 .. n - 1}

IdsButFirst(curId, b, n) == {curId + i * Capacity + b + 1 : i \in 1 .. n - 1}

IdsInARow(curId, b, n) == {curId + i + b + 1 : i \in 0 .. n - 1}

IdsWithoutBucket(curId, b, n) == {curId + i * Capacity + 1 : i \in 0 .. n - 1}

\* The ids id_alloc pushes for bucket b, from cur_id on.
IdsFrom(curId, b, n) == {curId + i * Capacity + b + 1 : i \in 0 .. n - 1}

BatchAllocateID(type, name, batch) ==
  LET b   == BucketOf[name]
      n   == FetchNum(batch)
      ids == IdsFrom(counter[type][b], b, n)
  IN  /\ counter[type][b] + n * Capacity <= MaxCounter
      /\ Incrby(type, b, n)
      /\ issued' = [issued EXCEPT ![type] = @ \cup ids]
      /\ last' = [asked |-> batch, ids |-> ids]

\* The process dies when the counter is stored and no id has been returned yet.
CrashInAllocate(type, name, batch) ==
  LET b == BucketOf[name]
      n == FetchNum(batch)
  IN  /\ counter[type][b] + n * Capacity <= MaxCounter
      /\ Incrby(type, b, n)
      /\ last' = [asked |-> 0, ids |-> {}]
      /\ UNCHANGED issued

AllocNext ==
  \E type \in IDType, name \in Names, batch \in 0 .. MaxBatch :
    \/ BatchAllocateID(type, name, batch)
    \/ CrashInAllocate(type, name, batch)

AllocSpec == AllocInit /\ [][AllocNext]_allocVars

-----------------------------------------------------------------------------
(* Properties *)

AllocTypeOK ==
  /\ counter \in [IDType -> [Buckets -> Nat]]
  /\ issued \in [IDType -> SUBSET (Nat \ {0})]
  /\ last.asked \in Nat
  /\ last.ids \subseteq Nat

\* No id of a type is handed out twice, over names in the same and in different
\* buckets, requests of any size, crashes and restarts.
NoIdIssuedTwice ==
  [][\A t \in IDType : issued'[t] # issued[t] => last'.ids \cap issued[t] = {}]_allocVars

\* A request for at most Capacity ids gets as many different ids as it asked for.
RequestsAreFilled ==
  last.asked <= Capacity => Cardinality(last.ids) = last.asked

\* Why no id comes twice: a counter is a multiple of Capacity, and an issued id
\* is a multiple of Capacity that the counter of its bucket has passed, offset by
\* that bucket.
IssuedBelowCounter ==
  /\ \A t \in IDType, b \in Buckets :
       \E q \in 0 .. counter[t][b] : counter[t][b] = q * Capacity
  /\ \A t \in IDType : \A id \in issued[t] :
       \E b \in Buckets, q \in 0 .. id :
         id = q * Capacity + b + 1 /\ q * Capacity < counter[t][b]

=============================================================================
