--------------------------- MODULE CatalogProofs ---------------------------
(***************************************************************************)
(* Proofs about IdAllocator, Catalog and CatalogStore: no id is handed out *)
(* twice, for any number of buckets, names, ids per request and crashes;   *)
(* whatever CREATE statements run and wherever they are interrupted, a     *)
(* named table has its records, ids are not shared and a name keeps its    *)
(* id; and the records of all of them can be kept in one store.            *)
(***************************************************************************)
EXTENDS CatalogStore, CodecProofs, FiniteSetTheorems

-----------------------------------------------------------------------------
(* The steps of the allocator *)

\* The number of ids a request fetches is natural.
LEMMA FetchNumType ==
  ASSUME NEW batch \in Nat
  PROVE  FetchNum(batch) \in Nat
BY AllocatorAssumption DEF FetchNum

AllocInv == AllocTypeOK /\ IssuedBelowCounter

\* Incrby moves one counter by n multiples of Capacity.
LEMMA IncrbyStep ==
  ASSUME AllocInv, NEW type \in IDType, NEW bk \in Buckets, NEW n \in Nat,
         Incrby(type, bk, n)
  PROVE  /\ counter' \in [IDType -> [Buckets -> Nat]]
         /\ counter'[type][bk] = counter[type][bk] + n * Capacity
         /\ \A t \in IDType, b \in Buckets : counter[t][b] <= counter'[t][b]
         /\ \A t \in IDType, b \in Buckets :
              \E q \in 0 .. counter'[t][b] : counter'[t][b] = q * Capacity
<1>0. Capacity \in Nat \ {0}
  BY AllocatorAssumption
<1>1. n * Capacity \in Nat
  BY <1>0, ProductBound
<1>2. counter \in [IDType -> [Buckets -> Nat]]
  BY DEF AllocInv, AllocTypeOK
<1>3. counter' = [counter EXCEPT ![type][bk] = @ + n * Capacity]
  BY DEF Incrby
<1>4. counter' \in [IDType -> [Buckets -> Nat]]
  BY <1>1, <1>2, <1>3
<1>5. counter'[type][bk] = counter[type][bk] + n * Capacity
  BY <1>2, <1>3
<1>6. \A t \in IDType, b \in Buckets :
        ~(t = type /\ b = bk) => counter'[t][b] = counter[t][b]
  BY <1>2, <1>3
<1>7. \A t \in IDType, b \in Buckets : counter[t][b] \in Nat
  BY <1>2
<1>8. \A t \in IDType, b \in Buckets : counter[t][b] <= counter'[t][b]
  BY <1>1, <1>5, <1>6, <1>7
<1>9. ASSUME NEW t \in IDType, NEW b \in Buckets
      PROVE  \E q \in 0 .. counter'[t][b] : counter'[t][b] = q * Capacity
  <2>1. PICK q \in 0 .. counter[t][b] : counter[t][b] = q * Capacity
    BY DEF AllocInv, IssuedBelowCounter
  <2>2. q \in Nat
    BY <1>7
  <2>3. CASE t = type /\ b = bk
    <3>1. counter'[t][b] = (q + n) * Capacity
      BY <1>0, <1>5, <2>1, <2>2, <2>3, SMT
    <3>2. q + n \in 0 .. counter'[t][b]
      BY <1>0, <2>2, <3>1, ProductBound, q + n \in Nat
    <3> QED
      BY <3>1, <3>2
  <2>4. CASE ~(t = type /\ b = bk)
    BY <1>6, <2>1, <2>4
  <2> QED
    BY <2>3, <2>4
<1> QED
  BY <1>4, <1>5, <1>8, <1>9

\* The ids of one request: each is a multiple of Capacity at or above the old
\* counter and below the new one, offset by the bucket.
LEMMA IdsOfRequest ==
  ASSUME AllocInv, NEW type \in IDType, NEW bk \in Buckets, NEW n \in Nat,
         NEW id \in IdsFrom(counter[type][bk], bk, n)
  PROVE  \E q \in Nat : /\ id = q * Capacity + bk + 1
                        /\ counter[type][bk] <= q * Capacity
                        /\ q * Capacity < counter[type][bk] + n * Capacity
<1>0. Capacity \in Nat \ {0} /\ bk \in 0 .. Capacity - 1 /\ bk \in Nat
  BY AllocatorAssumption DEF Buckets
<1>1. PICK i \in 0 .. n - 1 : id = counter[type][bk] + i * Capacity + bk + 1
  BY DEF IdsFrom
<1>2. counter[type][bk] \in Nat
  BY DEF AllocInv, AllocTypeOK
<1>3. PICK p \in 0 .. counter[type][bk] : counter[type][bk] = p * Capacity
  BY DEF AllocInv, IssuedBelowCounter
<1>4. p \in Nat /\ i \in Nat /\ p + i \in Nat /\ i < n
  BY <1>2
<1>5. i * Capacity \in Nat /\ n * Capacity \in Nat
  BY <1>0, <1>4, ProductBound
<1>6. (p + i) * Capacity = counter[type][bk] + i * Capacity
  BY <1>0, <1>3, <1>4, SMT
<1>7. i * Capacity + Capacity <= n * Capacity
  BY <1>0, <1>4, MultiplesApart
<1>8. id = (p + i) * Capacity + bk + 1
  BY <1>1, <1>6
<1>9. counter[type][bk] <= (p + i) * Capacity
  BY <1>2, <1>5, <1>6
<1>10. (p + i) * Capacity < counter[type][bk] + n * Capacity
  BY <1>0, <1>2, <1>5, <1>6, <1>7
<1> QED
  BY <1>4, <1>8, <1>9, <1>10

\* The ids of a request are new: an issued id has another bucket, or a multiple
\* of Capacity below the counter.
LEMMA IdsAreNew ==
  ASSUME AllocInv, NEW type \in IDType, NEW bk \in Buckets, NEW n \in Nat
  PROVE  IdsFrom(counter[type][bk], bk, n) \cap issued[type] = {}
<1> SUFFICES ASSUME NEW id \in IdsFrom(counter[type][bk], bk, n), id \in issued[type]
             PROVE  FALSE
  OBVIOUS
<1>1. PICK q \in Nat : id = q * Capacity + bk + 1 /\ counter[type][bk] <= q * Capacity
  BY IdsOfRequest
<1>2. PICK b \in Buckets, p \in 0 .. id :
        id = p * Capacity + b + 1 /\ p * Capacity < counter[type][b]
  BY DEF AllocInv, IssuedBelowCounter
<1>3. id \in Nat
  BY DEF AllocInv, AllocTypeOK
<1>4. p \in Nat
  BY <1>3
<1>5. p = q /\ b = bk
  <2>1. Capacity \in Nat \ {0} /\ b \in 0 .. Capacity - 1 /\ bk \in 0 .. Capacity - 1
    BY AllocatorAssumption DEF Buckets
  <2>2. p * Capacity + b + 1 = q * Capacity + bk + 1
    BY <1>1, <1>2
  <2> QED
    BY <1>4, <2>1, <2>2, UniqueOffset
<1>6. counter[type][bk] \in Nat /\ q * Capacity \in Nat
  BY ProductBound, AllocatorAssumption DEF AllocInv, AllocTypeOK
<1> QED
  BY <1>1, <1>2, <1>5, <1>6

\* The initial state satisfies the inductive invariant.
LEMMA AllocInitInv == AllocInit => AllocInv
<1> SUFFICES ASSUME AllocInit PROVE AllocInv
  OBVIOUS
<1>0. Capacity \in Nat \ {0}
  BY AllocatorAssumption
<1>1. AllocTypeOK
  BY DEF AllocInit, AllocTypeOK
<1>2. \A t \in IDType, b \in Buckets :
        0 \in 0 .. counter[t][b] /\ counter[t][b] = 0 * Capacity
  BY <1>0 DEF AllocInit
<1>3. \A t \in IDType : issued[t] = {}
  BY DEF AllocInit
<1> QED
  BY <1>1, <1>2, <1>3 DEF AllocInv, IssuedBelowCounter

\* What was issued stays below counters that only grow.
LEMMA IssuedStaysBelow ==
  ASSUME AllocInv, counter' \in [IDType -> [Buckets -> Nat]],
         \A t \in IDType, b \in Buckets : counter[t][b] <= counter'[t][b],
         NEW t \in IDType, NEW id \in issued[t]
  PROVE  \E b \in Buckets, q \in 0 .. id :
           id = q * Capacity + b + 1 /\ q * Capacity < counter'[t][b]
<1>1. PICK b \in Buckets, q \in 0 .. id :
        id = q * Capacity + b + 1 /\ q * Capacity < counter[t][b]
  BY DEF AllocInv, IssuedBelowCounter
<1>2. id \in Nat
  BY DEF AllocInv, AllocTypeOK
<1>3. q * Capacity \in Nat
  BY <1>2, ProductBound, AllocatorAssumption, q \in Nat
<1>4. counter[t][b] \in Nat /\ counter'[t][b] \in Nat /\ counter[t][b] <= counter'[t][b]
  BY DEF AllocInv, AllocTypeOK
<1> QED
  BY <1>1, <1>3, <1>4

\* A request keeps the invariant, and its ids are new.
LEMMA AllocateStep ==
  ASSUME AllocInv, NEW type \in IDType, NEW name \in Names, NEW batch \in Nat,
         BatchAllocateID(type, name, batch)
  PROVE  /\ AllocInv'
         /\ \A t \in IDType : issued'[t] # issued[t] => last'.ids \cap issued[t] = {}
<1> DEFINE b == BucketOf[name]
           n == FetchNum(batch)
           ids == IdsFrom(counter[type][b], b, n)
<1>0. Capacity \in Nat \ {0} /\ b \in Buckets /\ n \in Nat
  BY FetchNumType, AllocatorAssumption DEF Buckets
<1>1. /\ Incrby(type, b, n)
      /\ issued' = [issued EXCEPT ![type] = @ \cup ids]
      /\ last' = [asked |-> batch, ids |-> ids]
  BY DEF BatchAllocateID
<1> HIDE DEF b, n, ids
<1>2. /\ counter' \in [IDType -> [Buckets -> Nat]]
      /\ counter'[type][b] = counter[type][b] + n * Capacity
      /\ \A u \in IDType, c \in Buckets : counter[u][c] <= counter'[u][c]
      /\ \A u \in IDType, c \in Buckets :
           \E q \in 0 .. counter'[u][c] : counter'[u][c] = q * Capacity
  BY <1>0, <1>1, IncrbyStep
<1>3. ASSUME NEW id \in ids
      PROVE  /\ id \in Nat \ {0}
             /\ \E c \in Buckets, q \in 0 .. id :
                  id = q * Capacity + c + 1 /\ q * Capacity < counter'[type][c]
  <2>1. PICK q \in Nat : /\ id = q * Capacity + b + 1
                         /\ q * Capacity < counter[type][b] + n * Capacity
    BY <1>0, IdsOfRequest DEF ids
  <2>2. q * Capacity \in Nat /\ q <= q * Capacity /\ b \in Nat
    BY <1>0, ProductBound DEF Buckets
  <2>3. id \in Nat \ {0} /\ q \in 0 .. id
    BY <2>1, <2>2
  <2> QED
    BY <1>0, <1>2, <2>1, <2>3
<1>4. issued \in [IDType -> SUBSET (Nat \ {0})]
  BY DEF AllocInv, AllocTypeOK
<1>5. \A t \in IDType : issued'[t] = IF t = type THEN issued[t] \cup ids ELSE issued[t]
  BY <1>1, <1>4
<1>6. AllocTypeOK'
  <2>1. issued' \in [IDType -> SUBSET (Nat \ {0})]
    BY <1>1, <1>3, <1>4
  <2>2. last'.asked \in Nat /\ last'.ids \subseteq Nat
    BY <1>1, <1>3
  <2> QED
    BY <1>2, <2>1, <2>2 DEF AllocTypeOK
<1>7. ASSUME NEW t \in IDType, NEW id \in issued'[t]
      PROVE  \E c \in Buckets, q \in 0 .. id :
               id = q * Capacity + c + 1 /\ q * Capacity < counter'[t][c]
  <2>1. CASE id \in issued[t]
    BY <1>2, <2>1, IssuedStaysBelow
  <2>2. CASE id \notin issued[t]
    BY <1>3, <1>5, <2>2
  <2> QED
    BY <2>1, <2>2
<1>8. IssuedBelowCounter'
  BY <1>2, <1>7 DEF IssuedBelowCounter
<1>9. ids \cap issued[type] = {}
  BY <1>0, IdsAreNew DEF ids
<1> QED
  BY <1>1, <1>5, <1>6, <1>8, <1>9 DEF AllocInv

\* A crash keeps the invariant and issues nothing.
LEMMA CrashStep ==
  ASSUME AllocInv, NEW type \in IDType, NEW name \in Names, NEW batch \in Nat,
         CrashInAllocate(type, name, batch)
  PROVE  AllocInv' /\ issued' = issued
<1> DEFINE b == BucketOf[name]
           n == FetchNum(batch)
<1>0. Capacity \in Nat \ {0} /\ b \in Buckets /\ n \in Nat
  BY FetchNumType, AllocatorAssumption DEF Buckets
<1>1. Incrby(type, b, n) /\ issued' = issued /\ last' = [asked |-> 0, ids |-> {}]
  BY DEF CrashInAllocate
<1> HIDE DEF b, n
<1>2. /\ counter' \in [IDType -> [Buckets -> Nat]]
      /\ \A u \in IDType, c \in Buckets : counter[u][c] <= counter'[u][c]
      /\ \A u \in IDType, c \in Buckets :
           \E q \in 0 .. counter'[u][c] : counter'[u][c] = q * Capacity
  BY <1>0, <1>1, IncrbyStep
<1>3. AllocTypeOK'
  BY <1>1, <1>2 DEF AllocTypeOK, AllocInv
<1>4. IssuedBelowCounter'
  BY <1>1, <1>2, IssuedStaysBelow DEF IssuedBelowCounter
<1> QED
  BY <1>1, <1>3, <1>4 DEF AllocInv

\* Every step, stuttering included, keeps the invariant and issues only new ids.
LEMMA AllocNextStep ==
  ASSUME AllocInv, [AllocNext]_allocVars
  PROVE  /\ AllocInv'
         /\ \A t \in IDType : issued'[t] # issued[t] => last'.ids \cap issued[t] = {}
<1>0. 0 .. MaxBatch \subseteq Nat
  BY AllocatorAssumption
<1>1. CASE AllocNext
  <2>1. PICK type \in IDType, name \in Names, batch \in 0 .. MaxBatch :
          BatchAllocateID(type, name, batch) \/ CrashInAllocate(type, name, batch)
    BY <1>1 DEF AllocNext
  <2>2. CASE BatchAllocateID(type, name, batch)
    BY <1>0, <2>2, AllocateStep
  <2>3. CASE CrashInAllocate(type, name, batch)
    BY <1>0, <2>3, CrashStep
  <2> QED
    BY <2>1, <2>2, <2>3
<1>2. CASE UNCHANGED allocVars
  BY <1>2 DEF allocVars, AllocInv, AllocTypeOK, IssuedBelowCounter
<1> QED
  BY <1>1, <1>2

-----------------------------------------------------------------------------
(* Theorems about the allocator *)

\* The counters are multiples of Capacity and every issued id lies below the
\* counter of its bucket, in every reachable state.
THEOREM IssuedBelow == AllocSpec => []IssuedBelowCounter
<1>1. AllocInit => AllocInv
  BY AllocInitInv
<1>2. AllocInv /\ [AllocNext]_allocVars => AllocInv'
  BY AllocNextStep
<1>3. AllocInv => IssuedBelowCounter
  BY DEF AllocInv
<1> QED
  BY <1>1, <1>2, <1>3, PTL DEF AllocSpec

\* The allocator's variables keep their types.
THEOREM AllocTyped == AllocSpec => []AllocTypeOK
<1>1. AllocInit => AllocInv
  BY AllocInitInv
<1>2. AllocInv /\ [AllocNext]_allocVars => AllocInv'
  BY AllocNextStep
<1>3. AllocInv => AllocTypeOK
  BY DEF AllocInv
<1> QED
  BY <1>1, <1>2, <1>3, PTL DEF AllocSpec

\* BatchAllocateID never hands out an id twice, across names that share a bucket,
\* names that do not, batches of any size and crashes in between.
THEOREM IdsIssuedOnce == AllocSpec => NoIdIssuedTwice
<1> DEFINE Fresh == \A t \in IDType : issued'[t] # issued[t] => last'.ids \cap issued[t] = {}
<1>1. AllocInit => AllocInv
  BY AllocInitInv
<1>2. AllocInv /\ [AllocNext]_allocVars => AllocInv'
  BY AllocNextStep
<1>3. AllocInv /\ [AllocNext]_allocVars => [Fresh]_allocVars
  BY AllocNextStep
<1>4. AllocSpec => [][Fresh]_allocVars
  BY <1>1, <1>2, <1>3, PTL DEF AllocSpec
<1> QED
  BY <1>4 DEF NoIdIssuedTwice

\* The ids of one request are as many as fetched: they lie Capacity apart.
LEMMA IdsCounted ==
  ASSUME NEW cur \in Nat, NEW b \in Nat, NEW n \in Nat
  PROVE  Cardinality(IdsFrom(cur, b, n)) = n
<1> DEFINE f == [j \in 1 .. n |-> cur + (j - 1) * Capacity + b + 1]
           T == IdsFrom(cur, b, n)
<1>0. Capacity \in Nat \ {0}
  BY AllocatorAssumption
<1>1. f \in [1 .. n -> T]
  <2>1. \A j \in 1 .. n : j - 1 \in 0 .. n - 1
    OBVIOUS
  <2> QED
    BY <2>1 DEF IdsFrom
<1>2. ASSUME NEW i \in 1 .. n, NEW j \in 1 .. n, i < j
      PROVE  f[i] # f[j]
  <2>1. i - 1 \in Nat /\ j - 1 \in Nat /\ i - 1 < j - 1
    BY <1>2
  <2>2. (i - 1) * Capacity + Capacity <= (j - 1) * Capacity
    BY <1>0, <2>1, MultiplesApart
  <2>3. (i - 1) * Capacity \in Nat /\ (j - 1) * Capacity \in Nat
    BY <1>0, <2>1, ProductBound
  <2> QED
    BY <1>0, <2>2, <2>3
<1>3. \A i, j \in 1 .. n : f[i] = f[j] => i = j
  <2> SUFFICES ASSUME NEW i \in 1 .. n, NEW j \in 1 .. n, f[i] = f[j], i # j PROVE FALSE
    OBVIOUS
  <2>1. i < j \/ j < i
    OBVIOUS
  <2> QED
    BY <1>2, <2>1
<1>4. \A t \in T : \E j \in 1 .. n : f[j] = t
  <2> SUFFICES ASSUME NEW t \in T PROVE \E j \in 1 .. n : f[j] = t
    OBVIOUS
  <2>1. PICK i \in 0 .. n - 1 : t = cur + i * Capacity + b + 1
    BY DEF IdsFrom
  <2>2. i + 1 \in 1 .. n /\ (i + 1) - 1 = i
    OBVIOUS
  <2>3. f[i + 1] = t
    BY <2>1, <2>2
  <2> QED
    BY <2>2, <2>3
<1> HIDE DEF f, T
<1>5. f \in Injection(1 .. n, T)
  BY <1>1, <1>3 DEF Injection, IsInjective
<1>6. f \in Surjection(1 .. n, T)
  BY <1>1, <1>4 DEF Surjection
<1>7. ExistsBijection(1 .. n, T)
  BY <1>5, <1>6 DEF ExistsBijection, Bijection
<1>8. Cardinality(T) = n
  BY <1>7, FS_CountingElements
<1> QED
  BY <1>8 DEF T

\* A request for at most bucket_capacity_ ids is answered in full: that many ids,
\* all different.
THEOREM RequestsFilled == AllocSpec => []RequestsAreFilled
<1> DEFINE Inv == AllocInv /\ RequestsAreFilled
<1>1. AllocInit => Inv
  <2> SUFFICES ASSUME AllocInit PROVE RequestsAreFilled
    BY AllocInitInv
  <2>1. last.asked = 0 /\ last.ids = {}
    BY DEF AllocInit
  <2> QED
    BY <2>1, FS_EmptySet DEF RequestsAreFilled
<1>2. Inv /\ [AllocNext]_allocVars => Inv'
  <2> SUFFICES ASSUME Inv, [AllocNext]_allocVars PROVE RequestsAreFilled'
    BY AllocNextStep
  <2>1. CASE AllocNext
    <3>1. PICK type \in IDType, name \in Names, batch \in 0 .. MaxBatch :
            BatchAllocateID(type, name, batch) \/ CrashInAllocate(type, name, batch)
      BY <2>1 DEF AllocNext
    <3>2. CASE BatchAllocateID(type, name, batch)
      <4> DEFINE b == BucketOf[name]
      <4>1. /\ last'.asked = batch
            /\ last'.ids = IdsFrom(counter[type][b], b, FetchNum(batch))
        BY <3>2 DEF BatchAllocateID
      <4>2. b \in Buckets /\ b \in Nat /\ batch \in Nat /\ Capacity \in Nat
        BY AllocatorAssumption DEF Buckets
      <4>3. counter[type][b] \in Nat
        BY <4>2 DEF AllocInv, AllocTypeOK
      <4> HIDE DEF b
      <4>4. batch <= Capacity => FetchNum(batch) = batch
        BY <4>2 DEF FetchNum
      <4>5. batch <= Capacity => Cardinality(last'.ids) = batch
        BY <4>1, <4>2, <4>3, <4>4, IdsCounted
      <4> QED
        BY <4>1, <4>5 DEF RequestsAreFilled
    <3>3. CASE CrashInAllocate(type, name, batch)
      <4>1. last'.asked = 0 /\ last'.ids = {}
        BY <3>3 DEF CrashInAllocate
      <4> QED
        BY <4>1, FS_EmptySet DEF RequestsAreFilled
    <3> QED
      BY <3>1, <3>2, <3>3
  <2>2. CASE UNCHANGED allocVars
    BY <2>2 DEF allocVars, RequestsAreFilled
  <2> QED
    BY <2>1, <2>2
<1> QED
  BY <1>1, <1>2, PTL DEF AllocSpec

-----------------------------------------------------------------------------
(* The inductive invariant of the catalog *)

DatabaseInfo == [id : Nat, name : DbNames, tables : SUBSET Nat]

TableInfo == [id : Nat, name : TableNames, db : Nat, dbName : DbNames]

\* What the stored database records say of each other.
DatabasesOK ==
  /\ \A n \in DOMAIN dbId : n \in DbNames /\ dbId[n] \in issued["Database"]
  /\ \A m, n \in DOMAIN dbId : dbId[m] = dbId[n] => m = n
  /\ \A id \in DOMAIN dbMeta :
       id \in issued["Database"] /\ dbMeta[id] \in DatabaseInfo /\ dbMeta[id].id = id
  /\ \A n \in DOMAIN dbId : dbId[n] \in DOMAIN dbMeta => dbMeta[dbId[n]].name = n

\* A TableInfo is filed under its own ids, in a database that its name leads to.
TableFiled(p) ==
  /\ p[2] \in issued["Table"]
  /\ tblMeta[p] \in TableInfo
  /\ tblMeta[p].id = p[2]
  /\ tblMeta[p].db = p[1]
  /\ tblMeta[p].dbName \in DOMAIN dbId
  /\ dbId[tblMeta[p].dbName] = p[1]

\* A named table has its TableInfo and is listed by its database.
TableNamed(p) ==
  /\ p = <<p[1], p[2]>>
  /\ p[1] \in issued["Database"]
  /\ p[2] \in TableNames
  /\ tblId[p] \in issued["Table"]
  /\ <<p[1], tblId[p]>> \in DOMAIN tblMeta
  /\ tblMeta[<<p[1], tblId[p]>>].name = p[2]
  /\ p[1] \in DOMAIN dbMeta => tblId[p] \in dbMeta[p[1]].tables

TablesOK ==
  /\ \A p \in DOMAIN tblMeta : TableFiled(p)
  /\ \A p \in DOMAIN tblId : TableNamed(p)
  /\ \A p, q \in DOMAIN tblId : tblId[p] = tblId[q] => p = q

\* CREATE DATABASE in its writes: the id of the plan and the name of the plan
\* stand for each other as far as names are stored, and the plan's info lists
\* what is named in that database.
DatabaseJobOK ==
  /\ job \in [op : {"createDatabase"}, ifNotExist : BOOLEAN, at : {"dbMeta", "dbName"},
              info : DatabaseInfo]
  /\ job.info.id \in issued["Database"]
  /\ \A m \in DOMAIN dbId : m = job.info.name <=> dbId[m] = job.info.id
  /\ \A p \in DOMAIN tblId : p[1] = job.info.id => tblId[p] \in job.info.tables
  /\ job.info.id \in DOMAIN dbMeta => dbMeta[job.info.id].name = job.info.name
  /\ job.at = "dbName" => job.info.id \in DOMAIN dbMeta

\* CREATE TABLE in its writes: the id and the name of the plan stand for each
\* other, the plan's database is the one its name leads to, and the table is
\* listed before it is described and described before it is named.
TableJobOK ==
  /\ job.op = "createTable"
  /\ job.info \in TableInfo
  /\ job.info.id \in issued["Table"]
  /\ job.info.dbName \in DOMAIN dbId
  /\ job.info.db = dbId[job.info.dbName]
  /\ \A p \in DOMAIN tblId :
       p = <<job.info.db, job.info.name>> <=> tblId[p] = job.info.id
  /\ \/ /\ job \in [op : {"createTable"}, ifNotExist : BOOLEAN, at : {"delDbMeta"},
                    info : TableInfo]
        /\ job.info.db \in DOMAIN dbMeta
     \/ /\ job \in [op : {"createTable"}, ifNotExist : BOOLEAN,
                    at : {"putDbMeta", "tblMeta", "tblName"},
                    info : TableInfo, modified : DatabaseInfo]
        /\ job.modified.id = job.info.db
        /\ job.modified.name = job.info.dbName
        /\ job.info.id \in job.modified.tables
        /\ \A p \in DOMAIN tblId : p[1] = job.info.db => tblId[p] \in job.modified.tables
        /\ job.at # "putDbMeta" /\ job.info.db \in DOMAIN dbMeta => job.info.id \in dbMeta[job.info.db].tables
        /\ job.at = "tblName" =>
             /\ <<job.info.db, job.info.id>> \in DOMAIN tblMeta
             /\ tblMeta[<<job.info.db, job.info.id>>].name = job.info.name

JobOK == job = NoJob \/ DatabaseJobOK \/ TableJobOK

CatalogInv == AllocInv /\ DatabasesOK /\ TablesOK /\ JobOK

-----------------------------------------------------------------------------
(* Ids *)

\* A step that asks for no id keeps the allocator's invariant.
LEMMA NothingAllocated ==
  ASSUME AllocInv, UNCHANGED allocVars
  PROVE  AllocInv' /\ issued' = issued
BY DEF allocVars, AllocInv, AllocTypeOK, IssuedBelowCounter

\* AllocateID gives an id that was never issued before.
LEMMA AllocateNew ==
  ASSUME AllocInv, NEW type \in IDType, NEW name \in Names, AllocateID(type, name)
  PROVE  /\ AllocInv'
         /\ \A t \in IDType : issued[t] \subseteq issued'[t]
         /\ NewId \in issued'[type] /\ NewId \notin issued[type] /\ NewId \in Nat
<1> DEFINE b == BucketOf[name]
           ids == IdsFrom(counter[type][b], b, 1)
<1>1. BatchAllocateID(type, name, 1)
  BY DEF AllocateID
<1>2. AllocInv'
  BY <1>1, AllocateStep
<1>3. Capacity \in Nat \ {0} /\ b \in Buckets /\ FetchNum(1) = 1
  BY AllocatorAssumption DEF Buckets, FetchNum
<1>4. issued' = [issued EXCEPT ![type] = @ \cup ids] /\ last'.ids = ids
  BY <1>1, <1>3 DEF BatchAllocateID
<1>5. counter[type][b] + 0 * Capacity + b + 1 \in ids
  <2>1. 0 \in 0 .. 1 - 1
    OBVIOUS
  <2> QED
    BY <2>1 DEF IdsFrom
<1>6. ids \cap issued[type] = {}
  BY <1>3, IdsAreNew
<1> HIDE DEF ids, b
<1>7. NewId \in ids
  BY <1>4, <1>5 DEF NewId
<1>8. issued \in [IDType -> SUBSET (Nat \ {0})]
  BY DEF AllocInv, AllocTypeOK
<1>9. issued'[type] = issued[type] \cup ids
  BY <1>4, <1>8
<1>10. \A t \in IDType : issued[t] \subseteq issued'[t]
  BY <1>4, <1>8
<1>11. issued'[type] \subseteq Nat
  BY <1>2 DEF AllocInv, AllocTypeOK
<1> QED
  BY <1>2, <1>6, <1>7, <1>9, <1>10, <1>11

\* The types of ids are those of databases and tables.
LEMMA IdTypes ==
  /\ "Database" \in IDType /\ "Table" \in IDType
  /\ DbNames \subseteq Names /\ TableNames \subseteq Names
BY CatalogAssumption

\* Issued ids are natural numbers.
LEMMA IssuedNat ==
  ASSUME AllocInv
  PROVE  issued["Database"] \subseteq Nat /\ issued["Table"] \subseteq Nat
BY IdTypes DEF AllocInv, AllocTypeOK

\* The stored records stay as they should be while nothing is written and ids
\* are only added.
LEMMA NothingWritten ==
  ASSUME DatabasesOK, TablesOK, UNCHANGED store,
         \A t \in IDType : issued[t] \subseteq issued'[t]
  PROVE  DatabasesOK' /\ TablesOK'
<1>1. dbId' = dbId /\ dbMeta' = dbMeta /\ tblId' = tblId /\ tblMeta' = tblMeta
  BY DEF store
<1>2. issued["Database"] \subseteq issued'["Database"] /\ issued["Table"] \subseteq issued'["Table"]
  BY IdTypes
<1>3. DatabasesOK'
  BY <1>1, <1>2 DEF DatabasesOK
<1>4. \A p : TableFiled(p) => TableFiled(p)'
  BY <1>1, <1>2 DEF TableFiled
<1>5. \A p : TableNamed(p) => TableNamed(p)'
  BY <1>1, <1>2 DEF TableNamed
<1> QED
  BY <1>1, <1>3, <1>4, <1>5 DEF TablesOK

-----------------------------------------------------------------------------
(* The analyzer's steps *)

\* Rejecting a statement changes nothing the invariant reads.
LEMMA RejectStep ==
  ASSUME CatalogInv, job = NoJob, UNCHANGED store,
         NEW op, NEW ine, NEW st, Reject(op, ine, st)
  PROVE  CatalogInv'
<1>1. UNCHANGED allocVars /\ job' = NoJob
  BY DEF Reject
<1>2. AllocInv' /\ issued' = issued
  BY <1>1, NothingAllocated DEF CatalogInv
<1>3. DatabasesOK' /\ TablesOK'
  BY <1>2, NothingWritten DEF CatalogInv
<1> QED
  BY <1>1, <1>2, <1>3 DEF CatalogInv, JobOK

\* The plan of CREATE DATABASE: a new id, or the stored info of a known name.
LEMMA CreateDatabaseStep ==
  ASSUME CatalogInv, NEW name \in DbNames, NEW ine \in BOOLEAN, CreateDatabase(name, ine)
  PROVE  CatalogInv'
<1>0. job = NoJob /\ UNCHANGED store /\ AllocInv /\ DatabasesOK /\ TablesOK
  BY DEF CreateDatabase, CatalogInv
<1>1. /\ dbId' = dbId /\ dbMeta' = dbMeta /\ tblId' = tblId /\ tblMeta' = tblMeta
  BY <1>0 DEF store
<1>2. CASE \E st : Reject("createDatabase", ine, st)
  BY <1>0, <1>2, RejectStep
<1>3. CASE /\ name \in DOMAIN dbId /\ dbId[name] \in DOMAIN dbMeta
           /\ Plan("createDatabase", ine, "dbMeta", dbMeta[dbId[name]])
           /\ UNCHANGED allocVars
  <2> DEFINE info == dbMeta[dbId[name]]
  <2>1. AllocInv' /\ issued' = issued
    BY <1>0, <1>3, NothingAllocated
  <2>2. DatabasesOK' /\ TablesOK'
    BY <1>0, <2>1, NothingWritten
  <2>3. job' = [op |-> "createDatabase", ifNotExist |-> ine, at |-> "dbMeta", info |-> info]
    BY <1>3 DEF Plan
  <2>4. /\ info \in DatabaseInfo /\ info.id = dbId[name] /\ info.name = name
        /\ info.id \in issued["Database"]
    BY <1>0, <1>3 DEF DatabasesOK
  <2>5. \A m \in DOMAIN dbId : m = name <=> dbId[m] = dbId[name]
    BY <1>0, <1>3 DEF DatabasesOK
  <2>6. \A p \in DOMAIN tblId : p[1] = dbId[name] => tblId[p] \in info.tables
    BY <1>0, <1>3 DEF TablesOK, TableNamed
  <2>7. DatabaseJobOK'
    <3> HIDE DEF info
    <3>1. /\ job' \in [op : {"createDatabase"}, ifNotExist : BOOLEAN,
                       at : {"dbMeta", "dbName"}, info : DatabaseInfo]
          /\ job'.info = info /\ job'.at = "dbMeta"
      BY <2>3, <2>4
    <3>2. dbMeta'[job'.info.id].name = job'.info.name
      BY <1>1, <2>4, <3>1 DEF info
    <3> QED
      BY <1>1, <2>1, <2>4, <2>5, <2>6, <3>1, <3>2 DEF DatabaseJobOK
  <2> QED
    BY <2>1, <2>2, <2>7 DEF CatalogInv, JobOK
<1>4. CASE /\ name \notin DOMAIN dbId
           /\ AllocateID("Database", name)
           /\ Plan("createDatabase", ine, "dbMeta", [id |-> NewId, name |-> name, tables |-> {}])
  <2> DEFINE info == [id |-> NewId, name |-> name, tables |-> {}]
  <2>1. /\ AllocInv'
        /\ \A t \in IDType : issued[t] \subseteq issued'[t]
        /\ NewId \in issued'["Database"] /\ NewId \notin issued["Database"] /\ NewId \in Nat
    BY <1>0, <1>4, IdTypes, AllocateNew
  <2>2. DatabasesOK' /\ TablesOK'
    BY <1>0, <2>1, NothingWritten
  <2>3. job' = [op |-> "createDatabase", ifNotExist |-> ine, at |-> "dbMeta", info |-> info]
    BY <1>4 DEF Plan
  <2>4. info \in DatabaseInfo /\ info.id = NewId /\ info.name = name
    BY <2>1 DEF DatabaseInfo
  <2>5. \A m \in DOMAIN dbId : m # name /\ dbId[m] # NewId
    BY <1>0, <1>4, <2>1 DEF DatabasesOK
  <2>6. NewId \notin DOMAIN dbMeta
    BY <1>0, <2>1 DEF DatabasesOK
  <2>7. \A p \in DOMAIN tblId : p[1] # NewId
    BY <1>0, <2>1 DEF TablesOK, TableNamed
  <2>8. DatabaseJobOK'
    <3> HIDE DEF info
    <3>1. /\ job' \in [op : {"createDatabase"}, ifNotExist : BOOLEAN,
                       at : {"dbMeta", "dbName"}, info : DatabaseInfo]
          /\ job'.info = info /\ job'.at = "dbMeta"
      BY <2>3, <2>4
    <3> QED
      BY <1>1, <2>1, <2>4, <2>5, <2>6, <2>7, <3>1 DEF DatabaseJobOK
  <2> QED
    BY <2>1, <2>2, <2>8 DEF CatalogInv, JobOK
<1> QED
  BY <1>2, <1>3, <1>4 DEF CreateDatabase, HasDatabaseName

\* A plan for CREATE TABLE keeps the invariant if its info does what TableJobOK
\* asks for at the first write.
LEMMA PlanTable ==
  ASSUME NEW ine \in BOOLEAN, NEW info, info \in TableInfo,
         Plan("createTable", ine, "delDbMeta", info),
         UNCHANGED store,
         info.id \in issued'["Table"],
         info.dbName \in DOMAIN dbId, info.db = dbId[info.dbName],
         info.db \in DOMAIN dbMeta,
         \A p \in DOMAIN tblId : p = <<info.db, info.name>> <=> tblId[p] = info.id
  PROVE  TableJobOK'
<1>1. dbId' = dbId /\ dbMeta' = dbMeta /\ tblId' = tblId /\ tblMeta' = tblMeta
  BY DEF store
<1>2. job' = [op |-> "createTable", ifNotExist |-> ine, at |-> "delDbMeta", info |-> info]
  BY DEF Plan
<1>3. /\ job' \in [op : {"createTable"}, ifNotExist : BOOLEAN, at : {"delDbMeta"},
                   info : TableInfo]
      /\ job'.op = "createTable" /\ job'.info = info
  BY <1>2
<1> QED
  BY <1>1, <1>3 DEF TableJobOK

\* The plan of CREATE TABLE: a new id, or the stored info of a known name.
LEMMA CreateTableStep ==
  ASSUME CatalogInv, NEW db \in DbNames, NEW name \in TableNames, NEW ine \in BOOLEAN,
         CreateTable(db, name, ine)
  PROVE  CatalogInv'
<1> DEFINE d == dbId[db]
           old == tblMeta[<<d, tblId[<<d, name>>]>>]
           new == [id |-> NewId, name |-> name, db |-> d, dbName |-> db]
<1>0. job = NoJob /\ UNCHANGED store /\ AllocInv /\ DatabasesOK /\ TablesOK
  BY DEF CreateTable, CatalogInv
<1>2. CASE \E st : Reject("createTable", ine, st)
  BY <1>0, <1>2, RejectStep
<1>3. CASE /\ db \in DOMAIN dbId /\ d \in DOMAIN dbMeta
           /\ <<d, name>> \in DOMAIN tblId
           /\ <<d, tblId[<<d, name>>]>> \in DOMAIN tblMeta
           /\ Plan("createTable", ine, "delDbMeta", old)
           /\ UNCHANGED allocVars
  <2>1. AllocInv' /\ issued' = issued
    BY <1>0, <1>3, NothingAllocated
  <2>2. DatabasesOK' /\ TablesOK'
    BY <1>0, <2>1, NothingWritten
  <2>3. TableFiled(<<d, tblId[<<d, name>>]>>) /\ TableNamed(<<d, name>>)
    BY <1>0, <1>3 DEF TablesOK
  <2>4. /\ old \in TableInfo /\ old.id = tblId[<<d, name>>] /\ old.db = d /\ old.name = name
        /\ old.dbName \in DOMAIN dbId /\ dbId[old.dbName] = d
        /\ old.id \in issued["Table"]
    BY <2>3 DEF TableFiled, TableNamed
  <2>5. \A p \in DOMAIN tblId : p = <<d, name>> <=> tblId[p] = tblId[<<d, name>>]
    BY <1>0, <1>3 DEF TablesOK
  <2>6. TableJobOK'
    <3> HIDE DEF old
    <3>1. UNCHANGED store /\ Plan("createTable", ine, "delDbMeta", old) /\ d \in DOMAIN dbMeta
      BY <1>0, <1>3
    <3>2. \A p \in DOMAIN tblId : p = <<old.db, old.name>> <=> tblId[p] = old.id
      BY <2>4, <2>5
    <3> HIDE DEF d
    <3> QED
      BY <2>1, <2>4, <3>1, <3>2, PlanTable
  <2> QED
    BY <2>1, <2>2, <2>6 DEF CatalogInv, JobOK
<1>4. CASE /\ db \in DOMAIN dbId /\ d \in DOMAIN dbMeta
           /\ <<d, name>> \notin DOMAIN tblId
           /\ AllocateID("Table", name)
           /\ Plan("createTable", ine, "delDbMeta", new)
  <2>1. /\ AllocInv'
        /\ \A t \in IDType : issued[t] \subseteq issued'[t]
        /\ NewId \in issued'["Table"] /\ NewId \notin issued["Table"] /\ NewId \in Nat
    BY <1>0, <1>4, IdTypes, AllocateNew
  <2>2. DatabasesOK' /\ TablesOK'
    BY <1>0, <2>1, NothingWritten
  <2>3. d \in Nat
    BY <1>0, <1>4, IssuedNat DEF DatabasesOK
  <2>4. /\ new \in TableInfo /\ new.id = NewId /\ new.db = d /\ new.name = name
        /\ new.dbName = db
    BY <2>1, <2>3 DEF TableInfo
  <2>5. \A p \in DOMAIN tblId : p # <<d, name>> /\ tblId[p] # NewId
    <3>1. ASSUME NEW p \in DOMAIN tblId PROVE tblId[p] # NewId
      <4>1. tblId[p] \in issued["Table"]
        BY <1>0 DEF TablesOK, TableNamed
      <4> QED
        BY <2>1, <4>1
    <3> QED
      BY <1>4, <3>1
  <2>6. TableJobOK'
    <3>1. UNCHANGED store /\ Plan("createTable", ine, "delDbMeta", new)
          /\ db \in DOMAIN dbId /\ d \in DOMAIN dbMeta
      BY <1>0, <1>4
    <3> HIDE DEF new
    <3> QED
      BY <2>1, <2>4, <2>5, <3>1, PlanTable
  <2> QED
    BY <2>1, <2>2, <2>6 DEF CatalogInv, JobOK
<1> QED
  BY <1>2, <1>3, <1>4 DEF CreateTable, HasDatabaseName

-----------------------------------------------------------------------------
(* The executor's steps *)

\* Which statement is being executed follows from the write it is at.
LEMMA AtWrite ==
  ASSUME JobOK
  PROVE  /\ At("dbMeta") \/ At("dbName") => DatabaseJobOK
         /\ At("delDbMeta") \/ At("putDbMeta") \/ At("tblMeta") \/ At("tblName") => TableJobOK
<1>1. CASE job = NoJob
  BY <1>1 DEF At, NoJob
<1>2. CASE DatabaseJobOK
  <2>1. job.at = "dbMeta" \/ job.at = "dbName"
    BY <1>2 DEF DatabaseJobOK
  <2> QED
    BY <1>2, <2>1 DEF At
<1>3. CASE TableJobOK
  <2>1. job.at \in {"delDbMeta", "putDbMeta", "tblMeta", "tblName"}
    BY <1>3 DEF TableJobOK
  <2> QED
    BY <1>3, <2>1 DEF At
<1> QED
  BY <1>1, <1>2, <1>3 DEF JobOK

\* DumpDatabaseMeta writes a DatabaseInfo that lists every named table.
LEMMA DumpDatabaseMetaStep ==
  ASSUME CatalogInv, DumpDatabaseMeta
  PROVE  CatalogInv'
<1> DEFINE info == job.info
<1>0. /\ AllocInv /\ DatabasesOK /\ TablesOK /\ DatabaseJobOK
      /\ dbId' = dbId /\ tblId' = tblId /\ tblMeta' = tblMeta
      /\ dbMeta' = Put(dbMeta, info.id, info)
      /\ job' = [job EXCEPT !.at = "dbName"] /\ UNCHANGED allocVars
  BY AtWrite DEF DumpDatabaseMeta, CatalogInv, Goto
<1>1. AllocInv' /\ issued' = issued
  BY <1>0, NothingAllocated
<1>2. /\ info \in DatabaseInfo /\ info.id \in issued["Database"]
      /\ \A m \in DOMAIN dbId : m = info.name <=> dbId[m] = info.id
      /\ \A p \in DOMAIN tblId : p[1] = info.id => tblId[p] \in info.tables
  BY <1>0 DEF DatabaseJobOK
<1>3. /\ job' \in [op : {"createDatabase"}, ifNotExist : BOOLEAN,
                   at : {"dbMeta", "dbName"}, info : DatabaseInfo]
      /\ job'.info = info
  BY <1>0 DEF DatabaseJobOK
<1> HIDE DEF info
<1>4. /\ DOMAIN dbMeta' = DOMAIN dbMeta \cup {info.id}
      /\ dbMeta'[info.id] = info
      /\ \A x \in DOMAIN dbMeta : x # info.id => dbMeta'[x] = dbMeta[x]
  BY <1>0 DEF Put
<1>5. DatabasesOK'
  BY <1>0, <1>1, <1>2, <1>4 DEF DatabasesOK
<1>6. TablesOK'
  <2>1. \A p : TableFiled(p) => TableFiled(p)'
    BY <1>0, <1>1 DEF TableFiled
  <2>2. \A p \in DOMAIN tblId : TableNamed(p) => TableNamed(p)'
    BY <1>0, <1>1, <1>2, <1>4 DEF TableNamed
  <2> QED
    BY <1>0, <2>1, <2>2 DEF TablesOK
<1>7. DatabaseJobOK'
  BY <1>0, <1>1, <1>2, <1>3, <1>4 DEF DatabaseJobOK
<1> QED
  BY <1>1, <1>5, <1>6, <1>7 DEF CatalogInv, JobOK

\* DumpDatabaseIdByName gives the name of the plan the id of the plan.
LEMMA DumpDatabaseIdByNameStep ==
  ASSUME CatalogInv, DumpDatabaseIdByName
  PROVE  /\ CatalogInv'
         /\ \A n \in DOMAIN dbId : n \in DOMAIN dbId' /\ dbId'[n] = dbId[n]
<1> DEFINE info == job.info
<1>0. /\ AllocInv /\ DatabasesOK /\ TablesOK /\ DatabaseJobOK
      /\ dbMeta' = dbMeta /\ tblId' = tblId /\ tblMeta' = tblMeta
      /\ dbId' = Put(dbId, info.name, info.id)
      /\ job' = NoJob /\ UNCHANGED allocVars
  BY AtWrite DEF DumpDatabaseIdByName, CatalogInv, Finish
<1>1. AllocInv' /\ issued' = issued
  BY <1>0, NothingAllocated
<1>2. /\ info \in DatabaseInfo /\ info.id \in issued["Database"]
      /\ \A m \in DOMAIN dbId : m = info.name <=> dbId[m] = info.id
      /\ info.id \in DOMAIN dbMeta => dbMeta[info.id].name = info.name
  BY <1>0 DEF DatabaseJobOK
<1>3. info.name \in DbNames
  BY <1>2 DEF DatabaseInfo
<1> HIDE DEF info
<1>4. /\ DOMAIN dbId' = DOMAIN dbId \cup {info.name}
      /\ dbId'[info.name] = info.id
      /\ \A x \in DOMAIN dbId : x # info.name => dbId'[x] = dbId[x]
  BY <1>0 DEF Put
<1>5. \A n \in DOMAIN dbId : n \in DOMAIN dbId' /\ dbId'[n] = dbId[n]
  BY <1>2, <1>4
<1>6. DatabasesOK'
  <2>1. \A n \in DOMAIN dbId' : n \in DbNames /\ dbId'[n] \in issued'["Database"]
    BY <1>0, <1>1, <1>2, <1>3, <1>4 DEF DatabasesOK
  <2>2. \A m, n \in DOMAIN dbId' : dbId'[m] = dbId'[n] => m = n
    BY <1>0, <1>2, <1>4 DEF DatabasesOK
  <2>3. \A n \in DOMAIN dbId' : dbId'[n] \in DOMAIN dbMeta' => dbMeta'[dbId'[n]].name = n
    BY <1>0, <1>2, <1>4 DEF DatabasesOK
  <2> QED
    BY <1>0, <1>1, <2>1, <2>2, <2>3 DEF DatabasesOK
<1>7. TablesOK'
  <2>1. \A p : TableFiled(p) => TableFiled(p)'
    BY <1>0, <1>1, <1>5 DEF TableFiled
  <2>2. \A p : TableNamed(p) => TableNamed(p)'
    BY <1>0, <1>1 DEF TableNamed
  <2> QED
    BY <1>0, <2>1, <2>2 DEF TablesOK
<1> QED
  BY <1>0, <1>1, <1>5, <1>6, <1>7 DEF CatalogInv, JobOK

\* ModifyDatabaseMeta deletes the record and holds it, with the table added.
LEMMA ModifyDatabaseMetaDelStep ==
  ASSUME CatalogInv, ModifyDatabaseMetaDel
  PROVE  CatalogInv'
<1> DEFINE info == job.info
           d == dbId[info.dbName]
           mod == [dbMeta[d] EXCEPT !.tables = @ \cup {info.id}]
<1>0. /\ AllocInv /\ DatabasesOK /\ TablesOK /\ TableJobOK /\ job.at = "delDbMeta"
      /\ dbId' = dbId /\ tblId' = tblId /\ tblMeta' = tblMeta
      /\ dbMeta' = Del(dbMeta, d)
      /\ job' = [op |-> job.op, ifNotExist |-> job.ifNotExist, at |-> "putDbMeta",
                 info |-> [info EXCEPT !.db = d], modified |-> mod]
      /\ UNCHANGED allocVars
  BY AtWrite DEF ModifyDatabaseMetaDel, CatalogInv, At
<1>1. AllocInv' /\ issued' = issued
  BY <1>0, NothingAllocated
<1>2. /\ info \in TableInfo /\ info.id \in issued["Table"]
      /\ info.dbName \in DOMAIN dbId /\ info.db = d
      /\ \A p \in DOMAIN tblId : p = <<info.db, info.name>> <=> tblId[p] = info.id
  BY <1>0 DEF TableJobOK
<1>3. job.op = "createTable" /\ job.ifNotExist \in BOOLEAN /\ d \in DOMAIN dbMeta
  BY <1>0 DEF TableJobOK
<1> HIDE DEF info
<1>4. [info EXCEPT !.db = d] = info
  BY <1>2 DEF TableInfo
<1>5. dbMeta[d] \in DatabaseInfo /\ dbMeta[d].id = d /\ dbMeta[d].name = info.dbName
  BY <1>0, <1>2, <1>3 DEF DatabasesOK
<1>6. /\ mod \in DatabaseInfo /\ mod.id = d /\ mod.name = info.dbName
      /\ mod.tables = dbMeta[d].tables \cup {info.id}
  BY <1>2, <1>5 DEF DatabaseInfo, TableInfo
<1>7. \A p \in DOMAIN tblId : p[1] = d => tblId[p] \in mod.tables
  BY <1>0, <1>3, <1>6 DEF TablesOK, TableNamed
<1> HIDE DEF d, mod
<1>8. /\ DOMAIN dbMeta' = DOMAIN dbMeta \ {d}
      /\ \A x \in DOMAIN dbMeta' : x \in DOMAIN dbMeta /\ dbMeta'[x] = dbMeta[x]
  BY <1>0 DEF Del
<1>9. DatabasesOK'
  BY <1>0, <1>1, <1>8 DEF DatabasesOK
<1>10. TablesOK'
  <2>1. \A p : TableFiled(p) => TableFiled(p)'
    BY <1>0, <1>1 DEF TableFiled
  <2>2. \A p : TableNamed(p) => TableNamed(p)'
    BY <1>0, <1>1, <1>8 DEF TableNamed
  <2> QED
    BY <1>0, <2>1, <2>2 DEF TablesOK
<1>11. TableJobOK'
  <2>1. /\ job' \in [op : {"createTable"}, ifNotExist : BOOLEAN,
                     at : {"putDbMeta", "tblMeta", "tblName"},
                     info : TableInfo, modified : DatabaseInfo]
        /\ job'.op = "createTable" /\ job'.info = info /\ job'.modified = mod
        /\ job'.at = "putDbMeta"
    BY <1>0, <1>2, <1>3, <1>4, <1>6
  <2>2. info.db = dbId'[info.dbName]
    BY <1>0, <1>2 DEF d
  <2> QED
    BY <1>0, <1>1, <1>2, <1>6, <1>7, <2>1, <2>2 DEF TableJobOK
<1> QED
  BY <1>1, <1>9, <1>10, <1>11 DEF CatalogInv, JobOK

\* What a CREATE TABLE past its first write knows.
LEMMA TableJobFacts ==
  ASSUME TableJobOK, job.at # "delDbMeta"
  PROVE  /\ job \in [op : {"createTable"}, ifNotExist : BOOLEAN,
                     at : {"putDbMeta", "tblMeta", "tblName"},
                     info : TableInfo, modified : DatabaseInfo]
         /\ job.info \in TableInfo /\ job.info.id \in issued["Table"]
         /\ job.info.dbName \in DOMAIN dbId /\ dbId[job.info.dbName] = job.info.db
         /\ \A p \in DOMAIN tblId :
              p = <<job.info.db, job.info.name>> <=> tblId[p] = job.info.id
         /\ job.modified \in DatabaseInfo
         /\ job.modified.id = job.info.db
         /\ job.modified.name = job.info.dbName
         /\ job.info.id \in job.modified.tables
         /\ \A p \in DOMAIN tblId : p[1] = job.info.db => tblId[p] \in job.modified.tables
BY DEF TableJobOK

\* ModifyDatabaseMeta puts the record back with the table listed.
LEMMA ModifyDatabaseMetaPutStep ==
  ASSUME CatalogInv, ModifyDatabaseMetaPut
  PROVE  CatalogInv'
<1> DEFINE info == job.info
           mod == job.modified
<1>0. /\ AllocInv /\ DatabasesOK /\ TablesOK /\ TableJobOK /\ job.at = "putDbMeta"
      /\ dbId' = dbId /\ tblId' = tblId /\ tblMeta' = tblMeta
      /\ dbMeta' = Put(dbMeta, info.db, mod)
      /\ job' = [job EXCEPT !.at = "tblMeta"] /\ UNCHANGED allocVars
  BY AtWrite DEF ModifyDatabaseMetaPut, CatalogInv, At, Goto
<1>1. AllocInv' /\ issued' = issued
  BY <1>0, NothingAllocated
<1>2. /\ info \in TableInfo /\ info.id \in issued["Table"]
      /\ info.dbName \in DOMAIN dbId /\ dbId[info.dbName] = info.db
      /\ \A p \in DOMAIN tblId : p = <<info.db, info.name>> <=> tblId[p] = info.id
      /\ mod \in DatabaseInfo /\ mod.id = info.db /\ mod.name = info.dbName
      /\ info.id \in mod.tables
      /\ \A p \in DOMAIN tblId : p[1] = info.db => tblId[p] \in mod.tables
  BY <1>0, TableJobFacts
<1>3. /\ job' \in [op : {"createTable"}, ifNotExist : BOOLEAN,
                   at : {"putDbMeta", "tblMeta", "tblName"},
                   info : TableInfo, modified : DatabaseInfo]
      /\ job'.op = "createTable" /\ job'.info = info /\ job'.modified = mod
      /\ job'.at = "tblMeta"
  BY <1>0, TableJobFacts
<1> HIDE DEF info, mod
<1>4. /\ DOMAIN dbMeta' = DOMAIN dbMeta \cup {info.db}
      /\ dbMeta'[info.db] = mod
      /\ \A x \in DOMAIN dbMeta : x # info.db => dbMeta'[x] = dbMeta[x]
  BY <1>0 DEF Put
<1>5. DatabasesOK'
  <2>1. \A id \in DOMAIN dbMeta' : /\ id \in issued'["Database"]
                                   /\ dbMeta'[id] \in DatabaseInfo /\ dbMeta'[id].id = id
    BY <1>0, <1>1, <1>2, <1>4 DEF DatabasesOK
  <2>2. \A n \in DOMAIN dbId' : dbId'[n] \in DOMAIN dbMeta' => dbMeta'[dbId'[n]].name = n
    BY <1>0, <1>2, <1>4 DEF DatabasesOK
  <2> QED
    BY <1>0, <1>1, <2>1, <2>2 DEF DatabasesOK
<1>6. TablesOK'
  <2>1. \A p : TableFiled(p) => TableFiled(p)'
    BY <1>0, <1>1 DEF TableFiled
  <2>2. \A p \in DOMAIN tblId : TableNamed(p) => TableNamed(p)'
    BY <1>0, <1>1, <1>2, <1>4 DEF TableNamed
  <2> QED
    BY <1>0, <2>1, <2>2 DEF TablesOK
<1>7. TableJobOK'
  BY <1>0, <1>1, <1>2, <1>3, <1>4 DEF TableJobOK
<1> QED
  BY <1>1, <1>5, <1>6, <1>7 DEF CatalogInv, JobOK

\* DumpTableMeta files the TableInfo under its ids; a table named before keeps
\* its name, since only the plan's own table can have the plan's id.
LEMMA DumpTableMetaStep ==
  ASSUME CatalogInv, DumpTableMeta
  PROVE  CatalogInv'
<1> DEFINE info == job.info
           mod == job.modified
           key == <<info.db, info.id>>
<1>0. /\ AllocInv /\ DatabasesOK /\ TablesOK /\ TableJobOK /\ job.at = "tblMeta"
      /\ dbId' = dbId /\ tblId' = tblId /\ dbMeta' = dbMeta
      /\ tblMeta' = Put(tblMeta, key, info)
      /\ job' = [job EXCEPT !.at = "tblName"] /\ UNCHANGED allocVars
  BY AtWrite DEF DumpTableMeta, CatalogInv, At, Goto
<1>1. AllocInv' /\ issued' = issued
  BY <1>0, NothingAllocated
<1>2. /\ info \in TableInfo /\ info.id \in issued["Table"]
      /\ info.dbName \in DOMAIN dbId /\ dbId[info.dbName] = info.db
      /\ \A p \in DOMAIN tblId : p = <<info.db, info.name>> <=> tblId[p] = info.id
      /\ mod \in DatabaseInfo /\ mod.id = info.db /\ mod.name = info.dbName
      /\ info.id \in mod.tables
      /\ \A p \in DOMAIN tblId : p[1] = info.db => tblId[p] \in mod.tables
  BY <1>0, TableJobFacts
<1>3. /\ job' \in [op : {"createTable"}, ifNotExist : BOOLEAN,
                   at : {"putDbMeta", "tblMeta", "tblName"},
                   info : TableInfo, modified : DatabaseInfo]
      /\ job'.op = "createTable" /\ job'.info = info /\ job'.modified = mod
      /\ job'.at = "tblName"
  BY <1>0, TableJobFacts
<1>4. info.db \in DOMAIN dbMeta => info.id \in dbMeta[info.db].tables
  BY <1>0 DEF TableJobOK
<1>5. key[1] = info.db /\ key[2] = info.id
  OBVIOUS
<1> HIDE DEF info, mod
<1>6. /\ DOMAIN tblMeta' = DOMAIN tblMeta \cup {key}
      /\ tblMeta'[key] = info
      /\ \A x \in DOMAIN tblMeta : x # key => tblMeta'[x] = tblMeta[x]
  BY <1>0 DEF Put
<1>7. DatabasesOK'
  BY <1>0, <1>1 DEF DatabasesOK
<1>8. TablesOK'
  <2>1. \A p \in DOMAIN tblMeta' : TableFiled(p)'
    <3> SUFFICES ASSUME NEW p \in DOMAIN tblMeta' PROVE TableFiled(p)'
      OBVIOUS
    <3>1. CASE p = key
      BY <1>0, <1>1, <1>2, <1>5, <1>6, <3>1 DEF TableFiled
    <3>2. CASE p # key
      <4>1. p \in DOMAIN tblMeta /\ TableFiled(p)
        BY <1>0, <1>6, <3>2 DEF TablesOK
      <4> HIDE DEF key
      <4> QED
        BY <1>0, <1>1, <1>6, <3>2, <4>1 DEF TableFiled
    <3> QED
      BY <3>1, <3>2
  <2>2. \A p \in DOMAIN tblId : TableNamed(p)'
    <3> SUFFICES ASSUME NEW p \in DOMAIN tblId PROVE TableNamed(p)'
      OBVIOUS
    <3>1. TableNamed(p)
      BY <1>0 DEF TablesOK
    <3>2. CASE <<p[1], tblId[p]>> = key
      <4>1. tblId[p] = info.id /\ p[1] = info.db
        BY <3>2
      <4>2. p[2] = info.name
        BY <1>2, <4>1
      <4> QED
        BY <1>0, <1>1, <1>6, <3>1, <3>2, <4>2 DEF TableNamed
    <3>3. CASE <<p[1], tblId[p]>> # key
      <4> HIDE DEF key
      <4> QED
        BY <1>0, <1>1, <1>6, <3>1, <3>3 DEF TableNamed
    <3> QED
      BY <3>2, <3>3
  <2> QED
    BY <1>0, <2>1, <2>2 DEF TablesOK
<1>9. TableJobOK'
  <2>1. tblMeta'[<<info.db, info.id>>].name = info.name /\ <<info.db, info.id>> \in DOMAIN tblMeta'
    BY <1>6
  <2> QED
    BY <1>0, <1>1, <1>2, <1>3, <1>4, <2>1 DEF TableJobOK
<1> QED
  BY <1>1, <1>7, <1>8, <1>9 DEF CatalogInv, JobOK

\* DumpTableIdByName makes the table visible, with its records in place.
LEMMA DumpTableIdByNameStep ==
  ASSUME CatalogInv, DumpTableIdByName
  PROVE  /\ CatalogInv'
         /\ \A p \in DOMAIN tblId : p \in DOMAIN tblId' /\ tblId'[p] = tblId[p]
<1> DEFINE info == job.info
           key == <<info.db, info.name>>
<1>0. /\ AllocInv /\ DatabasesOK /\ TablesOK /\ TableJobOK /\ job.at = "tblName"
      /\ dbId' = dbId /\ tblMeta' = tblMeta /\ dbMeta' = dbMeta
      /\ tblId' = Put(tblId, key, info.id)
      /\ job' = NoJob /\ UNCHANGED allocVars
  BY AtWrite DEF DumpTableIdByName, CatalogInv, At, Finish
<1>1. AllocInv' /\ issued' = issued
  BY <1>0, NothingAllocated
<1>2. /\ info \in TableInfo /\ info.id \in issued["Table"]
      /\ info.dbName \in DOMAIN dbId /\ dbId[info.dbName] = info.db
      /\ \A p \in DOMAIN tblId : p = key <=> tblId[p] = info.id
  BY <1>0, TableJobFacts
<1>3. /\ info.db \in DOMAIN dbMeta => info.id \in dbMeta[info.db].tables
      /\ <<info.db, info.id>> \in DOMAIN tblMeta
      /\ tblMeta[<<info.db, info.id>>].name = info.name
  BY <1>0 DEF TableJobOK
<1>4. key[1] = info.db /\ key[2] = info.name /\ key = <<key[1], key[2]>>
  OBVIOUS
<1>5. info.db \in issued["Database"] /\ info.name \in TableNames
  BY <1>0, <1>2 DEF DatabasesOK, TableInfo
<1> HIDE DEF info
<1>6. /\ DOMAIN tblId' = DOMAIN tblId \cup {key}
      /\ tblId'[key] = info.id
      /\ \A x \in DOMAIN tblId : x # key => tblId'[x] = tblId[x]
  BY <1>0 DEF Put
<1> HIDE DEF key
<1>7. \A p \in DOMAIN tblId : p \in DOMAIN tblId' /\ tblId'[p] = tblId[p]
  BY <1>2, <1>6
<1>8. DatabasesOK'
  BY <1>0, <1>1 DEF DatabasesOK
<1>9. TablesOK'
  <2>1. \A p : TableFiled(p) => TableFiled(p)'
    BY <1>0, <1>1 DEF TableFiled
  <2>2. \A p \in DOMAIN tblId' : TableNamed(p)'
    <3> SUFFICES ASSUME NEW p \in DOMAIN tblId' PROVE TableNamed(p)'
      OBVIOUS
    <3>1. CASE p = key
      BY <1>0, <1>1, <1>2, <1>3, <1>4, <1>5, <1>6, <3>1 DEF TableNamed
    <3>2. CASE p # key
      <4>1. p \in DOMAIN tblId /\ tblId'[p] = tblId[p] /\ TableNamed(p)
        BY <1>0, <1>6, <3>2 DEF TablesOK
      <4> QED
        BY <1>0, <1>1, <4>1 DEF TableNamed
    <3> QED
      BY <3>1, <3>2
  <2>3. \A p, q \in DOMAIN tblId' : tblId'[p] = tblId'[q] => p = q
    BY <1>0, <1>2, <1>6 DEF TablesOK
  <2> QED
    BY <1>0, <2>1, <2>2, <2>3 DEF TablesOK
<1> QED
  BY <1>0, <1>1, <1>7, <1>8, <1>9 DEF CatalogInv, JobOK

\* A failure leaves the records written so far.
LEMMA InterruptStep ==
  ASSUME CatalogInv, Interrupt
  PROVE  CatalogInv'
<1>1. UNCHANGED allocVars /\ UNCHANGED store /\ job' = NoJob
  BY DEF Interrupt, Finish
<1>2. AllocInv' /\ issued' = issued
  BY <1>1, NothingAllocated DEF CatalogInv
<1>3. DatabasesOK' /\ TablesOK'
  BY <1>1, <1>2, NothingWritten DEF CatalogInv
<1> QED
  BY <1>1, <1>2, <1>3 DEF CatalogInv, JobOK

-----------------------------------------------------------------------------
(* Theorems about the catalog *)

\* An empty catalog satisfies the inductive invariant.
LEMMA CatalogInitInv == CatalogInit => CatalogInv
<1> SUFFICES ASSUME CatalogInit PROVE CatalogInv
  OBVIOUS
<1>1. AllocInv /\ job = NoJob
  BY AllocInitInv DEF CatalogInit
<1>2. DOMAIN dbId = {} /\ DOMAIN dbMeta = {} /\ DOMAIN tblId = {} /\ DOMAIN tblMeta = {}
  BY DEF CatalogInit
<1> QED
  BY <1>1, <1>2 DEF CatalogInv, DatabasesOK, TablesOK, JobOK

KeptIds ==
  /\ \A n \in DOMAIN dbId : n \in DOMAIN dbId' /\ dbId'[n] = dbId[n]
  /\ \A p \in DOMAIN tblId : p \in DOMAIN tblId' /\ tblId'[p] = tblId[p]

\* Every step of a statement, its interruption included, keeps the invariant and
\* the id of every name.
LEMMA CatalogNextStep ==
  ASSUME CatalogInv, [CatalogNext]_catalogVars
  PROVE  CatalogInv' /\ KeptIds
<1>1. CASE \E name \in DbNames, ine \in BOOLEAN : CreateDatabase(name, ine)
  <2>1. CatalogInv'
    BY <1>1, CreateDatabaseStep
  <2>2. UNCHANGED store
    BY <1>1 DEF CreateDatabase
  <2> QED
    BY <2>1, <2>2 DEF KeptIds, store
<1>2. CASE \E db \in DbNames, name \in TableNames, ine \in BOOLEAN : CreateTable(db, name, ine)
  <2>1. CatalogInv'
    BY <1>2, CreateTableStep
  <2>2. UNCHANGED store
    BY <1>2 DEF CreateTable
  <2> QED
    BY <2>1, <2>2 DEF KeptIds, store
<1>3. CASE DumpDatabaseMeta
  BY <1>3, DumpDatabaseMetaStep DEF KeptIds, DumpDatabaseMeta
<1>4. CASE DumpDatabaseIdByName
  BY <1>4, DumpDatabaseIdByNameStep DEF KeptIds, DumpDatabaseIdByName
<1>5. CASE ModifyDatabaseMetaDel
  BY <1>5, ModifyDatabaseMetaDelStep DEF KeptIds, ModifyDatabaseMetaDel
<1>6. CASE ModifyDatabaseMetaPut
  BY <1>6, ModifyDatabaseMetaPutStep DEF KeptIds, ModifyDatabaseMetaPut
<1>7. CASE DumpTableMeta
  BY <1>7, DumpTableMetaStep DEF KeptIds, DumpTableMeta
<1>8. CASE DumpTableIdByName
  BY <1>8, DumpTableIdByNameStep DEF KeptIds, DumpTableIdByName
<1>9. CASE Interrupt
  BY <1>9, InterruptStep DEF KeptIds, Interrupt, store
<1>10. CASE UNCHANGED catalogVars
  <2>1. UNCHANGED allocVars /\ UNCHANGED store /\ job' = job
    BY <1>10 DEF catalogVars, allocVars, store
  <2>2. AllocInv' /\ issued' = issued
    BY <2>1, NothingAllocated DEF CatalogInv
  <2>3. DatabasesOK' /\ TablesOK'
    BY <2>1, <2>2, NothingWritten DEF CatalogInv
  <2>4. JobOK'
    BY <2>1, <2>2 DEF CatalogInv, JobOK, DatabaseJobOK, TableJobOK, store
  <2> QED
    BY <2>1, <2>2, <2>3, <2>4 DEF CatalogInv, KeptIds, store
<1> QED
  BY <1>1, <1>2, <1>3, <1>4, <1>5, <1>6, <1>7, <1>8, <1>9, <1>10 DEF CatalogNext

\* The catalog's records have their types, and every id in them was issued.
THEOREM CatalogTyped == CatalogSpec => []CatalogTypeOK
<1>1. CatalogInit => CatalogInv
  BY CatalogInitInv
<1>2. CatalogInv /\ [CatalogNext]_catalogVars => CatalogInv'
  BY CatalogNextStep
<1>3. CatalogInv => CatalogTypeOK
  BY DEF CatalogInv, AllocInv, DatabasesOK, TablesOK, TableFiled, TableNamed, CatalogTypeOK
<1> QED
  BY <1>1, <1>2, <1>3, PTL DEF CatalogSpec

\* The writes of CREATE TABLE never make a name visible before its TableInfo and
\* its place in the DatabaseInfo, for any statements, cut short at any write.
THEOREM NamedTablesHaveRecords == CatalogSpec => []NamedTablesResolve
<1>1. CatalogInit => CatalogInv
  BY CatalogInitInv
<1>2. CatalogInv /\ [CatalogNext]_catalogVars => CatalogInv'
  BY CatalogNextStep
<1>3. CatalogInv => NamedTablesResolve
  BY DEF CatalogInv, TablesOK, TableFiled, TableNamed, NamedTablesResolve
<1> QED
  BY <1>1, <1>2, <1>3, PTL DEF CatalogSpec

\* No two names share an id, although an interrupted CREATE leaves records whose
\* id a repeated one does not take up.
THEOREM NamesHaveOwnIds == CatalogSpec => []IdsAreNotShared
<1>1. CatalogInit => CatalogInv
  BY CatalogInitInv
<1>2. CatalogInv /\ [CatalogNext]_catalogVars => CatalogInv'
  BY CatalogNextStep
<1>3. CatalogInv => IdsAreNotShared
  BY DEF CatalogInv, DatabasesOK, TablesOK, IdsAreNotShared
<1> QED
  BY <1>1, <1>2, <1>3, PTL DEF CatalogSpec

\* DumpDatabaseIdByName and DumpTableIdByName never give a stored name another id.
THEOREM IdsOfNamesStay == CatalogSpec => NamesKeepTheirIds
<1>1. CatalogInit => CatalogInv
  BY CatalogInitInv
<1>2. CatalogInv /\ [CatalogNext]_catalogVars => CatalogInv'
  BY CatalogNextStep
<1>3. CatalogInv /\ [CatalogNext]_catalogVars => [KeptIds]_catalogVars
  BY CatalogNextStep
<1>4. CatalogSpec => [][KeptIds]_catalogVars
  BY <1>1, <1>2, <1>3, PTL DEF CatalogSpec
<1> QED
  BY <1>4 DEF NamesKeepTheirIds, KeptIds

-----------------------------------------------------------------------------
(* The keys of the store *)

Ids == 1 .. MaxCounter

LEMMA IdsAreWords ==
  /\ Ids \subseteq Word \ {0} /\ Ids \subseteq Nat
  /\ Buckets \subseteq 0 .. Pow256[W64 - W32] - 1 /\ Buckets \subseteq Word /\ Buckets \subseteq Nat
<1>1. /\ W64 \in Nat \ {0} /\ W32 \in Nat \ {0} /\ W64 - W32 \in 0 .. W64 /\ W64 \in 0 .. W64
      /\ Capacity \in Nat \ {0} /\ MaxCounter \in Nat
  BY WordsAreNat, AllocatorAssumption
<1>2. Pow256[W64] \in Nat \ {0} /\ Pow256[W64 - W32] \in Nat \ {0}
  BY <1>1, Powers
<1>3. Pow256[W64 - W32] <= Pow256[W64]
  BY <1>1, PowersGrow
<1> QED
  BY <1>1, <1>2, <1>3, WordsAssumption DEF Ids, Word, Buckets

Kinds == {"counter", "dbMeta", "dbName", "tblMeta", "tblName", "table"}

\* The keys records of a kind can have.
Keys(kind) ==
  CASE kind = "counter" -> {GenIncKey(t, b) : t \in IDType, b \in Buckets}
    [] kind = "dbMeta" -> {EncodeDatabaseID(d) : d \in Ids}
    [] kind = "dbName" -> {EncodeDatabaseName(NameBytes[n]) : n \in Names}
    [] kind = "tblMeta" -> {EncodeTableID(d, t) : d \in Ids, t \in Ids}
    [] kind = "tblName" -> {EncodeTableName(d, NameBytes[n]) : d \in Ids, n \in Names}
    [] kind = "table" -> {Own(d, t, r) : d \in Ids, t \in Ids, r \in Bytes}

LEMMA NamesAreBytes ==
  ASSUME NEW n \in Names
  PROVE  NameBytes[n] \in Bytes /\ EncodeBytes(NameBytes[n]) \in Bytes
<1>1. NameBytes[n] \in Bytes
  BY CatalogStoreAssumption DEF Bytes
<1> QED
  BY <1>1, Texts

LEMMA CounterKey ==
  ASSUME NEW t \in IDType, NEW b \in Buckets
  PROVE  /\ U64(b) \in Bytes /\ Len(U64(b)) = W64
         /\ GenIncKey(t, b) = IF t = "Database" THEN Tagged(2, U64(b)) ELSE Tagged(3, U64(b))
<1>1. b \in Nat
  BY IdsAreWords
<1>2. PICK name : name = <<>> /\ name \in Bytes
  BY EmptySeq DEF Bytes
<1> QED
  BY <1>1, <1>2, Words, CatalogKeys DEF GenIncKey

LEMMA IdKeys ==
  ASSUME NEW d \in Ids, NEW t \in Ids
  PROVE  /\ U64(d) \in Bytes /\ EncodeDatabaseID(d) = Tagged(1, U64(d))
         /\ U64(d) \o U64(t) \in Bytes /\ Len(U64(d) \o U64(t)) = 2 * W64
         /\ EncodeTableID(d, t) = Tagged(3, U64(d) \o U64(t))
<1>1. d \in Nat /\ t \in Nat
  BY IdsAreWords
<1>2. <<>> \in Bytes
  BY EmptySeq DEF Bytes
<1>3. U64(d) \o U64(t) \in Bytes /\ Len(U64(d) \o U64(t)) = 2 * W64
  BY <1>1, <1>2, OwnParts
<1> QED
  BY <1>1, <1>2, <1>3, Words, CatalogKeys

LEMMA NameKeys ==
  ASSUME NEW d \in Ids, NEW n \in Names
  PROVE  /\ EncodeDatabaseName(NameBytes[n]) = Tagged(2, EncodeBytes(NameBytes[n]))
         /\ U64(d) \o EncodeBytes(NameBytes[n]) \in Bytes
         /\ EncodeTableName(d, NameBytes[n]) = Tagged(4, U64(d) \o EncodeBytes(NameBytes[n]))
<1>1. d \in Nat /\ U64(d) \in Bytes
  BY IdsAreWords, Words
<1>2. NameBytes[n] \in Bytes /\ EncodeBytes(NameBytes[n]) \in Bytes
  BY NamesAreBytes
<1>3. U64(d) \o EncodeBytes(NameBytes[n]) \in Bytes
  BY <1>1, <1>2, Concatenation
<1> QED
  BY <1>1, <1>2, <1>3, CatalogKeys

\* What a key of each kind looks like.
LEMMA KeyTags ==
  /\ \A k \in Keys("counter") : \E r \in Bytes :
       /\ Len(r) = W64
       /\ (k = Tagged(2, r) /\ \E b \in Buckets : r = U64(b)) \/ k = Tagged(3, r)
  /\ \A k \in Keys("dbMeta") : \E r \in Bytes : k = Tagged(1, r)
  /\ \A k \in Keys("dbName") : \E a \in Bytes : EncodeBytes(a) \in Bytes /\ k = Tagged(2, EncodeBytes(a))
  /\ \A k \in Keys("tblMeta") : \E r \in Bytes : Len(r) = 2 * W64 /\ k = Tagged(3, r)
  /\ \A k \in Keys("tblName") : \E r \in Bytes : k = Tagged(4, r)
  /\ \A k \in Keys("table") : \E d \in Word \ {0}, t \in Word, r \in Bytes : k = Own(d, t, r)
<1>1. \A k \in Keys("counter") : \E r \in Bytes :
        /\ Len(r) = W64
        /\ (k = Tagged(2, r) /\ \E b \in Buckets : r = U64(b)) \/ k = Tagged(3, r)
  <2> TAKE k \in Keys("counter")
  <2>1. PICK t \in IDType, b \in Buckets : k = GenIncKey(t, b)
    BY DEF Keys
  <2>2. PICK r \in Bytes : r = U64(b) /\ Len(r) = W64
    BY CounterKey
  <2>3. k = Tagged(2, r) \/ k = Tagged(3, r)
    BY <2>1, <2>2, CounterKey
  <2> QED
    BY <2>2, <2>3
<1>2. \A k \in Keys("dbMeta") : \E r \in Bytes : k = Tagged(1, r)
  <2> TAKE k \in Keys("dbMeta")
  <2>1. PICK d \in Ids : k = EncodeDatabaseID(d)
    BY DEF Keys
  <2> QED
    BY <2>1, IdKeys
<1>3. \A k \in Keys("dbName") : \E a \in Bytes : EncodeBytes(a) \in Bytes /\ k = Tagged(2, EncodeBytes(a))
  <2> TAKE k \in Keys("dbName")
  <2>1. PICK n \in Names : k = EncodeDatabaseName(NameBytes[n])
    BY DEF Keys
  <2>2. PICK a \in Bytes : a = NameBytes[n]
    BY NamesAreBytes
  <2>3. EncodeBytes(a) \in Bytes /\ EncodeDatabaseName(a) = Tagged(2, EncodeBytes(a))
    BY Texts, CatalogKeys, 0 \in Nat
  <2> QED
    BY <2>1, <2>2, <2>3
<1>4. \A k \in Keys("tblMeta") : \E r \in Bytes : Len(r) = 2 * W64 /\ k = Tagged(3, r)
  <2> TAKE k \in Keys("tblMeta")
  <2>1. PICK d \in Ids, t \in Ids : k = EncodeTableID(d, t)
    BY DEF Keys
  <2> QED
    BY <2>1, IdKeys
<1>5. \A k \in Keys("tblName") : \E r \in Bytes : k = Tagged(4, r)
  <2> TAKE k \in Keys("tblName")
  <2>1. PICK d \in Ids, n \in Names : k = EncodeTableName(d, NameBytes[n])
    BY DEF Keys
  <2> QED
    BY <2>1, NameKeys
<1>6. \A k \in Keys("table") : \E d \in Word \ {0}, t \in Word, r \in Bytes : k = Own(d, t, r)
  <2> TAKE k \in Keys("table")
  <2>1. PICK d \in Ids, t \in Ids, r \in Bytes : k = Own(d, t, r)
    BY DEF Keys
  <2>2. d \in Word \ {0} /\ t \in Word
    BY IdsAreWords
  <2> QED
    BY <2>1, <2>2
<1> QED
  BY <1>1, <1>2, <1>3, <1>4, <1>5, <1>6

\* The counters against the records that have their tags: the bytes of a bucket
\* start with zeros where a name has its length, and one id is shorter than two.
LEMMA CountersApart ==
  ASSUME NEW k \in Keys("counter")
  PROVE  k \notin Keys("dbName") /\ k \notin Keys("tblMeta")
<1>0. 2 \in Byte /\ 3 \in Byte /\ W64 \in Nat \ {0}
  BY WordsAreNat DEF Byte
<1>1. PICK r \in Bytes :
        /\ Len(r) = W64
        /\ (k = Tagged(2, r) /\ \E b \in Buckets : r = U64(b)) \/ k = Tagged(3, r)
  BY KeyTags
<1>2. ASSUME k \in Keys("dbName") PROVE FALSE
  <2>1. PICK a \in Bytes : EncodeBytes(a) \in Bytes /\ k = Tagged(2, EncodeBytes(a))
    BY <1>2, KeyTags
  <2>2. PICK q \in Bytes : q = EncodeBytes(a)
    BY <2>1
  <2>3. r = q /\ \E b \in Buckets : r = U64(b)
    <3>1. k # Tagged(3, r)
      BY <1>0, <2>1, <2>2, TaggedEqual
    <3>2. Tagged(2, r) = Tagged(2, q)
      BY <1>1, <2>1, <2>2, <3>1
    <3> QED
      BY <1>0, <1>1, <3>1, <3>2, TaggedEqual
  <2>4. PICK b \in Buckets : EncodeBytes(a) = U64(b)
    BY <2>2, <2>3
  <2>5. b \in 0 .. Pow256[W64 - W32] - 1 /\ W64 - W32 < Pow256[W32]
    BY IdsAreWords, WordsAssumption
  <2> QED
    BY <2>4, <2>5, TextIsNoWord
<1>3. ASSUME k \in Keys("tblMeta") PROVE FALSE
  <2>1. PICK q \in Bytes : Len(q) = 2 * W64 /\ k = Tagged(3, q)
    BY <1>3, KeyTags
  <2>2. k # Tagged(2, r)
    BY <1>0, <2>1, TaggedEqual
  <2>3. Tagged(3, r) = Tagged(3, q)
    BY <1>1, <2>1, <2>2
  <2>4. r = q
    BY <1>0, <2>3, TaggedEqual
  <2> QED
    BY <1>0, <1>1, <2>1, <2>4
<1> QED
  BY <1>2, <1>3

\* The tag of a key: 0 for those of a table.
HasTag(k, tag) ==
  IF tag = 0 THEN \E d \in Word \ {0}, t \in Word, r \in Bytes : k = Own(d, t, r)
             ELSE \E r \in Bytes : k = Tagged(tag, r)

LEMMA OneTag ==
  ASSUME NEW k, NEW a \in Byte, NEW b \in Byte, HasTag(k, a), HasTag(k, b)
  PROVE  a = b
<1>1. ASSUME NEW c \in Byte \ {0}, HasTag(k, c), HasTag(k, 0) PROVE FALSE
  <2>1. PICK q \in Bytes : k = Tagged(c, q)
    BY <1>1 DEF HasTag
  <2>2. PICK d \in Word \ {0}, t \in Word, r \in Bytes : k = Own(d, t, r)
    BY <1>1 DEF HasTag
  <2> QED
    BY <2>1, <2>2, OwnIsNotTagged
<1>2. CASE a # 0 /\ b # 0
  <2>1. PICK r \in Bytes, q \in Bytes : k = Tagged(a, r) /\ k = Tagged(b, q)
    BY <1>2 DEF HasTag
  <2> QED
    BY <2>1, TaggedEqual
<1> QED
  BY <1>1, <1>2

\* No key can be that of records of two kinds.
LEMMA KeysApart ==
  ASSUME NEW i \in Kinds, NEW j \in Kinds, NEW k \in Keys(i), k \in Keys(j)
  PROVE  i = j
<1>0. 0 \in Byte /\ 1 \in Byte /\ 2 \in Byte /\ 3 \in Byte /\ 4 \in Byte
  BY DEF Byte
<1>1. /\ k \in Keys("counter") => HasTag(k, 2) \/ HasTag(k, 3)
      /\ k \in Keys("dbMeta") => HasTag(k, 1)
      /\ k \in Keys("dbName") => HasTag(k, 2)
      /\ k \in Keys("tblMeta") => HasTag(k, 3)
      /\ k \in Keys("tblName") => HasTag(k, 4)
      /\ k \in Keys("table") => HasTag(k, 0)
  <2>1. k \in Keys("counter") => HasTag(k, 2) \/ HasTag(k, 3)
    BY KeyTags DEF HasTag
  <2>2. k \in Keys("dbMeta") => HasTag(k, 1)
    BY KeyTags DEF HasTag
  <2>3. k \in Keys("dbName") => HasTag(k, 2)
    BY KeyTags DEF HasTag
  <2>4. k \in Keys("tblMeta") => HasTag(k, 3)
    BY KeyTags DEF HasTag
  <2>5. k \in Keys("tblName") => HasTag(k, 4)
    BY KeyTags DEF HasTag
  <2>6. k \in Keys("table") => HasTag(k, 0)
    BY KeyTags DEF HasTag
  <2> QED
    BY <2>1, <2>2, <2>3, <2>4, <2>5, <2>6
<1>2. \A a, b \in Byte : HasTag(k, a) /\ HasTag(k, b) => a = b
  BY OneTag
<1>3. k \in Keys("counter") => k \notin Keys("dbName") /\ k \notin Keys("tblMeta")
  BY CountersApart
<1> DEFINE In(kind) == k \in Keys(kind)
<1>4. In(i) /\ In(j)
  OBVIOUS
<1>5. /\ In("counter") => HasTag(k, 2) \/ HasTag(k, 3)
      /\ In("dbMeta") => HasTag(k, 1)
      /\ In("dbName") => HasTag(k, 2)
      /\ In("tblMeta") => HasTag(k, 3)
      /\ In("tblName") => HasTag(k, 4)
      /\ In("table") => HasTag(k, 0)
      /\ In("counter") => ~In("dbName") /\ ~In("tblMeta")
  BY <1>1, <1>3
<1> HIDE DEF In
<1>6. \E a \in 0 .. 4 : \A b \in 0 .. 4 : HasTag(k, b) => a = b
  <2>1. 0 .. 4 \subseteq Byte
    BY DEF Byte
  <2> QED
    BY <1>2, <2>1
<1>7. PICK a \in 0 .. 4 : \A b \in 0 .. 4 : HasTag(k, b) => a = b
  BY <1>6
<1>8. /\ In("counter") => a = 2 \/ a = 3
      /\ In("dbMeta") => a = 1
      /\ In("dbName") => a = 2
      /\ In("tblMeta") => a = 3
      /\ In("tblName") => a = 4
      /\ In("table") => a = 0
  BY <1>5, <1>7
<1>9. /\ i = "counter" \/ i = "dbMeta" \/ i = "dbName" \/ i = "tblMeta" \/ i = "tblName" \/ i = "table"
      /\ j = "counter" \/ j = "dbMeta" \/ j = "dbName" \/ j = "tblMeta" \/ j = "tblName" \/ j = "table"
  BY DEF Kinds
<1> QED
  BY <1>4, <1>5, <1>8, <1>9

\* Records of one kind with one key are the same record.
LEMMA CounterKeysDiffer ==
  ASSUME NEW t \in IDType, NEW b \in Buckets, NEW u \in IDType, NEW c \in Buckets,
         GenIncKey(t, b) = GenIncKey(u, c)
  PROVE  t = u /\ b = c
<1>1. /\ t \in {"Database", "Table"} /\ u \in {"Database", "Table"}
      /\ b \in Word /\ c \in Word /\ 2 \in Byte /\ 3 \in Byte
  BY CatalogAssumption, IdsAreWords DEF Byte
<1>2. PICK x \in Bytes, y \in Bytes : x = U64(b) /\ y = U64(c)
  BY CounterKey
<1>3. PICK i \in Byte, j \in Byte :
        i = (IF t = "Database" THEN 2 ELSE 3) /\ j = (IF u = "Database" THEN 2 ELSE 3)
  BY <1>1
<1>4. Tagged(i, x) = Tagged(j, y)
  BY <1>2, <1>3, CounterKey
<1>5. i = j /\ x = y
  BY <1>4, TaggedEqual
<1>6. t = u
  BY <1>1, <1>3, <1>5
<1>7. U64(b) = U64(c)
  BY <1>2, <1>5
<1> QED
  BY <1>1, <1>6, <1>7, WordsEqual

LEMMA IdKeysDiffer ==
  ASSUME NEW d \in Ids, NEW t \in Ids, NEW e \in Ids, NEW u \in Ids
  PROVE  /\ EncodeDatabaseID(d) = EncodeDatabaseID(e) => d = e
         /\ EncodeTableID(d, t) = EncodeTableID(e, u) => d = e /\ t = u
<1>1. /\ d \in Word /\ t \in Word /\ e \in Word /\ u \in Word /\ 1 \in Byte /\ 3 \in Byte
      /\ d \in Nat /\ t \in Nat /\ e \in Nat /\ u \in Nat
  BY IdsAreWords DEF Byte
<1>2. ASSUME EncodeDatabaseID(d) = EncodeDatabaseID(e) PROVE d = e
  <2>1. PICK x \in Bytes, y \in Bytes : x = U64(d) /\ y = U64(e)
    BY IdKeys
  <2>2. Tagged(1, x) = Tagged(1, y)
    BY <1>2, <2>1, IdKeys
  <2>3. x = y
    BY <1>1, <2>2, TaggedEqual
  <2> QED
    BY <1>1, <2>1, <2>3, WordsEqual
<1>3. ASSUME EncodeTableID(d, t) = EncodeTableID(e, u) PROVE d = e /\ t = u
  <2>1. PICK x \in Bytes, y \in Bytes : x = U64(d) \o U64(t) /\ y = U64(e) \o U64(u)
    BY IdKeys
  <2>2. Tagged(3, x) = Tagged(3, y)
    BY <1>3, <2>1, IdKeys
  <2>3. U64(d) \o U64(t) = U64(e) \o U64(u)
    <3>1. x = y
      BY <1>1, <2>2, TaggedEqual
    <3> QED
      BY <2>1, <3>1, Zenon
  <2>4. /\ U64(d) \in Bytes /\ U64(t) \in Bytes /\ U64(e) \in Bytes /\ U64(u) \in Bytes
        /\ Len(U64(d)) = Len(U64(e))
    BY <1>1, Words
  <2>5. U64(d) = U64(e) /\ U64(t) = U64(u)
    BY <2>3, <2>4, PartsEqual, Zenon
  <2> QED
    BY <1>1, <2>5, WordsEqual
<1> QED
  BY <1>2, <1>3

LEMMA NameTextsDiffer ==
  ASSUME NEW m \in Names, NEW n \in Names, EncodeBytes(NameBytes[m]) = EncodeBytes(NameBytes[n])
  PROVE  m = n
<1>1. NameBytes[m] \in Bytes /\ NameBytes[n] \in Bytes
  BY NamesAreBytes
<1>2. NameBytes[m] = NameBytes[n]
  BY <1>1, TextsEqual
<1> QED
  BY <1>2, CatalogStoreAssumption

LEMMA DatabaseNameKeysDiffer ==
  ASSUME NEW m \in Names, NEW n \in Names,
         EncodeDatabaseName(NameBytes[m]) = EncodeDatabaseName(NameBytes[n])
  PROVE  m = n
<1>1. PICK a \in Bytes, b \in Bytes : a = NameBytes[m] /\ b = NameBytes[n]
  BY NamesAreBytes
<1>2. PICK v \in Bytes, w \in Bytes : v = EncodeBytes(a) /\ w = EncodeBytes(b)
  BY Texts
<1>3. EncodeDatabaseName(a) = Tagged(2, v) /\ EncodeDatabaseName(b) = Tagged(2, w)
  BY <1>2, CatalogKeys, 0 \in Nat
<1>4. Tagged(2, v) = Tagged(2, w)
  BY <1>1, <1>3, Zenon
<1>5. v = w
  <2>1. 2 \in Byte
    BY DEF Byte
  <2> QED
    BY <1>4, <2>1, TaggedEqual
<1> QED
  BY <1>1, <1>2, <1>5, NameTextsDiffer

LEMMA TableNameKeysDiffer ==
  ASSUME NEW d \in Ids, NEW m \in Names, NEW e \in Ids, NEW n \in Names,
         EncodeTableName(d, NameBytes[m]) = EncodeTableName(e, NameBytes[n])
  PROVE  d = e /\ m = n
<1>1. d \in Word /\ e \in Word /\ d \in Nat /\ e \in Nat /\ 4 \in Byte
  BY IdsAreWords DEF Byte
<1>2. PICK v \in Bytes, w \in Bytes : v = EncodeBytes(NameBytes[m]) /\ w = EncodeBytes(NameBytes[n])
  BY NamesAreBytes
<1>3. PICK x \in Bytes, y \in Bytes : x = U64(d) \o v /\ y = U64(e) \o w
  BY <1>2, NameKeys
<1>4. Tagged(4, x) = Tagged(4, y)
  BY <1>2, <1>3, NameKeys
<1>5. U64(d) \o v = U64(e) \o w
  <2>1. x = y
    BY <1>1, <1>4, TaggedEqual
  <2> QED
    BY <1>3, <2>1, Zenon
<1>6. U64(d) \in Bytes /\ U64(e) \in Bytes /\ Len(U64(d)) = Len(U64(e))
  BY <1>1, Words
<1>7. U64(d) = U64(e) /\ v = w
  BY <1>5, <1>6, PartsEqual, Zenon
<1> QED
  BY <1>1, <1>2, <1>7, WordsEqual, NameTextsDiffer

\* The rows, nodes and statistics of a table have its ids in front.
LEMMA TableKeysOwn ==
  ASSUME NEW p, p[1] \in Ids, p[2] \in Ids, NEW k \in TableKeys(p)
  PROVE  (\E r \in Bytes : k = Own(p[1], p[2], r)) /\ k \in Keys("table")
<1>1. PICK d \in Ids, t \in Ids : d = p[1] /\ t = p[2]
  OBVIOUS
<1>2. d \in Nat /\ t \in Nat /\ 0 \in Nat /\ <<>> \in Bytes
  BY IdsAreWords, EmptySeq DEF Bytes
<1>3. \E r \in Bytes : k = Own(d, t, r)
  <2>1. CASE k \in RowKeys(p)
    <3>1. PICK text \in RowTexts : k = EncodeDataKey(d, t, text)
      BY <1>1, <2>1 DEF RowKeys
    <3>2. text \in Bytes
      BY CatalogStoreAssumption DEF Bytes
    <3> QED
      BY <1>2, <3>1, <3>2, RowKeyParts
  <2>2. CASE k \in NodeKeys(p)
    <3>1. PICK i \in IndexIds, n \in NodeIds : k = EncodeIndexTreeNodeID(d, t, i, n)
      BY <1>1, <2>2 DEF NodeKeys
    <3>2. i \in Nat /\ n \in Nat
      BY CatalogStoreAssumption
    <3> QED
      BY <1>2, <3>1, <3>2, NodeKeyParts
  <2>3. CASE k = EncodeMetaStatistic(d, t)
    BY <1>2, <2>3, TableStatisticKeyParts
  <2>4. CASE \E c \in ColumnIds : k = EncodeColumnStatistic(d, t, c)
    <3>1. PICK c \in ColumnIds : k = EncodeColumnStatistic(d, t, c)
      BY <2>4
    <3>2. c \in Nat
      BY CatalogStoreAssumption
    <3> QED
      BY <1>2, <3>1, <3>2, ColumnStatisticKeyParts
  <2> QED
    BY <1>1, <2>1, <2>2, <2>3, <2>4 DEF TableKeys, StatisticKeys
<1> QED
  BY <1>1, <1>3 DEF Keys

LEMMA TableKeysDiffer ==
  ASSUME NEW p, p[1] \in Ids, p[2] \in Ids, NEW q, q[1] \in Ids, q[2] \in Ids,
         NEW k \in TableKeys(p), k \in TableKeys(q)
  PROVE  p[1] = q[1] /\ p[2] = q[2]
<1>1. PICK d \in Ids, t \in Ids, e \in Ids, u \in Ids : d = p[1] /\ t = p[2] /\ e = q[1] /\ u = q[2]
  OBVIOUS
<1>2. d \in Word /\ t \in Word /\ e \in Word /\ u \in Word
  BY IdsAreWords
<1>3. PICK r \in Bytes, s \in Bytes : k = Own(d, t, r) /\ k = Own(e, u, s)
  BY <1>1, TableKeysOwn
<1>4. Own(d, t, r) = Own(e, u, s)
  BY <1>3
<1>5. d = e /\ t = u
  BY <1>2, <1>4, OwnEqual
<1> QED
  BY <1>1, <1>5

-----------------------------------------------------------------------------
(* The store and what it holds *)

KVPairs == {<<k, kv[k]>> : k \in DOMAIN kv}

\* The part of StoreHolds that is of a kind.
Holds(kind) ==
  CASE kind = "counter" ->
         {<<GenIncKey(c[1], c[2]), <<"counter", Decimal[counter[c[1]][c[2]]]>>>> :
            c \in {c \in IDType \X Buckets : counter[c[1]][c[2]] # 0}}
    [] kind = "dbMeta" -> {<<EncodeDatabaseID(d), DatabaseRecord(dbMeta[d])>> : d \in DOMAIN dbMeta}
    [] kind = "dbName" ->
         {<<EncodeDatabaseName(NameBytes[n]), <<"dbName", EncodeDatabaseID(dbId[n])>>>> : n \in DOMAIN dbId}
    [] kind = "tblMeta" -> {<<EncodeTableID(p[1], p[2]), TableRecord(tblMeta[p])>> : p \in DOMAIN tblMeta}
    [] kind = "tblName" ->
         {<<EncodeTableName(p[1], NameBytes[p[2]]), <<"tblName", EncodeTableID(p[1], tblId[p])>>>> :
            p \in DOMAIN tblId}
    [] kind = "table" -> UNION {{<<k, <<"table", p>>>> : k \in TableKeys(p)} : p \in written}

LEMMA StoreHoldsKinds ==
  /\ StoreHolds = UNION {Holds(kind) : kind \in Kinds}
  /\ StoreHolds' = UNION {Holds(kind)' : kind \in Kinds}
<1>1. UNION {Holds(kind) : kind \in Kinds} =
        Holds("counter") \cup Holds("dbMeta") \cup Holds("dbName")
          \cup Holds("tblMeta") \cup Holds("tblName") \cup Holds("table")
  BY DEF Kinds
<1>2. UNION {Holds(kind)' : kind \in Kinds} =
        Holds("counter")' \cup Holds("dbMeta")' \cup Holds("dbName")'
          \cup Holds("tblMeta")' \cup Holds("tblName")' \cup Holds("table")'
  BY DEF Kinds
<1> QED
  BY <1>1, <1>2, Zenon DEF StoreHolds, Holds

\* What is stored of a kind has keys of that kind.
HoldsOwnKeys == \A kind \in Kinds : \A p \in Holds(kind) : p[1] \in Keys(kind)

\* A write of keys K of one kind that replaces what that kind holds under K.
LEMMA WriteOfKind ==
  ASSUME KVPairs = StoreHolds, HoldsOwnKeys, NEW kind \in Kinds, NEW K \in SUBSET Keys(kind), NEW N,
         KVPairs' = {p \in KVPairs : p[1] \notin K} \cup N,
         Holds(kind)' = {p \in Holds(kind) : p[1] \notin K} \cup N,
         \A j \in Kinds : j # kind => Holds(j)' = Holds(j)
  PROVE  KVPairs' = StoreHolds'
<1>1. \A p : p \in StoreHolds <=> \E j \in Kinds : p \in Holds(j)
  BY StoreHoldsKinds
<1>2. \A p : p \in StoreHolds' <=> \E j \in Kinds : p \in Holds(j)'
  BY StoreHoldsKinds
<1>3. ASSUME NEW j \in Kinds, j # kind, NEW p \in Holds(j) PROVE p[1] \notin K
  BY <1>3, KeysApart DEF HoldsOwnKeys
<1>4. ASSUME NEW p PROVE p \in KVPairs' <=> p \in StoreHolds'
  BY <1>1, <1>2, <1>3
<1> QED
  BY <1>4

\* What PutKV, a table's writes and a deletion make of the pairs.
LEMMA PutPairs ==
  ASSUME NEW K, NEW v, PutAllKV(K, v)
  PROVE  KVPairs' = {p \in KVPairs : p[1] \notin K} \cup {<<k, v>> : k \in K}
BY DEF PutAllKV, KVPairs

LEMMA PutPair ==
  ASSUME NEW k, NEW v, PutKV(k, v)
  PROVE  KVPairs' = {p \in KVPairs : p[1] \notin {k}} \cup {<<k, v>>}
BY DEF PutKV, Put, KVPairs

LEMMA DelPair ==
  ASSUME NEW k, kv' = Del(kv, k)
  PROVE  KVPairs' = {p \in KVPairs : p[1] \notin {k}} \cup {}
BY DEF Del, KVPairs

CountersBounded == \A t \in IDType, b \in Buckets : counter[t][b] <= MaxCounter

\* The ids and names records are filed under can be told apart in a key.
RecordIds ==
  /\ \A n \in DOMAIN dbId : n \in Names /\ dbId[n] \in Ids
  /\ \A d \in DOMAIN dbMeta : d \in Ids
  /\ \A p \in DOMAIN tblMeta : p = <<p[1], p[2]>> /\ p[1] \in Ids /\ p[2] \in Ids
  /\ \A p \in DOMAIN tblId : p = <<p[1], p[2]>> /\ p[1] \in Ids /\ p[2] \in Names /\ tblId[p] \in Ids

\* The inductive invariant: that of the catalog, the ids in range, rows only of
\* tables that are described, and the store equal to what it should hold.
StoreInv ==
  /\ CatalogInv
  /\ CountersBounded
  /\ written \subseteq DOMAIN tblMeta
  /\ \A p \in DOMAIN tblMeta : p = <<p[1], p[2]>>
  /\ KVPairs = StoreHolds

\* An issued id is at most the counter of its bucket, of which it is a part.
LEMMA IssuedInRange ==
  ASSUME AllocInv, CountersBounded, NEW type \in IDType
  PROVE  issued[type] \subseteq Ids
<1> SUFFICES ASSUME NEW id \in issued[type] PROVE id \in Ids
  OBVIOUS
<1>1. PICK b \in Buckets, q \in 0 .. id :
        id = q * Capacity + b + 1 /\ q * Capacity < counter[type][b]
  BY DEF AllocInv, IssuedBelowCounter
<1>2. PICK c \in 0 .. counter[type][b] : counter[type][b] = c * Capacity
  BY DEF AllocInv, IssuedBelowCounter
<1>3. /\ id \in Nat \ {0} /\ counter[type][b] \in Nat /\ MaxCounter \in Nat /\ counter[type][b] <= MaxCounter
      /\ Capacity \in Nat \ {0} /\ b \in Nat /\ b < Capacity
  BY AllocatorAssumption DEF AllocInv, AllocTypeOK, Buckets, CountersBounded
<1>4. q \in Nat /\ c \in Nat
  BY <1>3
<1>5. q * Capacity \in Nat /\ c * Capacity \in Nat /\ (c <= q => c * Capacity <= q * Capacity)
  <2>1. q * Capacity \in Nat /\ c * Capacity \in Nat
    BY <1>3, <1>4, ProductBound
  <2>2. c < q => c * Capacity + Capacity <= q * Capacity
    BY <1>3, <1>4, MultiplesApart
  <2>3. c = q => c * Capacity = q * Capacity
    OBVIOUS
  <2> QED
    BY <1>3, <1>4, <2>1, <2>2, <2>3
<1>6. q < c
  BY <1>1, <1>2, <1>4, <1>5
<1>7. q * Capacity + Capacity <= c * Capacity
  BY <1>3, <1>4, <1>6, MultiplesApart
<1>8. id <= counter[type][b]
  BY <1>1, <1>2, <1>3, <1>5, <1>7
<1> QED
  BY <1>3, <1>8 DEF Ids

LEMMA RecordsHaveIds ==
  ASSUME CatalogInv, CountersBounded, \A p \in DOMAIN tblMeta : p = <<p[1], p[2]>>
  PROVE  RecordIds /\ issued["Database"] \subseteq Ids /\ issued["Table"] \subseteq Ids
<1>1. issued["Database"] \subseteq Ids /\ issued["Table"] \subseteq Ids
  BY IdTypes, IssuedInRange DEF CatalogInv
<1>2. DatabasesOK /\ TablesOK /\ DbNames \subseteq Names /\ TableNames \subseteq Names
  BY IdTypes DEF CatalogInv
<1>3. /\ \A n \in DOMAIN dbId : n \in Names /\ dbId[n] \in Ids
      /\ \A d \in DOMAIN dbMeta : d \in Ids
  BY <1>1, <1>2 DEF DatabasesOK
<1>4. \A p \in DOMAIN tblMeta : p[1] \in Ids /\ p[2] \in Ids
  BY <1>1, <1>2, <1>3 DEF TablesOK, TableFiled
<1>5. \A p \in DOMAIN tblId : p = <<p[1], p[2]>> /\ p[1] \in Ids /\ p[2] \in Names /\ tblId[p] \in Ids
  BY <1>1, <1>2 DEF TablesOK, TableNamed
<1> QED
  BY <1>1, <1>3, <1>4, <1>5 DEF RecordIds

LEMMA HeldUnderOwnKeys ==
  ASSUME RecordIds, written \subseteq DOMAIN tblMeta
  PROVE  HoldsOwnKeys
<1>1. \A p \in Holds("counter") : p[1] \in Keys("counter")
  BY DEF Holds, Keys
<1>2. \A p \in Holds("dbMeta") : p[1] \in Keys("dbMeta")
  BY DEF Holds, Keys, RecordIds
<1>3. \A p \in Holds("dbName") : p[1] \in Keys("dbName")
  BY DEF Holds, Keys, RecordIds
<1>4. \A p \in Holds("tblMeta") : p[1] \in Keys("tblMeta")
  BY DEF Holds, Keys, RecordIds
<1>5. \A p \in Holds("tblName") : p[1] \in Keys("tblName")
  BY DEF Holds, Keys, RecordIds
<1>6. \A p \in Holds("table") : p[1] \in Keys("table")
  <2> TAKE p \in Holds("table")
  <2>1. PICK q \in written : \E k \in TableKeys(q) : p = <<k, <<"table", q>>>>
    BY DEF Holds
  <2>2. q[1] \in Ids /\ q[2] \in Ids
    BY DEF RecordIds
  <2> QED
    BY <2>1, <2>2, TableKeysOwn
<1> QED
  BY <1>1, <1>2, <1>3, <1>4, <1>5, <1>6 DEF HoldsOwnKeys, Kinds

-----------------------------------------------------------------------------
(* The writes of the store *)

LEMMA CountersHeld ==
  /\ \A p : p \in Holds("counter") <=> \E t \in IDType, b \in Buckets :
       counter[t][b] # 0 /\ p = <<GenIncKey(t, b), <<"counter", Decimal[counter[t][b]]>>>>
  /\ \A p : p \in Holds("counter")' <=> \E t \in IDType, b \in Buckets :
       counter'[t][b] # 0 /\ p = <<GenIncKey(t, b), <<"counter", Decimal[counter'[t][b]]>>>>
<1> DEFINE Entry(f, t, b) == <<GenIncKey(t, b), <<"counter", Decimal[f[t][b]]>>>>
<1>1. ASSUME NEW f, NEW p
      PROVE  p \in {Entry(f, c[1], c[2]) : c \in {c \in IDType \X Buckets : f[c[1]][c[2]] # 0}}
               <=> \E t \in IDType, b \in Buckets : f[t][b] # 0 /\ p = Entry(f, t, b)
  <2> HIDE DEF Entry
  <2>1. ASSUME NEW c \in {c \in IDType \X Buckets : f[c[1]][c[2]] # 0}, p = Entry(f, c[1], c[2])
        PROVE  \E t \in IDType, b \in Buckets : f[t][b] # 0 /\ p = Entry(f, t, b)
    <3>1. c[1] \in IDType /\ c[2] \in Buckets /\ f[c[1]][c[2]] # 0
      OBVIOUS
    <3> QED
      BY <2>1, <3>1
  <2>2. ASSUME NEW t \in IDType, NEW b \in Buckets, f[t][b] # 0, p = Entry(f, t, b)
        PROVE  \E c \in {c \in IDType \X Buckets : f[c[1]][c[2]] # 0} : p = Entry(f, c[1], c[2])
    <3>1. PICK c : c = <<t, b>>
      OBVIOUS
    <3>2. c \in IDType \X Buckets /\ c[1] = t /\ c[2] = b
      BY <3>1
    <3> QED
      BY <2>2, <3>2
  <2> QED
    BY <2>1, <2>2
<1>2. Holds("counter") =
        {Entry(counter, c[1], c[2]) : c \in {c \in IDType \X Buckets : counter[c[1]][c[2]] # 0}}
  BY Zenon DEF Holds
<1>3. Holds("counter")' =
        {Entry(counter', c[1], c[2]) : c \in {c \in IDType \X Buckets : counter'[c[1]][c[2]] # 0}}
  BY Zenon DEF Holds
<1>4. \A p : p \in Holds("counter") <=> \E t \in IDType, b \in Buckets :
        counter[t][b] # 0 /\ p = Entry(counter, t, b)
  BY <1>1, <1>2
<1>5. \A p : p \in Holds("counter")' <=> \E t \in IDType, b \in Buckets :
        counter'[t][b] # 0 /\ p = Entry(counter', t, b)
  BY <1>1, <1>3
<1> QED
  BY <1>4, <1>5

\* The next counter of the bucket replaces the one before.
LEMMA CounterWritten ==
  ASSUME StoreInv, NEW type \in IDType, NEW name \in Names, AllocateID(type, name),
         IncrbyKV, UNCHANGED store, UNCHANGED written
  PROVE  CountersBounded' /\ KVPairs' = StoreHolds'
<1> DEFINE b == BucketOf[name]
<1>1. Capacity \in Nat \ {0} /\ b \in Buckets /\ FetchNum(1) = 1 /\ MaxCounter \in Nat
  BY AllocatorAssumption DEF Buckets, FetchNum
<1>2. Incrby(type, b, 1) /\ counter[type][b] + 1 * Capacity <= MaxCounter
  BY <1>1 DEF AllocateID, BatchAllocateID
<1> HIDE DEF b
<1>3. counter \in [IDType -> [Buckets -> Nat]]
  BY DEF StoreInv, CatalogInv, AllocInv, AllocTypeOK
<1>4. /\ \A t \in IDType, c \in Buckets : ~(t = type /\ c = b) => counter'[t][c] = counter[t][c]
      /\ counter'[type][b] = counter[type][b] + Capacity
  BY <1>1, <1>2, <1>3 DEF Incrby
<1>5. CountersBounded'
  BY <1>1, <1>2, <1>3, <1>4 DEF StoreInv, CountersBounded
<1>6. counter[type][b] \in Nat
  BY <1>1, <1>3
<1>7. counter'[type][b] # counter[type][b] /\ counter'[type][b] # 0
  BY <1>1, <1>4, <1>6
<1> DEFINE key == GenIncKey(type, b)
           value == <<"counter", Decimal[counter'[type][b]]>>
<1>8. PutKV(key, value)
  <2>1. counter' # counter
    BY <1>7
  <2>2. PICK t \in IDType, c \in Buckets :
          /\ counter'[t][c] # counter[t][c]
          /\ PutKV(GenIncKey(t, c), <<"counter", Decimal[counter'[t][c]]>>)
    BY <2>1 DEF IncrbyKV
  <2>3. t = type /\ c = b
    BY <1>4, <2>2
  <2> QED
    BY <2>2, <2>3
<1>9. KVPairs' = {p \in KVPairs : p[1] \notin {key}} \cup {<<key, value>>}
  BY <1>8, PutPair
<1>10. /\ \A p : p \in Holds("counter") <=> \E t \in IDType, c \in Buckets :
            counter[t][c] # 0 /\ p = <<GenIncKey(t, c), <<"counter", Decimal[counter[t][c]]>>>>
       /\ \A p : p \in Holds("counter")' <=> \E t \in IDType, c \in Buckets :
            counter'[t][c] # 0 /\ p = <<GenIncKey(t, c), <<"counter", Decimal[counter'[t][c]]>>>>
  BY CountersHeld
<1>11. \A t \in IDType, c \in Buckets : GenIncKey(t, c) = key => t = type /\ c = b
  BY <1>1, CounterKeysDiffer
<1> HIDE DEF key, value
<1>12. Holds("counter")' = {p \in Holds("counter") : p[1] \notin {key}} \cup {<<key, value>>}
  <2>1. ASSUME NEW p \in Holds("counter")' PROVE (p \in Holds("counter") /\ p[1] # key) \/ p = <<key, value>>
    <3>1. PICK t \in IDType, c \in Buckets :
            counter'[t][c] # 0 /\ p = <<GenIncKey(t, c), <<"counter", Decimal[counter'[t][c]]>>>>
      BY <1>10
    <3>2. CASE t = type /\ c = b
      BY <3>1, <3>2 DEF key, value
    <3>3. CASE ~(t = type /\ c = b)
      <4>1. p \in Holds("counter")
        BY <1>4, <1>10, <3>1, <3>3
      <4> QED
        BY <1>11, <3>1, <3>3, <4>1
    <3> QED
      BY <3>2, <3>3
  <2>2. ASSUME NEW p \in Holds("counter"), p[1] # key PROVE p \in Holds("counter")'
    <3>1. PICK t \in IDType, c \in Buckets :
            counter[t][c] # 0 /\ p = <<GenIncKey(t, c), <<"counter", Decimal[counter[t][c]]>>>>
      BY <1>10
    <3>2. ~(t = type /\ c = b)
      BY <2>2, <3>1 DEF key
    <3> QED
      BY <1>4, <1>10, <3>1, <3>2
  <2>3. <<key, value>> \in Holds("counter")'
    BY <1>1, <1>7, <1>10 DEF key, value
  <2> QED
    BY <2>1, <2>2, <2>3
<1>13. \A j \in Kinds : j # "counter" => Holds(j)' = Holds(j)
  BY DEF store, Holds, Kinds
<1>14. HoldsOwnKeys
  BY RecordsHaveIds, HeldUnderOwnKeys DEF StoreInv
<1>15. key \in Keys("counter")
  BY <1>1 DEF key, Keys
<1>16. KVPairs' = StoreHolds'
  <2>1. {key} \in SUBSET Keys("counter") /\ "counter" \in Kinds /\ KVPairs = StoreHolds
    BY <1>15 DEF Kinds, StoreInv
  <2> QED
    BY <1>9, <1>12, <1>13, <1>14, <2>1, WriteOfKind
<1> QED
  BY <1>5, <1>16

\* The record of a database replaces the one before.
LEMMA DatabaseRecordWritten ==
  ASSUME StoreInv, NEW d \in Ids, NEW v,
         dbMeta' = Put(dbMeta, d, v), PutKV(EncodeDatabaseID(d), DatabaseRecord(v)),
         UNCHANGED <<counter, dbId, tblId, tblMeta, written>>
  PROVE  KVPairs' = StoreHolds'
<1> DEFINE key == EncodeDatabaseID(d)
           value == DatabaseRecord(v)
           Entry(g, y) == <<EncodeDatabaseID(y), DatabaseRecord(g[y])>>
<1>1. KVPairs' = {p \in KVPairs : p[1] \notin {key}} \cup {<<key, value>>}
  BY PutPair
<1>2. /\ Holds("dbMeta") = {Entry(dbMeta, y) : y \in DOMAIN dbMeta}
      /\ Holds("dbMeta")' = {Entry(dbMeta', y) : y \in DOMAIN dbMeta'}
  BY Zenon DEF Holds
<1>3. /\ DOMAIN dbMeta' = DOMAIN dbMeta \cup {d}
      /\ dbMeta'[d] = v
      /\ \A y \in DOMAIN dbMeta : y # d => dbMeta'[y] = dbMeta[y]
  BY DEF Put
<1>4. HoldsOwnKeys /\ RecordIds
  BY RecordsHaveIds, HeldUnderOwnKeys DEF StoreInv
<1>5. \A y \in DOMAIN dbMeta : Entry(dbMeta, y)[1] = key => y = d
  BY <1>4, IdKeysDiffer DEF RecordIds
<1>6. Holds("dbMeta")' = {p \in Holds("dbMeta") : p[1] \notin {key}} \cup {<<key, value>>}
  <2>1. Entry(dbMeta', d) = <<key, value>>
    BY <1>3
  <2>2. \A y \in DOMAIN dbMeta : y # d => Entry(dbMeta', y) = Entry(dbMeta, y) /\ Entry(dbMeta, y)[1] # key
    BY <1>3, <1>5
  <2>3. Entry(dbMeta, d)[1] = key
    OBVIOUS
  <2> HIDE DEF Entry, key, value
  <2>4. ASSUME NEW p \in Holds("dbMeta")'
        PROVE  (p \in Holds("dbMeta") /\ p[1] # key) \/ p = <<key, value>>
    <3>1. PICK y \in DOMAIN dbMeta' : p = Entry(dbMeta', y)
      BY <1>2
    <3> QED
      BY <1>2, <1>3, <2>1, <2>2, <3>1
  <2>5. ASSUME NEW p \in Holds("dbMeta"), p[1] # key PROVE p \in Holds("dbMeta")'
    <3>1. PICK y \in DOMAIN dbMeta : p = Entry(dbMeta, y)
      BY <1>2
    <3> QED
      BY <1>2, <1>3, <2>2, <2>3, <2>5, <3>1
  <2>6. <<key, value>> \in Holds("dbMeta")'
    BY <1>2, <1>3, <2>1
  <2> QED
    BY <2>4, <2>5, <2>6
<1>7. \A j \in Kinds : j # "dbMeta" => Holds(j)' = Holds(j)
  BY DEF Holds, Kinds
<1>8. {key} \in SUBSET Keys("dbMeta") /\ "dbMeta" \in Kinds /\ KVPairs = StoreHolds
  BY DEF Keys, Kinds, StoreInv
<1> QED
  BY <1>1, <1>4, <1>6, <1>7, <1>8, WriteOfKind

\* The id of a name replaces the one before.
LEMMA DatabaseNameWritten ==
  ASSUME StoreInv, NEW n \in Names, NEW v,
         dbId' = Put(dbId, n, v), PutKV(EncodeDatabaseName(NameBytes[n]), <<"dbName", EncodeDatabaseID(v)>>),
         UNCHANGED <<counter, dbMeta, tblId, tblMeta, written>>
  PROVE  KVPairs' = StoreHolds'
<1> DEFINE key == EncodeDatabaseName(NameBytes[n])
           value == <<"dbName", EncodeDatabaseID(v)>>
           Entry(g, y) == <<EncodeDatabaseName(NameBytes[y]), <<"dbName", EncodeDatabaseID(g[y])>>>>
<1>1. KVPairs' = {p \in KVPairs : p[1] \notin {key}} \cup {<<key, value>>}
  BY PutPair
<1>2. /\ Holds("dbName") = {Entry(dbId, y) : y \in DOMAIN dbId}
      /\ Holds("dbName")' = {Entry(dbId', y) : y \in DOMAIN dbId'}
  BY Zenon DEF Holds
<1>3. /\ DOMAIN dbId' = DOMAIN dbId \cup {n}
      /\ dbId'[n] = v
      /\ \A y \in DOMAIN dbId : y # n => dbId'[y] = dbId[y]
  BY DEF Put
<1>4. HoldsOwnKeys /\ RecordIds
  BY RecordsHaveIds, HeldUnderOwnKeys DEF StoreInv
<1>5. \A y \in DOMAIN dbId : Entry(dbId, y)[1] = key => y = n
  <2>1. \A y \in DOMAIN dbId : y \in Names
    BY <1>4 DEF RecordIds
  <2>2. \A y \in Names : EncodeDatabaseName(NameBytes[y]) = key => y = n
    BY DatabaseNameKeysDiffer
  <2> QED
    BY <2>1, <2>2
<1>6. Holds("dbName")' = {p \in Holds("dbName") : p[1] \notin {key}} \cup {<<key, value>>}
  <2>1. Entry(dbId', n) = <<key, value>>
    BY <1>3
  <2>2. \A y \in DOMAIN dbId : y # n => Entry(dbId', y) = Entry(dbId, y) /\ Entry(dbId, y)[1] # key
    BY <1>3, <1>5
  <2>3. Entry(dbId, n)[1] = key
    OBVIOUS
  <2> HIDE DEF Entry, key, value
  <2>4. ASSUME NEW p \in Holds("dbName")'
        PROVE  (p \in Holds("dbName") /\ p[1] # key) \/ p = <<key, value>>
    <3>1. PICK y \in DOMAIN dbId' : p = Entry(dbId', y)
      BY <1>2
    <3> QED
      BY <1>2, <1>3, <2>1, <2>2, <3>1
  <2>5. ASSUME NEW p \in Holds("dbName"), p[1] # key PROVE p \in Holds("dbName")'
    <3>1. PICK y \in DOMAIN dbId : p = Entry(dbId, y)
      BY <1>2
    <3> QED
      BY <1>2, <1>3, <2>2, <2>3, <2>5, <3>1
  <2>6. <<key, value>> \in Holds("dbName")'
    BY <1>2, <1>3, <2>1
  <2> QED
    BY <2>4, <2>5, <2>6
<1>7. \A j \in Kinds : j # "dbName" => Holds(j)' = Holds(j)
  BY DEF Holds, Kinds
<1>8. {key} \in SUBSET Keys("dbName") /\ "dbName" \in Kinds /\ KVPairs = StoreHolds
  BY DEF Keys, Kinds, StoreInv
<1> QED
  BY <1>1, <1>4, <1>6, <1>7, <1>8, WriteOfKind

\* The record of a table replaces the one before.
LEMMA TableRecordWritten ==
  ASSUME StoreInv, NEW d \in Ids, NEW t \in Ids, NEW v,
         tblMeta' = Put(tblMeta, <<d, t>>, v), PutKV(EncodeTableID(d, t), TableRecord(v)),
         UNCHANGED <<counter, dbId, dbMeta, tblId, written>>
  PROVE  KVPairs' = StoreHolds'
<1> DEFINE key == EncodeTableID(d, t)
           value == TableRecord(v)
           Entry(g, y) == <<EncodeTableID(y[1], y[2]), TableRecord(g[y])>>
<1>1. KVPairs' = {p \in KVPairs : p[1] \notin {key}} \cup {<<key, value>>}
  BY PutPair
<1>2. /\ Holds("tblMeta") = {Entry(tblMeta, y) : y \in DOMAIN tblMeta}
      /\ Holds("tblMeta")' = {Entry(tblMeta', y) : y \in DOMAIN tblMeta'}
  BY Zenon DEF Holds
<1>3. /\ DOMAIN tblMeta' = DOMAIN tblMeta \cup {<<d, t>>}
      /\ tblMeta'[<<d, t>>] = v
      /\ \A y \in DOMAIN tblMeta : y # <<d, t>> => tblMeta'[y] = tblMeta[y]
  BY DEF Put
<1>4. HoldsOwnKeys /\ RecordIds
  BY RecordsHaveIds, HeldUnderOwnKeys DEF StoreInv
<1>5. \A y \in DOMAIN tblMeta : Entry(tblMeta, y)[1] = key => y = <<d, t>>
  <2>1. \A y \in DOMAIN tblMeta : y = <<y[1], y[2]>> /\ y[1] \in Ids /\ y[2] \in Ids
    BY <1>4 DEF RecordIds
  <2> QED
    BY <2>1, IdKeysDiffer
<1>6. Holds("tblMeta")' = {p \in Holds("tblMeta") : p[1] \notin {key}} \cup {<<key, value>>}
  <2>1. Entry(tblMeta', <<d, t>>) = <<key, value>>
    BY <1>3
  <2>2. \A y \in DOMAIN tblMeta : y # <<d, t>> => Entry(tblMeta', y) = Entry(tblMeta, y) /\ Entry(tblMeta, y)[1] # key
    BY <1>3, <1>5
  <2>3. Entry(tblMeta, <<d, t>>)[1] = key
    OBVIOUS
  <2> HIDE DEF Entry, key, value
  <2>4. ASSUME NEW p \in Holds("tblMeta")'
        PROVE  (p \in Holds("tblMeta") /\ p[1] # key) \/ p = <<key, value>>
    <3>1. PICK y \in DOMAIN tblMeta' : p = Entry(tblMeta', y)
      BY <1>2
    <3> QED
      BY <1>2, <1>3, <2>1, <2>2, <3>1
  <2>5. ASSUME NEW p \in Holds("tblMeta"), p[1] # key PROVE p \in Holds("tblMeta")'
    <3>1. PICK y \in DOMAIN tblMeta : p = Entry(tblMeta, y)
      BY <1>2
    <3> QED
      BY <1>2, <1>3, <2>2, <2>3, <2>5, <3>1
  <2>6. <<key, value>> \in Holds("tblMeta")'
    BY <1>2, <1>3, <2>1
  <2> QED
    BY <2>4, <2>5, <2>6
<1>7. \A j \in Kinds : j # "tblMeta" => Holds(j)' = Holds(j)
  BY DEF Holds, Kinds
<1>8. {key} \in SUBSET Keys("tblMeta") /\ "tblMeta" \in Kinds /\ KVPairs = StoreHolds
  BY DEF Keys, Kinds, StoreInv
<1> QED
  BY <1>1, <1>4, <1>6, <1>7, <1>8, WriteOfKind

\* The id of a table's name replaces the one before.
LEMMA TableNameWritten ==
  ASSUME StoreInv, NEW d \in Ids, NEW n \in Names, NEW v,
         tblId' = Put(tblId, <<d, n>>, v), PutKV(EncodeTableName(d, NameBytes[n]), <<"tblName", EncodeTableID(d, v)>>),
         UNCHANGED <<counter, dbId, dbMeta, tblMeta, written>>
  PROVE  KVPairs' = StoreHolds'
<1> DEFINE key == EncodeTableName(d, NameBytes[n])
           value == <<"tblName", EncodeTableID(d, v)>>
           Entry(g, y) == <<EncodeTableName(y[1], NameBytes[y[2]]), <<"tblName", EncodeTableID(y[1], g[y])>>>>
<1>1. KVPairs' = {p \in KVPairs : p[1] \notin {key}} \cup {<<key, value>>}
  BY PutPair
<1>2. /\ Holds("tblName") = {Entry(tblId, y) : y \in DOMAIN tblId}
      /\ Holds("tblName")' = {Entry(tblId', y) : y \in DOMAIN tblId'}
  BY Zenon DEF Holds
<1>3. /\ DOMAIN tblId' = DOMAIN tblId \cup {<<d, n>>}
      /\ tblId'[<<d, n>>] = v
      /\ \A y \in DOMAIN tblId : y # <<d, n>> => tblId'[y] = tblId[y]
  BY DEF Put
<1>4. HoldsOwnKeys /\ RecordIds
  BY RecordsHaveIds, HeldUnderOwnKeys DEF StoreInv
<1>5. \A y \in DOMAIN tblId : Entry(tblId, y)[1] = key => y = <<d, n>>
  <2>1. \A y \in DOMAIN tblId : y = <<y[1], y[2]>> /\ y[1] \in Ids /\ y[2] \in Names
    BY <1>4 DEF RecordIds
  <2> QED
    BY <2>1, TableNameKeysDiffer
<1>6. Holds("tblName")' = {p \in Holds("tblName") : p[1] \notin {key}} \cup {<<key, value>>}
  <2>1. Entry(tblId', <<d, n>>) = <<key, value>>
    BY <1>3
  <2>2. \A y \in DOMAIN tblId : y # <<d, n>> => Entry(tblId', y) = Entry(tblId, y) /\ Entry(tblId, y)[1] # key
    BY <1>3, <1>5
  <2>3. Entry(tblId, <<d, n>>)[1] = key
    OBVIOUS
  <2> HIDE DEF Entry, key, value
  <2>4. ASSUME NEW p \in Holds("tblName")'
        PROVE  (p \in Holds("tblName") /\ p[1] # key) \/ p = <<key, value>>
    <3>1. PICK y \in DOMAIN tblId' : p = Entry(tblId', y)
      BY <1>2
    <3> QED
      BY <1>2, <1>3, <2>1, <2>2, <3>1
  <2>5. ASSUME NEW p \in Holds("tblName"), p[1] # key PROVE p \in Holds("tblName")'
    <3>1. PICK y \in DOMAIN tblId : p = Entry(tblId, y)
      BY <1>2
    <3> QED
      BY <1>2, <1>3, <2>2, <2>3, <2>5, <3>1
  <2>6. <<key, value>> \in Holds("tblName")'
    BY <1>2, <1>3, <2>1
  <2> QED
    BY <2>4, <2>5, <2>6
<1>7. \A j \in Kinds : j # "tblName" => Holds(j)' = Holds(j)
  BY DEF Holds, Kinds
<1>8. {key} \in SUBSET Keys("tblName") /\ "tblName" \in Kinds /\ KVPairs = StoreHolds
  BY DEF Keys, Kinds, StoreInv
<1> QED
  BY <1>1, <1>4, <1>6, <1>7, <1>8, WriteOfKind

\* ModifyDatabaseMeta's deletion takes away that record and no other.
LEMMA DatabaseRecordDeleted ==
  ASSUME StoreInv, NEW d \in Ids, dbMeta' = Del(dbMeta, d), kv' = Del(kv, EncodeDatabaseID(d)),
         UNCHANGED <<counter, dbId, tblId, tblMeta, written>>
  PROVE  KVPairs' = StoreHolds'
<1> DEFINE key == EncodeDatabaseID(d)
           Entry(g, y) == <<EncodeDatabaseID(y), DatabaseRecord(g[y])>>
<1>1. KVPairs' = {p \in KVPairs : p[1] \notin {key}} \cup {}
  BY DelPair
<1>2. /\ Holds("dbMeta") = {Entry(dbMeta, y) : y \in DOMAIN dbMeta}
      /\ Holds("dbMeta")' = {Entry(dbMeta', y) : y \in DOMAIN dbMeta'}
  BY Zenon DEF Holds
<1>3. /\ DOMAIN dbMeta' = DOMAIN dbMeta \ {d}
      /\ \A y \in DOMAIN dbMeta : y # d => dbMeta'[y] = dbMeta[y]
  BY DEF Del
<1>4. HoldsOwnKeys /\ RecordIds
  BY RecordsHaveIds, HeldUnderOwnKeys DEF StoreInv
<1>5. \A y \in DOMAIN dbMeta : Entry(dbMeta, y)[1] = key => y = d
  BY <1>4, IdKeysDiffer DEF RecordIds
<1>6. Holds("dbMeta")' = {p \in Holds("dbMeta") : p[1] \notin {key}} \cup {}
  <2>1. \A y \in DOMAIN dbMeta : y # d => Entry(dbMeta', y) = Entry(dbMeta, y) /\ Entry(dbMeta, y)[1] # key
    BY <1>3, <1>5
  <2>2. Entry(dbMeta, d)[1] = key
    OBVIOUS
  <2> HIDE DEF Entry, key
  <2>3. ASSUME NEW p \in Holds("dbMeta")' PROVE p \in Holds("dbMeta") /\ p[1] # key
    <3>1. PICK y \in DOMAIN dbMeta' : p = Entry(dbMeta', y)
      BY <1>2
    <3> QED
      BY <1>2, <1>3, <2>1, <3>1
  <2>4. ASSUME NEW p \in Holds("dbMeta"), p[1] # key PROVE p \in Holds("dbMeta")'
    <3>1. PICK y \in DOMAIN dbMeta : p = Entry(dbMeta, y)
      BY <1>2
    <3> QED
      BY <1>2, <1>3, <2>1, <2>2, <2>4, <3>1
  <2> QED
    BY <2>3, <2>4
<1>7. \A j \in Kinds : j # "dbMeta" => Holds(j)' = Holds(j)
  BY DEF Holds, Kinds
<1>8. {key} \in SUBSET Keys("dbMeta") /\ "dbMeta" \in Kinds /\ KVPairs = StoreHolds
  BY DEF Keys, Kinds, StoreInv
<1> QED
  BY <1>1, <1>4, <1>6, <1>7, <1>8, WriteOfKind

\* The rows, nodes and statistics of a table are new and hit no other table.
LEMMA TableWritten ==
  ASSUME StoreInv, NEW q \in DOMAIN tblMeta \ written,
         PutAllKV(TableKeys(q), <<"table", q>>), written' = written \cup {q},
         UNCHANGED <<counter, dbId, dbMeta, tblId, tblMeta>>
  PROVE  KVPairs' = StoreHolds'
<1> DEFINE K == TableKeys(q)
           N == {<<k, <<"table", q>>>> : k \in K}
<1>1. KVPairs' = {p \in KVPairs : p[1] \notin K} \cup N
  BY PutPairs
<1>2. HoldsOwnKeys /\ RecordIds
  BY RecordsHaveIds, HeldUnderOwnKeys DEF StoreInv
<1>3. \A r \in DOMAIN tblMeta : r = <<r[1], r[2]>> /\ r[1] \in Ids /\ r[2] \in Ids
  BY <1>2 DEF RecordIds
<1>4. \A r \in written : r \in DOMAIN tblMeta /\ r # q
  BY DEF StoreInv
<1>5. ASSUME NEW r \in written, NEW k \in TableKeys(r) PROVE k \notin K
  <2>1. k \in TableKeys(q) => r[1] = q[1] /\ r[2] = q[2]
    BY <1>3, <1>4, TableKeysDiffer
  <2> QED
    BY <1>3, <1>4, <2>1
<1>6. /\ \A p : p \in Holds("table") <=> \E r \in written : \E k \in TableKeys(r) : p = <<k, <<"table", r>>>>
      /\ \A p : p \in Holds("table")' <=> \E r \in written' : \E k \in TableKeys(r) : p = <<k, <<"table", r>>>>
  <2>1. Holds("table") = UNION {{<<k, <<"table", r>>>> : k \in TableKeys(r)} : r \in written}
    BY Zenon DEF Holds
  <2>2. Holds("table")' = UNION {{<<k, <<"table", r>>>> : k \in TableKeys(r)} : r \in written'}
    BY Zenon DEF Holds
  <2> QED
    BY <2>1, <2>2
<1>7. Holds("table")' = {p \in Holds("table") : p[1] \notin K} \cup N
  <2>1. \A p \in Holds("table") : p[1] \notin K
    BY <1>5, <1>6
  <2>2. ASSUME NEW p PROVE p \in Holds("table")' <=> p \in Holds("table") \/ p \in N
    BY <1>6
  <2> QED
    BY <2>1, <2>2
<1>8. \A j \in Kinds : j # "table" => Holds(j)' = Holds(j)
  BY DEF Holds, Kinds
<1>9. K \in SUBSET Keys("table") /\ "table" \in Kinds /\ KVPairs = StoreHolds
  BY <1>3, TableKeysOwn DEF Kinds, StoreInv
<1> QED
  BY <1>1, <1>2, <1>7, <1>8, <1>9, WriteOfKind

-----------------------------------------------------------------------------
(* Theorems about the store *)

LEMMA NothingStored ==
  ASSUME StoreInv, UNCHANGED <<kv, counter, dbId, dbMeta, tblId, tblMeta, written>>
  PROVE  KVPairs' = StoreHolds'
<1>1. KVPairs' = KVPairs
  BY DEF KVPairs
<1>2. \A j \in Kinds : Holds(j)' = Holds(j)
  BY DEF Holds, Kinds
<1>3. StoreHolds' = StoreHolds
  BY <1>2, StoreHoldsKinds
<1> QED
  BY <1>1, <1>3 DEF StoreInv

\* The analysis of a statement: an id is fetched, or nothing is written.
LEMMA AnalysisStored ==
  ASSUME StoreInv, IncrbyKV, UNCHANGED store, UNCHANGED written,
         UNCHANGED allocVars \/ \E type \in IDType, name \in Names : AllocateID(type, name)
  PROVE  CountersBounded' /\ KVPairs' = StoreHolds'
<1>1. CASE UNCHANGED allocVars
  <2>1. counter' = counter
    BY <1>1 DEF allocVars
  <2>2. UNCHANGED kv
    BY <2>1 DEF IncrbyKV
  <2>3. KVPairs' = StoreHolds'
    BY <2>1, <2>2, NothingStored DEF store
  <2> QED
    BY <2>1, <2>3 DEF StoreInv, CountersBounded
<1>2. CASE \E type \in IDType, name \in Names : AllocateID(type, name)
  BY <1>2, CounterWritten
<1> QED
  BY <1>1, <1>2

\* A write leaves the ids alone, and no table loses its record.
WriteKeeps ==
  /\ UNCHANGED counter
  /\ written' \subseteq DOMAIN tblMeta'
  /\ \A p \in DOMAIN tblMeta' : p = <<p[1], p[2]>>
  /\ KVPairs' = StoreHolds'

LEMMA DatabaseWrites ==
  ASSUME StoreInv, UNCHANGED written,
         \/ DumpDatabaseMeta /\ PutKV(EncodeDatabaseID(job.info.id), DatabaseRecord(job.info))
         \/ /\ DumpDatabaseIdByName
            /\ PutKV(EncodeDatabaseName(NameBytes[job.info.name]), <<"dbName", EncodeDatabaseID(job.info.id)>>)
  PROVE  WriteKeeps
<1> DEFINE info == job.info
<1>1. CatalogInv /\ JobOK /\ issued["Database"] \subseteq Ids /\ DbNames \subseteq Names
  BY RecordsHaveIds, IdTypes DEF StoreInv, CatalogInv
<1>2. DatabaseJobOK /\ UNCHANGED <<counter, tblId, tblMeta>>
  BY <1>1, AtWrite DEF DumpDatabaseMeta, DumpDatabaseIdByName, At, Goto, Finish, allocVars
<1>3. info.id \in Ids /\ info.name \in Names
  BY <1>1, <1>2 DEF DatabaseJobOK, DatabaseInfo
<1>4. CASE DumpDatabaseMeta /\ PutKV(EncodeDatabaseID(info.id), DatabaseRecord(info))
  <2>1. dbMeta' = Put(dbMeta, info.id, info) /\ UNCHANGED dbId
    BY <1>4 DEF DumpDatabaseMeta
  <2> HIDE DEF info
  <2>2. KVPairs' = StoreHolds'
    BY <1>2, <1>3, <1>4, <2>1, DatabaseRecordWritten
  <2> QED
    BY <1>2, <2>2 DEF WriteKeeps, StoreInv
<1>5. CASE /\ DumpDatabaseIdByName
           /\ PutKV(EncodeDatabaseName(NameBytes[info.name]), <<"dbName", EncodeDatabaseID(info.id)>>)
  <2>1. dbId' = Put(dbId, info.name, info.id) /\ UNCHANGED dbMeta
    BY <1>5 DEF DumpDatabaseIdByName
  <2> HIDE DEF info
  <2>2. KVPairs' = StoreHolds'
    BY <1>2, <1>3, <1>5, <2>1, DatabaseNameWritten
  <2> QED
    BY <1>2, <2>2 DEF WriteKeeps, StoreInv
<1> QED
  BY <1>4, <1>5

LEMMA DatabaseModified ==
  ASSUME StoreInv, UNCHANGED written,
         \/ ModifyDatabaseMetaDel /\ kv' = Del(kv, EncodeDatabaseID(dbId[job.info.dbName]))
         \/ ModifyDatabaseMetaPut /\ PutKV(EncodeDatabaseID(job.info.db), DatabaseRecord(job.modified))
  PROVE  WriteKeeps
<1>1. CatalogInv /\ JobOK /\ RecordIds
  BY RecordsHaveIds DEF StoreInv, CatalogInv
<1>2. TableJobOK /\ UNCHANGED <<counter, dbId, tblId, tblMeta>>
  BY <1>1, AtWrite DEF ModifyDatabaseMetaDel, ModifyDatabaseMetaPut, At, Goto, Finish, allocVars
<1>3. job.info.dbName \in DOMAIN dbId /\ job.info.db = dbId[job.info.dbName] /\ job.info.db \in Ids
  BY <1>1, <1>2 DEF TableJobOK, RecordIds
<1>4. CASE ModifyDatabaseMetaDel /\ kv' = Del(kv, EncodeDatabaseID(dbId[job.info.dbName]))
  <2>1. PICK d \in Ids : d = dbId[job.info.dbName]
    BY <1>3
  <2>2. dbMeta' = Del(dbMeta, d) /\ kv' = Del(kv, EncodeDatabaseID(d))
    BY <1>4, <2>1 DEF ModifyDatabaseMetaDel
  <2>3. KVPairs' = StoreHolds'
    BY <1>2, <2>2, DatabaseRecordDeleted
  <2> QED
    BY <1>2, <2>3 DEF WriteKeeps, StoreInv
<1>5. CASE ModifyDatabaseMetaPut /\ PutKV(EncodeDatabaseID(job.info.db), DatabaseRecord(job.modified))
  <2>1. PICK d, mod : d = job.info.db /\ mod = job.modified /\ d \in Ids
    BY <1>3
  <2>2. dbMeta' = Put(dbMeta, d, mod) /\ PutKV(EncodeDatabaseID(d), DatabaseRecord(mod))
    BY <1>5, <2>1 DEF ModifyDatabaseMetaPut
  <2>3. KVPairs' = StoreHolds'
    BY <1>2, <2>1, <2>2, DatabaseRecordWritten
  <2> QED
    BY <1>2, <2>3 DEF WriteKeeps, StoreInv
<1> QED
  BY <1>4, <1>5

LEMMA TableWrites ==
  ASSUME StoreInv, UNCHANGED written,
         \/ DumpTableMeta /\ PutKV(EncodeTableID(job.info.db, job.info.id), TableRecord(job.info))
         \/ /\ DumpTableIdByName
            /\ PutKV(EncodeTableName(job.info.db, NameBytes[job.info.name]),
                     <<"tblName", EncodeTableID(job.info.db, job.info.id)>>)
  PROVE  WriteKeeps
<1>1. /\ CatalogInv /\ JobOK /\ RecordIds /\ issued["Table"] \subseteq Ids /\ TableNames \subseteq Names
  BY RecordsHaveIds, IdTypes DEF StoreInv, CatalogInv
<1>2. TableJobOK /\ UNCHANGED <<counter, dbId, dbMeta>>
  BY <1>1, AtWrite DEF DumpTableMeta, DumpTableIdByName, At, Goto, Finish, allocVars
<1>3. job.info.db \in Ids /\ job.info.id \in Ids /\ job.info.name \in Names
  BY <1>1, <1>2 DEF TableJobOK, RecordIds, TableInfo
<1>4. PICK d \in Ids, t \in Ids, n \in Names :
        d = job.info.db /\ t = job.info.id /\ n = job.info.name
  BY <1>3
<1> DEFINE info == job.info
<1> HIDE DEF info
<1>5. CASE DumpTableMeta /\ PutKV(EncodeTableID(job.info.db, job.info.id), TableRecord(job.info))
  <2>1. /\ tblMeta' = Put(tblMeta, <<d, t>>, info) /\ UNCHANGED tblId
        /\ PutKV(EncodeTableID(d, t), TableRecord(info))
    BY <1>4, <1>5 DEF DumpTableMeta, info
  <2>2. KVPairs' = StoreHolds'
    BY <1>2, <2>1, TableRecordWritten
  <2>3. DOMAIN tblMeta' = DOMAIN tblMeta \cup {<<d, t>>}
    BY <2>1 DEF Put
  <2> QED
    BY <1>2, <2>2, <2>3 DEF WriteKeeps, StoreInv
<1>6. CASE /\ DumpTableIdByName
           /\ PutKV(EncodeTableName(job.info.db, NameBytes[job.info.name]),
                    <<"tblName", EncodeTableID(job.info.db, job.info.id)>>)
  <2>1. /\ tblId' = Put(tblId, <<d, n>>, t) /\ UNCHANGED tblMeta
        /\ PutKV(EncodeTableName(d, NameBytes[n]), <<"tblName", EncodeTableID(d, t)>>)
    BY <1>4, <1>6 DEF DumpTableIdByName
  <2>2. KVPairs' = StoreHolds'
    BY <1>2, <2>1, TableNameWritten
  <2> QED
    BY <1>2, <2>1, <2>2 DEF WriteKeeps, StoreInv
<1> QED
  BY <1>5, <1>6

LEMMA TableDataWrites ==
  ASSUME StoreInv, WriteTable
  PROVE  WriteKeeps
<1>1. UNCHANGED <<counter, dbId, dbMeta, tblId, tblMeta>>
  BY DEF WriteTable, catalogVars
<1>2. PICK q \in DOMAIN tblMeta \ written :
        PutAllKV(TableKeys(q), <<"table", q>>) /\ written' = written \cup {q}
  BY DEF WriteTable
<1>3. KVPairs' = StoreHolds'
  BY <1>1, <1>2, TableWritten
<1> QED
  BY <1>1, <1>2, <1>3 DEF WriteKeeps, StoreInv

\* An empty store holds nothing.
LEMMA StoreInitInv == StoreInit => StoreInv
<1> SUFFICES ASSUME StoreInit PROVE StoreInv
  OBVIOUS
<1>1. CatalogInit /\ AllocInit /\ kv = <<>> /\ written = {}
  BY DEF StoreInit, CatalogInit
<1>2. CatalogInv
  BY <1>1, CatalogInitInv
<1>3. CountersBounded
  BY <1>1, AllocatorAssumption DEF AllocInit, CountersBounded
<1>4. DOMAIN dbId = {} /\ DOMAIN dbMeta = {} /\ DOMAIN tblId = {} /\ DOMAIN tblMeta = {} /\ DOMAIN kv = {}
  BY <1>1 DEF CatalogInit
<1>5. KVPairs = {}
  BY <1>4 DEF KVPairs
<1>6. \A j \in Kinds : Holds(j) = {}
  <2>1. Holds("counter") = {}
    <3>1. \A t \in IDType, b \in Buckets : counter[t][b] = 0
      BY <1>1 DEF AllocInit
    <3> QED
      BY <3>1, CountersHeld
  <2>2. /\ Holds("dbMeta") = {} /\ Holds("dbName") = {} /\ Holds("tblMeta") = {}
        /\ Holds("tblName") = {} /\ Holds("table") = {}
    BY <1>1, <1>4 DEF Holds
  <2> QED
    BY <2>1, <2>2 DEF Kinds
<1>7. StoreHolds = {}
  BY <1>6, StoreHoldsKinds
<1> QED
  BY <1>1, <1>2, <1>3, <1>4, <1>5, <1>7 DEF StoreInv

\* Every step keeps the invariant; without the store it is a step of the catalog.
LEMMA StoreNextStep ==
  ASSUME StoreInv, [StoreNext]_storeVars
  PROVE  StoreInv'
<1>1. [CatalogNext]_catalogVars
  BY DEF StoreNext, CatalogNext, storeVars, WriteTable
<1>2. CatalogInv'
  BY <1>1, CatalogNextStep DEF StoreInv
<1>3. ASSUME WriteKeeps PROVE StoreInv'
  BY <1>2, <1>3 DEF WriteKeeps, StoreInv, CountersBounded
<1>4. CASE /\ \/ \E name \in DbNames, ine \in BOOLEAN : CreateDatabase(name, ine)
              \/ \E db \in DbNames, name \in TableNames, ine \in BOOLEAN : CreateTable(db, name, ine)
           /\ IncrbyKV
           /\ UNCHANGED written
  <2>1. UNCHANGED store
    BY <1>4 DEF CreateDatabase, CreateTable
  <2>2. UNCHANGED allocVars \/ \E type \in IDType, name \in Names : AllocateID(type, name)
    <3>1. ASSUME NEW name \in DbNames, NEW ine \in BOOLEAN, CreateDatabase(name, ine)
          PROVE  UNCHANGED allocVars \/ AllocateID("Database", name)
      BY <3>1 DEF CreateDatabase, Reject
    <3>2. ASSUME NEW db \in DbNames, NEW name \in TableNames, NEW ine \in BOOLEAN, CreateTable(db, name, ine)
          PROVE  UNCHANGED allocVars \/ AllocateID("Table", name)
      BY <3>2 DEF CreateTable, Reject
    <3> QED
      BY <1>4, <3>1, <3>2, IdTypes
  <2>3. CountersBounded' /\ KVPairs' = StoreHolds'
    BY <1>4, <2>1, <2>2, AnalysisStored
  <2> QED
    BY <1>2, <1>4, <2>1, <2>3 DEF StoreInv, store
<1>5. CASE /\ DumpDatabaseMeta
           /\ PutKV(EncodeDatabaseID(job.info.id), DatabaseRecord(job.info))
           /\ UNCHANGED written
  BY <1>3, <1>5, DatabaseWrites
<1>6. CASE /\ DumpDatabaseIdByName
           /\ PutKV(EncodeDatabaseName(NameBytes[job.info.name]), <<"dbName", EncodeDatabaseID(job.info.id)>>)
           /\ UNCHANGED written
  BY <1>3, <1>6, DatabaseWrites
<1>7. CASE /\ ModifyDatabaseMetaDel
           /\ kv' = Del(kv, EncodeDatabaseID(dbId[job.info.dbName]))
           /\ UNCHANGED written
  BY <1>3, <1>7, DatabaseModified
<1>8. CASE /\ ModifyDatabaseMetaPut
           /\ PutKV(EncodeDatabaseID(job.info.db), DatabaseRecord(job.modified))
           /\ UNCHANGED written
  BY <1>3, <1>8, DatabaseModified
<1>9. CASE /\ DumpTableMeta
           /\ PutKV(EncodeTableID(job.info.db, job.info.id), TableRecord(job.info))
           /\ UNCHANGED written
  BY <1>3, <1>9, TableWrites
<1>10. CASE /\ DumpTableIdByName
            /\ PutKV(EncodeTableName(job.info.db, NameBytes[job.info.name]),
                     <<"tblName", EncodeTableID(job.info.db, job.info.id)>>)
            /\ UNCHANGED written
  BY <1>3, <1>10, TableWrites
<1>11. CASE (Interrupt /\ UNCHANGED <<kv, written>>) \/ UNCHANGED storeVars
  <2>1. UNCHANGED <<kv, counter, dbId, dbMeta, tblId, tblMeta, written>>
    BY <1>11 DEF Interrupt, Finish, storeVars, catalogVars, allocVars, store
  <2>2. KVPairs' = StoreHolds'
    BY <2>1, NothingStored
  <2> QED
    BY <1>2, <2>1, <2>2 DEF StoreInv, CountersBounded
<1>12. CASE WriteTable
  BY <1>3, <1>12, TableDataWrites
<1> QED
  BY <1>4, <1>5, <1>6, <1>7, <1>8, <1>9, <1>10, <1>11, <1>12 DEF StoreNext

\* A key that the store should hold with a value has it.
LEMMA HeldIsStored ==
  ASSUME StoreInv, NEW k, NEW v, <<k, v>> \in StoreHolds
  PROVE  kv[k] = v
<1>1. PICK x \in DOMAIN kv : <<x, kv[x]>> = <<k, v>>
  BY DEF StoreInv, KVPairs
<1> QED
  BY <1>1

\* Counters, names, descriptions, rows, nodes and statistics share one LevelDB
\* and never meet, whatever statements run and wherever they are interrupted, for
\* any names, ids and number of tables that uint64_t and uint32_t have room for.
THEOREM OneStoreSuffices == StoreSpec => []OneStoreIsEnough
<1>1. StoreInit => StoreInv
  BY StoreInitInv
<1>2. StoreInv /\ [StoreNext]_storeVars => StoreInv'
  BY StoreNextStep
<1>3. ASSUME StoreInv PROVE OneStoreIsEnough
  <2>1. RecordIds
    BY <1>3, RecordsHaveIds DEF StoreInv
  <2>2. ASSUME NEW n \in DOMAIN dbId PROVE LoadedDatabaseId(n) = dbId[n]
    <3>1. <<EncodeDatabaseName(NameBytes[n]), <<"dbName", EncodeDatabaseID(dbId[n])>>>> \in StoreHolds
      BY DEF StoreHolds
    <3>2. kv[EncodeDatabaseName(NameBytes[n])] = <<"dbName", EncodeDatabaseID(dbId[n])>>
      BY <1>3, <3>1, HeldIsStored
    <3>3. PICK d \in Ids : d = dbId[n]
      BY <2>1 DEF RecordIds
    <3>4. d \in Word
      BY IdsAreWords
    <3>5. DecodeDatabaseID(EncodeDatabaseID(d)) = d
      BY <3>4, IdsComeBack
    <3> QED
      BY <3>2, <3>3, <3>5 DEF LoadedDatabaseId
  <2>3. ASSUME NEW p \in DOMAIN tblId
        PROVE  LoadedTableId(p[1], p[2]) = [db |-> p[1], table |-> tblId[p]]
    <3>1. <<EncodeTableName(p[1], NameBytes[p[2]]), <<"tblName", EncodeTableID(p[1], tblId[p])>>>> \in StoreHolds
      BY DEF StoreHolds
    <3>2. kv[EncodeTableName(p[1], NameBytes[p[2]])] = <<"tblName", EncodeTableID(p[1], tblId[p])>>
      BY <1>3, <3>1, HeldIsStored
    <3>3. PICK d \in Ids, t \in Ids : d = p[1] /\ t = tblId[p]
      BY <2>1 DEF RecordIds
    <3>4. d \in Word /\ t \in Word
      BY IdsAreWords
    <3>5. DecodeTableID(EncodeTableID(d, t)) = [db |-> d, table |-> t]
      BY <3>4, IdsComeBack
    <3> QED
      BY <3>2, <3>3, <3>5 DEF LoadedTableId
  <2> QED
    BY <1>3, <2>2, <2>3 DEF OneStoreIsEnough, StoreInv, KVPairs
<1> QED
  BY <1>1, <1>2, <1>3, PTL DEF StoreSpec

=============================================================================
