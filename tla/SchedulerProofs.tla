-------------------------- MODULE SchedulerProofs --------------------------
(***************************************************************************)
(* Proofs about BptIterator and Scheduler.                                 *)
(*                                                                         *)
(* The scan: whatever the stored leaves, the ranges and the page size, an  *)
(* assertion of the iterator fails only where a range begins in the gap a  *)
(* crash left at the end of a leaf, and the pages of a scan over half-open *)
(* ranges are exactly the stored keys of its ranges.                       *)
(*                                                                         *)
(* The statement that scans: for every stored tree, every set of row       *)
(* records and every page size, it reads no port before it is set and a    *)
(* SELECT prints its page or nothing.                                      *)
(***************************************************************************)
EXTENDS Scheduler, BptreeProofs

-----------------------------------------------------------------------------
(* The inductive invariant of a scan *)

\* The record of the root names the leaves in order, their ranges apart, and the
\* record of a leaf, if there is one, has keys within the leaf's range.
StoreShape ==
  /\ disk.root \in Seq(Refs)
  /\ \A i \in 1 .. Len(disk.root) :
       /\ disk.root[i].id = i
       /\ disk.root[i].min \in Keys /\ disk.root[i].max \in Keys
       /\ disk.root[i].min <= disk.root[i].max
  /\ \A i, j \in 1 .. Len(disk.root) : i < j => disk.root[i].max < disk.root[j].min
  /\ DOMAIN disk.leaf \subseteq 1 .. Len(disk.root)
  /\ \A i \in DOMAIN disk.leaf :
       /\ disk.leaf[i] \in KVs
       /\ DOMAIN disk.leaf[i] # {}
       /\ \A k \in DOMAIN disk.leaf[i] : disk.root[i].min <= k /\ k <= disk.root[i].max

Loaded(i) == i \in DOMAIN disk.leaf /\ tree.children[i].kvs = disk.leaf[i]

\* The leaf objects are those the root names, each empty or loaded.
TreeShape ==
  /\ tree \in TreeType
  /\ Len(tree.children) = Len(disk.root)
  /\ \A i \in 1 .. Len(disk.root) :
       /\ tree.children[i].id = i
       /\ tree.children[i].min = disk.root[i].min
       /\ tree.children[i].max = disk.root[i].max
       /\ tree.children[i].written = {}
       /\ DOMAIN tree.children[i].kvs = {} \/ Loaded(i)

\* A key is not below the range.
AboveLower(k, r) == IF r.lowerOpen THEN k > r.lower ELSE k >= r.lower

\* The range at j begins above all keys of the record of the leaf at i, but not
\* above the leaf: the record has lost the keys the leaf ends with.
GapAt(j, i) ==
  /\ \A k \in DOMAIN disk.leaf[i] : ~AboveLower(k, ranges[j])
  /\ AboveLower(disk.root[i].max, ranges[j])

\* Where the iterator is while the scan goes on: at an item of a loaded leaf, in a
\* gap after its items, at the end of a leaf, or past the last leaf of the range.
Positioned ==
  LET r == ranges[rangeIdx]
  IN  /\ rangeIdx > 0
      /\ it.nodeEnd => it.kvEnd
      /\ ~it.nodeEnd => it.leaf \in 1 .. Len(tree.children)
      /\ ~it.kvEnd => /\ ~it.nodeEnd /\ Loaded(it.leaf)
                      /\ IF it.cur = NoKey THEN GapAt(rangeIdx, it.leaf)
                         ELSE it.cur \in DOMAIN disk.leaf[it.leaf] /\ AboveLower(it.cur, r)
      /\ it.kvEnd /\ ~it.nodeEnd => AboveLower(tree.children[it.leaf].max, r)

NotOpened == rangeIdx = 0 /\ it = NoIt /\ ~busy

IterInv ==
  /\ StoreShape
  /\ TreeShape
  /\ ret = [op |-> "Open", key |-> NoKey, st |-> C_OK]
  /\ ranges \in Seq(IndexRange)
  /\ rangeIdx \in 0 .. Len(ranges)
  /\ it \in [leaf : 0 .. Len(tree.children), cur : Keys \cup {NoKey},
             kvEnd : BOOLEAN, nodeEnd : BOOLEAN]
  /\ code \in {C_OK, C_BPTREE_ITERATOR_END, C_STORAGE_KV_NOT_FOUND, Aborted}
  /\ code = C_OK => NotOpened \/ Positioned
  /\ code = Aborted => Positioned /\ ~it.kvEnd /\ it.cur = NoKey
  /\ page \in Seq(Keys) /\ Len(page) <= PageSize
  /\ busy \in BOOLEAN
  /\ got \in Seq(Keys)

\* The iterator has passed the stored key k.
Passed(k) ==
  IF it.nodeEnd THEN TRUE
  ELSE IF it.kvEnd THEN k <= tree.children[it.leaf].max
  ELSE k < it.cur

DoneKeys == {k \in StoredKeys : InRange(k, ranges[rangeIdx]) /\ Passed(k)}

\* Every range is open at exactly one end, as reachRangeBound takes it to be.
HalfOpenRanges == \A j \in 1 .. Len(ranges) : ranges[j].lowerOpen <=> ~ranges[j].upperOpen

\* What has been returned: the ranges before the current one, and of the current
\* one the keys passed.
ScanInv ==
  /\ code = C_OK /\ rangeIdx = 0 => got = <<>>
  /\ code = C_OK /\ rangeIdx > 0 => got = ExpectedUpTo(rangeIdx - 1) \o Ascending(DoneKeys)
  /\ code = C_BPTREE_ITERATOR_END =>
       rangeIdx = Len(ranges) /\ got = ExpectedUpTo(Len(ranges))
  /\ code \in {C_STORAGE_KV_NOT_FOUND, Aborted} =>
       rangeIdx > 0 /\ got = ExpectedUpTo(rangeIdx - 1)

-----------------------------------------------------------------------------
(* Ranks *)

\* A set of natural numbers that is not empty has a least one.
LEMMA LeastNumber ==
  ASSUME NEW T \in SUBSET Nat, T # {}
  PROVE  \E m \in T : \A k \in T : m <= k
<1> DEFINE R == OpToRel(<, Nat)
<1>1. IsWellFoundedOn(R, Nat)
  BY NatLessThanWellFounded
<1> HIDE DEF R
<1>2. PICK m \in T : \A k \in T : ~(<<k, m>> \in R)
  BY <1>1, WFMin, Zenon
<1>3. ASSUME NEW k \in T PROVE m <= k
  <2>1. k \in Nat /\ m \in Nat
    OBVIOUS
  <2>2. k < m => <<k, m>> \in R
    BY <2>1 DEF R, OpToRel
  <2> QED
    BY <1>2, <2>1, <2>2
<1> QED
  BY <1>3

\* How many keys of S are not above k.
Rank(S, k) == Cardinality({c \in S : c <= k})

\* Keys are numbers.
LEMMA KeysAreNumbers ==
  Keys \subseteq Nat \ {0} /\ MaxKey \in Nat /\ NoKey \in Nat /\ NoKey \notin Keys
BY NodeAssumption DEF Keys, NoKey

\* The rank grows with the key, and does so at every key of the set.
LEMMA RankGrows ==
  ASSUME NEW S \in SUBSET Keys, NEW j \in Nat, NEW k \in Nat
  PROVE  /\ Rank(S, j) \in Nat /\ Rank(S, j) <= Cardinality(S)
         /\ j <= k => Rank(S, j) <= Rank(S, k)
         /\ j < k /\ k \in S => Rank(S, j) < Rank(S, k)
<1> DEFINE A == {c \in S : c <= j}
           B == {c \in S : c <= k}
<1>1. A \in SUBSET S /\ B \in SUBSET S /\ \A c \in S : c \in Nat
  BY KeysAreNumbers
<1>2. j <= k => A \in SUBSET B
  BY <1>1
<1>3. j < k /\ k \in S => A \in SUBSET B /\ A # B
  <2> SUFFICES ASSUME j < k, k \in S PROVE A \in SUBSET B /\ A # B
    OBVIOUS
  <2>1. k \in B /\ k \notin A
    OBVIOUS
  <2> QED
    BY <1>2, <2>1
<1>4. Rank(S, j) = Cardinality(A) /\ Rank(S, k) = Cardinality(B)
  BY DEF Rank
<1>5. /\ IsFiniteSet(S) /\ IsFiniteSet(B)
      /\ Cardinality(A) \in Nat /\ Cardinality(B) \in Nat
  <2>1. A \in SUBSET Keys /\ B \in SUBSET Keys
    BY <1>1
  <2> HIDE DEF A, B
  <2> QED
    BY <2>1, KeysFinite
<1> HIDE DEF A, B
<1>6. Cardinality(A) <= Cardinality(S)
  BY <1>1, <1>5, FS_Subset
<1>7. A \in SUBSET B => Cardinality(A) <= Cardinality(B) /\ (A # B => Cardinality(A) # Cardinality(B))
  BY <1>5, FS_Subset
<1> QED
  BY <1>2, <1>3, <1>4, <1>5, <1>6, <1>7

\* Every number up to the size of the set is the rank of one of its keys.
LEMMA RankExists ==
  ASSUME NEW S \in SUBSET Keys, NEW i \in 1 .. Cardinality(S)
  PROVE  \E k \in S : Rank(S, k) = i
<1> DEFINE T == {k \in 0 .. MaxKey : Rank(S, k) >= i}
<1>1. MaxKey \in Nat /\ (\A k \in S : k \in Nat /\ k \in 1 .. MaxKey) /\ Cardinality(S) \in Nat
  BY KeysAreNumbers, KeysFinite DEF Keys
<1>2. i \in Nat /\ i >= 1
  BY <1>1
<1>3. MaxKey \in T
  <2>1. {c \in S : c <= MaxKey} = S
    BY <1>1
  <2>2. Rank(S, MaxKey) = Cardinality(S)
    BY <2>1 DEF Rank
  <2> QED
    BY <1>1, <2>2
<1>4. PICK m \in T : \A k \in T : m <= k
  <2>1. T \in SUBSET Nat /\ T # {}
    BY <1>1, <1>3
  <2> HIDE DEF T
  <2> QED
    BY <2>1, LeastNumber
<1>5. m \in 0 .. MaxKey /\ Rank(S, m) >= i
  BY <1>4
<1>6. m # 0
  <2>1. {c \in S : c <= 0} = {}
    BY <1>1
  <2>2. Rank(S, 0) = 0
    BY <2>1, FS_EmptySet DEF Rank
  <2> QED
    BY <1>2, <1>5, <2>2
<1>7. m - 1 \in 0 .. MaxKey /\ m - 1 \in Nat /\ m \in Nat
  BY <1>1, <1>5, <1>6
<1>8. Rank(S, m - 1) < i /\ Rank(S, m - 1) \in Nat /\ Rank(S, m) \in Nat
  <2>1. m - 1 \notin T
    BY <1>4, <1>7
  <2>2. Rank(S, m - 1) \in Nat /\ Rank(S, m) \in Nat
    BY <1>7, RankGrows
  <2> QED
    BY <1>2, <1>7, <2>1, <2>2
<1> DEFINE A == {c \in S : c <= m - 1}
           B == {c \in S : c <= m}
<1>9. A \in SUBSET Keys /\ IsFiniteSet(A)
  <2>1. A \in SUBSET Keys
    OBVIOUS
  <2> HIDE DEF A
  <2> QED
    BY <2>1, KeysFinite
<1>10. Rank(S, m - 1) = Cardinality(A) /\ Rank(S, m) = Cardinality(B)
  BY DEF Rank
<1>11. m \in S /\ B = A \cup {m}
  <2>1. m \notin S => B = A
    BY <1>1, <1>7
  <2>2. m \in S
    BY <1>5, <1>8, <1>10, <2>1
  <2>3. \A c \in S : c <= m <=> c <= m - 1 \/ c = m
    BY <1>1, <1>7
  <2>4. B = A \cup {m}
    BY <2>2, <2>3
  <2> QED
    BY <2>2, <2>4
<1> HIDE DEF A, B
<1>12. Cardinality(B) <= Cardinality(A) + 1
  <2>1. Cardinality(A \cup {m}) = IF m \in A THEN Cardinality(A) ELSE Cardinality(A) + 1
    BY <1>9, FS_AddElement
  <2> QED
    BY <1>8, <1>10, <1>11, <2>1
<1>13. Rank(S, m) = i
  BY <1>2, <1>5, <1>8, <1>10, <1>12
<1> QED
  BY <1>11, <1>13

-----------------------------------------------------------------------------
(* Keys in order *)

\* s lists the keys of S in their order.
Lists(s, S) ==
  /\ s \in [1 .. Cardinality(S) -> S]
  /\ Range(s) = S
  /\ \A i, j \in DOMAIN s : i < j => s[i] < s[j]

\* There is such a list: at i the key of rank i.
LEMMA ListExists ==
  ASSUME NEW S \in SUBSET Keys
  PROVE  \E s : Lists(s, S)
<1> DEFINE n == Cardinality(S)
           s == [i \in 1 .. n |-> CHOOSE k \in S : Rank(S, k) = i]
<1>1. n \in Nat /\ \A k \in S : k \in Nat
  BY KeysFinite, KeysAreNumbers
<1>2. \A i \in 1 .. n : s[i] \in S /\ Rank(S, s[i]) = i
  BY RankExists
<1>3. \A j, k \in S : j < k => Rank(S, j) < Rank(S, k)
  BY <1>1, RankGrows
<1>4. \A k \in S : Rank(S, k) \in 1 .. n
  <2> SUFFICES ASSUME NEW k \in S PROVE Rank(S, k) \in 1 .. n
    OBVIOUS
  <2>1. Rank(S, k) \in Nat /\ Rank(S, k) <= n
    BY <1>1, RankGrows
  <2>2. Rank(S, 0) < Rank(S, k) /\ Rank(S, 0) \in Nat
    BY <1>1, KeysAreNumbers, RankGrows
  <2> QED
    BY <1>1, <2>1, <2>2
<1>5. s \in [1 .. n -> S] /\ DOMAIN s = 1 .. n
  BY <1>2
<1> HIDE DEF s
<1>6. ASSUME NEW i \in 1 .. n, NEW j \in 1 .. n, i < j PROVE s[i] < s[j]
  <2>1. s[i] \in S /\ s[j] \in S /\ Rank(S, s[i]) < Rank(S, s[j])
    BY <1>2, <1>6
  <2> QED
    BY <1>1, <1>2, <1>3, <1>6, <2>1
<1>7. ASSUME NEW k \in S PROVE \E i \in 1 .. n : s[i] = k
  <2>1. PICK i \in 1 .. n : i = Rank(S, k)
    BY <1>4
  <2>2. s[i] \in S /\ Rank(S, s[i]) = Rank(S, k)
    BY <1>2, <2>1
  <2>3. s[i] = k
    BY <1>1, <1>3, <1>4, <2>2
  <2> QED
    BY <2>3
<1>8. Range(s) = S
  BY <1>5, <1>7 DEF Range
<1> QED
  BY <1>5, <1>6, <1>8 DEF Lists

\* There is only one.
LEMMA ListUnique ==
  ASSUME NEW S \in SUBSET Keys, NEW s, Lists(s, S), NEW t, Lists(t, S)
  PROVE  s = t
<1> DEFINE n == Cardinality(S)
           T == {i \in 1 .. n : s[i] # t[i]}
<1>1. n \in Nat /\ \A k \in S : k \in Nat
  BY KeysFinite, KeysAreNumbers
<1>2. /\ s \in [1 .. n -> S] /\ t \in [1 .. n -> S]
      /\ \A k \in S : (\E i \in 1 .. n : s[i] = k) /\ (\E i \in 1 .. n : t[i] = k)
      /\ \A i, j \in 1 .. n : i < j => s[i] < s[j] /\ t[i] < t[j]
  BY DEF Lists, Range
<1> HIDE DEF n
<1>3. T = {}
  <2> SUFFICES ASSUME T # {} PROVE FALSE
    OBVIOUS
  <2>1. T \in SUBSET Nat
    BY <1>1
  <2>2. PICK m \in T : \A k \in T : m <= k
    BY <2>1, LeastNumber
  <2>3. m \in 1 .. n /\ s[m] \in S /\ t[m] \in S /\ s[m] # t[m]
    BY <1>2, <2>2
  <2>4. \A j \in 1 .. n : j < m => s[j] = t[j]
    BY <1>1, <2>2, <2>3
  <2>5. PICK a \in 1 .. n, b \in 1 .. n : t[a] = s[m] /\ s[b] = t[m]
    BY <1>2, <2>3
  <2>6. CASE s[m] < t[m]
    <3>1. a < m
      <4>1. t[a] < t[m] /\ t[m] \in Nat /\ t[a] \in Nat
        BY <1>1, <2>3, <2>5, <2>6
      <4>2. ~(m < a) /\ a # m
        BY <1>2, <2>3, <4>1
      <4> QED
        BY <1>1, <2>3, <4>2
    <3> QED
      BY <1>1, <1>2, <2>3, <2>4, <2>5, <3>1
  <2>7. CASE t[m] < s[m]
    <3>1. b < m
      <4>1. s[b] < s[m] /\ s[m] \in Nat /\ s[b] \in Nat
        BY <1>1, <2>3, <2>5, <2>7
      <4>2. ~(m < b) /\ b # m
        BY <1>2, <2>3, <4>1
      <4> QED
        BY <1>1, <2>3, <4>2
    <3> QED
      BY <1>1, <1>2, <2>3, <2>4, <2>5, <3>1
  <2> QED
    BY <1>1, <2>3, <2>6, <2>7
<1>4. \A i \in 1 .. n : s[i] = t[i]
  BY <1>3
<1>5. s = [i \in 1 .. n |-> s[i]] /\ t = [i \in 1 .. n |-> t[i]]
  BY <1>2
<1> QED
  BY <1>4, <1>5

\* Ascending is that list.
LEMMA AscendingLists ==
  ASSUME NEW S \in SUBSET Keys
  PROVE  Lists(Ascending(S), S)
<1>1. PICK s : Lists(s, S)
  BY ListExists
<1> DEFINE Good(u) == Range(u) = S /\ \A i, j \in DOMAIN u : i < j => u[i] < u[j]
<1>2. Ascending(S) = CHOOSE u \in [1 .. Cardinality(S) -> S] : Good(u)
  BY DEF Ascending
<1>3. s \in [1 .. Cardinality(S) -> S] /\ Good(s)
  BY <1>1 DEF Lists
<1> HIDE DEF Good
<1>4. Ascending(S) \in [1 .. Cardinality(S) -> S] /\ Good(Ascending(S))
  BY <1>2, <1>3
<1> QED
  BY <1>4 DEF Good, Lists

\* Ascending gives a sequence of keys.
LEMMA AscendingType ==
  ASSUME NEW S \in SUBSET Keys
  PROVE  Ascending(S) \in Seq(Keys) /\ Len(Ascending(S)) = Cardinality(S)
<1>1. Ascending(S) \in [1 .. Cardinality(S) -> S] /\ Cardinality(S) \in Nat
  BY AscendingLists, KeysFinite DEF Lists
<1> QED
  BY <1>1

\* No key, no list.
LEMMA AscendingEmpty == Ascending({}) = <<>>
<1>1. Ascending({}) \in Seq(Keys) /\ Len(Ascending({})) = 0
  BY AscendingType, FS_EmptySet
<1> QED
  BY <1>1

\* The list of a set whose upper part is U begins with that of the rest.
LEMMA AscendingSplit ==
  ASSUME NEW S \in SUBSET Keys, NEW U \in SUBSET Keys, \A j \in S, k \in U : j < k
  PROVE  Ascending(S \cup U) = Ascending(S) \o Ascending(U)
<1> DEFINE a == Ascending(S)
           b == Ascending(U)
           m == Cardinality(S)
           n == Cardinality(U)
           c == a \o b
<1>1. m \in Nat /\ n \in Nat /\ IsFiniteSet(S) /\ IsFiniteSet(U)
  BY KeysFinite
<1>2. S \cap U = {} /\ S \cup U \in SUBSET Keys
  BY KeysAreNumbers
<1>3. Cardinality(S \cup U) = m + n
  BY <1>1, <1>2, FS_Union, FS_EmptySet
<1>4. a \in Seq(Keys) /\ b \in Seq(Keys) /\ Len(a) = m /\ Len(b) = n
  BY AscendingType
<1>5. Lists(a, S) /\ Lists(b, U)
  BY AscendingLists
<1>6. /\ a \in [1 .. m -> S] /\ b \in [1 .. n -> U]
      /\ \A k \in S : \E i \in 1 .. m : a[i] = k
      /\ \A k \in U : \E i \in 1 .. n : b[i] = k
      /\ \A i, j \in 1 .. m : i < j => a[i] < a[j]
      /\ \A i, j \in 1 .. n : i < j => b[i] < b[j]
  BY <1>5 DEF Lists, Range
<1> HIDE DEF a, b, m, n
<1>7. /\ c \in Seq(Keys) /\ Len(c) = m + n /\ DOMAIN c = 1 .. m + n
      /\ \A i \in 1 .. m + n : c[i] = IF i <= m THEN a[i] ELSE b[i - m]
  BY <1>1, <1>4
<1> HIDE DEF c
<1>8. \A i \in 1 .. m + n : IF i <= m THEN i \in 1 .. m ELSE i - m \in 1 .. n
  BY <1>1
<1>9. c \in [1 .. m + n -> S \cup U]
  <2>1. \A i \in 1 .. m + n : c[i] \in S \cup U
    BY <1>6, <1>7, <1>8
  <2> QED
    BY <1>7, <2>1
<1>10. ASSUME NEW i \in 1 .. m + n, NEW j \in 1 .. m + n, i < j PROVE c[i] < c[j]
  <2>1. CASE j <= m
    BY <1>1, <1>6, <1>7, <1>8, <1>10, <2>1
  <2>2. CASE i <= m /\ m < j
    BY <1>1, <1>6, <1>7, <1>8, <2>2
  <2>3. CASE m < i
    <3>1. i - m \in 1 .. n /\ j - m \in 1 .. n /\ i - m < j - m
      BY <1>1, <1>10, <2>3
    <3>2. c[i] = b[i - m] /\ c[j] = b[j - m]
      BY <1>1, <1>7, <1>10, <2>3
    <3> QED
      BY <1>6, <3>1, <3>2
  <2> QED
    BY <1>1, <1>10, <2>1, <2>2, <2>3
<1>11. ASSUME NEW k \in S \cup U PROVE \E i \in 1 .. m + n : c[i] = k
  <2>1. CASE k \in S
    <3>1. PICK i \in 1 .. m : a[i] = k
      BY <1>6, <2>1
    <3>2. i \in 1 .. m + n /\ c[i] = a[i]
      BY <1>1, <1>7, <3>1
    <3> QED
      BY <3>1, <3>2
  <2>2. CASE k \in U
    <3>1. PICK i \in 1 .. n : b[i] = k
      BY <1>6, <2>2
    <3>2. m + i \in 1 .. m + n /\ c[m + i] = b[m + i - m] /\ m + i - m = i
      BY <1>1, <1>7, <3>1
    <3>3. c[m + i] = k
      BY <3>1, <3>2
    <3> QED
      BY <3>2, <3>3
  <2> QED
    BY <2>1, <2>2
<1>12. Range(c) = S \cup U
  BY <1>7, <1>9, <1>11 DEF Range
<1>13. Lists(c, S \cup U)
  BY <1>3, <1>7, <1>9, <1>10, <1>12 DEF Lists
<1>14. Ascending(S \cup U) = c
  BY <1>2, <1>13, AscendingLists, ListUnique
<1> QED
  BY <1>14 DEF a, b, c

\* One more key, above the others, comes last.
LEMMA AscendingAppend ==
  ASSUME NEW S \in SUBSET Keys, NEW k \in Keys, \A j \in S : j < k
  PROVE  Ascending(S \cup {k}) = Append(Ascending(S), k)
<1>1. Ascending(S \cup {k}) = Ascending(S) \o Ascending({k})
  BY AscendingSplit
<1>2. Ascending({k}) = <<k>>
  <2>1. {k} \in SUBSET Keys /\ Cardinality({k}) = 1
    BY FS_Singleton
  <2>2. Lists(Ascending({k}), {k})
    BY <2>1, AscendingLists
  <2>3. Ascending({k}) \in [1 .. 1 -> {k}]
    BY <2>1, <2>2 DEF Lists
  <2> QED
    BY <2>3
<1>3. Ascending(S) \in Seq(Keys)
  BY AscendingType
<1> QED
  BY <1>1, <1>2, <1>3, AppendIsConcat

-----------------------------------------------------------------------------
(* What a scan has to return *)

\* f gives what the first ranges, up to n of them, hold.
IsUpTo(f, n) ==
  f = [j \in 0 .. n |-> IF j = 0 THEN <<>> ELSE f[j - 1] \o Expected(ranges[j])]

\* There is such a function for any number of ranges.
LEMMA UpToExists ==
  ASSUME NEW L \in Nat
  PROVE  \E f : IsUpTo(f, L)
<1> DEFINE T == {n \in Nat : ~ \E f : IsUpTo(f, n)}
<1>1. T = {}
  <2> SUFFICES ASSUME T # {} PROVE FALSE
    OBVIOUS
  <2>1. PICK m \in T : \A k \in T : m <= k
    BY LeastNumber
  <2>2. m \in Nat /\ ~ \E f : IsUpTo(f, m)
    BY <2>1
  <2>3. m # 0
    <3> DEFINE f == [j \in 0 .. 0 |-> <<>>]
               E(j) == IF j = 0 THEN <<>> ELSE f[j - 1] \o Expected(ranges[j])
    <3>1. \A j \in 0 .. 0 : E(j) = <<>>
      OBVIOUS
    <3>2. f = [j \in 0 .. 0 |-> E(j)]
      <4> HIDE DEF E
      <4> QED
        BY <3>1
    <3>3. IsUpTo(f, 0)
      <4> HIDE DEF f
      <4> QED
        BY <3>2, Zenon DEF IsUpTo
    <3> QED
      BY <2>2, <3>3
  <2>4. m - 1 \in Nat /\ ~(m <= m - 1)
    BY <2>2, <2>3
  <2>5. PICK f : IsUpTo(f, m - 1)
    BY <2>1, <2>4
  <2> DEFINE E(j, h) == IF j = 0 THEN <<>> ELSE h[j - 1] \o Expected(ranges[j])
             g == [j \in 0 .. m |-> E(j, f)]
  <2>6. \A j \in 0 .. m - 1 : f[j] = E(j, f)
    BY <2>5 DEF IsUpTo
  <2>7. \A j \in 0 .. m - 1 : g[j] = f[j]
    <3> HIDE DEF E
    <3> QED
      BY <2>2, <2>6
  <2>8. ASSUME NEW j \in 0 .. m PROVE E(j, f) = E(j, g)
    <3>1. CASE j = 0
      BY <3>1
    <3>2. CASE j # 0
      <4>1. j - 1 \in 0 .. m - 1
        BY <2>2, <3>2
      <4>2. f[j - 1] = g[j - 1]
        BY <2>7, <4>1
      <4> HIDE DEF g
      <4> QED
        BY <3>2, <4>2, Zenon
    <3> QED
      BY <3>1, <3>2
  <2>9. g = [j \in 0 .. m |-> E(j, g)]
    <3>1. g = [j \in 0 .. m |-> E(j, f)]
      OBVIOUS
    <3> HIDE DEF g, E
    <3> QED
      BY <2>8, <3>1
  <2>10. IsUpTo(g, m)
    <3> HIDE DEF g
    <3> QED
      BY <2>9, Zenon DEF IsUpTo
  <2> QED
    BY <2>2, <2>10
<1> QED
  BY <1>1

\* The stored keys are keys.
LEMMA StoredAreKeys ==
  ASSUME StoreShape
  PROVE  StoredKeys \in SUBSET Keys
<1>1. \A id \in DOMAIN disk.leaf : DOMAIN disk.leaf[id] \subseteq Keys
  BY KVsElim DEF StoreShape
<1> QED
  BY <1>1 DEF StoredKeys

\* What one range holds is a sequence of keys.
LEMMA ExpectedType ==
  ASSUME StoreShape, NEW r
  PROVE  Expected(r) \in Seq(Keys)
<1> DEFINE S == {k \in StoredKeys : InRange(k, r)}
<1>1. S \in SUBSET Keys
  BY StoredAreKeys
<1>2. Expected(r) = Ascending(S)
  BY DEF Expected
<1> HIDE DEF S
<1> QED
  BY <1>1, <1>2, AscendingType

\* The ranges one after the other.
LEMMA UpToFacts ==
  ASSUME StoreShape, ranges \in Seq(IndexRange)
  PROVE  /\ ExpectedUpTo(0) = <<>>
         /\ \A j \in 1 .. Len(ranges) :
              ExpectedUpTo(j) = ExpectedUpTo(j - 1) \o Expected(ranges[j])
         /\ \A j \in 0 .. Len(ranges) : ExpectedUpTo(j) \in Seq(Keys)
<1> DEFINE n == Len(ranges)
           UpToEq(f) ==
             f = [j \in 0 .. n |-> IF j = 0 THEN <<>> ELSE f[j - 1] \o Expected(ranges[j])]
           upTo == CHOOSE f : UpToEq(f)
<1>1. \A j : ExpectedUpTo(j) = upTo[j]
  BY DEF ExpectedUpTo
<1>2. n \in Nat
  OBVIOUS
<1> HIDE DEF n
<1>3. \E f : UpToEq(f)
  <2>1. PICK f : IsUpTo(f, n)
    BY <1>2, UpToExists
  <2>2. UpToEq(f)
    BY <2>1, Zenon DEF IsUpTo
  <2> QED
    BY <2>2
<1>4. UpToEq(upTo)
  <2> HIDE DEF UpToEq
  <2> QED
    BY <1>3
<1> HIDE DEF upTo
<1>5. \A j \in 0 .. n : upTo[j] = IF j = 0 THEN <<>> ELSE upTo[j - 1] \o Expected(ranges[j])
  BY <1>4
<1> HIDE DEF UpToEq
<1>6. \A j \in 1 .. n : j \in 0 .. n /\ j # 0
  BY <1>2
<1>7. \A j \in 1 .. n : upTo[j] = upTo[j - 1] \o Expected(ranges[j])
  BY <1>5, <1>6
<1>8. upTo[0] = <<>>
  BY <1>2, <1>5
<1> DEFINE T == {j \in 0 .. n : upTo[j] \notin Seq(Keys)}
<1>9. T = {}
  <2> SUFFICES ASSUME T # {} PROVE FALSE
    OBVIOUS
  <2>1. T \in SUBSET Nat
    BY <1>2
  <2>2. PICK m \in T : \A k \in T : m <= k
    BY <2>1, LeastNumber
  <2>3. m \in 0 .. n /\ upTo[m] \notin Seq(Keys)
    BY <2>2
  <2>4. m # 0
    <3>1. <<>> \in Seq(Keys)
      OBVIOUS
    <3> QED
      BY <1>8, <2>3, <3>1, Zenon
  <2>5. m - 1 \in 0 .. n /\ m \in 1 .. n /\ ~(m <= m - 1)
    BY <1>2, <2>3, <2>4
  <2>6. upTo[m - 1] \in Seq(Keys)
    BY <2>2, <2>5
  <2>7. upTo[m] = upTo[m - 1] \o Expected(ranges[m]) /\ Expected(ranges[m]) \in Seq(Keys)
    BY <1>7, <2>5, ExpectedType
  <2> QED
    BY <2>3, <2>6, <2>7
<1>10. \A j \in 0 .. n : upTo[j] \in Seq(Keys)
  BY <1>9
<1> QED
  BY <1>1, <1>7, <1>8, <1>10 DEF n

\* Ranges without a stored key add nothing.
LEMMA EmptyRanges ==
  ASSUME StoreShape, ranges \in Seq(IndexRange),
         NEW i \in 0 .. Len(ranges), NEW j \in 0 .. Len(ranges), i <= j,
         \A h \in i + 1 .. j : Expected(ranges[h]) = <<>>
  PROVE  ExpectedUpTo(j) = ExpectedUpTo(i)
<1> DEFINE T == {h \in i .. j : ExpectedUpTo(h) # ExpectedUpTo(i)}
<1>1. Len(ranges) \in Nat /\ i \in Nat /\ j \in Nat
  OBVIOUS
<1>2. T = {}
  <2> SUFFICES ASSUME T # {} PROVE FALSE
    OBVIOUS
  <2>1. T \in SUBSET Nat
    BY <1>1
  <2>2. PICK m \in T : \A k \in T : m <= k
    BY <2>1, LeastNumber
  <2>3. m \in i .. j /\ ExpectedUpTo(m) # ExpectedUpTo(i)
    BY <2>2
  <2>4. m # i
    BY <2>3
  <2>5. /\ m - 1 \in i .. j /\ m \in i + 1 .. j /\ ~(m <= m - 1)
        /\ m \in 1 .. Len(ranges) /\ m - 1 \in 0 .. Len(ranges)
    BY <1>1, <2>3, <2>4
  <2>6. ExpectedUpTo(m - 1) = ExpectedUpTo(i)
    BY <2>2, <2>5
  <2>7. /\ ExpectedUpTo(m) = ExpectedUpTo(m - 1) \o Expected(ranges[m])
        /\ ExpectedUpTo(m - 1) \in Seq(Keys) /\ Expected(ranges[m]) = <<>>
    BY <2>5, UpToFacts
  <2> QED
    BY <2>3, <2>6, <2>7
<1>3. j \in i .. j
  BY <1>1
<1> QED
  BY <1>2, <1>3

\* A sequence is a prefix of its extensions.
LEMMA PrefixOfConcat ==
  ASSUME NEW a \in Seq(Keys), NEW b \in Seq(Keys)
  PROVE  IsPrefix(a, a \o b)
<1>1. Len(a) \in Nat /\ Len(b) \in Nat /\ a \o b \in Seq(Keys) /\ Len(a \o b) = Len(a) + Len(b)
  OBVIOUS
<1>2. SubSeq(a \o b, 1, Len(a)) = a /\ SubSeq(a, 1, Len(a)) = a
  BY SubSeqOfConcat1, SubSeqFull
<1> QED
  BY <1>1, <1>2 DEF IsPrefix

-----------------------------------------------------------------------------
(* The stored leaves *)

\* A stored key lies in one leaf, and compares with the ends of the others as
\* that leaf does.
LEMMA StoredKeyFacts ==
  ASSUME StoreShape, NEW k \in StoredKeys
  PROVE  \E a \in DOMAIN disk.leaf :
           /\ a \in 1 .. Len(disk.root) /\ k \in DOMAIN disk.leaf[a]
           /\ \A b \in 1 .. Len(disk.root) :
                /\ k <= disk.root[b].max <=> a <= b
                /\ k >= disk.root[b].min <=> a >= b
<1>1. PICK a \in DOMAIN disk.leaf : k \in DOMAIN disk.leaf[a]
  BY DEF StoredKeys
<1>2. Len(disk.root) \in Nat
  BY DEF StoreShape
<1>3. a \in 1 .. Len(disk.root) /\ disk.root[a].min <= k /\ k <= disk.root[a].max
  BY <1>1 DEF StoreShape
<1>4. k \in Nat
  BY StoredAreKeys, KeysAreNumbers
<1>5. ASSUME NEW b \in 1 .. Len(disk.root)
      PROVE  /\ k <= disk.root[b].max <=> a <= b
             /\ k >= disk.root[b].min <=> a >= b
  <2>1. /\ disk.root[a].min \in Nat /\ disk.root[a].max \in Nat
        /\ disk.root[b].min \in Nat /\ disk.root[b].max \in Nat
        /\ disk.root[b].min <= disk.root[b].max
    BY <1>3, KeysAreNumbers DEF StoreShape
  <2>2. a < b => disk.root[a].max < disk.root[b].min
    BY <1>3 DEF StoreShape
  <2>3. b < a => disk.root[b].max < disk.root[a].min
    BY <1>3 DEF StoreShape
  <2>4. a \in Nat /\ b \in Nat
    BY <1>2, <1>3
  <2>5. a = b => disk.root[a] = disk.root[b]
    OBVIOUS
  <2> QED
    BY <1>3, <1>4, <2>1, <2>2, <2>3, <2>4, <2>5
<1> QED
  BY <1>1, <1>3, <1>5

\* The record of the root is well-formed, and so are those of the leaves.
LEMMA ShapeTypes ==
  ASSUME StoreShape, TreeShape
  PROVE  /\ StoreOK(disk.leaf)
         /\ Len(disk.root) \in Nat /\ Len(tree.children) = Len(disk.root)
         /\ tree.children \in Seq(LeafType)
         /\ \A i \in 1 .. Len(disk.root) :
              /\ tree.children[i] \in LeafType
              /\ tree.children[i].max \in Nat /\ tree.children[i].min \in Nat
<1>1. Len(disk.root) \in Nat /\ DOMAIN disk.leaf \subseteq Nat
  BY DEF StoreShape
<1>2. StoreOK(disk.leaf)
  BY <1>1 DEF StoreShape, StoreOK
<1>3. tree.children \in Seq(LeafType) /\ Len(tree.children) = Len(disk.root)
  BY DEF TreeShape, TreeType
<1>4. ASSUME NEW i \in 1 .. Len(disk.root)
      PROVE  /\ tree.children[i] \in LeafType
             /\ tree.children[i].max \in Nat /\ tree.children[i].min \in Nat
  <2>1. tree.children[i] \in LeafType
    BY <1>3
  <2>2. /\ tree.children[i].max = disk.root[i].max /\ disk.root[i].max \in Keys
        /\ tree.children[i].min = disk.root[i].min /\ disk.root[i].min \in Keys
    BY DEF StoreShape, TreeShape
  <2> QED
    BY <2>1, <2>2, KeysAreNumbers
<1> QED
  BY <1>1, <1>2, <1>3, <1>4

\* The leaves' greatest keys ascend.
LEMMA LeavesSorted ==
  ASSUME StoreShape, TreeShape
  PROVE  \A i, j \in 1 .. Len(disk.root) :
           i < j => tree.children[i].max < tree.children[j].max
<1> SUFFICES ASSUME NEW i \in 1 .. Len(disk.root), NEW j \in 1 .. Len(disk.root), i < j
             PROVE  tree.children[i].max < tree.children[j].max
  OBVIOUS
<1>1. /\ disk.root[i].max < disk.root[j].min /\ disk.root[j].min <= disk.root[j].max
      /\ disk.root[i].max \in Keys /\ disk.root[j].max \in Keys /\ disk.root[j].min \in Keys
  BY DEF StoreShape
<1>2. tree.children[i].max = disk.root[i].max /\ tree.children[j].max = disk.root[j].max
  BY DEF TreeShape
<1>3. disk.root[i].max \in Nat /\ disk.root[j].max \in Nat /\ disk.root[j].min \in Nat
  BY <1>1, KeysAreNumbers
<1> QED
  BY <1>1, <1>2, <1>3

\* What the tree knows of one leaf.
LEMMA LeafShape ==
  ASSUME TreeShape, NEW i \in 1 .. Len(disk.root), NEW c, c = tree.children[i]
  PROVE  /\ c.id = i /\ c.written = {}
         /\ c.min = disk.root[i].min /\ c.max = disk.root[i].max
         /\ DOMAIN c.kvs = {} \/ (i \in DOMAIN disk.leaf /\ c.kvs = disk.leaf[i])
<1>1. \/ DOMAIN tree.children[i].kvs = {}
      \/ i \in DOMAIN disk.leaf /\ tree.children[i].kvs = disk.leaf[i]
  BY Zenon DEF TreeShape, Loaded
<1>2. /\ tree.children[i].id = i /\ tree.children[i].written = {}
      /\ tree.children[i].min = disk.root[i].min /\ tree.children[i].max = disk.root[i].max
  BY Zenon DEF TreeShape
<1> QED
  BY <1>1, <1>2

\* A visit gives a leaf the items of its record, when there is one.
LEMMA LoadLeaf ==
  ASSUME StoreShape, TreeShape, NEW i \in 1 .. Len(disk.root),
         NEW d, d = Load(tree.children[i], disk.leaf)
  PROVE  /\ d \in LeafType /\ d.id = i /\ d.written = {}
         /\ d.min = tree.children[i].min /\ d.max = tree.children[i].max
         /\ IF i \in DOMAIN disk.leaf THEN d.kvs = disk.leaf[i] ELSE d = tree.children[i]
<1>1. PICK c : c = tree.children[i]
  OBVIOUS
<1>2. /\ c \in LeafType /\ c.id = i /\ c.written = {}
      /\ DOMAIN c.kvs = {} \/ (i \in DOMAIN disk.leaf /\ c.kvs = disk.leaf[i])
  BY <1>1, ShapeTypes, LeafShape
<1>3. LeafOK(c) /\ StoreOK(disk.leaf) /\ d = Load(c, disk.leaf)
  BY <1>1, <1>2, ShapeTypes DEF LeafOK
<1>4. d \in LeafType
  BY <1>3, LoadOK DEF LeafOK
<1>5. CASE i \notin DOMAIN disk.leaf
  BY <1>1, <1>2, <1>3, <1>5 DEF Load
<1>6. CASE i \in DOMAIN disk.leaf
  <2>1. PICK s : s = disk.leaf[i]
    OBVIOUS
  <2>2. s = [k \in DOMAIN s |-> s[k]]
    <3>1. s \in KVs
      BY <1>6, <2>1 DEF StoreShape
    <3> QED
      BY <3>1, KVsElim
  <2> DEFINE f == [k \in DOMAIN c.kvs \cup DOMAIN s |->
                     IF k \in DOMAIN c.kvs THEN c.kvs[k] ELSE s[k]]
  <2>3. d = [c EXCEPT !.kvs = f]
    BY <1>2, <1>3, <1>6, <2>1 DEF Load, Deserialize
  <2>4. f = [k \in DOMAIN s |-> s[k]]
    BY <1>2, <2>1
  <2> HIDE DEF f
  <2>5. /\ d.kvs = f /\ d.id = c.id /\ d.written = c.written
        /\ d.min = c.min /\ d.max = c.max
    BY <1>2, <2>3 DEF LeafType
  <2> QED
    BY <1>1, <1>2, <1>4, <1>6, <2>1, <2>2, <2>4, <2>5
<1> QED
  BY <1>5, <1>6

\* A visit keeps the shape of the tree and loads the leaf visited, if it can.
LEMMA LoadStep ==
  ASSUME StoreShape, TreeShape, NEW i \in 1 .. Len(disk.root),
         tree' = LoadChild(tree, i, disk.leaf), disk' = disk
  PROVE  /\ TreeShape'
         /\ i \in DOMAIN disk.leaf => Loaded(i)'
<1>1. PICK d : d = Load(tree.children[i], disk.leaf)
  OBVIOUS
<1>2. /\ d \in LeafType /\ d.id = i /\ d.written = {}
      /\ d.min = tree.children[i].min /\ d.max = tree.children[i].max
      /\ IF i \in DOMAIN disk.leaf THEN d.kvs = disk.leaf[i] ELSE d = tree.children[i]
  BY <1>1, LoadLeaf
<1>3. PICK c : c = tree.children
  OBVIOUS
<1>4. c \in Seq(LeafType) /\ Len(c) = Len(disk.root) /\ Len(disk.root) \in Nat /\ tree \in TreeType
  BY <1>3, ShapeTypes DEF TreeShape
<1>5. PICK e : e = [c EXCEPT ![i] = d]
  OBVIOUS
<1>6. /\ e \in Seq(LeafType) /\ Len(e) = Len(c)
      /\ \A j \in 1 .. Len(c) : e[j] = IF j = i THEN d ELSE c[j]
  BY <1>2, <1>4, <1>5
<1>7. tree' = [tree EXCEPT !.children = e]
  BY <1>1, <1>3, <1>5 DEF LoadChild
<1>8. tree' \in TreeType /\ tree'.children = e
  BY <1>4, <1>6, <1>7 DEF TreeType
<1>9. ASSUME NEW j \in 1 .. Len(disk.root)
      PROVE  /\ e[j].id = j /\ e[j].written = {}
             /\ e[j].min = disk.root[j].min /\ e[j].max = disk.root[j].max
             /\ DOMAIN e[j].kvs = {} \/ (j \in DOMAIN disk.leaf /\ e[j].kvs = disk.leaf[j])
  <2>1. /\ c[j].id = j /\ c[j].written = {}
        /\ c[j].min = disk.root[j].min /\ c[j].max = disk.root[j].max
        /\ DOMAIN c[j].kvs = {} \/ (j \in DOMAIN disk.leaf /\ c[j].kvs = disk.leaf[j])
    BY <1>3, LeafShape
  <2>2. CASE j = i
    BY <1>2, <1>3, <1>4, <1>6, <2>1, <2>2
  <2>3. CASE j # i
    BY <1>4, <1>6, <2>1, <2>3
  <2> QED
    BY <2>2, <2>3
<1>10. i \in DOMAIN disk.leaf => e[i].kvs = disk.leaf[i]
  BY <1>2, <1>4, <1>6
<1> QED
  BY <1>4, <1>6, <1>8, <1>9, <1>10 DEF TreeShape, Loaded

\* The child a range is opened at: the first whose greatest key is not below the
\* range.
LEMMA OpenChildFacts ==
  ASSUME StoreShape, TreeShape, NEW r \in IndexRange
  PROVE  /\ OpenChild(r) # {}
         /\ \A i \in OpenChild(r) :
              /\ i \in 1 .. Len(disk.root) + 1
              /\ \A j \in 1 .. i - 1 : ~AboveLower(tree.children[j].max, r)
              /\ i <= Len(disk.root) => AboveLower(tree.children[i].max, r)
<1> DEFINE n == Len(disk.root)
           c == tree.children
<1>1. n \in Nat /\ Len(c) = n /\ \A i \in 1 .. n : c[i].max \in Nat
  BY ShapeTypes
<1>2. r.lower \in Nat /\ r.lowerOpen \in BOOLEAN
  BY KeysAreNumbers DEF IndexRange, Bounds
<1>3. \A i, j \in 1 .. n : i < j => c[i].max < c[j].max
  BY LeavesSorted
<1> HIDE DEF c, n
<1>4. SortedByMax(c)
  BY <1>1, <1>3 DEF SortedByMax
<1>5. OpenChild(r) = {i \in 1 .. n + 1 :
                        /\ \A j \in 1 .. i - 1 : ~AboveLower(c[j].max, r)
                        /\ i <= n => AboveLower(c[i].max, r)}
  <2>1. \A i \in 1 .. n + 1 : \A j \in 1 .. i - 1 : j \in 1 .. n
    BY <1>1
  <2>2. \A i \in 1 .. n + 1 : i <= n => i \in 1 .. n
    BY <1>1
  <2>3. CASE r.lowerOpen
    <3>1. OpenChild(r) = {i \in 1 .. n + 1 :
                            /\ \A j \in 1 .. i - 1 : c[j].max <= r.lower
                            /\ i <= n => c[i].max > r.lower}
      BY <1>1, <1>4, <2>3 DEF OpenChild, MaxKeyUpperBound, c
    <3> QED
      BY <1>1, <1>2, <2>1, <2>2, <2>3, <3>1 DEF AboveLower
  <2>4. CASE ~r.lowerOpen
    <3>1. OpenChild(r) = {i \in 1 .. n + 1 :
                            /\ \A j \in 1 .. i - 1 : c[j].max < r.lower
                            /\ i <= n => c[i].max >= r.lower}
      BY <1>1, <1>4, <2>4 DEF OpenChild, MaxKeyLowerBound, c
    <3> QED
      BY <1>1, <1>2, <2>1, <2>2, <2>4, <3>1 DEF AboveLower
  <2> QED
    BY <2>3, <2>4
<1>6. OpenChild(r) # {}
  <2> DEFINE T == {i \in 1 .. n + 1 : i <= n => AboveLower(c[i].max, r)}
  <2>1. T \in SUBSET Nat /\ n + 1 \in T
    BY <1>1
  <2>2. PICK m \in T : \A k \in T : m <= k
    BY <2>1, LeastNumber
  <2>3. m \in 1 .. n + 1 /\ (m <= n => AboveLower(c[m].max, r))
    BY <2>2
  <2>4. ASSUME NEW j \in 1 .. m - 1 PROVE ~AboveLower(c[j].max, r)
    <3>1. j \in 1 .. n + 1 /\ j <= n /\ ~(m <= j)
      BY <1>1, <2>3
    <3> QED
      BY <2>2, <3>1
  <2> QED
    BY <1>5, <2>3, <2>4
<1> QED
  BY <1>5, <1>6 DEF c, n

-----------------------------------------------------------------------------
(* Opening a range *)

\* The least of a set of numbers.
LEMMA MinNumber ==
  ASSUME NEW T \in SUBSET Nat, T # {}
  PROVE  Min(T) \in T /\ \A k \in T : Min(T) <= k
<1>1. PICK m \in T : \A k \in T : m <= k
  BY LeastNumber
<1> QED
  BY <1>1 DEF Min

\* A key above one that is not below the range is not below it either.
LEMMA AboveGrows ==
  ASSUME NEW r \in IndexRange, NEW j \in Nat, NEW k \in Nat, j <= k, AboveLower(j, r)
  PROVE  AboveLower(k, r)
<1>1. r.lower \in Nat /\ r.lowerOpen \in BOOLEAN
  BY KeysAreNumbers DEF IndexRange, Bounds
<1>2. CASE r.lowerOpen
  BY <1>1, <1>2 DEF AboveLower
<1>3. CASE ~r.lowerOpen
  BY <1>1, <1>3 DEF AboveLower
<1> QED
  BY <1>2, <1>3

\* Nothing is expected of a range all leaves lie below.
LEMMA NothingAbove ==
  ASSUME StoreShape, TreeShape, NEW r \in IndexRange,
         \A j \in 1 .. Len(disk.root) : ~AboveLower(tree.children[j].max, r)
  PROVE  Expected(r) = <<>>
<1>1. ASSUME NEW k \in StoredKeys PROVE ~AboveLower(k, r)
  <2>1. PICK a \in 1 .. Len(disk.root) : k <= disk.root[a].max
    <3>1. PICK a \in DOMAIN disk.leaf :
            /\ a \in 1 .. Len(disk.root)
            /\ \A b \in 1 .. Len(disk.root) : k <= disk.root[b].max <=> a <= b
      BY StoredKeyFacts
    <3>2. a <= a
      BY <3>1, ShapeTypes
    <3> QED
      BY <3>1, <3>2
  <2>2. tree.children[a].max = disk.root[a].max /\ tree.children[a].max \in Nat
    BY LeafShape, ShapeTypes
  <2>3. k \in Nat
    BY StoredAreKeys, KeysAreNumbers
  <2> QED
    BY <2>1, <2>2, <2>3, AboveGrows
<1>2. {k \in StoredKeys : InRange(k, r)} = {}
  BY <1>1 DEF InRange, AboveLower
<1> QED
  BY <1>2, AscendingEmpty DEF Expected

\* k, in the leaf at i, is the first stored key that is not below the range r.
FirstOf(i, k, r) ==
  /\ i \in DOMAIN disk.leaf /\ k \in DOMAIN disk.leaf[i]
  /\ AboveLower(k, r)
  /\ \A x \in StoredKeys : AboveLower(x, r) => k <= x

\* The first key of the leaf a range is opened at is the first of the range, unless
\* the record ends below the range.
LEMMA FirstKeyFacts ==
  ASSUME StoreShape, TreeShape, NEW r \in IndexRange,
         NEW i \in DOMAIN disk.leaf,
         \A j \in 1 .. i - 1 : ~AboveLower(tree.children[j].max, r),
         AboveLower(tree.children[i].max, r),
         NEW leaf, leaf.kvs = disk.leaf[i]
  PROVE  IF \A k \in DOMAIN disk.leaf[i] : ~AboveLower(k, r) THEN FirstKey(leaf, r) = NoKey
         ELSE FirstOf(i, FirstKey(leaf, r), r)
<1> DEFINE S == DOMAIN disk.leaf[i]
           D == {k \in S : AboveLower(k, r)}
<1>1. Len(disk.root) \in Nat /\ i \in 1 .. Len(disk.root)
  BY ShapeTypes DEF StoreShape
<1>2. S \in SUBSET Keys
  BY KVsElim DEF StoreShape
<1>3. FirstKey(leaf, r) = IF D = {} THEN NoKey ELSE Min(D)
  BY DEF FirstKey, AboveLower
<1>4. D = {} <=> \A k \in S : ~AboveLower(k, r)
  OBVIOUS
<1> SUFFICES ASSUME D # {} PROVE FirstOf(i, FirstKey(leaf, r), r)
  BY <1>3, <1>4, Zenon
<1>5. FirstKey(leaf, r) = Min(D) /\ D \in SUBSET Keys
  BY <1>2, <1>3
<1>6. PICK m : m = Min(D)
  OBVIOUS
<1>7. m \in D /\ \A y \in D : m <= y
  BY <1>5, <1>6, MinKey
<1>8. ASSUME NEW x \in StoredKeys, AboveLower(x, r) PROVE m <= x
  <2>1. x \in Nat /\ m \in Nat
    BY <1>2, <1>7, StoredAreKeys, KeysAreNumbers
  <2>2. PICK a \in DOMAIN disk.leaf :
          /\ a \in 1 .. Len(disk.root) /\ x \in DOMAIN disk.leaf[a]
          /\ \A b \in 1 .. Len(disk.root) :
               /\ x <= disk.root[b].max <=> a <= b
               /\ x >= disk.root[b].min <=> a >= b
    BY StoredKeyFacts
  <2>3. a >= i
    <3> SUFFICES ASSUME a < i PROVE FALSE
      BY <1>1, <2>2
    <3>1. a \in 1 .. i - 1 /\ a <= a
      BY <1>1, <2>2
    <3>2. x <= tree.children[a].max /\ tree.children[a].max \in Nat
      BY <2>2, <3>1, LeafShape, ShapeTypes
    <3> QED
      BY <1>8, <2>1, <3>1, <3>2, AboveGrows
  <2>4. CASE a = i
    BY <1>7, <1>8, <2>2, <2>4
  <2>5. CASE a > i
    <3>1. ~(x <= disk.root[i].max)
      BY <1>1, <2>2, <2>5
    <3>2. m <= disk.root[i].max /\ disk.root[i].max \in Nat
      <4>1. m \in S
        BY <1>7
      <4> QED
        BY <1>1, <4>1, KeysAreNumbers DEF StoreShape
    <3> QED
      BY <2>1, <3>1, <3>2
  <2> QED
    BY <1>1, <2>2, <2>3, <2>4, <2>5
<1> QED
  BY <1>5, <1>6, <1>7, <1>8 DEF FirstOf

\* Nothing is expected of the ranges after i and before j.
NothingBetween(i, j) == \A h \in i + 1 .. j - 1 : Expected(ranges[h]) = <<>>

\* The ranges are at their end.
OpensNone ==
  /\ rangeIdx' = Len(ranges) /\ code' = C_BPTREE_ITERATOR_END
  /\ it' = it /\ tree' = tree
  /\ NothingBetween(rangeIdx, Len(ranges) + 1)

\* The leaf the range at j begins in has no record.
OpensLost(j) ==
  /\ rangeIdx' = j /\ code' = C_STORAGE_KV_NOT_FOUND /\ it' = NoIt
  /\ NothingBetween(rangeIdx, j)

\* The iterator is at the first key of the range at j.
OpensAt(j, i, k) ==
  /\ rangeIdx' = j /\ code' = C_OK
  /\ it' = [leaf |-> i, cur |-> k, kvEnd |-> FALSE, nodeEnd |-> FALSE]
  /\ NothingBetween(rangeIdx, j)
  /\ Loaded(i)' /\ FirstOf(i, k, ranges[j])

\* The iterator is in a gap after the keys of the leaf at i.
OpensInGap(j, i) ==
  /\ rangeIdx' = j /\ code' = C_OK
  /\ it' = [leaf |-> i, cur |-> NoKey, kvEnd |-> FALSE, nodeEnd |-> FALSE]
  /\ NothingBetween(rangeIdx, j)
  /\ i \in DOMAIN disk.leaf /\ Loaded(i)' /\ GapAt(j, i)

\* What BaseIterator::Open does.
LEMMA OpenNextRangeFacts ==
  ASSUME StoreShape, TreeShape, ranges \in Seq(IndexRange), rangeIdx \in 0 .. Len(ranges),
         OpenNextRange, disk' = disk
  PROVE  /\ TreeShape'
         /\ \/ OpensNone
            \/ \E j \in rangeIdx + 1 .. Len(ranges) :
                 OpensLost(j) \/ (\E i, k : OpensAt(j, i, k)) \/ \E i : OpensInGap(j, i)
<1> DEFINE n == Len(disk.root)
           At(j) == CHOOSE i \in OpenChild(ranges[j]) : TRUE
           open == {j \in rangeIdx + 1 .. Len(ranges) :
                      OpenStatus(ranges[j], At(j)) # C_BPTREE_ITERATOR_END}
<1>1. /\ n \in Nat /\ Len(tree.children) = n /\ Len(ranges) \in Nat /\ rangeIdx \in Nat
      /\ \A j \in rangeIdx + 1 .. Len(ranges) : ranges[j] \in IndexRange
  BY ShapeTypes
<1>2. ASSUME NEW j \in rangeIdx + 1 .. Len(ranges)
      PROVE  /\ At(j) \in 1 .. n + 1
             /\ \A h \in 1 .. At(j) - 1 : ~AboveLower(tree.children[h].max, ranges[j])
             /\ At(j) <= n => AboveLower(tree.children[At(j)].max, ranges[j])
  <2>1. At(j) \in OpenChild(ranges[j])
    BY <1>1, OpenChildFacts
  <2> HIDE DEF At
  <2> QED
    BY <1>1, <2>1, OpenChildFacts
<1>3. ASSUME NEW j \in rangeIdx + 1 .. Len(ranges)
      PROVE  OpenStatus(ranges[j], At(j)) =
               IF At(j) > n THEN C_BPTREE_ITERATOR_END
               ELSE IF At(j) \in DOMAIN disk.leaf THEN C_OK ELSE C_STORAGE_KV_NOT_FOUND
  <2>1. PICK i : i = At(j)
    OBVIOUS
  <2>2. i \in 1 .. n + 1
    BY <1>2, <2>1
  <2>3. i <= n => tree.children[i].id = i
    BY <1>1, <2>2, LeafShape
  <2>4. OpenStatus(ranges[j], i) =
               IF i > n THEN C_BPTREE_ITERATOR_END
               ELSE IF i \in DOMAIN disk.leaf THEN C_OK ELSE C_STORAGE_KV_NOT_FOUND
    BY <1>1, <2>2, <2>3 DEF OpenStatus, LoadStatus
  <2> QED
    BY <2>1, <2>4, Zenon
<1>4. C_OK # C_BPTREE_ITERATOR_END /\ C_STORAGE_KV_NOT_FOUND # C_BPTREE_ITERATOR_END
      /\ C_OK # C_STORAGE_KV_NOT_FOUND
  BY DEF C_OK, C_BPTREE_ITERATOR_END, C_STORAGE_KV_NOT_FOUND
<1>5. ASSUME NEW j \in rangeIdx + 1 .. Len(ranges), j \notin open PROVE Expected(ranges[j]) = <<>>
  <2>1. PICK i : i = At(j)
    OBVIOUS
  <2>2. i \in 1 .. n + 1 /\ i > n
    BY <1>2, <1>3, <1>4, <1>5, <2>1
  <2>3. \A h \in 1 .. n : ~AboveLower(tree.children[h].max, ranges[j])
    <3>1. \A h \in 1 .. i - 1 : ~AboveLower(tree.children[h].max, ranges[j])
      BY <1>2, <2>1
    <3>2. \A h \in 1 .. n : h \in 1 .. i - 1
      BY <1>1, <2>2
    <3> QED
      BY <3>1, <3>2
  <2> QED
    BY <1>1, <2>3, NothingAbove
<1>6. CASE open = {}
  <2>1. /\ rangeIdx' = Len(ranges) /\ code' = C_BPTREE_ITERATOR_END
        /\ it' = it /\ tree' = tree
    BY <1>6 DEF OpenNextRange
  <2>2. \A h \in rangeIdx + 1 .. Len(ranges) + 1 - 1 : h \in rangeIdx + 1 .. Len(ranges)
    BY <1>1
  <2>3. NothingBetween(rangeIdx, Len(ranges) + 1)
    <3> SUFFICES ASSUME NEW h \in rangeIdx + 1 .. Len(ranges) + 1 - 1
                 PROVE  Expected(ranges[h]) = <<>>
      BY DEF NothingBetween
    <3>1. h \in rangeIdx + 1 .. Len(ranges) /\ h \notin open
      BY <1>6, <2>2
    <3> HIDE DEF open
    <3> QED
      BY <1>5, <3>1
  <2>4. TreeShape'
    BY <2>1 DEF TreeShape, Loaded
  <2> QED
    BY <2>1, <2>3, <2>4 DEF OpensNone
<1>7. CASE open # {}
  <2>1. PICK j : j = Min(open)
    OBVIOUS
  <2>2. j \in open /\ \A h \in open : j <= h
    <3>1. open \in SUBSET Nat
      BY <1>1
    <3> HIDE DEF open
    <3> QED
      BY <1>7, <2>1, <3>1, MinNumber
  <2>3. j \in rangeIdx + 1 .. Len(ranges) /\ OpenStatus(ranges[j], At(j)) # C_BPTREE_ITERATOR_END
    BY <2>2
  <2>4. PICK i : i = At(j)
    OBVIOUS
  <2>5. /\ i \in 1 .. n /\ AboveLower(tree.children[i].max, ranges[j])
        /\ \A h \in 1 .. i - 1 : ~AboveLower(tree.children[h].max, ranges[j])
    <3>1. /\ i \in 1 .. n + 1
          /\ \A h \in 1 .. i - 1 : ~AboveLower(tree.children[h].max, ranges[j])
          /\ i <= n => AboveLower(tree.children[i].max, ranges[j])
      BY <1>2, <2>3, <2>4
    <3>2. ~(i > n)
      BY <1>3, <2>3, <2>4
    <3>3. i \in 1 .. n /\ i <= n
      BY <1>1, <3>1, <3>2
    <3> QED
      BY <3>1, <3>3
  <2>6. PICK st : st = OpenStatus(ranges[j], i)
    OBVIOUS
  <2>7. st = IF i \in DOMAIN disk.leaf THEN C_OK ELSE C_STORAGE_KV_NOT_FOUND
    BY <1>1, <1>3, <2>3, <2>4, <2>5, <2>6
  <2>8. PICK u : u = LoadChild(tree, i, disk.leaf)
    OBVIOUS
  <2>9. /\ rangeIdx' = j /\ code' = st /\ tree' = u
        /\ it' = IF st # C_OK THEN NoIt
                 ELSE [NoIt EXCEPT !.leaf = i, !.cur = FirstKey(u.children[i], ranges[j])]
    BY <1>7, <2>1, <2>4, <2>6, <2>8 DEF OpenNextRange
  <2>10. TreeShape' /\ (i \in DOMAIN disk.leaf => Loaded(i)')
    BY <2>5, <2>8, <2>9, LoadStep
  <2>11. NothingBetween(rangeIdx, j)
    <3>1. ASSUME NEW h \in rangeIdx + 1 .. j - 1 PROVE h \in rangeIdx + 1 .. Len(ranges) /\ ~(j <= h)
      BY <1>1, <2>3
    <3> HIDE DEF open
    <3> QED
      BY <1>5, <2>2, <3>1 DEF NothingBetween
  <2>12. CASE i \notin DOMAIN disk.leaf
    <3>1. OpensLost(j)
      BY <1>4, <2>7, <2>9, <2>11, <2>12 DEF OpensLost
    <3> QED
      BY <2>3, <2>10, <3>1
  <2>13. CASE i \in DOMAIN disk.leaf
    <3>1. PICK k : k = FirstKey(u.children[i], ranges[j])
      OBVIOUS
    <3>2. u.children[i].kvs = disk.leaf[i]
      BY <2>9, <2>10, <2>13 DEF Loaded
    <3>3. IF \A x \in DOMAIN disk.leaf[i] : ~AboveLower(x, ranges[j]) THEN k = NoKey
          ELSE FirstOf(i, k, ranges[j])
      BY <1>1, <2>3, <2>5, <2>13, <3>1, <3>2, FirstKeyFacts
    <3>4. it' = [leaf |-> i, cur |-> k, kvEnd |-> FALSE, nodeEnd |-> FALSE]
      BY <2>7, <2>9, <2>13, <3>1 DEF NoIt
    <3>5. CASE FirstOf(i, k, ranges[j])
      <4>1. OpensAt(j, i, k)
        BY <2>7, <2>9, <2>10, <2>11, <2>13, <3>4, <3>5 DEF OpensAt
      <4> QED
        BY <2>3, <2>10, <4>1
    <3>6. CASE k = NoKey /\ \A x \in DOMAIN disk.leaf[i] : ~AboveLower(x, ranges[j])
      <4>1. tree.children[i].max = disk.root[i].max
        BY <2>5, LeafShape
      <4>2. GapAt(j, i)
        BY <2>5, <3>6, <4>1 DEF GapAt
      <4>3. OpensInGap(j, i)
        BY <2>7, <2>9, <2>10, <2>11, <2>13, <3>4, <3>6, <4>2 DEF OpensInGap
      <4> QED
        BY <2>3, <2>10, <4>3
    <3> QED
      BY <3>3, <3>5, <3>6
  <2> QED
    BY <2>12, <2>13
<1> QED
  BY <1>6, <1>7

-----------------------------------------------------------------------------
(* The first state *)

\* A stored tree: the keys of S cut into leaves at the keys of cuts, some of them
\* missing from the leaf records.
LEMMA StoreOfShape ==
  ASSUME NEW S \in SUBSET Keys, NEW cuts \in SUBSET S, NEW stored \in SUBSET S,
         disk = StoreOf(S, cuts, stored)
  PROVE  StoreShape /\ \A i \in 1 .. Len(disk.root) : disk.root[i] \in Refs
<1> DEFINE n == Cardinality(cuts)
           K(i) == LeafKeys(S, cuts, i)
           R(i) == LeafKeys(stored, cuts, i)
           v == CHOOSE w \in Values : TRUE
<1>1. n \in Nat /\ cuts \in SUBSET Keys
  BY KeysFinite
<1>2. ASSUME NEW i \in 1 .. n
      PROVE  /\ K(i) \in SUBSET Keys
             /\ Min(K(i)) \in K(i) /\ Max(K(i)) \in K(i)
             /\ \A k \in K(i) : Min(K(i)) <= k /\ k <= Max(K(i))
  <2>1. K(i) \in SUBSET Keys /\ \A k \in S : Rank(cuts, k) = i => k \in K(i)
    BY DEF LeafKeys, Rank
  <2>2. K(i) # {}
    BY <1>1, <2>1, RankExists
  <2>3. \A k \in K(i) : k \in Nat
    BY <2>1, KeysAreNumbers
  <2> HIDE DEF K
  <2>4. Min(K(i)) \in K(i) /\ \A k \in K(i) : Min(K(i)) <= k
    BY <2>1, <2>2, MinKey
  <2>5. Max(K(i)) \in K(i) /\ \A k \in K(i) : Max(K(i)) >= k
    BY <2>1, <2>2, MaxKeyOf
  <2> QED
    BY <2>1, <2>3, <2>4, <2>5
<1>3. ASSUME NEW i \in 1 .. n, NEW j \in 1 .. n, i < j, NEW a \in K(i), NEW b \in K(j)
      PROVE  a < b
  <2>1. a \in S /\ b \in S /\ Rank(cuts, a) = i /\ Rank(cuts, b) = j
    BY DEF LeafKeys, Rank
  <2>2. a \in Nat /\ b \in Nat
    BY <2>1, KeysAreNumbers
  <2>3. b <= a => Rank(cuts, b) <= Rank(cuts, a)
    BY <1>1, <2>2, RankGrows
  <2> QED
    BY <1>1, <1>3, <2>1, <2>2, <2>3
<1>4. v \in Values
  BY IteratorAssumption
<1>5. /\ disk.root = [i \in 1 .. n |-> [id |-> i, count |-> 0, size |-> 0,
                                       min |-> Min(K(i)), max |-> Max(K(i))]]
      /\ disk.leaf = [i \in {j \in 1 .. n : R(j) # {}} |-> [k \in R(i) |-> v]]
  BY DEF StoreOf
<1>12. \A i \in 1 .. n : R(i) \subseteq K(i)
  BY DEF LeafKeys
<1> HIDE DEF n, K, R, v
<1>6. ASSUME NEW i \in 1 .. n
      PROVE  /\ disk.root[i] \in Refs /\ disk.root[i].id = i
             /\ disk.root[i].min = Min(K(i)) /\ disk.root[i].max = Max(K(i))
  <2>1. disk.root[i] = [id |-> i, count |-> 0, size |-> 0, min |-> Min(K(i)), max |-> Max(K(i))]
    BY <1>5
  <2>2. i \in Nat /\ 0 \in 0 .. WordMod - 1 /\ Min(K(i)) \in Keys /\ Max(K(i)) \in Keys
    BY <1>1, <1>2, NodeAssumption
  <2> QED
    BY <2>1, <2>2 DEF Refs
<1>7. disk.root \in Seq(Refs) /\ Len(disk.root) = n
  <2>1. disk.root \in [1 .. n -> Refs]
    BY <1>5, <1>6
  <2> QED
    BY <1>1, <2>1
<1>8. \A i \in 1 .. n : /\ Min(K(i)) \in Keys /\ Max(K(i)) \in Keys
                        /\ Min(K(i)) <= Max(K(i))
  BY <1>2
<1>9. \A i, j \in 1 .. n : i < j => Max(K(i)) < Min(K(j))
  BY <1>2, <1>3
<1>10. ASSUME NEW i \in DOMAIN disk.leaf
       PROVE  /\ i \in 1 .. n /\ disk.leaf[i] \in KVs
              /\ DOMAIN disk.leaf[i] # {} /\ DOMAIN disk.leaf[i] \subseteq K(i)
  <2>1. i \in 1 .. n /\ R(i) # {} /\ disk.leaf[i] = [k \in R(i) |-> v]
    BY <1>5
  <2>2. disk.leaf[i] \in [R(i) -> Values] /\ DOMAIN disk.leaf[i] = R(i)
    BY <1>4, <2>1
  <2>3. R(i) \in SUBSET Keys
    BY <1>2, <1>12, <2>1
  <2> QED
    BY <1>12, <2>1, <2>2, <2>3, KVsIntro
<1>11. StoreShape
  BY <1>2, <1>6, <1>7, <1>8, <1>9, <1>10 DEF StoreShape
<1> QED
  BY <1>6, <1>7, <1>11

\* The tree a session opens has its leaves not loaded yet.
LEMMA OpenTreeShape ==
  ASSUME StoreShape, tree = OpenTree(disk, 0)
  PROVE  TreeShape
<1> DEFINE n == Len(disk.root)
<1>1. n \in Nat /\ \A i \in 1 .. n : disk.root[i] \in Refs /\ disk.root[i].id = i
  BY DEF StoreShape
<1>2. tree.children = [i \in 1 .. n |-> LeafFromRef(disk.root[i])]
  BY DEF OpenTree
<1>3. ASSUME NEW i \in 1 .. n, NEW c, c = LeafFromRef(disk.root[i])
      PROVE  /\ c \in LeafType /\ c.id = i /\ c.written = {} /\ DOMAIN c.kvs = {}
             /\ c.min = disk.root[i].min /\ c.max = disk.root[i].max
  <2>1. PICK ref : ref = disk.root[i]
    OBVIOUS
  <2>2. /\ ref.id = i /\ i \in Nat
        /\ ref.count \in 0 .. WordMod - 1 /\ ref.size \in 0 .. WordMod - 1
        /\ ref.min \in Keys \cup {NoKey} /\ ref.max \in Keys \cup {NoKey}
    BY <1>1, <2>1 DEF Refs
  <2>3. PICK new : new = NewLeaf(ref.id)
    OBVIOUS
  <2>4. /\ new \in LeafType /\ new.id = i /\ new.kvs = EmptyKVs /\ new.written = {}
    BY <2>2, <2>3, NewLeafOK DEF LeafOK, NewLeaf
  <2>5. c = [new EXCEPT !.count = ref.count, !.size = ref.size, !.min = ref.min, !.max = ref.max]
    BY <1>3, <2>1, <2>3 DEF LeafFromRef
  <2>6. /\ c \in LeafType /\ c.id = new.id /\ c.kvs = new.kvs /\ c.written = new.written
        /\ c.min = ref.min /\ c.max = ref.max
    BY <2>2, <2>4, <2>5 DEF LeafType
  <2> QED
    BY <2>1, <2>4, <2>6 DEF EmptyKVs
<1> HIDE DEF n
<1>4. /\ tree.children \in Seq(LeafType) /\ Len(tree.children) = n
      /\ \A i \in 1 .. n : tree.children[i] = LeafFromRef(disk.root[i])
  <2>1. tree.children \in [1 .. n -> LeafType]
    BY <1>2, <1>3
  <2> QED
    BY <1>1, <1>2, <2>1
<1>5. tree \in TreeType
  <2>1. PICK c : c = tree.children
    OBVIOUS
  <2>2. tree = [children |-> c, count |-> 0, size |-> 0, min |-> NoKey, max |-> NoKey,
                unsaved |-> FALSE, lastId |-> 0]
    BY <1>2, <2>1 DEF OpenTree, n
  <2>3. c \in Seq(LeafType) /\ 0 \in 0 .. WordMod - 1
    BY <1>4, <2>1, NodeAssumption
  <2>4. ASSUME NEW d \in Seq(LeafType), NEW z \in 0 .. WordMod - 1, NEW f \in BOOLEAN,
               NEW m \in Keys \cup {NoKey}, NEW id \in Nat
        PROVE  [children |-> d, count |-> z, size |-> z, min |-> m, max |-> m,
                unsaved |-> f, lastId |-> id] \in TreeType
    BY DEF TreeType
  <2> QED
    BY <2>2, <2>3, <2>4
<1> QED
  BY <1>3, <1>4, <1>5 DEF TreeShape, n

\* The iterator starts closed, on a tree just opened.
LEMMA IterInitInv ==
  ASSUME IterInit
  PROVE  IterInv /\ ScanInv
<1>0. PICK S \in SUBSET Keys, cuts \in SUBSET Keys :
        cuts \subseteq S /\ \E stored \in SUBSET S : disk = StoreOf(S, cuts, stored)
  BY DEF IterInit
<1>1. PICK stored \in SUBSET S : cuts \subseteq S /\ disk = StoreOf(S, cuts, stored)
  BY <1>0
<1>2. StoreShape /\ TreeShape
  BY <1>1, StoreOfShape, OpenTreeShape DEF IterInit
<1>3. ranges \in Seq(IndexRange)
  BY IteratorAssumption DEF IterInit
<1>4. Len(ranges) \in Nat /\ Len(tree.children) \in Nat
  BY <1>2, <1>3, ShapeTypes
<1>5. /\ rangeIdx = 0 /\ it = NoIt /\ code = C_OK /\ page = <<>> /\ busy = FALSE /\ got = <<>>
      /\ ret = [op |-> "Open", key |-> NoKey, st |-> C_OK]
  BY DEF IterInit
<1>6. NotOpened
  BY <1>5 DEF NotOpened
<1>7. it \in [leaf : 0 .. Len(tree.children), cur : Keys \cup {NoKey},
              kvEnd : BOOLEAN, nodeEnd : BOOLEAN]
  BY <1>4, <1>5 DEF NoIt
<1>8. page \in Seq(Keys) /\ Len(page) <= PageSize /\ got \in Seq(Keys)
  BY <1>5, IteratorAssumption
<1>9. IterInv
  <2>1. rangeIdx \in 0 .. Len(ranges)
    BY <1>4, <1>5
  <2> QED
    BY <1>2, <1>3, <1>5, <1>6, <1>7, <1>8, <2>1, Zenon DEF IterInv, C_OK, Aborted
<1>10. ScanInv
  BY <1>5 DEF ScanInv, C_OK, C_BPTREE_ITERATOR_END, C_STORAGE_KV_NOT_FOUND, Aborted
<1> QED
  BY <1>9, <1>10

-----------------------------------------------------------------------------
(* Steps that open a range *)

\* What has to be returned does not change during a scan.
LEMMA SameExpected ==
  ASSUME disk' = disk, ranges' = ranges
  PROVE  /\ StoreShape' <=> StoreShape
         /\ StoredKeys' = StoredKeys
         /\ \A j : ExpectedUpTo(j)' = ExpectedUpTo(j)
<1>1. StoreShape' <=> StoreShape
  BY DEF StoreShape
<1>2. StoredKeys' = StoredKeys
  BY DEF StoredKeys
<1>3. \A j : ExpectedUpTo(j)' = ExpectedUpTo(j)
  BY <1>2 DEF ExpectedUpTo, Expected
<1> QED
  BY <1>1, <1>2, <1>3

\* Opening the next range leaves the iterator at an item or in a gap, or the scan
\* over.
LEMMA OpenInv ==
  ASSUME IterInv, OpenNextRange, UNCHANGED <<disk, ret, ranges, page, busy, got>>
  PROVE  IterInv'
<1>1. /\ StoreShape /\ TreeShape /\ ranges \in Seq(IndexRange) /\ rangeIdx \in 0 .. Len(ranges)
      /\ disk' = disk
  BY DEF IterInv
<1>2. /\ TreeShape'
      /\ \/ OpensNone
         \/ \E j \in rangeIdx + 1 .. Len(ranges) :
              OpensLost(j) \/ (\E i, k : OpensAt(j, i, k)) \/ \E i : OpensInGap(j, i)
  BY <1>1, OpenNextRangeFacts
<1>3. StoreShape'
  BY <1>1, SameExpected
<1> DEFINE ItType == [leaf : 0 .. Len(tree.children), cur : Keys \cup {NoKey},
                      kvEnd : BOOLEAN, nodeEnd : BOOLEAN]
<1>4. /\ Len(tree'.children) = Len(tree.children) /\ Len(tree.children) = Len(disk.root)
      /\ Len(disk.root) \in Nat /\ Len(ranges) \in Nat /\ rangeIdx \in Nat
  BY <1>1, <1>2, ShapeTypes DEF TreeShape
<1>5. ItType' = ItType
  BY <1>4
<1>6. ASSUME code' \in {C_OK, C_BPTREE_ITERATOR_END, C_STORAGE_KV_NOT_FOUND},
             rangeIdx' \in 0 .. Len(ranges), it' \in ItType,
             code' = C_OK => Positioned'
      PROVE  IterInv'
  BY <1>2, <1>3, <1>5, <1>6 DEF IterInv, Aborted, C_OK, C_BPTREE_ITERATOR_END, C_STORAGE_KV_NOT_FOUND
<1> HIDE DEF ItType
<1>7. CASE OpensNone
  <2>1. it \in ItType
    BY DEF IterInv, ItType
  <2>2. /\ code' = C_BPTREE_ITERATOR_END /\ rangeIdx' = Len(ranges) /\ it' = it
        /\ Len(ranges) \in 0 .. Len(ranges)
    BY <1>4, <1>7 DEF OpensNone
  <2> QED
    BY <1>6, <2>1, <2>2 DEF C_OK, C_BPTREE_ITERATOR_END
<1>8. ASSUME NEW j \in rangeIdx + 1 .. Len(ranges), OpensLost(j) PROVE IterInv'
  <2>1. NoIt \in ItType
    BY <1>4 DEF ItType, NoIt
  <2>2. code' = C_STORAGE_KV_NOT_FOUND /\ rangeIdx' = j /\ it' = NoIt /\ j \in 0 .. Len(ranges)
    BY <1>4, <1>8 DEF OpensLost
  <2> QED
    BY <1>6, <2>1, <2>2 DEF C_OK, C_STORAGE_KV_NOT_FOUND
<1>9. ASSUME NEW j \in rangeIdx + 1 .. Len(ranges), NEW i \in DOMAIN disk.leaf,
             NEW k \in Keys \cup {NoKey},
             rangeIdx' = j, code' = C_OK, Loaded(i)',
             it' = [leaf |-> i, cur |-> k, kvEnd |-> FALSE, nodeEnd |-> FALSE],
             IF k = NoKey THEN GapAt(j, i)
             ELSE k \in DOMAIN disk.leaf[i] /\ AboveLower(k, ranges[j])
      PROVE  IterInv'
  <2>1. j \in 0 .. Len(ranges) /\ j > 0
    BY <1>4
  <2>2. i \in 1 .. Len(disk.root)
    BY <1>1 DEF StoreShape
  <2>3. /\ it'.leaf = i /\ it'.cur = k /\ it'.kvEnd = FALSE /\ it'.nodeEnd = FALSE
    BY <1>9
  <2>4. it' \in ItType
    <3>1. i \in 0 .. Len(tree.children)
      BY <1>4, <2>2
    <3>2. ASSUME NEW a \in 0 .. Len(tree.children), NEW b \in Keys \cup {NoKey}, NEW f \in BOOLEAN
          PROVE  [leaf |-> a, cur |-> b, kvEnd |-> f, nodeEnd |-> f] \in ItType
      BY DEF ItType
    <3> QED
      BY <1>9, <3>1, <3>2
  <2>5. IF it'.cur = NoKey THEN GapAt(rangeIdx, it.leaf)'
        ELSE it'.cur \in DOMAIN disk'.leaf[it'.leaf] /\ AboveLower(it'.cur, ranges'[rangeIdx'])
    <3>1. GapAt(j, i) => GapAt(rangeIdx, it.leaf)'
      BY <1>1, <1>9, <2>3 DEF GapAt, AboveLower
    <3> QED
      BY <1>1, <1>9, <2>3, <3>1
  <2>6. Positioned'
    <3>1. Loaded(it.leaf)'
      BY <1>9, <2>3 DEF Loaded
    <3>2. it'.leaf \in 1 .. Len(tree'.children)
      BY <1>4, <2>2, <2>3
    <3>3. rangeIdx' > 0
      BY <1>9, <2>1
    <3> QED
      BY <2>3, <2>5, <3>1, <3>2, <3>3 DEF Positioned, AboveLower
  <2> QED
    BY <1>6, <1>9, <2>1, <2>4, <2>6
<1>10. ASSUME NEW j \in rangeIdx + 1 .. Len(ranges), NEW i, NEW k, OpensAt(j, i, k) PROVE IterInv'
  <2>1. /\ rangeIdx' = j /\ code' = C_OK /\ Loaded(i)' /\ FirstOf(i, k, ranges[j])
        /\ it' = [leaf |-> i, cur |-> k, kvEnd |-> FALSE, nodeEnd |-> FALSE]
    BY <1>10 DEF OpensAt
  <2>2. i \in DOMAIN disk.leaf /\ k \in DOMAIN disk.leaf[i] /\ AboveLower(k, ranges[j])
    BY <2>1 DEF FirstOf
  <2>3. k \in Keys /\ k # NoKey
    BY <1>1, <2>2, KVsElim, KeysAreNumbers DEF StoreShape
  <2> QED
    BY <1>9, <2>1, <2>2, <2>3
<1>11. ASSUME NEW j \in rangeIdx + 1 .. Len(ranges), NEW i, OpensInGap(j, i) PROVE IterInv'
  <2>1. /\ rangeIdx' = j /\ code' = C_OK /\ i \in DOMAIN disk.leaf /\ Loaded(i)' /\ GapAt(j, i)
        /\ it' = [leaf |-> i, cur |-> NoKey, kvEnd |-> FALSE, nodeEnd |-> FALSE]
    BY <1>11 DEF OpensInGap
  <2> QED
    BY <1>9, <2>1
<1> QED
  BY <1>2, <1>7, <1>8, <1>10, <1>11

\* When a range is done, opening the next one accounts for the ranges skipped.
LEMMA OpenScan ==
  ASSUME IterInv, got = ExpectedUpTo(rangeIdx), OpenNextRange,
         UNCHANGED <<disk, ret, ranges, page, busy, got>>
  PROVE  ScanInv'
<1>1. /\ StoreShape /\ TreeShape /\ ranges \in Seq(IndexRange) /\ rangeIdx \in 0 .. Len(ranges)
      /\ disk' = disk /\ ranges' = ranges /\ got' = got
  BY DEF IterInv
<1>2. \/ OpensNone
      \/ \E j \in rangeIdx + 1 .. Len(ranges) :
           OpensLost(j) \/ (\E i, k : OpensAt(j, i, k)) \/ \E i : OpensInGap(j, i)
  BY <1>1, OpenNextRangeFacts
<1>3. Len(ranges) \in Nat /\ rangeIdx \in Nat
  BY <1>1
<1>4. \A j : ExpectedUpTo(j)' = ExpectedUpTo(j)
  BY <1>1, SameExpected
<1>5. StoredKeys' = StoredKeys
  BY <1>1, SameExpected
<1> USE DEF C_OK, C_BPTREE_ITERATOR_END, C_STORAGE_KV_NOT_FOUND, Aborted
<1>6. CASE OpensNone
  <2>1. rangeIdx' = Len(ranges) /\ code' = C_BPTREE_ITERATOR_END
        /\ \A h \in rangeIdx + 1 .. Len(ranges) + 1 - 1 : Expected(ranges[h]) = <<>>
    BY <1>6 DEF OpensNone, NothingBetween
  <2>2. Len(ranges) \in 0 .. Len(ranges) /\ rangeIdx <= Len(ranges) /\ Len(ranges) + 1 - 1 = Len(ranges)
    BY <1>1, <1>3
  <2>3. ExpectedUpTo(Len(ranges)) = ExpectedUpTo(rangeIdx)
    BY <1>1, <2>1, <2>2, EmptyRanges
  <2> QED
    BY <1>1, <1>4, <2>1, <2>3 DEF ScanInv
<1>7. ASSUME NEW j \in rangeIdx + 1 .. Len(ranges), NothingBetween(rangeIdx, j)
      PROVE  got = ExpectedUpTo(j - 1) /\ j > 0 /\ j - 1 \in 0 .. Len(ranges)
  <2>1. j - 1 \in 0 .. Len(ranges) /\ rangeIdx <= j - 1 /\ j > 0
    BY <1>3
  <2>2. \A h \in rangeIdx + 1 .. j - 1 : Expected(ranges[h]) = <<>>
    BY <1>7 DEF NothingBetween
  <2>3. ExpectedUpTo(j - 1) = ExpectedUpTo(rangeIdx)
    BY <1>1, <2>1, <2>2, EmptyRanges
  <2> QED
    BY <2>1, <2>3
<1>8. ASSUME NEW j \in rangeIdx + 1 .. Len(ranges), OpensLost(j) PROVE ScanInv'
  <2>1. code' = C_STORAGE_KV_NOT_FOUND /\ rangeIdx' = j /\ NothingBetween(rangeIdx, j)
    BY <1>8 DEF OpensLost
  <2>2. got = ExpectedUpTo(j - 1) /\ j > 0
    BY <1>7, <2>1
  <2>3. ExpectedUpTo(rangeIdx - 1)' = ExpectedUpTo(j - 1)
    BY <1>4, <2>1
  <2> QED
    BY <1>1, <2>1, <2>2, <2>3 DEF ScanInv
<1>9. ASSUME NEW j \in rangeIdx + 1 .. Len(ranges), NEW i, NEW k,
             OpensAt(j, i, k) \/ (OpensInGap(j, i) /\ k = NoKey)
      PROVE  ScanInv'
  <2>1. /\ rangeIdx' = j /\ code' = C_OK /\ NothingBetween(rangeIdx, j)
        /\ it'.cur = k /\ it'.kvEnd = FALSE /\ it'.nodeEnd = FALSE
        /\ FirstOf(i, k, ranges[j]) \/ k = NoKey
    BY <1>9 DEF OpensAt, OpensInGap
  <2>2. got = ExpectedUpTo(j - 1) /\ j > 0 /\ j - 1 \in 0 .. Len(ranges)
    BY <1>7, <2>1
  <2>3. ExpectedUpTo(rangeIdx - 1)' = ExpectedUpTo(j - 1)
    BY <1>4, <2>1
  <2>4. DoneKeys' = {}
    <3>1. k \in Nat /\ \A x \in StoredKeys : x \in Nat
      <4>1. FirstOf(i, k, ranges[j]) => i \in DOMAIN disk.leaf /\ k \in DOMAIN disk.leaf[i]
        BY DEF FirstOf
      <4>2. k \in Keys \cup {NoKey}
        BY <1>1, <2>1, <4>1, KVsElim DEF StoreShape
      <4> QED
        BY <1>1, <4>2, StoredAreKeys, KeysAreNumbers
    <3>2. \A x \in StoredKeys : InRange(x, ranges[j]) => ~(x < k)
      BY <2>1, <3>1 DEF FirstOf, InRange, AboveLower, NoKey
    <3>3. DoneKeys' = {x \in StoredKeys : InRange(x, ranges[j]) /\ x < k}
      BY <1>1, <1>5, <2>1 DEF DoneKeys, Passed
    <3> QED
      BY <3>2, <3>3
  <2>5. Ascending(DoneKeys)' = <<>>
    BY <2>4, AscendingEmpty DEF Ascending
  <2>6. ExpectedUpTo(j - 1) \o <<>> = ExpectedUpTo(j - 1)
    BY <1>1, <2>2, UpToFacts
  <2> QED
    BY <1>1, <2>1, <2>2, <2>3, <2>5, <2>6 DEF ScanInv
<1> QED
  BY <1>2, <1>6, <1>8, <1>9

-----------------------------------------------------------------------------
(* Steps within a range *)

\* What holds inside the loop of BaseIterator::Next.
LEMMA LoopFacts ==
  ASSUME IterInv, InLoop
  PROVE  /\ StoreShape /\ TreeShape /\ Positioned
         /\ code = C_OK /\ rangeIdx \in 1 .. Len(ranges) /\ rangeIdx > 0
         /\ ranges \in Seq(IndexRange) /\ ranges[rangeIdx] \in IndexRange
         /\ Len(disk.root) \in Nat /\ Len(tree.children) = Len(disk.root)
         /\ it.kvEnd \in BOOLEAN /\ it.nodeEnd \in BOOLEAN
<1>1. /\ StoreShape /\ TreeShape /\ code = C_OK /\ busy /\ ranges \in Seq(IndexRange)
      /\ rangeIdx \in 0 .. Len(ranges) /\ (NotOpened \/ Positioned)
      /\ it.kvEnd \in BOOLEAN /\ it.nodeEnd \in BOOLEAN
  BY DEF IterInv, InLoop
<1>2. Positioned /\ rangeIdx > 0
  BY <1>1 DEF NotOpened, Positioned
<1>3. rangeIdx \in 1 .. Len(ranges)
  BY <1>1, <1>2
<1>4. ranges[rangeIdx] \in IndexRange
  BY <1>1, <1>3
<1> QED
  BY <1>1, <1>2, <1>3, <1>4, ShapeTypes

\* In a gap there is no item.
LEMMA GapFacts ==
  ASSUME IterInv, InLoop, ~it.kvEnd, it.cur = NoKey
  PROVE  GapAt(rangeIdx, it.leaf) /\ ~it.nodeEnd /\ DoneKeys = {}
<1>1. StoreShape /\ TreeShape /\ Positioned
  BY LoopFacts
<1>2. GapAt(rangeIdx, it.leaf) /\ ~it.nodeEnd
  BY <1>1 DEF Positioned
<1>3. ASSUME NEW k \in StoredKeys PROVE ~(k < NoKey)
  <2>1. k \in Nat
    BY <1>1, StoredAreKeys, KeysAreNumbers
  <2> QED
    BY <2>1 DEF NoKey
<1> QED
  BY <1>2, <1>3 DEF DoneKeys, Passed

\* The item the iterator is at.
LEMMA ItemFacts ==
  ASSUME IterInv, InLoop, ~it.kvEnd, it.cur # NoKey
  PROVE  /\ it.leaf \in 1 .. Len(disk.root) /\ it.leaf \in DOMAIN disk.leaf
         /\ ~it.nodeEnd
         /\ tree.children[it.leaf].kvs = disk.leaf[it.leaf]
         /\ it.cur \in DOMAIN disk.leaf[it.leaf] /\ it.cur \in Keys /\ it.cur \in StoredKeys
         /\ DOMAIN disk.leaf[it.leaf] \in SUBSET Keys
         /\ AboveLower(it.cur, ranges[rangeIdx])
<1>1. /\ StoreShape /\ TreeShape /\ Positioned /\ Len(tree.children) = Len(disk.root)
  BY LoopFacts
<1>2. /\ ~it.nodeEnd /\ it.leaf \in 1 .. Len(disk.root) /\ Loaded(it.leaf)
      /\ it.cur \in DOMAIN disk.leaf[it.leaf] /\ AboveLower(it.cur, ranges[rangeIdx])
  BY <1>1 DEF Positioned
<1>3. it.leaf \in DOMAIN disk.leaf /\ tree.children[it.leaf].kvs = disk.leaf[it.leaf]
  BY <1>2 DEF Loaded
<1>4. DOMAIN disk.leaf[it.leaf] \in SUBSET Keys
  BY <1>1, <1>3, KVsElim DEF StoreShape
<1> QED
  BY <1>2, <1>3, <1>4 DEF StoredKeys

\* The items after the current one in its leaf.
LaterKeys == {k \in DOMAIN disk.leaf[it.leaf] : k > it.cur}

\* What the turn at an item does.
LEMMA EmitFacts ==
  ASSUME IterInv, Emit, it.cur # NoKey
  PROVE  /\ InLoop /\ ~it.kvEnd
         /\ ~ReachRangeBound(ranges[rangeIdx])
         /\ page' = Append(page, it.cur) /\ got' = Append(got, it.cur)
         /\ UNCHANGED <<tree, disk, ret, ranges, rangeIdx, busy, code>>
         /\ it'.leaf = it.leaf /\ it'.nodeEnd = it.nodeEnd
         /\ it' \in [leaf : 0 .. Len(tree.children), cur : Keys \cup {NoKey},
                     kvEnd : BOOLEAN, nodeEnd : BOOLEAN]
         /\ IF LaterKeys = {} THEN it'.kvEnd /\ it'.cur = NoKey
            ELSE /\ ~it'.kvEnd /\ it'.cur \in LaterKeys
                 /\ \A k \in LaterKeys : it'.cur <= k
<1>1. InLoop /\ ~it.kvEnd
  BY DEF Emit
<1>2. it.cur \in Keys
  BY <1>1, ItemFacts
<1>3. /\ ~ReachRangeBound(ranges[rangeIdx])
      /\ page' = Append(page, it.cur) /\ got' = Append(got, it.cur)
      /\ it' = NextKV(tree.children[it.leaf])
      /\ UNCHANGED <<tree, disk, ret, ranges, rangeIdx, busy, code>>
  BY <1>2 DEF Emit
<1>4. it \in [leaf : 0 .. Len(tree.children), cur : Keys \cup {NoKey},
              kvEnd : BOOLEAN, nodeEnd : BOOLEAN]
  BY DEF IterInv
<1>5. it' = [it EXCEPT !.cur = IF LaterKeys = {} THEN NoKey ELSE Min(LaterKeys),
                       !.kvEnd = (LaterKeys = {})]
  BY <1>1, <1>3, ItemFacts DEF NextKV, LaterKeys
<1>6. LaterKeys \in SUBSET Keys
  BY <1>1, ItemFacts DEF LaterKeys
<1>7. LaterKeys # {} => Min(LaterKeys) \in LaterKeys /\ \A k \in LaterKeys : Min(LaterKeys) <= k
  BY <1>6, MinKey
<1>8. PICK b : b = (LaterKeys = {})
  OBVIOUS
<1>9. PICK c : c = IF LaterKeys = {} THEN NoKey ELSE Min(LaterKeys)
  OBVIOUS
<1>10. c \in Keys \cup {NoKey} /\ b \in BOOLEAN /\ it' = [it EXCEPT !.cur = c, !.kvEnd = b]
  BY <1>5, <1>6, <1>7, <1>8, <1>9
<1>11. /\ it'.leaf = it.leaf /\ it'.nodeEnd = it.nodeEnd /\ it'.cur = c /\ it'.kvEnd = b
       /\ it' \in [leaf : 0 .. Len(tree.children), cur : Keys \cup {NoKey},
                   kvEnd : BOOLEAN, nodeEnd : BOOLEAN]
  BY <1>4, <1>10
<1> QED
  BY <1>1, <1>2, <1>3, <1>7, <1>8, <1>9, <1>11

\* A turn at an item keeps the iterator at an item or at the end of its leaf.
LEMMA EmitInv ==
  ASSUME IterInv, Emit, it.cur # NoKey
  PROVE  IterInv'
<1>1. InLoop /\ ~it.kvEnd
  BY EmitFacts
<1>2. /\ StoreShape /\ TreeShape /\ code = C_OK /\ ranges[rangeIdx] \in IndexRange
      /\ rangeIdx > 0 /\ Len(tree.children) = Len(disk.root)
  BY <1>1, LoopFacts
<1>3. /\ it.leaf \in 1 .. Len(disk.root) /\ it.leaf \in DOMAIN disk.leaf /\ ~it.nodeEnd
      /\ tree.children[it.leaf].kvs = disk.leaf[it.leaf]
      /\ it.cur \in DOMAIN disk.leaf[it.leaf] /\ it.cur \in Keys
      /\ DOMAIN disk.leaf[it.leaf] \in SUBSET Keys
      /\ AboveLower(it.cur, ranges[rangeIdx])
  BY <1>1, ItemFacts
<1>4. /\ page' = Append(page, it.cur) /\ got' = Append(got, it.cur)
      /\ UNCHANGED <<tree, disk, ret, ranges, rangeIdx, busy, code>>
      /\ it'.leaf = it.leaf /\ it'.nodeEnd = it.nodeEnd
      /\ it' \in [leaf : 0 .. Len(tree.children), cur : Keys \cup {NoKey},
                  kvEnd : BOOLEAN, nodeEnd : BOOLEAN]
      /\ IF LaterKeys = {} THEN it'.kvEnd /\ it'.cur = NoKey
         ELSE ~it'.kvEnd /\ it'.cur \in LaterKeys
  BY EmitFacts
<1>5. page' \in Seq(Keys) /\ Len(page') <= PageSize /\ got' \in Seq(Keys)
  <2>1. page \in Seq(Keys) /\ got \in Seq(Keys) /\ Len(page) < PageSize /\ PageSize \in Nat
    BY <1>1, IteratorAssumption DEF IterInv, InLoop
  <2> QED
    BY <1>3, <1>4, <2>1
<1>6. \A k \in DOMAIN disk.leaf[it.leaf] : k \in Nat
  BY <1>3, KeysAreNumbers
<1>7. LaterKeys = {} => AboveLower(tree.children[it.leaf].max, ranges[rangeIdx])
  <2>1. tree.children[it.leaf].max = disk.root[it.leaf].max
    BY <1>2, <1>3, LeafShape
  <2>2. disk.root[it.leaf].max \in Nat /\ it.cur <= disk.root[it.leaf].max
    BY <1>2, <1>3, KeysAreNumbers DEF StoreShape
  <2> QED
    BY <1>2, <1>3, <1>6, <2>1, <2>2, AboveGrows
<1>8. ASSUME NEW k \in LaterKeys
      PROVE  k \in DOMAIN disk.leaf[it.leaf] /\ AboveLower(k, ranges[rangeIdx])
  <2>1. k \in DOMAIN disk.leaf[it.leaf] /\ k > it.cur
    BY DEF LaterKeys
  <2> QED
    BY <1>2, <1>3, <1>6, <2>1, AboveGrows
<1>9. Positioned'
  <2>1. Loaded(it.leaf)'
    BY <1>3, <1>4 DEF Loaded
  <2>2. ~it'.kvEnd => /\ it'.cur # NoKey
                      /\ it'.cur \in DOMAIN disk'.leaf[it'.leaf] /\ AboveLower(it'.cur, ranges'[rangeIdx'])
    BY <1>3, <1>4, <1>8, KeysAreNumbers
  <2>3. it'.kvEnd => AboveLower(tree'.children[it'.leaf].max, ranges'[rangeIdx'])
    BY <1>4, <1>7
  <2>4. /\ rangeIdx' > 0 /\ ~it'.nodeEnd
        /\ it'.leaf \in 1 .. Len(tree'.children)
    BY <1>2, <1>3, <1>4
  <2> QED
    BY <2>1, <2>2, <2>3, <2>4 DEF Positioned, AboveLower
<1>10. TreeShape' /\ StoreShape'
  BY <1>2, <1>4 DEF TreeShape, StoreShape, Loaded
<1> QED
  BY <1>2, <1>4, <1>5, <1>9, <1>10 DEF IterInv, C_OK, Aborted

\* In a gap the turn fails the assertion of reachRangeBound, having returned nothing
\* of the range.
LEMMA GapTurn ==
  ASSUME IterInv, Emit, it.cur = NoKey
  PROVE  IterInv' /\ (ScanInv => ScanInv')
<1>1. /\ InLoop /\ ~it.kvEnd /\ code' = Aborted
      /\ UNCHANGED <<tree, disk, ret, ranges, rangeIdx, it, page, busy, got>>
  BY DEF Emit
<1>2. /\ StoreShape /\ TreeShape /\ Positioned /\ code = C_OK /\ rangeIdx \in 1 .. Len(ranges)
      /\ rangeIdx > 0 /\ ranges \in Seq(IndexRange) /\ DoneKeys = {}
  BY <1>1, LoopFacts, GapFacts
<1>3. IterInv'
  <2>1. Positioned'
    BY <1>1, <1>2 DEF Positioned, Loaded, GapAt, AboveLower
  <2>2. TreeShape' /\ StoreShape'
    BY <1>1, <1>2 DEF TreeShape, StoreShape, Loaded
  <2> QED
    BY <1>1, <2>1, <2>2 DEF IterInv, C_OK, Aborted
<1>4. ASSUME ScanInv PROVE ScanInv'
  <2>1. got = ExpectedUpTo(rangeIdx - 1) \o Ascending({})
    BY <1>2, <1>4 DEF ScanInv
  <2>2. rangeIdx - 1 \in 0 .. Len(ranges)
    BY <1>2
  <2>3. PICK U : U = ExpectedUpTo(rangeIdx - 1)
    OBVIOUS
  <2>4. U \in Seq(Keys)
    BY <1>2, <2>2, <2>3, UpToFacts
  <2>5. U \o <<>> = U
    BY <2>4
  <2>6. got' = ExpectedUpTo(rangeIdx - 1)' /\ rangeIdx' > 0
    BY <1>1, <1>2, <2>1, <2>3, <2>5, AscendingEmpty, SameExpected
  <2> QED
    BY <1>1, <2>6 DEF ScanInv, C_OK, C_BPTREE_ITERATOR_END, C_STORAGE_KV_NOT_FOUND, Aborted
<1> QED
  BY <1>3, <1>4

\* An element appended to the second of two sequences.
LEMMA AppendOfConcat ==
  ASSUME NEW U \in Seq(Keys), NEW A \in Seq(Keys), NEW c \in Keys
  PROVE  Append(U \o A, c) = U \o Append(A, c)
<1>1. U \o A \in Seq(Keys) /\ <<c>> \in Seq(Keys)
  OBVIOUS
<1>2. Append(U \o A, c) = (U \o A) \o <<c>> /\ Append(A, c) = A \o <<c>>
  BY <1>1, AppendIsConcat
<1>3. (U \o A) \o <<c>> = U \o (A \o <<c>>)
  BY <1>1, ConcatAssociative
<1> QED
  BY <1>2, <1>3

\* The key returned is the next of its range.
LEMMA EmitScan ==
  ASSUME IterInv, ScanInv, Emit, it.cur # NoKey,
         HalfOpenRanges
  PROVE  ScanInv'
<1>1. InLoop /\ ~it.kvEnd
  BY EmitFacts
<1>2. /\ StoreShape /\ TreeShape /\ code = C_OK /\ ranges[rangeIdx] \in IndexRange
      /\ ranges \in Seq(IndexRange)
      /\ rangeIdx > 0 /\ rangeIdx \in 1 .. Len(ranges) /\ Len(disk.root) \in Nat
  BY <1>1, LoopFacts
<1>3. /\ it.leaf \in 1 .. Len(disk.root) /\ it.leaf \in DOMAIN disk.leaf /\ ~it.nodeEnd
      /\ it.cur \in DOMAIN disk.leaf[it.leaf] /\ it.cur \in Keys /\ it.cur \in StoredKeys
      /\ DOMAIN disk.leaf[it.leaf] \in SUBSET Keys
      /\ AboveLower(it.cur, ranges[rangeIdx])
  BY <1>1, ItemFacts
<1>4. /\ got' = Append(got, it.cur)
      /\ UNCHANGED <<tree, disk, ret, ranges, rangeIdx, busy, code>>
      /\ it'.leaf = it.leaf /\ it'.nodeEnd = it.nodeEnd
      /\ IF LaterKeys = {} THEN it'.kvEnd
         ELSE /\ ~it'.kvEnd /\ it'.cur \in LaterKeys
              /\ \A k \in LaterKeys : it'.cur <= k
      /\ ~ReachRangeBound(ranges[rangeIdx])
  BY EmitFacts
<1>5. PICK r, key : r = ranges[rangeIdx] /\ key = it.cur
  OBVIOUS
<1>6. InRange(key, r)
  <2>1. /\ r.upper \in Nat /\ r.lowerOpen \in BOOLEAN /\ r.upperOpen \in BOOLEAN
    BY <1>2, <1>5, KeysAreNumbers DEF IndexRange, Bounds
  <2>2. r.lowerOpen <=> ~r.upperOpen
    BY <1>2, <1>5 DEF HalfOpenRanges
  <2>3. key \in Nat
    BY <1>3, <1>5, KeysAreNumbers
  <2>4. ~(IF r.lowerOpen THEN key > r.upper ELSE key >= r.upper)
    BY <1>4, <1>5 DEF ReachRangeBound
  <2>5. AboveLower(key, r)
    BY <1>3, <1>5
  <2> QED
    BY <2>1, <2>2, <2>3, <2>4, <2>5 DEF InRange, AboveLower
<1>7. /\ \A x \in StoredKeys : x \in Nat
      /\ key \in Nat
      /\ \A x \in DOMAIN disk.leaf[it.leaf] : x \in Nat /\ x \in StoredKeys
  BY <1>2, <1>3, <1>5, StoredAreKeys, KeysAreNumbers DEF StoredKeys
<1>8. ASSUME NEW x \in StoredKeys
      PROVE  Passed(x)' <=> (x < key \/ x = key)
  <2>1. PICK a \in DOMAIN disk.leaf :
          /\ a \in 1 .. Len(disk.root) /\ x \in DOMAIN disk.leaf[a]
          /\ \A b \in 1 .. Len(disk.root) :
               /\ x <= disk.root[b].max <=> a <= b
               /\ x >= disk.root[b].min <=> a >= b
    BY <1>2, StoredKeyFacts
  <2>2. /\ disk.root[it.leaf].min \in Nat /\ disk.root[it.leaf].max \in Nat
        /\ disk.root[it.leaf].min <= key /\ key <= disk.root[it.leaf].max
        /\ tree.children[it.leaf].max = disk.root[it.leaf].max
    <3>1. /\ disk.root[it.leaf].min \in Keys /\ disk.root[it.leaf].max \in Keys
          /\ disk.root[it.leaf].min <= key /\ key <= disk.root[it.leaf].max
      BY <1>2, <1>3, <1>5 DEF StoreShape
    <3>2. tree.children[it.leaf].max = disk.root[it.leaf].max
      BY <1>2, <1>3, LeafShape
    <3> QED
      BY <3>1, <3>2, KeysAreNumbers
  <2>3. a < it.leaf => x < key
    BY <1>2, <1>3, <1>7, <2>1, <2>2
  <2>4. a = it.leaf /\ x > key => x \in LaterKeys
    BY <1>5, <2>1 DEF LaterKeys
  <2>5. \A k \in LaterKeys : k > key /\ k \in Nat /\ k <= disk.root[it.leaf].max
    BY <1>2, <1>3, <1>5, <1>7 DEF LaterKeys, StoreShape
  <2>6. CASE LaterKeys = {}
    <3>1. Passed(x)' <=> x <= disk.root[it.leaf].max
      BY <1>3, <1>4, <2>2, <2>6 DEF Passed
    <3>2. x <= disk.root[it.leaf].max <=> a <= it.leaf
      BY <1>3, <2>1
    <3>3. x > key => a >= it.leaf
      BY <1>2, <1>3, <1>7, <2>1, <2>2
    <3> QED
      BY <1>2, <1>3, <1>7, <2>1, <2>2, <2>3, <2>4, <2>6, <3>1, <3>2, <3>3
  <2>7. CASE LaterKeys # {}
    <3>1. PICK c : c = it'.cur
      OBVIOUS
    <3>2. c \in LaterKeys /\ \A k \in LaterKeys : c <= k
      BY <1>4, <2>7, <3>1
    <3>3. Passed(x)' <=> x < c
      BY <1>3, <1>4, <2>7, <3>1 DEF Passed
    <3>4. c > key /\ c \in Nat /\ c <= disk.root[it.leaf].max
      BY <2>5, <3>2
    <3>5. a > it.leaf => ~(x <= disk.root[it.leaf].max)
      BY <1>2, <1>3, <2>1
    <3>6. x < c => ~(x > key)
      <4> SUFFICES ASSUME x < c, x > key PROVE FALSE
        OBVIOUS
      <4>1. ~(a > it.leaf)
        BY <1>7, <2>2, <3>4, <3>5
      <4>2. a = it.leaf
        BY <1>2, <1>3, <1>7, <2>1, <2>3, <4>1
      <4>3. x \in LaterKeys
        BY <2>4, <4>2
      <4> QED
        BY <1>7, <3>2, <3>4, <4>3
    <3> QED
      BY <1>7, <3>3, <3>4, <3>6
  <2> QED
    BY <2>6, <2>7
<1>9. DoneKeys' = DoneKeys \cup {key}
  <2>1. DoneKeys = {x \in StoredKeys : InRange(x, r) /\ x < key}
    BY <1>1, <1>3, <1>5 DEF DoneKeys, Passed
  <2>2. DoneKeys' = {x \in StoredKeys : InRange(x, r) /\ Passed(x)'}
    BY <1>4, <1>5, SameExpected DEF DoneKeys
  <2>3. DoneKeys' = {x \in StoredKeys : InRange(x, r) /\ (x < key \/ x = key)}
    BY <1>8, <2>2
  <2> QED
    BY <1>3, <1>5, <1>6, <2>1, <2>3
<1>10. PICK D : D = DoneKeys
  OBVIOUS
<1>11. D \in SUBSET Keys /\ \A x \in D : x < key
  <2>1. D \in SUBSET Keys
    BY <1>2, <1>10, StoredAreKeys DEF DoneKeys
  <2>2. \A x \in D : x < key
    BY <1>1, <1>3, <1>5, <1>10 DEF DoneKeys, Passed
  <2> QED
    BY <2>1, <2>2
<1>12. Ascending(D \cup {key}) = Append(Ascending(D), key) /\ Ascending(D) \in Seq(Keys)
  BY <1>3, <1>5, <1>11, AscendingAppend, AscendingType
<1>13. PICK U : U = ExpectedUpTo(rangeIdx - 1)
  OBVIOUS
<1>14. U \in Seq(Keys)
  <2>1. rangeIdx - 1 \in 0 .. Len(ranges)
    BY <1>2
  <2> QED
    BY <1>2, <1>13, <2>1, UpToFacts
<1>15. got = U \o Ascending(D)
  BY <1>2, <1>10, <1>13 DEF ScanInv
<1>16. Append(U \o Ascending(D), key) = U \o Append(Ascending(D), key)
  BY <1>3, <1>5, <1>12, <1>14, AppendOfConcat
<1>17. got' = U \o Ascending(D \cup {key})
  BY <1>4, <1>5, <1>12, <1>15, <1>16
<1>18. ExpectedUpTo(rangeIdx - 1)' = U
  BY <1>4, <1>13, SameExpected
<1>19. Ascending(DoneKeys)' = Ascending(D \cup {key})
  BY <1>9, <1>10 DEF Ascending
<1>20. code' = C_OK /\ got' = ExpectedUpTo(rangeIdx - 1)' \o Ascending(DoneKeys)' /\ rangeIdx' > 0
  BY <1>2, <1>4, <1>17, <1>18, <1>19
<1> QED
  BY <1>20 DEF ScanInv, C_OK, C_BPTREE_ITERATOR_END, C_STORAGE_KV_NOT_FOUND, Aborted

\* FindChild(cur_node_) finds the current leaf.
LEMMA LeafIsFound ==
  ASSUME StoreShape, TreeShape, NEW i \in 1 .. Len(disk.root),
         NEW found \in MaxKeyLowerBound(tree.children, tree.children[i].max)
  PROVE  found = i
<1>1. PICK n, c : n = Len(disk.root) /\ c = tree.children
  OBVIOUS
<1>2. /\ n \in Nat /\ Len(c) = n /\ i \in 1 .. n /\ \A j \in 1 .. n : c[j].max \in Nat
      /\ \A j, k \in 1 .. n : j < k => c[j].max < c[k].max
  BY <1>1, ShapeTypes, LeavesSorted
<1>3. SortedByMax(c)
  BY <1>2 DEF SortedByMax
<1>4. /\ found \in 1 .. n + 1
      /\ \A j \in 1 .. found - 1 : c[j].max < c[i].max
      /\ found <= n => c[found].max >= c[i].max
  BY <1>1, <1>2, <1>3 DEF MaxKeyLowerBound
<1>5. ~(found < i)
  <2> SUFFICES ASSUME found < i PROVE FALSE
    OBVIOUS
  <2>1. found \in 1 .. n /\ found <= n
    BY <1>2, <1>4
  <2> QED
    BY <1>2, <1>4, <2>1
<1>6. ~(found > i)
  <2> SUFFICES ASSUME found > i PROVE FALSE
    OBVIOUS
  <2>1. i \in 1 .. found - 1
    BY <1>2, <1>4
  <2> QED
    BY <1>2, <1>4, <2>1
<1> QED
  BY <1>2, <1>4, <1>5, <1>6

\* The three ways past the end of a leaf: no leaf of the range follows,
LeavesEnd(i) ==
  /\ tree' = tree
  /\ it' = [it EXCEPT !.leaf = 0, !.nodeEnd = TRUE]
  /\ i > Len(disk.root) \/ PastRange(tree.children[i], ranges[rangeIdx])

\* the next one has no record,
LeafIsLost(i) ==
  /\ i \in 1 .. Len(disk.root) /\ i \notin DOMAIN disk.leaf
  /\ it' = [it EXCEPT !.leaf = i]

\* or it is loaded, and the iterator is at its first item.
LeafIsLoaded(i) ==
  /\ i \in 1 .. Len(disk.root) /\ i \in DOMAIN disk.leaf
  /\ Loaded(i)'
  /\ \E k \in DOMAIN disk.leaf[i] :
       /\ \A x \in DOMAIN disk.leaf[i] : k <= x
       /\ it' = [it EXCEPT !.leaf = i, !.kvEnd = FALSE, !.cur = k]

\* What nextLeafNode does: its assertion holds.
LEMMA NextLeafFacts ==
  ASSUME IterInv, NextLeaf, NEW i, i = it.leaf + 1
  PROVE  /\ InLoop /\ it.kvEnd /\ ~it.nodeEnd /\ it.leaf \in 1 .. Len(disk.root)
         /\ AboveLower(tree.children[it.leaf].max, ranges[rangeIdx])
         /\ UNCHANGED <<disk, ret, ranges, rangeIdx, page, busy, got, code>>
         /\ TreeShape'
         /\ LeavesEnd(i) \/ LeafIsLost(i) \/ LeafIsLoaded(i)
<1>1. InLoop /\ it.kvEnd /\ ~it.nodeEnd
  BY DEF NextLeaf
<1>2. /\ StoreShape /\ TreeShape /\ Positioned /\ code = C_OK
      /\ Len(disk.root) \in Nat /\ Len(tree.children) = Len(disk.root)
  BY <1>1, LoopFacts
<1>3. /\ it.leaf \in 1 .. Len(disk.root)
      /\ AboveLower(tree.children[it.leaf].max, ranges[rangeIdx])
  BY <1>1, <1>2 DEF Positioned
<1>4. UNCHANGED <<disk, ret, ranges, rangeIdx, page, busy, got>>
  BY DEF NextLeaf
<1>5. PICK u : u = LoadChild(tree, i, disk.leaf)
  OBVIOUS
<1>6. PICK found \in MaxKeyLowerBound(tree.children, tree.children[it.leaf].max) :
        CASE found # it.leaf ->
               code' = Aborted /\ UNCHANGED <<tree, it>>
          [] found = it.leaf /\ (i > Len(tree.children) \/ PastRange(tree.children[i], ranges[rangeIdx])) ->
               it' = [it EXCEPT !.leaf = 0, !.nodeEnd = TRUE] /\ UNCHANGED <<tree, code>>
          [] OTHER ->
               /\ tree' = u
               /\ it' = IF LoadStatus(tree.children[i], disk.leaf) # C_OK
                        THEN [it EXCEPT !.leaf = i]
                        ELSE [it EXCEPT !.leaf = i, !.kvEnd = FALSE,
                                !.cur = IF DOMAIN u.children[i].kvs = {} THEN NoKey
                                        ELSE Min(DOMAIN u.children[i].kvs)]
               /\ UNCHANGED code
  BY <1>5 DEF NextLeaf
<1>7. found = it.leaf
  BY <1>2, <1>3, <1>6, LeafIsFound
<1>8. CASE i > Len(tree.children) \/ PastRange(tree.children[i], ranges[rangeIdx])
  <2>1. it' = [it EXCEPT !.leaf = 0, !.nodeEnd = TRUE] /\ UNCHANGED <<tree, code>>
    BY <1>6, <1>7, <1>8
  <2>2. LeavesEnd(i)
    BY <1>2, <1>8, <2>1 DEF LeavesEnd
  <2>3. TreeShape'
    BY <1>2, <1>4, <2>1 DEF TreeShape, Loaded
  <2> QED
    BY <1>1, <1>3, <1>4, <2>1, <2>2, <2>3
<1>9. CASE ~(i > Len(tree.children) \/ PastRange(tree.children[i], ranges[rangeIdx]))
  <2>1. /\ tree' = u
        /\ it' = IF LoadStatus(tree.children[i], disk.leaf) # C_OK
                 THEN [it EXCEPT !.leaf = i]
                 ELSE [it EXCEPT !.leaf = i, !.kvEnd = FALSE,
                         !.cur = IF DOMAIN u.children[i].kvs = {} THEN NoKey
                                 ELSE Min(DOMAIN u.children[i].kvs)]
        /\ code' = code
    BY <1>6, <1>7, <1>9
  <2>2. i \in 1 .. Len(disk.root)
    BY <1>2, <1>3, <1>9
  <2>3. TreeShape' /\ (i \in DOMAIN disk.leaf => Loaded(i)')
    BY <1>2, <1>4, <1>5, <2>1, <2>2, LoadStep
  <2>4. LoadStatus(tree.children[i], disk.leaf) # C_OK <=> i \notin DOMAIN disk.leaf
    BY <1>2, <2>2, LeafShape DEF LoadStatus, C_OK, C_STORAGE_KV_NOT_FOUND
  <2>5. CASE i \notin DOMAIN disk.leaf
    <3>1. LeafIsLost(i)
      BY <2>1, <2>2, <2>4, <2>5 DEF LeafIsLost
    <3> QED
      BY <1>1, <1>3, <1>4, <2>1, <2>3, <3>1
  <2>6. CASE i \in DOMAIN disk.leaf
    <3>1. PICK S : S = DOMAIN disk.leaf[i]
      OBVIOUS
    <3>2. u.children[i].kvs = disk.leaf[i]
      BY <1>4, <2>1, <2>3, <2>6 DEF Loaded
    <3>3. S # {} /\ S \in SUBSET Keys
      BY <1>2, <2>6, <3>1, KVsElim DEF StoreShape
    <3>4. Min(S) \in S /\ \A y \in S : Min(S) <= y
      BY <3>3, MinKey
    <3>5. it' = [it EXCEPT !.leaf = i, !.kvEnd = FALSE, !.cur = Min(S)]
      BY <2>1, <2>4, <2>6, <3>1, <3>2, <3>3
    <3>6. LeafIsLoaded(i)
      BY <2>2, <2>3, <2>6, <3>1, <3>4, <3>5 DEF LeafIsLoaded
    <3> QED
      BY <1>1, <1>3, <1>4, <2>1, <2>3, <3>6
  <2> QED
    BY <2>5, <2>6
<1> QED
  BY <1>8, <1>9

\* Going to the next leaf keeps the iterator at an item or at the end of a leaf.
LEMMA NextLeafInv ==
  ASSUME IterInv, NextLeaf
  PROVE  IterInv'
<1>1. PICK i : i = it.leaf + 1
  OBVIOUS
<1>2. /\ InLoop /\ it.kvEnd /\ ~it.nodeEnd /\ it.leaf \in 1 .. Len(disk.root)
      /\ AboveLower(tree.children[it.leaf].max, ranges[rangeIdx])
      /\ UNCHANGED <<disk, ret, ranges, rangeIdx, page, busy, got, code>>
      /\ TreeShape'
      /\ LeavesEnd(i) \/ LeafIsLost(i) \/ LeafIsLoaded(i)
  BY <1>1, NextLeafFacts
<1>3. /\ StoreShape /\ TreeShape /\ code = C_OK /\ rangeIdx > 0
      /\ ranges[rangeIdx] \in IndexRange
      /\ Len(disk.root) \in Nat /\ Len(tree.children) = Len(disk.root)
      /\ Len(tree'.children) = Len(disk.root)
  BY <1>2, LoopFacts DEF TreeShape
<1>4. StoreShape'
  BY <1>2, <1>3, SameExpected
<1> DEFINE ItType == [leaf : 0 .. Len(tree.children), cur : Keys \cup {NoKey},
                      kvEnd : BOOLEAN, nodeEnd : BOOLEAN]
<1>5. it \in ItType /\ ItType' = ItType
  BY <1>3 DEF IterInv
<1>6. ASSUME it' \in ItType, Positioned' PROVE IterInv'
  BY <1>2, <1>3, <1>4, <1>5, <1>6 DEF IterInv, C_OK, Aborted
<1>7. CASE LeavesEnd(i)
  <2>1. it' = [it EXCEPT !.leaf = 0, !.nodeEnd = TRUE] /\ tree' = tree
    BY <1>7 DEF LeavesEnd
  <2>2. /\ it' \in ItType /\ it'.nodeEnd = TRUE /\ it'.kvEnd = it.kvEnd
    <3>1. PICK b \in BOOLEAN : b = TRUE
      OBVIOUS
    <3>2. PICK z : z = 0
      OBVIOUS
    <3>3. it' = [it EXCEPT !.leaf = z, !.nodeEnd = b]
      BY <2>1, <3>1, <3>2, Zenon
    <3>4. z \in 0 .. Len(tree.children)
      BY <1>3, <3>2
    <3> HIDE DEF ItType
    <3>5. it' \in ItType /\ it'.nodeEnd = b /\ it'.kvEnd = it.kvEnd
      BY <1>5, <3>1, <3>3, <3>4, Zenon DEF ItType
    <3> QED
      BY <3>1, <3>5, Zenon
  <2>3. Positioned'
    BY <1>2, <1>3, <2>2 DEF Positioned
  <2> QED
    BY <1>6, <2>2, <2>3
<1>8. ASSUME i \in 1 .. Len(disk.root)
      PROVE  /\ disk.root[i].min \in Keys /\ disk.root[i].max \in Keys
             /\ AboveLower(disk.root[i].min, ranges[rangeIdx])
             /\ AboveLower(disk.root[i].max, ranges[rangeIdx])
  <2>1. /\ disk.root[i].min \in Keys /\ disk.root[i].max \in Keys
        /\ disk.root[it.leaf].max \in Keys /\ disk.root[i].min <= disk.root[i].max
        /\ disk.root[it.leaf].max < disk.root[i].min
    <3>1. it.leaf < i
      BY <1>1, <1>2, <1>3
    <3> QED
      BY <1>2, <1>3, <1>8, <3>1 DEF StoreShape
  <2>2. disk.root[i].min \in Nat /\ disk.root[i].max \in Nat /\ disk.root[it.leaf].max \in Nat
    BY <2>1, KeysAreNumbers
  <2>3. AboveLower(disk.root[it.leaf].max, ranges[rangeIdx])
    BY <1>2, <1>3, LeafShape
  <2>4. disk.root[it.leaf].max <= disk.root[i].min /\ disk.root[it.leaf].max <= disk.root[i].max
    BY <2>1, <2>2
  <2> QED
    BY <1>3, <2>1, <2>2, <2>3, <2>4, AboveGrows
<1>9. CASE LeafIsLost(i)
  <2>1. it' = [it EXCEPT !.leaf = i] /\ i \in 1 .. Len(disk.root)
    BY <1>9 DEF LeafIsLost
  <2>2. i \in 0 .. Len(tree.children)
    BY <1>3, <2>1
  <2>3. /\ it' \in ItType /\ it'.leaf = i /\ it'.nodeEnd = it.nodeEnd /\ it'.kvEnd = it.kvEnd
    BY <1>5, <2>1, <2>2
  <2>4. tree'.children[i].max = disk.root[i].max
    BY <1>2, <2>1 DEF TreeShape
  <2>5. AboveLower(tree'.children[it'.leaf].max, ranges'[rangeIdx'])
    BY <1>2, <1>8, <2>1, <2>3, <2>4
  <2>6. Positioned'
    BY <1>2, <1>3, <2>1, <2>3, <2>5 DEF Positioned, AboveLower
  <2> QED
    BY <1>6, <2>3, <2>6
<1>10. CASE LeafIsLoaded(i)
  <2>1. PICK k \in DOMAIN disk.leaf[i] :
          /\ it' = [it EXCEPT !.leaf = i, !.kvEnd = FALSE, !.cur = k]
          /\ i \in 1 .. Len(disk.root) /\ i \in DOMAIN disk.leaf /\ Loaded(i)'
    BY <1>10 DEF LeafIsLoaded
  <2>2. /\ i \in 0 .. Len(tree.children) /\ k \in Keys /\ k # NoKey /\ k \in Nat
        /\ disk.root[i].min <= k /\ disk.root[i].min \in Nat
    BY <1>3, <1>8, <2>1, KVsElim, KeysAreNumbers DEF StoreShape
  <2>3. /\ it' \in ItType /\ it'.leaf = i /\ it'.nodeEnd = it.nodeEnd /\ it'.kvEnd = FALSE
        /\ it'.cur = k
    BY <1>5, <2>1, <2>2
  <2>4. AboveLower(it'.cur, ranges'[rangeIdx'])
    <3>1. AboveLower(k, ranges[rangeIdx])
      BY <1>3, <1>8, <2>1, <2>2, AboveGrows
    <3> QED
      BY <1>2, <2>3, <3>1
  <2>5. it'.cur # NoKey /\ it'.cur \in DOMAIN disk'.leaf[it'.leaf]
    BY <1>2, <2>1, <2>2, <2>3
  <2>6. Loaded(it.leaf)'
    BY <2>1, <2>3 DEF Loaded
  <2>7. Positioned'
    BY <1>2, <1>3, <2>1, <2>3, <2>4, <2>5, <2>6 DEF Positioned, AboveLower
  <2> QED
    BY <1>6, <2>3, <2>7
<1> QED
  BY <1>2, <1>7, <1>9, <1>10

\* Nothing of the range is passed over on the way to the next leaf.
LEMMA NextLeafScan ==
  ASSUME IterInv, ScanInv, NextLeaf
  PROVE  ScanInv'
<1>1. PICK i : i = it.leaf + 1
  OBVIOUS
<1>2. /\ InLoop /\ it.kvEnd /\ ~it.nodeEnd /\ it.leaf \in 1 .. Len(disk.root)
      /\ UNCHANGED <<disk, ret, ranges, rangeIdx, page, busy, got, code>>
      /\ TreeShape'
      /\ LeavesEnd(i) \/ LeafIsLost(i) \/ LeafIsLoaded(i)
  BY <1>1, NextLeafFacts
<1>3. /\ StoreShape /\ TreeShape /\ code = C_OK /\ rangeIdx > 0
      /\ ranges[rangeIdx] \in IndexRange /\ Len(disk.root) \in Nat
      /\ Len(tree.children) = Len(disk.root)
      /\ it \in [leaf : 0 .. Len(tree.children), cur : Keys \cup {NoKey},
                 kvEnd : BOOLEAN, nodeEnd : BOOLEAN]
  BY <1>2, LoopFacts DEF IterInv
<1>4. PICK r : r = ranges[rangeIdx]
  OBVIOUS
<1>5. ASSUME NEW x \in StoredKeys, InRange(x, r) PROVE Passed(x)' <=> Passed(x)
  <2>1. PICK a \in DOMAIN disk.leaf :
          /\ a \in 1 .. Len(disk.root) /\ x \in DOMAIN disk.leaf[a]
          /\ \A b \in 1 .. Len(disk.root) :
               /\ x <= disk.root[b].max <=> a <= b
               /\ x >= disk.root[b].min <=> a >= b
    BY <1>3, StoredKeyFacts
  <2>2. x \in Nat
    BY <1>3, StoredAreKeys, KeysAreNumbers
  <2>3. Passed(x) <=> a <= it.leaf
    <3>1. tree.children[it.leaf].max = disk.root[it.leaf].max
      BY <1>2, <1>3, LeafShape
    <3> QED
      BY <1>2, <2>1, <3>1 DEF Passed
  <2>4. CASE LeavesEnd(i)
    <3>1. it' = [it EXCEPT !.leaf = 0, !.nodeEnd = TRUE]
      BY <2>4 DEF LeavesEnd
    <3>2. it'.nodeEnd = TRUE
      BY <1>3, <3>1
    <3>3. Passed(x)'
      BY <3>2 DEF Passed
    <3>4. a <= it.leaf
      <4> SUFFICES ASSUME ~(a <= it.leaf) PROVE FALSE
        OBVIOUS
      <4>1. i \in 1 .. Len(disk.root) /\ a >= i /\ ~(i > Len(disk.root))
        BY <1>1, <1>2, <1>3, <2>1
      <4>2. x >= disk.root[i].min
        BY <2>1, <4>1
      <4>3. PastRange(tree.children[i], r) /\ tree.children[i].min = disk.root[i].min
        BY <1>3, <1>4, <2>4, <4>1, LeafShape DEF LeavesEnd
      <4>4. disk.root[i].min \in Nat /\ r.upper \in Nat
        <5>1. disk.root[i].min \in Keys
          BY <1>3, <4>1 DEF StoreShape
        <5>2. r.upper \in Nat
          BY <1>3, <1>4, KeysAreNumbers DEF IndexRange, Bounds
        <5> QED
          BY <5>1, <5>2, KeysAreNumbers
      <4> QED
        BY <1>5, <2>2, <4>2, <4>3, <4>4 DEF PastRange, InRange
    <3> QED
      BY <2>3, <3>3, <3>4
  <2>5. CASE LeafIsLost(i)
    <3>1. it' = [it EXCEPT !.leaf = i] /\ i \in 1 .. Len(disk.root) /\ i \notin DOMAIN disk.leaf
      BY <2>5 DEF LeafIsLost
    <3>2. it'.nodeEnd = it.nodeEnd /\ it'.kvEnd = it.kvEnd /\ it'.leaf = i
      BY <1>3, <3>1
    <3>3. tree'.children[i].max = disk.root[i].max
      BY <1>2, <3>1 DEF TreeShape
    <3>4. Passed(x)' <=> a <= i
      BY <1>2, <2>1, <3>1, <3>2, <3>3 DEF Passed
    <3>5. a # i
      BY <3>1
    <3> QED
      BY <1>1, <1>2, <1>3, <2>1, <2>3, <3>4, <3>5
  <2>6. CASE LeafIsLoaded(i)
    <3>1. PICK k \in DOMAIN disk.leaf[i] :
            /\ \A y \in DOMAIN disk.leaf[i] : k <= y
            /\ it' = [it EXCEPT !.leaf = i, !.kvEnd = FALSE, !.cur = k]
            /\ i \in 1 .. Len(disk.root) /\ i \in DOMAIN disk.leaf
      BY <2>6 DEF LeafIsLoaded
    <3>2. it'.nodeEnd = it.nodeEnd /\ it'.kvEnd = FALSE /\ it'.cur = k
      BY <1>3, <3>1
    <3>3. Passed(x)' <=> x < k
      BY <1>2, <3>2 DEF Passed
    <3>4. /\ disk.root[i].min \in Nat /\ disk.root[i].max \in Nat /\ k \in Nat
          /\ disk.root[i].min <= k /\ k <= disk.root[i].max
      BY <1>3, <3>1, KVsElim, KeysAreNumbers DEF StoreShape
    <3>5. a < i => x < k
      <4>1. a < i => ~(x >= disk.root[i].min)
        BY <2>1, <3>1
      <4> QED
        BY <2>2, <3>4, <4>1
    <3>6. a > i => ~(x < k)
      <4>1. a > i => ~(x <= disk.root[i].max)
        BY <2>1, <3>1
      <4> QED
        BY <2>2, <3>4, <4>1
    <3>7. a = i => ~(x < k)
      BY <2>1, <2>2, <3>1, <3>4
    <3>8. Passed(x)' <=> a < i
      BY <1>3, <2>1, <3>1, <3>3, <3>5, <3>6, <3>7
    <3> QED
      BY <1>1, <1>2, <1>3, <2>1, <2>3, <3>8
  <2> QED
    BY <1>2, <2>4, <2>5, <2>6
<1>6. DoneKeys' = DoneKeys
  <2>1. DoneKeys' = {x \in StoredKeys : InRange(x, r) /\ Passed(x)'}
    BY <1>2, <1>4, SameExpected DEF DoneKeys
  <2>2. DoneKeys = {x \in StoredKeys : InRange(x, r) /\ Passed(x)}
    BY <1>4 DEF DoneKeys
  <2> QED
    BY <1>5, <2>1, <2>2
<1>7. Ascending(DoneKeys)' = Ascending(DoneKeys)
  BY <1>6 DEF Ascending
<1>8. ExpectedUpTo(rangeIdx - 1)' = ExpectedUpTo(rangeIdx - 1)
  BY <1>2, SameExpected
<1>9. got = ExpectedUpTo(rangeIdx - 1) \o Ascending(DoneKeys)
  BY <1>3 DEF ScanInv
<1>10. code' = C_OK /\ got' = ExpectedUpTo(rangeIdx - 1)' \o Ascending(DoneKeys)' /\ rangeIdx' > 0
  BY <1>2, <1>3, <1>7, <1>8, <1>9
<1> QED
  BY <1>10 DEF ScanInv, C_OK, C_BPTREE_ITERATOR_END, C_STORAGE_KV_NOT_FOUND, Aborted

\* When BaseIterator leaves a range, all its keys have been returned.
LEMMA RangeIsDone ==
  ASSUME IterInv, ScanInv, NextRange,
         HalfOpenRanges
  PROVE  got = ExpectedUpTo(rangeIdx)
<1>1. /\ InLoop
      /\ \/ ~it.kvEnd /\ it.cur # NoKey /\ ReachRangeBound(ranges[rangeIdx])
         \/ it.kvEnd /\ it.nodeEnd
  BY DEF NextRange
<1>2. /\ StoreShape /\ code = C_OK /\ rangeIdx > 0 /\ rangeIdx \in 1 .. Len(ranges)
      /\ ranges[rangeIdx] \in IndexRange /\ ranges \in Seq(IndexRange)
  BY <1>1, LoopFacts
<1>3. PICK r : r = ranges[rangeIdx]
  OBVIOUS
<1>4. ASSUME NEW x \in StoredKeys, InRange(x, r) PROVE Passed(x)
  <2>1. CASE it.kvEnd /\ it.nodeEnd
    BY <2>1 DEF Passed
  <2>2. CASE ~it.kvEnd /\ it.cur # NoKey /\ ReachRangeBound(r)
    <3>1. ~it.nodeEnd /\ it.cur \in Nat /\ x \in Nat
      BY <1>1, <1>2, <2>2, ItemFacts, StoredAreKeys, KeysAreNumbers
    <3>2. /\ r.upper \in Nat /\ r.lowerOpen \in BOOLEAN /\ r.upperOpen \in BOOLEAN
      BY <1>2, <1>3, KeysAreNumbers DEF IndexRange, Bounds
    <3>3. r.lowerOpen <=> ~r.upperOpen
      BY <1>2, <1>3 DEF HalfOpenRanges
    <3>4. IF r.lowerOpen THEN it.cur > r.upper ELSE it.cur >= r.upper
      BY <2>2 DEF ReachRangeBound
    <3>5. IF r.upperOpen THEN x < r.upper ELSE x <= r.upper
      BY <1>4 DEF InRange
    <3>6. x < it.cur
      BY <3>1, <3>2, <3>3, <3>4, <3>5
    <3> QED
      BY <2>2, <3>1, <3>6 DEF Passed
  <2> QED
    BY <1>1, <1>3, <2>1, <2>2
<1>5. DoneKeys = {x \in StoredKeys : InRange(x, r)}
  BY <1>3, <1>4 DEF DoneKeys
<1>6. Ascending(DoneKeys) = Expected(ranges[rangeIdx])
  BY <1>3, <1>5 DEF Expected
<1>7. ExpectedUpTo(rangeIdx) = ExpectedUpTo(rangeIdx - 1) \o Expected(ranges[rangeIdx])
  BY <1>2, UpToFacts
<1>8. got = ExpectedUpTo(rangeIdx - 1) \o Ascending(DoneKeys)
  BY <1>2 DEF ScanInv
<1> QED
  BY <1>6, <1>7, <1>8

-----------------------------------------------------------------------------
(* Every step *)

\* A page begins empty; the iterator does not move.
LEMMA BeginNextInv ==
  ASSUME IterInv, BeginNext
  PROVE  IterInv'
<1>1. /\ rangeIdx > 0 /\ code = C_OK /\ busy' = TRUE /\ page' = <<>>
      /\ UNCHANGED <<tree, disk, ret, ranges, rangeIdx, it, code, got>>
  BY DEF BeginNext
<1>2. Positioned
  BY <1>1, KeysAreNumbers DEF IterInv, NotOpened
<1>3. Positioned'
  BY <1>1, <1>2 DEF Positioned, Loaded, GapAt, AboveLower
<1>4. StoreShape' /\ TreeShape'
  BY <1>1 DEF IterInv, StoreShape, TreeShape, Loaded
<1>5. page' \in Seq(Keys) /\ Len(page') <= PageSize
  BY <1>1, IteratorAssumption
<1>6. busy' \in BOOLEAN
  BY <1>1, Zenon
<1> QED
  BY <1>1, <1>3, <1>4, <1>5, <1>6 DEF IterInv, C_OK, Aborted

\* The end of a page leaves the iterator where it is.
LEMMA EndNextInv ==
  ASSUME IterInv, EndNext
  PROVE  IterInv'
<1>1. /\ busy /\ busy' = FALSE
      /\ UNCHANGED <<tree, disk, ret, ranges, rangeIdx, it, code, page, got>>
  BY DEF EndNext
<1>2. /\ code = C_OK => Positioned
      /\ code = Aborted => Positioned /\ ~it.kvEnd /\ it.cur = NoKey
  BY <1>1 DEF IterInv, NotOpened
<1>3. /\ code' = C_OK => Positioned'
      /\ code' = Aborted => Positioned' /\ ~it'.kvEnd /\ it'.cur = NoKey
  BY <1>1, <1>2 DEF Positioned, Loaded, GapAt, AboveLower
<1>4. StoreShape' /\ TreeShape'
  BY <1>1 DEF IterInv, StoreShape, TreeShape, Loaded
<1>5. busy' \in BOOLEAN
  BY <1>1, Zenon
<1> QED
  BY <1>1, <1>3, <1>4, <1>5 DEF IterInv

\* What has been returned depends on neither the page nor busy.
LEMMA SameScan ==
  ASSUME ScanInv, UNCHANGED <<tree, disk, ranges, rangeIdx, it, code, got>>
  PROVE  ScanInv'
<1>1. \A j : ExpectedUpTo(j)' = ExpectedUpTo(j)
  BY SameExpected
<1>2. DoneKeys' = DoneKeys
  BY SameExpected DEF DoneKeys, Passed
<1>3. Ascending(DoneKeys)' = Ascending(DoneKeys)
  BY <1>2 DEF Ascending
<1> QED
  BY <1>1, <1>3 DEF ScanInv

\* Every step of the scan keeps the iterator well-placed.
LEMMA IterNextInv ==
  ASSUME IterInv, [IterNext]_iterVars
  PROVE  IterInv'
<1>1. CASE Open
  BY <1>1, OpenInv DEF Open
<1>2. CASE BeginNext
  BY <1>2, BeginNextInv
<1>3. CASE EndNext
  BY <1>3, EndNextInv
<1>4. CASE Emit
  BY <1>4, EmitInv, GapTurn
<1>5. CASE NextRange
  BY <1>5, OpenInv DEF NextRange
<1>6. CASE NextLeaf
  BY <1>6, NextLeafInv
<1>7. CASE UNCHANGED iterVars
  BY <1>7 DEF iterVars, IterInv, StoreShape, TreeShape, Positioned, NotOpened, Loaded,
                 GapAt, AboveLower
<1> QED
  BY <1>1, <1>2, <1>3, <1>4, <1>5, <1>6, <1>7 DEF IterNext

\* Every step of the scan keeps the account of what has been returned.
LEMMA ScanNextInv ==
  ASSUME IterInv, ScanInv, [IterNext]_iterVars,
         HalfOpenRanges
  PROVE  ScanInv'
<1>1. CASE Open
  <2>1. rangeIdx = 0 /\ code = C_OK
    BY <1>1 DEF Open
  <2>2. got = ExpectedUpTo(rangeIdx)
    BY <2>1, UpToFacts DEF ScanInv, IterInv
  <2> QED
    BY <1>1, <2>2, OpenScan DEF Open
<1>2. CASE BeginNext
  BY <1>2, SameScan DEF BeginNext
<1>3. CASE EndNext
  BY <1>3, SameScan DEF EndNext
<1>4. CASE Emit
  BY <1>4, EmitScan, GapTurn
<1>5. CASE NextRange
  BY <1>5, RangeIsDone, OpenScan DEF NextRange
<1>6. CASE NextLeaf
  BY <1>6, NextLeafScan
<1>7. CASE UNCHANGED iterVars
  BY <1>7, SameScan DEF iterVars
<1> QED
  BY <1>1, <1>2, <1>3, <1>4, <1>5, <1>6, <1>7 DEF IterNext

\* The keys of the current range that were returned come before those that were
\* not.
LEMMA DoneIsFirst ==
  ASSUME IterInv, Positioned
  PROVE  \E rest \in SUBSET Keys :
           Expected(ranges[rangeIdx]) = Ascending(DoneKeys) \o Ascending(rest)
<1> DEFINE r == ranges[rangeIdx]
           all == {k \in StoredKeys : InRange(k, r)}
           rest == {k \in all : ~Passed(k)}
<1>1. StoreShape /\ TreeShape /\ \A k \in StoredKeys : k \in Keys /\ k \in Nat
  BY StoredAreKeys, KeysAreNumbers DEF IterInv
<1>2. all = DoneKeys \cup rest
  BY DEF DoneKeys
<1>3. DoneKeys \in SUBSET Keys /\ rest \in SUBSET Keys
  BY <1>1 DEF DoneKeys
<1>4. ASSUME NEW j \in DoneKeys, NEW k \in rest PROVE j < k
  <2>1. j \in Nat /\ k \in Nat /\ Passed(j) /\ ~Passed(k)
    BY <1>1 DEF DoneKeys
  <2>2. ~it.nodeEnd
    BY <2>1 DEF Passed
  <2>3. CASE it.kvEnd
    <3>1. it.leaf \in 1 .. Len(disk.root)
      BY <1>1, <2>2, ShapeTypes DEF Positioned
    <3>2. tree.children[it.leaf].max \in Nat
      BY <1>1, <3>1, ShapeTypes
    <3> QED
      BY <2>1, <2>2, <2>3, <3>2 DEF Passed
  <2>4. CASE ~it.kvEnd
    <3>1. it.leaf \in DOMAIN disk.leaf
          /\ (it.cur = NoKey \/ it.cur \in DOMAIN disk.leaf[it.leaf])
      BY <2>4 DEF Positioned, Loaded
    <3>2. it.cur \in Nat
      BY <1>1, <3>1, KVsElim, KeysAreNumbers DEF StoreShape, NoKey
    <3> QED
      BY <2>1, <2>2, <2>4, <3>2 DEF Passed
  <2> QED
    BY <2>3, <2>4
<1>5. Expected(ranges[rangeIdx]) = Ascending(all)
  BY DEF Expected
<1> HIDE DEF rest, all
<1>6. Ascending(DoneKeys \cup rest) = Ascending(DoneKeys) \o Ascending(rest)
  BY <1>3, <1>4, AscendingSplit
<1> QED
  BY <1>2, <1>3, <1>5, <1>6

\* The account of what has been returned says the scan is exact.
LEMMA InvIsExact ==
  ASSUME IterInv, ScanInv
  PROVE  ScanIsExact
<1>1. /\ StoreShape /\ ranges \in Seq(IndexRange) /\ rangeIdx \in 0 .. Len(ranges)
      /\ got \in Seq(Keys) /\ Len(ranges) \in Nat
      /\ code \in {C_OK, C_BPTREE_ITERATOR_END, C_STORAGE_KV_NOT_FOUND, Aborted}
  BY DEF IterInv
<1>2. code = C_BPTREE_ITERATOR_END => got = ExpectedUpTo(Len(ranges))
  BY DEF ScanInv
<1>3. /\ ExpectedUpTo(0) = <<>> /\ ExpectedUpTo(rangeIdx) \in Seq(Keys)
      /\ rangeIdx > 0 =>
           /\ rangeIdx \in 1 .. Len(ranges) /\ ExpectedUpTo(rangeIdx - 1) \in Seq(Keys)
           /\ Expected(ranges[rangeIdx]) \in Seq(Keys)
           /\ ExpectedUpTo(rangeIdx) = ExpectedUpTo(rangeIdx - 1) \o Expected(ranges[rangeIdx])
  <2>1. rangeIdx > 0 => rangeIdx \in 1 .. Len(ranges) /\ rangeIdx - 1 \in 0 .. Len(ranges)
    BY <1>1
  <2> QED
    BY <1>1, <2>1, UpToFacts, ExpectedType
<1>4. ASSUME NEW b \in Seq(Keys), ExpectedUpTo(rangeIdx) = got \o b
      PROVE  IsPrefix(got, ExpectedUpTo(rangeIdx))
  BY <1>1, <1>4, PrefixOfConcat
<1>5. ASSUME got = ExpectedUpTo(rangeIdx)
      PROVE  IsPrefix(got, ExpectedUpTo(rangeIdx))
  <2>1. PICK b : b = <<>>
    OBVIOUS
  <2>2. b \in Seq(Keys) /\ got \o b = got
    BY <1>1, <2>1
  <2> QED
    BY <1>4, <1>5, <2>2
<1>6. CASE code = C_OK /\ rangeIdx = 0
  BY <1>2, <1>3, <1>5, <1>6 DEF ScanInv, ScanIsExact
<1>7. CASE code = C_OK /\ rangeIdx > 0
  <2>1. Positioned
    BY <1>7 DEF IterInv, NotOpened
  <2>2. PICK rest \in SUBSET Keys :
          Expected(ranges[rangeIdx]) = Ascending(DoneKeys) \o Ascending(rest)
    BY <2>1, DoneIsFirst
  <2>3. got = ExpectedUpTo(rangeIdx - 1) \o Ascending(DoneKeys)
    BY <1>7 DEF ScanInv
  <2>4. Ascending(DoneKeys) \in Seq(Keys) /\ Ascending(rest) \in Seq(Keys)
    <3>1. DoneKeys \in SUBSET Keys
      BY <1>1, StoredAreKeys DEF DoneKeys
    <3> QED
      BY <3>1, AscendingType
  <2>5. PICK a, b, c : /\ a = ExpectedUpTo(rangeIdx - 1) /\ b = Ascending(DoneKeys)
                       /\ c = Ascending(rest)
    OBVIOUS
  <2>6. a \in Seq(Keys) /\ b \in Seq(Keys) /\ c \in Seq(Keys)
    BY <1>3, <1>7, <2>4, <2>5
  <2>7. a \o (b \o c) = (a \o b) \o c
    BY <2>6, ConcatAssociative
  <2>8. ExpectedUpTo(rangeIdx) = got \o c
    BY <1>3, <1>7, <2>2, <2>3, <2>5, <2>7
  <2>9. IsPrefix(got, ExpectedUpTo(rangeIdx))
    BY <1>4, <2>6, <2>8
  <2> QED
    BY <1>2, <2>9 DEF ScanIsExact
<1>8. CASE code = C_BPTREE_ITERATOR_END
  BY <1>2, <1>5, <1>8 DEF ScanInv, ScanIsExact
<1>9. CASE code \in {C_STORAGE_KV_NOT_FOUND, Aborted}
  <2>1. rangeIdx > 0 /\ got = ExpectedUpTo(rangeIdx - 1)
    BY <1>9 DEF ScanInv
  <2>2. IsPrefix(got, ExpectedUpTo(rangeIdx))
    BY <1>3, <1>4, <2>1
  <2> QED
    BY <1>2, <2>2 DEF ScanIsExact
<1> QED
  BY <1>1, <1>6, <1>7, <1>8, <1>9, KeysAreNumbers

-----------------------------------------------------------------------------
(* The theorems *)

\* Every state of a scan is well-placed.
LEMMA IterInvHolds == IterSpec => []IterInv
<1>1. IterInit => IterInv
  BY IterInitInv
<1>2. IterInv /\ [IterNext]_iterVars => IterInv'
  BY IterNextInv
<1> QED
  BY <1>1, <1>2, PTL DEF IterSpec

\* The fields of BptIterator and BaseIterator keep their types, whatever ranges
\* a scan asks for and whatever leaf records a crash has kept from the store.
THEOREM ScanIsTyped == IterSpec => []IterTypeOK
<1>1. IterInv => IterTypeOK
  <2> SUFFICES ASSUME IterInv PROVE IterTypeOK
    OBVIOUS
  <2>1. /\ StoreShape /\ TreeShape /\ rangeIdx \in 0 .. Len(ranges) /\ Len(page) <= PageSize
        /\ it \in [leaf : 0 .. Len(tree.children), cur : Keys \cup {NoKey},
                   kvEnd : BOOLEAN, nodeEnd : BOOLEAN]
        /\ code \in {C_OK, C_BPTREE_ITERATOR_END, C_STORAGE_KV_NOT_FOUND, Aborted}
    BY DEF IterInv
  <2>2. /\ tree \in TreeType /\ disk.root \in Seq(Refs)
        /\ DOMAIN disk.leaf \subseteq Nat
        /\ \A id \in DOMAIN disk.leaf : disk.leaf[id] \in KVs
    BY <2>1 DEF StoreShape, TreeShape
  <2>3. ret \in [op : {"Open", "Insert", "Delete", "GetItem", "Save"},
                 key : Keys \cup {NoKey}, st : Statuses]
    BY DEF IterInv, Statuses
  <2> QED
    BY <2>1, <2>2, <2>3 DEF IterTypeOK, TypeOK
<1> QED
  BY <1>1, IterInvHolds, PTL

\* The assertions of bplus_tree_iterator.cc, that reachRangeBound has an item and that
\* nextLeafNode finds the current leaf again among its parent's children, fail in one
\* case only: a range begins between the last key of a leaf's record and the last key
\* the root's record promises of the leaf.
THEOREM AssertionsFailOnlyInGaps == IterSpec => []AssertionsFailInGaps
<1>1. ASSUME IterInv PROVE AssertionsFailInGaps
  <2> SUFFICES ASSUME code = Aborted PROVE OpenedInAGap
    BY DEF AssertionsFailInGaps
  <2>1. /\ StoreShape /\ TreeShape /\ Positioned /\ ~it.kvEnd /\ it.cur = NoKey
        /\ ranges \in Seq(IndexRange) /\ rangeIdx \in 1 .. Len(ranges)
    BY <1>1 DEF IterInv, Positioned
  <2>2. PICK r, i : r = ranges[rangeIdx] /\ i = it.leaf
    OBVIOUS
  <2>3. /\ i \in 1 .. Len(disk.root) /\ i \in DOMAIN disk.leaf
        /\ tree.children[i].kvs = disk.leaf[i] /\ GapAt(rangeIdx, i)
    BY <2>1, <2>2, ShapeTypes DEF Positioned, Loaded
  <2>4. /\ \A k \in DOMAIN disk.leaf[i] : ~AboveLower(k, r)
        /\ AboveLower(tree.children[i].max, r)
    BY <2>1, <2>2, <2>3, LeafShape DEF GapAt
  <2>5. r.lower \in Nat
    <3>1. r \in IndexRange
      BY <2>1, <2>2
    <3> QED
      BY <3>1, KeysAreNumbers DEF IndexRange, Bounds
  <2>6. tree.children[i].max \in Nat /\ \A k \in DOMAIN disk.leaf[i] : k \in Nat
    BY <2>1, <2>3, ShapeTypes, KVsElim, KeysAreNumbers DEF StoreShape
  <2>7. /\ ~(IF r.lowerOpen THEN tree.children[i].max <= r.lower ELSE tree.children[i].max < r.lower)
        /\ \A k \in DOMAIN tree.children[i].kvs :
             IF r.lowerOpen THEN k <= r.lower ELSE k < r.lower
    BY <2>3, <2>4, <2>5, <2>6 DEF AboveLower
  <2> QED
    BY <2>2, <2>7 DEF OpenedInAGap
<1> QED
  BY <1>1, IterInvHolds, PTL

\* With ranges open at exactly one end, the ones reachRangeBound treats as they
\* are meant, the pages BaseIterator::Next returns are the stored keys of the
\* ranges, range by range, ascending, none twice and none missing: for every
\* number of keys and leaves, every page size and every list of ranges.
THEOREM ScanReturnsItsRanges ==
  ASSUME RangeTypes \subseteq {<<FALSE, TRUE>>, <<TRUE, FALSE>>}
  PROVE  IterSpec => []ScanIsExact
<1>1. IterInit => IterInv /\ ScanInv
  BY IterInitInv
<1>2. IterInv /\ ScanInv /\ [IterNext]_iterVars => IterInv' /\ ScanInv'
  <2>1. ASSUME IterInv PROVE HalfOpenRanges
    <3> SUFFICES ASSUME NEW j \in 1 .. Len(ranges)
                 PROVE  ranges[j].lowerOpen <=> ~ranges[j].upperOpen
      BY DEF HalfOpenRanges
    <3>1. PICK r : r = ranges[j]
      OBVIOUS
    <3>2. r \in IndexRange
      BY <2>1, <3>1 DEF IterInv
    <3>3. /\ <<r.lowerOpen, r.upperOpen>> \in {<<FALSE, TRUE>>, <<TRUE, FALSE>>}
          /\ r.lowerOpen \in BOOLEAN /\ r.upperOpen \in BOOLEAN
      BY <3>2 DEF IndexRange
    <3> QED
      BY <3>1, <3>3
  <2> QED
    BY <2>1, IterNextInv, ScanNextInv
<1>3. IterInv /\ ScanInv => ScanIsExact
  BY InvIsExact
<1> QED
  BY <1>1, <1>2, <1>3, PTL DEF IterSpec

-----------------------------------------------------------------------------
(* The inductive invariant: the stages of a run *)

SelectPlan == <<"ResultSet", "Filter", "TableScan">>

\* The tasks of m executors, the lowest first.
Countdown(m) == [i \in 1 .. m |-> m + 1 - i]

\* Nothing of the statement has been done.
Fresh ==
  /\ \A d \in DOMAIN stmt : chunk[d] = <<>>
  /\ printed = <<>> /\ status = C_OK
  /\ rangeIdx = 0 /\ code = C_OK /\ ~busy /\ page = <<>> /\ got = <<>>

\* The page is under way: no chunk has rows yet.
Paging ==
  /\ \A d \in 1 .. 3 : chunk[d] = <<>>
  /\ printed = <<>> /\ status = C_OK
  /\ rangeIdx > 0 /\ page = got /\ port[2] = 3

\* The page is complete, and all its rows are there.
PageDone ==
  /\ page = got /\ ~busy /\ rangeIdx > 0
  /\ code = C_BPTREE_ITERATOR_END \/ (code = C_OK /\ Len(page) = PageSize)
  /\ Range(page) \subseteq rows

\* The page is in chunk c and nowhere else.
PageIn(c) ==
  /\ \A d \in 1 .. 3 : chunk[d] = IF d = c THEN page ELSE <<>>
  /\ printed = <<>> /\ status = C_OK
  /\ PageDone

\* The tasks that are queued, all moved to executing_tasks_.
Queued(m) == pending = <<>> /\ executing = Countdown(m)

\* The stages of any statement before its first executor is prepared.
Waiting ==
  /\ Fresh
  /\ \/ pc = "start" /\ pending = <<>> /\ executing = <<>>
     \/ pc = "loop" /\ pending = Countdown(Len(stmt)) /\ executing = <<>>
     \/ pc = "loop" /\ Queued(Len(stmt))

\* The stages of a SELECT after that.
Selecting ==
  \/ pc = "work" /\ cur = 3 /\ Queued(2) /\ Fresh /\ port[2] = 3
  \/ /\ pc = "next" /\ cur = 3 /\ Queued(2) /\ Paging /\ page = <<>> /\ ~busy
     /\ code \in {C_OK, C_BPTREE_ITERATOR_END}
  \/ /\ pc = "page" /\ cur = 3 /\ Queued(2) /\ Paging
     /\ busy \/ code # C_OK \/ Len(page) = PageSize
  \/ pc = "loop" /\ Queued(2) /\ PageIn(3) /\ port[2] = 3
  \/ pc = "work" /\ cur = 2 /\ Queued(1) /\ PageIn(3) /\ in[2] = 3 /\ port[1] = 2
  \/ pc = "loop" /\ Queued(1) /\ PageIn(2) /\ port[1] = 2
  \/ pc = "work" /\ cur = 1 /\ Queued(0) /\ PageIn(2) /\ in[1] = 2
  \/ pc = "loop" /\ Queued(0) /\ PageDone /\ printed = page /\ status = C_OK
  \/ /\ pc = "returned" /\ \E m \in 0 .. 3 : Queued(m)
     /\ IF status = C_OK THEN PageDone /\ printed = page
        ELSE printed = <<>> /\ status # Aborted

\* The stages of an INSERT or a CREATE after it.
Writing ==
  /\ pc \in {"work", "loop", "returned"} /\ Queued(0) /\ printed = <<>>
  /\ pc = "work" => cur = 1
  /\ chunk[1] = <<>>

RunInv ==
  /\ IterInv /\ ScanInv /\ ranges = <<SelectRange>>
  /\ stmt \in PhysicalPlans
  /\ port \in [DOMAIN stmt -> 0 .. Len(stmt)]
  /\ in \in [DOMAIN stmt -> 0 .. Len(stmt)]
  /\ chunk \in [DOMAIN stmt -> Seq(Keys)]
  /\ Waiting \/ (stmt = SelectPlan /\ Selecting) \/ (stmt # SelectPlan /\ Writing)

-----------------------------------------------------------------------------
(* Tasks and plans *)

\* The queue of tasks is worked off from the lowest executor up.
LEMMA CountdownFacts ==
  ASSUME NEW m \in Nat
  PROVE  /\ Countdown(m) \in Seq(Nat) /\ Len(Countdown(m)) = m
         /\ m = 0 => Countdown(m) = <<>>
         /\ m > 0 => /\ Countdown(m) # <<>> /\ Head(Countdown(m)) = m
                     /\ Tail(Countdown(m)) = Countdown(m - 1)
<1>1. Countdown(m) \in Seq(Nat) /\ Len(Countdown(m)) = m
  BY DEF Countdown
<1>2. ASSUME m > 0 PROVE Tail(Countdown(m)) = Countdown(m - 1)
  <2>1. PICK t : t = Tail(Countdown(m))
    OBVIOUS
  <2>2. t \in Seq(Nat) /\ Len(t) = m - 1 /\ \A i \in 1 .. m - 1 : t[i] = Countdown(m)[i + 1]
    BY <1>1, <1>2, <2>1
  <2>3. \A i \in 1 .. m - 1 : t[i] = (m - 1) + 1 - i
    <3> SUFFICES ASSUME NEW i \in 1 .. m - 1 PROVE t[i] = (m - 1) + 1 - i
      OBVIOUS
    <3>1. i + 1 \in 1 .. m /\ m + 1 - (i + 1) = (m - 1) + 1 - i
      OBVIOUS
    <3>2. Countdown(m)[i + 1] = m + 1 - (i + 1)
      BY <3>1 DEF Countdown
    <3> QED
      BY <2>2, <3>1, <3>2
  <2>4. t = [i \in 1 .. m - 1 |-> t[i]]
    BY <2>2
  <2>5. t = [i \in 1 .. m - 1 |-> (m - 1) + 1 - i]
    BY <2>3, <2>4
  <2> QED
    BY <2>1, <2>5 DEF Countdown
<1>3. m > 0 => Head(Countdown(m)) = m /\ Countdown(m) # <<>>
  BY <1>1 DEF Countdown
<1>4. m = 0 => Countdown(m) = <<>>
  BY <1>1
<1> QED
  BY <1>1, <1>2, <1>3, <1>4

\* A statement is the chain of a SELECT, or one executor that writes.
LEMMA PlanFacts ==
  ASSUME stmt \in PhysicalPlans
  PROVE  /\ Len(stmt) \in Nat /\ DOMAIN stmt = 1 .. Len(stmt)
         /\ stmt = SelectPlan =>
              /\ Len(stmt) = 3 /\ DOMAIN stmt = 1 .. 3
              /\ stmt[1] = "ResultSet" /\ stmt[2] = "Filter" /\ stmt[3] = "TableScan"
         /\ stmt # SelectPlan =>
              /\ Len(stmt) = 1 /\ DOMAIN stmt = 1 .. 1
              /\ stmt[1] \in {"Insert", "Create"}
BY DEF PhysicalPlans, SelectPlan

\* A run works the iterator only by the iterator's own steps.
LEMMA RunIsScan ==
  ASSUME [RunNext]_schedVars
  PROVE  [IterNext]_iterVars /\ UNCHANGED <<stmt, rows>>
<1>1. CASE ScanOpen
  BY <1>1 DEF ScanOpen, IterNext, Finish
<1>2. CASE ScanNext
  BY <1>2 DEF ScanNext, IterNext
<1>3. CASE ScanTurn
  BY <1>3 DEF ScanTurn, Turn, IterNext, runVars
<1>4. CASE UNCHANGED schedVars
  BY <1>4 DEF schedVars, runVars
<1>5. CASE StartRun \/ MoveTasks \/ PrepareTask \/ CloseGraph
  BY <1>5 DEF StartRun, MoveTasks, PrepareTask, CloseGraph
<1>6. CASE GetRows \/ FilterWork \/ ResultSetWork \/ InsertWork \/ CreateWork
  BY <1>6 DEF GetRows, FilterWork, ResultSetWork, InsertWork, CreateWork
<1> QED
  BY <1>1, <1>2, <1>3, <1>4, <1>5, <1>6 DEF RunNext

\* A scan keeps its ranges.
LEMMA RangesStay ==
  ASSUME [IterNext]_iterVars
  PROVE  ranges' = ranges
BY DEF IterNext, iterVars, Open, BeginNext, EndNext, Emit, NextRange, NextLeaf

\* The range of a SELECT is half open.
LEMMA SelectHalfOpen ==
  ASSUME ranges = <<SelectRange>>
  PROVE  HalfOpenRanges /\ Len(ranges) = 1 /\ ranges[1] = SelectRange
<1>1. Len(ranges) = 1 /\ ranges[1] = SelectRange
  OBVIOUS
<1>2. ~SelectRange.lowerOpen /\ SelectRange.upperOpen
  BY DEF SelectRange
<1>3. \A j \in 1 .. Len(ranges) : ranges[j] = SelectRange
  BY <1>1
<1> QED
  BY <1>1, <1>2, <1>3 DEF HalfOpenRanges

\* The range of a SELECT begins below all keys: no record ends below it, and its scan
\* runs into no assertion.
LEMMA SelectHitsNoGap ==
  ASSUME IterInv, ranges = <<SelectRange>>
  PROVE  /\ code # Aborted
         /\ Positioned /\ ~it.kvEnd => it.cur # NoKey
<1>1. /\ StoreShape /\ ranges \in Seq(IndexRange) /\ rangeIdx \in 0 .. Len(ranges)
      /\ Len(ranges) = 1 /\ ranges[1] = SelectRange
      /\ code = Aborted => Positioned /\ ~it.kvEnd /\ it.cur = NoKey
  BY SelectHalfOpen DEF IterInv
<1>2. ASSUME Positioned, ~it.kvEnd, it.cur = NoKey PROVE FALSE
  <2>1. GapAt(rangeIdx, it.leaf) /\ it.leaf \in DOMAIN disk.leaf /\ rangeIdx = 1
    BY <1>1, <1>2 DEF Positioned, Loaded
  <2>2. PICK k \in DOMAIN disk.leaf[it.leaf] : k \in Nat
    BY <1>1, <2>1, KVsElim, KeysAreNumbers DEF StoreShape
  <2>3. ~AboveLower(k, SelectRange)
    BY <1>1, <2>1 DEF GapAt
  <2> QED
    BY <2>2, <2>3 DEF AboveLower, SelectRange
<1> QED
  BY <1>1, <1>2

\* What a run keeps of the scan.
Common ==
  /\ IterInv /\ ScanInv /\ ranges = <<SelectRange>>
  /\ stmt \in PhysicalPlans

\* Whatever the run does, the scan keeps its invariant.
LEMMA CommonStays ==
  ASSUME RunInv, [RunNext]_schedVars
  PROVE  Common'
<1>1. [IterNext]_iterVars /\ UNCHANGED <<stmt, rows>>
  BY RunIsScan
<1>2. IterInv /\ ScanInv /\ ranges = <<SelectRange>> /\ stmt \in PhysicalPlans
  BY DEF RunInv
<1>3. HalfOpenRanges
  BY <1>2, SelectHalfOpen
<1>4. IterInv'
  BY <1>1, <1>2, IterNextInv
<1>5. ScanInv'
  BY <1>1, <1>2, <1>3, ScanNextInv
<1>6. ranges' = ranges
  BY <1>1, RangesStay
<1>7. SelectRange' = SelectRange
  BY DEF SelectRange
<1> QED
  BY <1>1, <1>2, <1>4, <1>5, <1>6, <1>7 DEF Common

\* A run starts with nothing done.
LEMMA RunInitInv ==
  ASSUME RunInit
  PROVE  RunInv
<1>1. IterInv /\ ScanInv
  BY IterInitInv DEF RunInit
<1>2. stmt \in PhysicalPlans /\ ranges = <<SelectRange>>
  BY DEF RunInit
<1>3. /\ pending = <<>> /\ executing = <<>> /\ pc = "start"
      /\ port = [d \in DOMAIN stmt |-> 0] /\ in = [d \in DOMAIN stmt |-> d]
      /\ chunk = [d \in DOMAIN stmt |-> <<>>] /\ status = C_OK /\ printed = <<>>
  BY DEF RunInit
<1>4. DOMAIN stmt = 1 .. Len(stmt) /\ Len(stmt) \in Nat
  BY <1>2, PlanFacts
<1>5. /\ port \in [DOMAIN stmt -> 0 .. Len(stmt)] /\ in \in [DOMAIN stmt -> 0 .. Len(stmt)]
      /\ chunk \in [DOMAIN stmt -> Seq(Keys)]
  <2>1. <<>> \in Seq(Keys)
    OBVIOUS
  <2> QED
    BY <1>3, <1>4, <2>1
<1>6. rangeIdx = 0 /\ code = C_OK /\ ~busy /\ page = <<>> /\ got = <<>>
  BY DEF RunInit, IterInit
<1>7. Fresh
  BY <1>3, <1>6 DEF Fresh
<1> QED
  BY <1>1, <1>2, <1>3, <1>5, <1>7 DEF RunInv, Waiting

-----------------------------------------------------------------------------
(* The steps of Scheduler::Run *)

\* The variables of a run that are not of the scan have their types.
Typed ==
  /\ port \in [DOMAIN stmt -> 0 .. Len(stmt)]
  /\ in \in [DOMAIN stmt -> 0 .. Len(stmt)]
  /\ chunk \in [DOMAIN stmt -> Seq(Keys)]

\* A run is at one of its stages.
Staged == Waiting \/ (stmt = SelectPlan /\ Selecting) \/ (stmt # SelectPlan /\ Writing)

\* A step is shown to keep the invariant by its types and its next stage.
LEMMA StepKeeps ==
  ASSUME RunInv, RunNext, Typed', Staged'
  PROVE  RunInv'
BY CommonStays DEF Common, Typed, Staged, RunInv

\* ExecutingGraph::Init queues the executors, each after its inputs.
LEMMA StartRunInv ==
  ASSUME RunInv, StartRun
  PROVE  RunInv'
<1>1. /\ pc = "start" /\ pending' = ToExecutor(stmt) /\ pc' = "loop"
      /\ UNCHANGED <<iterVars, stmt, rows, executing, cur, port, in, chunk, status, printed>>
  BY DEF StartRun
<1>2. Waiting /\ executing = <<>>
  BY <1>1 DEF RunInv, Waiting, Selecting, Writing
<1>3. pending' = Countdown(Len(stmt))
  BY <1>1, PlanFacts DEF RunInv, ToExecutor, Countdown
<1>4. Fresh'
  BY <1>1, <1>2 DEF Waiting, Fresh, iterVars
<1>5. Waiting'
  BY <1>1, <1>2, <1>3, <1>4 DEF Waiting, Countdown
<1>6. Typed' /\ Staged'
  BY <1>1, <1>5 DEF RunInv, Typed, Staged
<1> QED
  BY <1>6, StepKeeps DEF RunNext

\* The pending tasks become the executing ones.
LEMMA MoveTasksInv ==
  ASSUME RunInv, MoveTasks
  PROVE  RunInv'
<1>1. /\ pc = "loop" /\ executing = <<>> /\ pending # <<>>
      /\ executing' = pending /\ pending' = <<>>
      /\ UNCHANGED <<iterVars, stmt, rows, cur, pc, port, in, chunk, status, printed>>
  BY DEF MoveTasks
<1>2. Fresh /\ pending = Countdown(Len(stmt))
  BY <1>1 DEF RunInv, Waiting, Selecting, Writing, Queued
<1>3. Fresh'
  BY <1>1, <1>2 DEF Fresh, iterVars
<1>4. Queued(Len(stmt))'
  BY <1>1, <1>2 DEF Queued, Countdown
<1>5. Waiting'
  BY <1>1, <1>3, <1>4 DEF Waiting
<1>6. Typed' /\ Staged'
  BY <1>1, <1>5 DEF RunInv, Typed, Staged
<1> QED
  BY <1>6, StepKeeps DEF RunNext

\* Run ends when both queues are empty.
LEMMA CloseGraphInv ==
  ASSUME RunInv, CloseGraph
  PROVE  RunInv'
<1>1. /\ pc = "loop" /\ executing = <<>> /\ pending = <<>> /\ pc' = "returned"
      /\ UNCHANGED <<iterVars, stmt, rows, pending, executing, cur, port, in, chunk, status, printed>>
  BY DEF CloseGraph
<1>2. \A m \in Nat : m > 0 => Countdown(m) # <<>>
  BY CountdownFacts
<1>3. ~Waiting /\ ~Queued(1) /\ ~Queued(2)
  <2>1. Len(stmt) \in Nat /\ Len(stmt) > 0
    BY PlanFacts DEF RunInv
  <2> QED
    BY <1>1, <1>2, <2>1 DEF Waiting, Queued
<1>4. CASE stmt = SelectPlan
  <2>1. Queued(0) /\ PageDone /\ printed = page /\ status = C_OK
    BY <1>1, <1>3, <1>4 DEF RunInv, Selecting
  <2>2. PageDone' /\ Queued(0)'
    BY <1>1, <2>1 DEF PageDone, iterVars, Queued, Countdown
  <2>3. printed' = page' /\ status' = C_OK /\ 0 \in 0 .. 3
    BY <1>1, <2>1 DEF iterVars
  <2>4. Selecting'
    BY <1>1, <2>2, <2>3 DEF Selecting
  <2> QED
    BY <1>1, <1>4, <2>4, StepKeeps DEF RunInv, Typed, Staged, RunNext
<1>5. CASE stmt # SelectPlan
  <2>1. Writing
    BY <1>3, <1>5 DEF RunInv
  <2>2. Writing'
    BY <1>1, <2>1 DEF Writing, Queued, Countdown
  <2> QED
    BY <1>1, <1>5, <2>2, StepKeeps DEF RunInv, Typed, Staged, RunNext
<1> QED
  BY <1>4, <1>5

\* Only the last stage of an INSERT or a CREATE has an executor at work; nothing
\* they do shows in the chunks.
LEMMA WriteInv ==
  ASSUME RunInv, InsertWork \/ CreateWork
  PROVE  RunInv'
<1>1. /\ pc = "work" /\ stmt[cur] \in {"Insert", "Create"} /\ pc' \in {"loop", "returned"}
      /\ UNCHANGED <<iterVars, stmt, rows, pending, executing, cur, port, in, chunk, printed>>
  BY DEF InsertWork, CreateWork, Working, Finish
<1>2. stmt # SelectPlan
  <2> SUFFICES ASSUME stmt = SelectPlan PROVE FALSE
    OBVIOUS
  <2>1. cur \in {1, 2, 3}
    BY <1>1 DEF RunInv, Waiting, Selecting
  <2> QED
    BY <1>1, <2>1, PlanFacts DEF RunInv
<1>3. Writing
  BY <1>1, <1>2 DEF RunInv, Waiting
<1>4. Writing'
  BY <1>1, <1>3 DEF Writing, Queued, Countdown
<1> QED
  BY <1>1, <1>2, <1>4, StepKeeps DEF RunInv, Typed, Staged, RunNext

\* Preparing an executor, whose input has been prepared before it, fills the port
\* above it and takes the chunk from the port below.
LEMMA PrepareTaskInv ==
  ASSUME RunInv, PrepareTask
  PROVE  RunInv'
<1>1. PICK d : d = Head(executing)
  OBVIOUS
<1>2. /\ pc = "loop" /\ executing # <<>> /\ cur' = d /\ port' = Pushed(d) /\ in' = Pulled(d)
      /\ pc' = IF d < Len(stmt) /\ port[d] = 0 THEN Undefined ELSE "work"
      /\ executing' = Tail(executing)
      /\ UNCHANGED <<iterVars, stmt, rows, pending, chunk, status, printed>>
  BY <1>1 DEF PrepareTask
<1>3. ASSUME NEW m \in 1 .. 3, Queued(m)
      PROVE  d = m /\ Queued(m - 1)'
  <2>1. Head(executing) = m /\ Tail(executing) = Countdown(m - 1)
    <3>1. m \in Nat /\ m > 0 /\ executing = Countdown(m)
      BY <1>3 DEF Queued
    <3> QED
      BY <3>1, CountdownFacts
  <2> QED
    BY <1>1, <1>2, <1>3, <2>1 DEF Queued, Countdown
<1>4. ~Queued(0)
  BY <1>2, CountdownFacts DEF Queued
<1>5. CASE stmt = SelectPlan
  <2>1. /\ Len(stmt) = 3 /\ DOMAIN stmt = 1 .. 3
        /\ stmt[1] = "ResultSet" /\ stmt[2] = "Filter" /\ stmt[3] = "TableScan"
        /\ port \in [1 .. 3 -> 0 .. 3] /\ in \in [1 .. 3 -> 0 .. 3]
    BY <1>5, PlanFacts DEF RunInv
  <2>2. CASE Fresh /\ Queued(3)
    <3>1. d = 3 /\ Queued(2)'
      BY <1>3, <2>2
    <3>2. port' = [port EXCEPT ![2] = 3] /\ in' = in /\ pc' = "work" /\ cur' = 3
      BY <1>2, <2>1, <3>1 DEF Pushed, Pulled
    <3>3. port' \in [1 .. 3 -> 0 .. 3] /\ port'[2] = 3
      BY <2>1, <3>2
    <3>4. Fresh'
      BY <1>2, <2>2 DEF Fresh, iterVars
    <3>5. Selecting'
      BY <3>1, <3>2, <3>3, <3>4 DEF Selecting
    <3> QED
      BY <1>2, <1>5, <2>1, <3>2, <3>3, <3>5, StepKeeps DEF RunInv, Typed, Staged, RunNext
  <2>3. CASE Queued(2) /\ PageIn(3) /\ port[2] = 3
    <3>1. d = 2 /\ Queued(1)'
      BY <1>3, <2>3
    <3>2. /\ port' = [port EXCEPT ![1] = 2] /\ in' = [in EXCEPT ![2] = 3]
          /\ pc' = "work" /\ cur' = 2
      <4>1. Pushed(2) = [port EXCEPT ![1] = 2]
        BY <2>1 DEF Pushed
      <4>2. Pulled(2) = [in EXCEPT ![2] = port[2]]
        BY <2>1 DEF Pulled
      <4> QED
        BY <1>2, <2>1, <2>3, <3>1, <4>1, <4>2
    <3>3. /\ port' \in [1 .. 3 -> 0 .. 3] /\ port'[1] = 2
          /\ in' \in [1 .. 3 -> 0 .. 3] /\ in'[2] = 3
      BY <2>1, <3>2
    <3>4. PageIn(3)'
      BY <1>2, <2>3 DEF PageIn, PageDone, iterVars
    <3>5. Selecting'
      BY <3>1, <3>2, <3>3, <3>4 DEF Selecting
    <3> QED
      BY <1>2, <1>5, <2>1, <3>2, <3>3, <3>5, StepKeeps DEF RunInv, Typed, Staged, RunNext
  <2>4. CASE Queued(1) /\ PageIn(2) /\ port[1] = 2
    <3>1. d = 1 /\ Queued(0)'
      BY <1>3, <2>4
    <3>2. port' = port /\ in' = [in EXCEPT ![1] = 2] /\ pc' = "work" /\ cur' = 1
      <4>1. Pushed(1) = port
        BY <2>1 DEF Pushed
      <4>2. Pulled(1) = [in EXCEPT ![1] = port[1]]
        BY <2>1 DEF Pulled
      <4> QED
        BY <1>2, <2>1, <2>4, <3>1, <4>1, <4>2
    <3>3. in' \in [1 .. 3 -> 0 .. 3] /\ in'[1] = 2
      BY <2>1, <3>2
    <3>4. PageIn(2)'
      BY <1>2, <2>4 DEF PageIn, PageDone, iterVars
    <3>5. Selecting'
      BY <3>1, <3>2, <3>3, <3>4 DEF Selecting
    <3> QED
      BY <1>2, <1>5, <2>1, <3>2, <3>3, <3>5, StepKeeps DEF RunInv, Typed, Staged, RunNext
  <2> QED
    BY <1>2, <1>4, <1>5, <2>1, <2>2, <2>3, <2>4 DEF RunInv, Waiting, Selecting
<1>6. CASE stmt # SelectPlan
  <2>1. Len(stmt) = 1 /\ DOMAIN stmt = 1 .. 1 /\ stmt[1] \in {"Insert", "Create"}
    BY <1>6, PlanFacts DEF RunInv
  <2>2. Fresh /\ Queued(1)
    BY <1>2, <1>4, <1>6, <2>1 DEF RunInv, Waiting, Writing
  <2>3. d = 1 /\ Queued(0)'
    BY <1>3, <2>2
  <2>4. port' = port /\ in' = in /\ pc' = "work" /\ cur' = 1
    BY <1>2, <2>1, <2>3 DEF Pushed, Pulled
  <2>5. chunk'[1] = <<>> /\ printed' = <<>>
    BY <1>2, <2>1, <2>2 DEF Fresh
  <2>6. Writing'
    BY <2>3, <2>4, <2>5 DEF Writing
  <2> QED
    BY <1>2, <1>6, <2>4, <2>6, StepKeeps DEF RunInv, Typed, Staged, RunNext
<1> QED
  BY <1>5, <1>6

-----------------------------------------------------------------------------
(* The executors of a SELECT *)

\* Which stage an executor at work is in.
LEMMA AtWork ==
  ASSUME RunInv
  PROVE  /\ Working("TableScan") =>
              /\ stmt = SelectPlan /\ cur = 3 /\ Queued(2) /\ Fresh /\ port[2] = 3
         /\ Working("Filter") =>
              /\ stmt = SelectPlan /\ cur = 2 /\ Queued(1) /\ PageIn(3)
              /\ in[2] = 3 /\ port[1] = 2
         /\ Working("ResultSet") =>
              stmt = SelectPlan /\ cur = 1 /\ Queued(0) /\ PageIn(2) /\ in[1] = 2
<1> SUFFICES ASSUME pc = "work"
             PROVE  /\ stmt[cur] = "TableScan" =>
                         /\ stmt = SelectPlan /\ cur = 3 /\ Queued(2) /\ Fresh /\ port[2] = 3
                    /\ stmt[cur] = "Filter" =>
                         /\ stmt = SelectPlan /\ cur = 2 /\ Queued(1) /\ PageIn(3)
                         /\ in[2] = 3 /\ port[1] = 2
                    /\ stmt[cur] = "ResultSet" =>
                         stmt = SelectPlan /\ cur = 1 /\ Queued(0) /\ PageIn(2) /\ in[1] = 2
  BY DEF Working
<1>1. CASE stmt # SelectPlan
  <2>1. cur = 1
    BY <1>1 DEF RunInv, Waiting, Writing
  <2> QED
    BY <1>1, <2>1, PlanFacts DEF RunInv
<1>2. CASE stmt = SelectPlan
  <2>1. \/ cur = 3 /\ Queued(2) /\ Fresh /\ port[2] = 3
        \/ cur = 2 /\ Queued(1) /\ PageIn(3) /\ in[2] = 3 /\ port[1] = 2
        \/ cur = 1 /\ Queued(0) /\ PageIn(2) /\ in[1] = 2
    BY <1>2 DEF RunInv, Waiting, Selecting
  <2>2. stmt[1] = "ResultSet" /\ stmt[2] = "Filter" /\ stmt[3] = "TableScan"
    BY <1>2, PlanFacts DEF RunInv
  <2> QED
    BY <1>2, <2>1, <2>2
<1> QED
  BY <1>1, <1>2

\* The iterator is opened: it is at the first key, or there is none.
LEMMA ScanOpenInv ==
  ASSUME RunInv, ScanOpen
  PROVE  RunInv'
<1>1. stmt = SelectPlan /\ cur = 3 /\ Queued(2) /\ Fresh /\ port[2] = 3
  BY AtWork DEF ScanOpen
<1>2. /\ OpenNextRange /\ UNCHANGED <<disk, ret, ranges, page, busy, got>>
      /\ UNCHANGED <<stmt, rows, pending, executing, cur, port, in, chunk, printed>>
      /\ IF code' \in {C_OK, C_BPTREE_ITERATOR_END}
         THEN pc' = "next" /\ status' = status
         ELSE Finish(code')
  BY DEF ScanOpen, Open
<1>3. \/ OpensNone
      \/ \E j \in rangeIdx + 1 .. Len(ranges) :
           OpensLost(j) \/ (\E i, k : OpensAt(j, i, k)) \/ \E i : OpensInGap(j, i)
  BY <1>2, OpenNextRangeFacts DEF RunInv, IterInv
<1>4. rangeIdx' > 0
  <2>1. Len(ranges) = 1 /\ rangeIdx = 0
    BY <1>1, SelectHalfOpen DEF RunInv, Fresh
  <2>2. rangeIdx' = Len(ranges) \/ \E j \in rangeIdx + 1 .. Len(ranges) : rangeIdx' = j
    BY <1>3 DEF OpensNone, OpensLost, OpensAt, OpensInGap
  <2> QED
    BY <2>1, <2>2
<1>8. DOMAIN stmt = 1 .. 3
  BY <1>1, PlanFacts DEF RunInv
<1>5. Queued(2)'
  BY <1>1, <1>2 DEF Queued, Countdown
<1>6. CASE code' \in {C_OK, C_BPTREE_ITERATOR_END}
  <2>1. Paging' /\ page' = <<>> /\ ~busy'
    BY <1>1, <1>2, <1>4, <1>6, <1>8 DEF Paging, Fresh
  <2>2. Selecting'
    BY <1>1, <1>2, <1>5, <1>6, <2>1 DEF Selecting
  <2> QED
    BY <1>1, <1>2, <2>2, StepKeeps DEF RunInv, Typed, Staged, RunNext
<1>7. CASE code' \notin {C_OK, C_BPTREE_ITERATOR_END}
  <2>1. /\ pc' = "returned" /\ status' # C_OK /\ status' # Aborted
        /\ printed' = <<>> /\ 2 \in 0 .. 3
    <3>1. code' \in {C_OK, C_BPTREE_ITERATOR_END, C_STORAGE_KV_NOT_FOUND}
      BY <1>3 DEF OpensNone, OpensLost, OpensAt, OpensInGap
    <3>2. code' # Aborted
      BY <3>1 DEF C_OK, C_BPTREE_ITERATOR_END, C_STORAGE_KV_NOT_FOUND, Aborted
    <3> QED
      BY <1>1, <1>2, <1>7, <3>2 DEF Finish, Fresh, C_OK
  <2>2. Selecting'
    BY <1>5, <2>1 DEF Selecting
  <2> QED
    BY <1>1, <1>2, <2>2, StepKeeps DEF RunInv, Typed, Staged, RunNext
<1> QED
  BY <1>6, <1>7

\* Next begins a page, unless there is nothing to scan.
LEMMA ScanNextStepInv ==
  ASSUME RunInv, ScanNext
  PROVE  RunInv'
<1>1. /\ stmt = SelectPlan /\ cur = 3 /\ Queued(2) /\ Paging /\ page = <<>> /\ ~busy
      /\ code \in {C_OK, C_BPTREE_ITERATOR_END}
  BY DEF ScanNext, RunInv, Waiting, Selecting, Writing
<1>2. /\ pc' = "page"
      /\ UNCHANGED <<stmt, rows, pending, executing, cur, port, in, chunk, status, printed>>
      /\ IF code = C_OK THEN BeginNext ELSE UNCHANGED iterVars
  BY DEF ScanNext
<1>3. page' = <<>> /\ got' = got /\ rangeIdx' = rangeIdx /\ code' = code
  BY <1>1, <1>2 DEF BeginNext, iterVars
<1>4. busy' \/ code' # C_OK
  BY <1>2, <1>3 DEF BeginNext
<1>5. Paging'
  BY <1>1, <1>2, <1>3 DEF Paging
<1>6. Queued(2)'
  BY <1>1, <1>2 DEF Queued, Countdown
<1>7. Selecting'
  BY <1>1, <1>2, <1>4, <1>5, <1>6 DEF Selecting
<1> QED
  BY <1>1, <1>2, <1>7, StepKeeps DEF RunInv, Typed, Staged, RunNext

\* A turn of Next adds the same key to the page and to what has been returned, and
\* Next ends with a full page or at the end of the scan.
LEMMA ScanTurnInv ==
  ASSUME RunInv, ScanTurn
  PROVE  RunInv'
<1>1. stmt = SelectPlan /\ cur = 3 /\ Queued(2) /\ Paging
  BY DEF ScanTurn, RunInv, Waiting, Selecting, Writing
<1>2. pc = "page" /\ UNCHANGED runVars /\ Turn /\ busy
  BY DEF ScanTurn
<1>3. UNCHANGED <<stmt, rows, pending, executing, cur, pc, port, in, chunk, status, printed>>
  BY <1>2 DEF runVars
<1>4. IterInv /\ Len(ranges) = 1
  BY SelectHalfOpen DEF RunInv
<1>5. page' = got' /\ rangeIdx' > 0 /\ (busy' \/ code' # C_OK \/ Len(page') = PageSize)
  <2>1. CASE EndNext
    BY <1>1, <2>1 DEF EndNext, Paging
  <2>2. CASE Emit
    <3>2. InLoop /\ ~it.kvEnd
      BY <2>2 DEF Emit
    <3>3. it.cur # NoKey
      BY <1>4, <3>2, LoopFacts, SelectHitsNoGap DEF RunInv
    <3>1. /\ page' = Append(page, it.cur) /\ got' = Append(got, it.cur)
          /\ UNCHANGED <<rangeIdx, busy>>
      BY <1>4, <2>2, <3>3, EmitFacts
    <3> QED
      BY <1>1, <1>2, <3>1 DEF Paging
  <2>3. CASE NextRange
    <3>1. OpenNextRange /\ UNCHANGED <<disk, ret, ranges, page, busy, got>>
      BY <2>3 DEF NextRange
    <3>2. /\ StoreShape /\ TreeShape /\ ranges \in Seq(IndexRange)
          /\ rangeIdx \in 0 .. Len(ranges)
      BY <1>4 DEF IterInv
    <3>3. \/ OpensNone
          \/ \E j \in rangeIdx + 1 .. Len(ranges) :
               OpensLost(j) \/ (\E i, k : OpensAt(j, i, k)) \/ \E i : OpensInGap(j, i)
      BY <3>1, <3>2, OpenNextRangeFacts
    <3>4. rangeIdx' = Len(ranges) \/ \E j \in rangeIdx + 1 .. Len(ranges) : rangeIdx' = j
      BY <3>3 DEF OpensNone, OpensLost, OpensAt, OpensInGap
    <3>5. rangeIdx' > 0
      BY <1>4, <3>2, <3>4
    <3> QED
      BY <1>1, <1>2, <3>1, <3>5 DEF Paging
  <2>4. CASE NextLeaf
    <3>1. UNCHANGED <<rangeIdx, page, busy, got>>
      BY <2>4 DEF NextLeaf
    <3> QED
      BY <1>1, <1>2, <3>1 DEF Paging
  <2> QED
    BY <1>2, <2>1, <2>2, <2>3, <2>4 DEF Turn
<1>6. Paging' /\ Queued(2)'
  BY <1>1, <1>3, <1>5 DEF Paging, Queued, Countdown
<1>7. Selecting'
  BY <1>1, <1>2, <1>3, <1>5, <1>6 DEF Selecting
<1> QED
  BY <1>1, <1>3, <1>7, StepKeeps DEF RunInv, Typed, Staged, RunNext

\* GetItem fetches the rows of the page into the scan's chunk; one row that is not
\* there ends the run.
LEMMA GetRowsInv ==
  ASSUME RunInv, GetRows
  PROVE  RunInv'
<1>1. /\ stmt = SelectPlan /\ cur = 3 /\ Queued(2) /\ Paging /\ pc = "page"
      /\ busy \/ code # C_OK \/ Len(page) = PageSize
  BY DEF GetRows, RunInv, Waiting, Selecting, Writing
<1>2. ~busy /\ UNCHANGED <<iterVars, stmt, rows, pending, executing, cur, port, in, printed>>
  BY DEF GetRows
<1>3. UNCHANGED <<rangeIdx, code, page, busy, got>>
  BY <1>2 DEF iterVars
<1>4. DOMAIN stmt = 1 .. 3 /\ chunk \in [1 .. 3 -> Seq(Keys)] /\ page \in Seq(Keys)
  BY <1>1, PlanFacts DEF RunInv, IterInv
<1>5. Queued(2)'
  BY <1>1, <1>2 DEF Queued, Countdown
<1>6. ASSUME NEW st, st # C_OK, st # Aborted, Finish(st), chunk' = chunk PROVE RunInv'
  <2>1. /\ pc' = "returned" /\ status' # C_OK /\ status' # Aborted
        /\ printed' = <<>> /\ 2 \in 0 .. 3
    BY <1>1, <1>2, <1>6 DEF Finish, Paging
  <2>2. Selecting'
    BY <1>5, <2>1 DEF Selecting
  <2> QED
    BY <1>1, <1>2, <1>6, <2>2, StepKeeps DEF RunInv, Typed, Staged, RunNext
<1>7. CASE code \notin {C_OK, C_BPTREE_ITERATOR_END}
  BY <1>6, <1>7, SelectHitsNoGap DEF GetRows, RunInv, C_OK
<1>8. CASE code \in {C_OK, C_BPTREE_ITERATOR_END} /\ MGetKV # C_OK
  BY <1>6, <1>8 DEF GetRows, MGetKV, C_STORAGE_KV_NOT_FOUND, Aborted
<1>9. CASE code \in {C_OK, C_BPTREE_ITERATOR_END} /\ MGetKV = C_OK
  <2>1. Finish(C_OK) /\ chunk' = [chunk EXCEPT ![3] = chunk[3] \o page]
    BY <1>1, <1>9 DEF GetRows
  <2>2. pc' = "loop" /\ status' = C_OK
    BY <2>1 DEF Finish
  <2>3. chunk[3] \o page = page
    BY <1>1, <1>4 DEF Paging
  <2>4. /\ chunk' \in [1 .. 3 -> Seq(Keys)]
        /\ \A d \in 1 .. 3 : chunk'[d] = IF d = 3 THEN page ELSE <<>>
    BY <1>1, <1>4, <2>1, <2>3 DEF Paging
  <2>5. Range(page) \subseteq rows
    BY <1>9 DEF MGetKV, C_OK, C_STORAGE_KV_NOT_FOUND
  <2>6. PageDone
    BY <1>1, <1>2, <1>9, <2>5 DEF PageDone, Paging
  <2>7. PageDone'
    BY <1>2, <1>3, <2>6 DEF PageDone
  <2>8. PageIn(3)' /\ port'[2] = 3
    BY <1>1, <1>2, <1>3, <2>2, <2>4, <2>7 DEF PageIn, Paging
  <2>9. Selecting'
    BY <1>5, <2>2, <2>8 DEF Selecting
  <2>10. Typed'
    BY <1>1, <1>2, <1>4, <2>4 DEF RunInv, Typed
  <2> QED
    BY <1>1, <1>2, <2>9, <2>10, StepKeeps DEF Staged, RunNext
<1> QED
  BY <1>7, <1>8, <1>9

\* The filter moves the page into its own chunk.
LEMMA FilterInv ==
  ASSUME RunInv, FilterWork
  PROVE  RunInv'
<1>1. /\ stmt = SelectPlan /\ cur = 2 /\ Queued(1) /\ PageIn(3)
      /\ in[2] = 3 /\ port[1] = 2
  BY AtWork DEF FilterWork
<1>2. /\ chunk' = MoveChunk(2) /\ Finish(C_OK)
      /\ UNCHANGED <<iterVars, stmt, rows, pending, executing, cur, port, in, printed>>
  BY <1>1 DEF FilterWork
<1>3. UNCHANGED <<rangeIdx, code, page, busy, got>>
  BY <1>2 DEF iterVars
<1>4. DOMAIN stmt = 1 .. 3 /\ chunk \in [1 .. 3 -> Seq(Keys)]
  BY <1>1, PlanFacts DEF RunInv
<1>5. chunk' = [chunk EXCEPT ![2] = chunk[3], ![3] = <<>>]
  BY <1>1, <1>2 DEF MoveChunk
<1>6. /\ chunk' \in [1 .. 3 -> Seq(Keys)]
      /\ \A d \in 1 .. 3 : chunk'[d] = IF d = 2 THEN page ELSE <<>>
  <2>1. <<>> \in Seq(Keys) /\ chunk[3] = page /\ chunk[1] = <<>>
    BY <1>1 DEF PageIn
  <2>2. chunk'[1] = chunk[1] /\ chunk'[2] = chunk[3] /\ chunk'[3] = <<>>
    BY <1>4, <1>5
  <2>3. chunk' \in [1 .. 3 -> Seq(Keys)]
    BY <1>4, <1>5, <2>1
  <2> QED
    BY <2>1, <2>2, <2>3
<1>7. pc' = "loop" /\ status' = C_OK /\ Queued(1)'
  BY <1>1, <1>2 DEF Finish, Queued, Countdown
<1>8. PageIn(2)' /\ port'[1] = 2
  BY <1>1, <1>2, <1>3, <1>6, <1>7 DEF PageIn, PageDone
<1>9. Selecting'
  BY <1>7, <1>8 DEF Selecting
<1>10. Typed'
  BY <1>2, <1>4, <1>6 DEF RunInv, Typed
<1> QED
  BY <1>1, <1>2, <1>9, <1>10, StepKeeps DEF Staged, RunNext

\* The result set prints the page.
LEMMA ResultSetInv ==
  ASSUME RunInv, ResultSetWork
  PROVE  RunInv'
<1>1. stmt = SelectPlan /\ cur = 1 /\ Queued(0) /\ PageIn(2) /\ in[1] = 2
  BY AtWork DEF ResultSetWork
<1>2. /\ printed' = printed \o chunk[2] /\ Finish(C_OK)
      /\ UNCHANGED <<iterVars, stmt, rows, pending, executing, cur, port, in, chunk>>
  BY <1>1 DEF ResultSetWork
<1>3. UNCHANGED <<rangeIdx, code, page, busy, got>>
  BY <1>2 DEF iterVars
<1>4. page \in Seq(Keys)
  BY DEF RunInv, IterInv
<1>5. printed' = page
  <2>1. printed = <<>> /\ chunk[2] = page
    BY <1>1 DEF PageIn
  <2> QED
    BY <1>2, <1>4, <2>1
<1>6. pc' = "loop" /\ status' = C_OK /\ Queued(0)'
  BY <1>1, <1>2 DEF Finish, Queued, Countdown
<1>7. PageDone' /\ printed' = page'
  BY <1>1, <1>2, <1>3, <1>5 DEF PageIn, PageDone
<1>8. Selecting'
  BY <1>6, <1>7 DEF Selecting
<1> QED
  BY <1>1, <1>2, <1>8, StepKeeps DEF RunInv, Typed, Staged, RunNext

-----------------------------------------------------------------------------
(* The theorems *)

\* Every step of a run leads to one of its stages.
LEMMA RunNextInv ==
  ASSUME RunInv, [RunNext]_schedVars
  PROVE  RunInv'
<1>1. CASE UNCHANGED schedVars
  <2>1. Common'
    BY CommonStays
  <2>2. UNCHANGED <<iterVars, stmt, rows, pending, executing, cur, pc, port, in, chunk,
                    status, printed>>
    BY <1>1 DEF schedVars, runVars
  <2>3. UNCHANGED <<rangeIdx, code, page, busy, got>>
    BY <2>2 DEF iterVars
  <2>4. Waiting => Waiting'
    BY <2>2, <2>3 DEF Waiting, Fresh, Queued, Countdown
  <2>5. Selecting => Selecting'
    BY <2>2, <2>3 DEF Selecting, Fresh, Paging, PageIn, PageDone, Queued, Countdown
  <2>6. Writing => Writing'
    BY <2>2 DEF Writing, Queued, Countdown
  <2> QED
    BY <2>1, <2>2, <2>4, <2>5, <2>6 DEF Common, RunInv
<1>2. CASE StartRun \/ MoveTasks \/ PrepareTask \/ CloseGraph
  BY <1>2, StartRunInv, MoveTasksInv, PrepareTaskInv, CloseGraphInv
<1>3. CASE ScanOpen \/ ScanNext \/ ScanTurn \/ GetRows
  BY <1>3, ScanOpenInv, ScanNextStepInv, ScanTurnInv, GetRowsInv
<1>4. CASE FilterWork \/ ResultSetWork \/ InsertWork \/ CreateWork
  BY <1>4, FilterInv, ResultSetInv, WriteInv
<1> QED
  BY <1>1, <1>2, <1>3, <1>4 DEF RunNext

\* Every state of a run is one of its stages.
LEMMA RunInvHolds == RunSpec => []RunInv
<1>1. RunInit => RunInv
  BY RunInitInv
<1>2. RunInv /\ [RunNext]_schedVars => RunInv'
  BY RunNextInv
<1> QED
  BY <1>1, <1>2, PTL DEF RunSpec

\* ToExecutor enters an executor after its inputs, so that Prepare of a transform
\* or a sink never reads the chunk_ of a port that no executor has set.
THEOREM PortsAreSetFirst == RunSpec => []NoUnsetPortIsRead
<1>1. RunInv => NoUnsetPortIsRead
  BY DEF RunInv, Waiting, Selecting, Writing, NoUnsetPortIsRead, Undefined
<1> QED
  BY <1>1, RunInvHolds, PTL

\* ResultSetExecutor prints no row whose record is missing: MGetKV fails as a
\* whole and the run ends before the result set.
THEOREM PrintedRowsAreStored == RunSpec => []PrintedRowsExist
<1>1. RunInv => PrintedRowsExist
  <2> SUFFICES ASSUME RunInv PROVE Range(printed) \subseteq rows
    BY DEF PrintedRowsExist
  <2>1. \/ printed = <<>>
        \/ printed = page /\ Range(page) \subseteq rows
    BY DEF RunInv, Waiting, Selecting, Writing, Fresh, Paging, PageIn, PageDone
  <2>2. printed = <<>> => Range(printed) = {}
    BY DEF Range
  <2> QED
    BY <2>1, <2>2
<1> QED
  BY <1>1, RunInvHolds, PTL

\* A complete page is the beginning of what the SELECT can see.
LEMMA DonePageIsFirst ==
  ASSUME RunInv, PageDone
  PROVE  page = SubSeq(Visible, 1, Min({PageSize, Len(Visible)}))
<1>1. /\ IterInv /\ ScanInv /\ Len(ranges) = 1 /\ ranges[1] = SelectRange
      /\ StoreShape /\ ranges \in Seq(IndexRange) /\ rangeIdx \in 0 .. Len(ranges)
      /\ page \in Seq(Keys) /\ Len(page) <= PageSize
  BY SelectHalfOpen DEF RunInv, IterInv
<1>2. rangeIdx = 1 /\ page = got
  BY <1>1 DEF PageDone
<1>3. Visible \in Seq(Keys) /\ ExpectedUpTo(1) = Visible
  <2>1. /\ ExpectedUpTo(1) = ExpectedUpTo(1 - 1) \o Expected(ranges[1])
        /\ ExpectedUpTo(0) = <<>>
    BY <1>1, UpToFacts
  <2>2. Visible \in Seq(Keys)
    BY <1>1, ExpectedType DEF Visible
  <2>3. Expected(ranges[1]) = Visible /\ 1 - 1 = 0
    BY <1>1 DEF Visible
  <2>4. <<>> \o Visible = Visible
    BY <2>2
  <2> QED
    BY <2>1, <2>2, <2>3, <2>4
<1>4. ScanIsExact
  BY <1>1, InvIsExact
<1>5. PICK v : v = Visible
  OBVIOUS
<1>6. v \in Seq(Keys) /\ IsPrefix(page, v) /\ (code = C_BPTREE_ITERATOR_END => page = v)
  BY <1>1, <1>2, <1>3, <1>4, <1>5 DEF ScanIsExact
<1>7. /\ Len(v) \in Nat /\ PageSize \in Nat /\ Len(page) \in Nat
      /\ SubSeq(page, 1, Len(page)) = page
      /\ Len(page) <= Len(v) /\ SubSeq(v, 1, Len(page)) = page
  <2>1. SubSeq(page, 1, Len(page)) = page
    BY <1>1, SubSeqFull
  <2> QED
    BY <1>1, <1>6, <2>1, IteratorAssumption DEF IsPrefix
<1>8. page = v \/ Len(page) = PageSize
  BY <1>6 DEF PageDone
<1> DEFINE T == {PageSize, Len(v)}
<1>9. Min(T) \in T /\ \A k \in T : Min(T) <= k
  <2>1. T \in SUBSET Nat /\ T # {}
    BY <1>7
  <2> HIDE DEF T
  <2> QED
    BY <2>1, MinNumber
<1>10. Min(T) = Len(page)
  <2>1. /\ Min(T) = PageSize \/ Min(T) = Len(v)
        /\ Min(T) <= PageSize /\ Min(T) <= Len(v)
    BY <1>9
  <2>2. page = v => Len(page) = Len(v)
    OBVIOUS
  <2>3. PICK a, b, c : a = Min(T) /\ b = Len(page) /\ c = Len(v)
    OBVIOUS
  <2> HIDE DEF T
  <2>4. /\ b \in Nat /\ c \in Nat /\ PageSize \in Nat /\ b <= PageSize /\ b <= c
        /\ b = c \/ b = PageSize
    BY <1>1, <1>7, <1>8, <2>2, <2>3
  <2>5. (a = PageSize \/ a = c) /\ a <= PageSize /\ a <= c
    BY <2>1, <2>3
  <2>6. a = b
    BY <2>4, <2>5
  <2> QED
    BY <2>3, <2>6
<1> QED
  BY <1>5, <1>7, <1>10

\* A SELECT that succeeds has printed exactly the first page of the rows it can
\* see, in the order of their keys; one that fails has printed nothing.  This is
\* for every tree in the store, every set of row records and every page size.
THEOREM SelectIsItsPage == RunSpec => []SelectPrintsItsPage
<1>1. RunInv => SelectPrintsItsPage
  <2> SUFFICES ASSUME RunInv, pc = "returned", stmt[1] = "ResultSet"
               PROVE  /\ status # Aborted
                      /\ printed = IF status = C_OK
                                   THEN SubSeq(Visible, 1, Min({PageSize, Len(Visible)}))
                                   ELSE <<>>
    BY DEF SelectPrintsItsPage
  <2>1. stmt = SelectPlan
    BY PlanFacts DEF RunInv
  <2>2. IF status = C_OK THEN PageDone /\ printed = page
        ELSE printed = <<>> /\ status # Aborted
    BY <2>1 DEF RunInv, Waiting, Selecting
  <2> QED
    BY <2>2, DonePageIsFirst DEF C_OK, Aborted
<1> QED
  BY <1>1, RunInvHolds, PTL

\* A countdown has no task twice.
LEMMA CountdownInjective ==
  ASSUME NEW m \in Nat, NEW q, q = Countdown(m)
  PROVE  IsInjective(q) /\ Range(q) \subseteq 1 .. m
<1>1. DOMAIN q = 1 .. m /\ \A i \in 1 .. m : q[i] = m + 1 - i
  BY DEF Countdown
<1>2. IsInjective(q)
  BY <1>1 DEF IsInjective
<1>3. Range(q) \subseteq 1 .. m
  BY <1>1 DEF Range
<1> QED
  BY <1>2, <1>3

\* A task is in at most one of the two queues, and the pointers of the executors
\* lead to chunks of the statement's own graph.
THEOREM RunIsTyped == RunSpec => []RunTypeOK
<1>1. RunInv => RunTypeOK
  <2> SUFFICES ASSUME RunInv PROVE RunTypeOK
    OBVIOUS
  <2>1. pc \in {"start", "loop", "work", "next", "page", "returned", Undefined}
    BY DEF RunInv, Waiting, Selecting, Writing
  <2>2. DOMAIN stmt = 1 .. Len(stmt) /\ Len(stmt) \in {1, 3}
        /\ (stmt = SelectPlan => Len(stmt) = 3)
    BY PlanFacts DEF RunInv
  <2>3. PICK m \in 0 .. Len(stmt) :
          \/ pending = Countdown(m) /\ executing = <<>>
          \/ pending = <<>> /\ executing = Countdown(m)
    <3>1. CASE Waiting
      <4>1. CASE pc = "start"
        BY <2>2, <3>1, <4>1, CountdownFacts DEF Waiting
      <4>2. CASE pc # "start"
        BY <2>2, <3>1, <4>2 DEF Waiting, Queued
      <4> QED
        BY <4>1, <4>2
    <3>2. CASE stmt = SelectPlan /\ Selecting
      <4>1. \E k \in 0 .. 3 : Queued(k)
        BY <3>2 DEF Selecting
      <4> QED
        BY <2>2, <3>2, <4>1 DEF Queued
    <3>3. CASE stmt # SelectPlan /\ Writing
      BY <2>2, <3>3 DEF Writing, Queued
    <3> QED
      BY <3>1, <3>2, <3>3 DEF RunInv
  <2>4. m \in Nat /\ Countdown(m) \in Seq(Nat)
    BY <2>2, <2>3, CountdownFacts
  <2>5. pending \o executing = Countdown(m)
    BY <2>3, <2>4
  <2>6. IsInjective(pending \o executing) /\ Range(pending \o executing) \subseteq 1 .. m
    BY <2>4, <2>5, CountdownInjective
  <2>7. Range(pending \o executing) \subseteq DOMAIN stmt
    BY <2>2, <2>3, <2>6
  <2>8. ASSUME NEW d \in DOMAIN stmt PROVE Range(chunk[d]) \subseteq Keys
    <3>1. chunk[d] \in Seq(Keys)
      BY DEF RunInv
    <3> QED
      BY <3>1 DEF Range
  <2> QED
    BY <2>1, <2>6, <2>7, <2>8 DEF RunInv, RunTypeOK
<1> QED
  BY <1>1, RunInvHolds, PTL

=============================================================================
