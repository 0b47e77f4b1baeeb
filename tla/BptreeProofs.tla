---------------------------- MODULE BptreeProofs ----------------------------
(***************************************************************************)
(* Proofs about Bptree: for every number of keys, every node size and any  *)
(* sequence of calls, complete and failing saves, the tree keeps its types *)
(* and its node ids apart, the root never splits, and an insert never runs *)
(* into a stale entry of write_kvs_.                                       *)
(***************************************************************************)
EXTENDS Bptree, FiniteSetTheorems, SequenceTheorems, TLAPS

-----------------------------------------------------------------------------
(* Words, keys and items *)

\* Every result of unsigned arithmetic is a machine word.
LEMMA WordType ==
  ASSUME NEW n \in Int
  PROVE  Word(n) \in 0 .. WordMod - 1
BY NodeAssumption DEF Word

\* Numbers below WordMod are left alone.
LEMMA WordSmall ==
  ASSUME NEW n \in 0 .. WordMod - 1
  PROVE  Word(n) = n
BY NodeAssumption DEF Word

\* The length of a key or of the empty string.
LEMMA KeyLenType ==
  ASSUME NEW k
  PROVE  KeyLen(k) \in Nat /\ KeyLen(k) <= KeySize
BY NodeAssumption DEF KeyLen

\* Items are functions from keys to values.
LEMMA KVsElim ==
  ASSUME NEW f \in KVs
  PROVE  DOMAIN f \subseteq Keys /\ f \in [DOMAIN f -> Values]
BY DEF KVs

\* Every such function is a set of items.
LEMMA KVsIntro ==
  ASSUME NEW S \in SUBSET Keys, NEW f \in [S -> Values]
  PROVE  f \in KVs
BY DEF KVs

\* A leaf's keys are finitely many.
LEMMA KeysFinite ==
  ASSUME NEW S \in SUBSET Keys
  PROVE  IsFiniteSet(S) /\ Cardinality(S) \in Nat
<1>1. MaxKey \in Int /\ 1 \in Int
  BY NodeAssumption
<1>2. IsFiniteSet(1 .. MaxKey)
  BY <1>1, FS_Interval
<1>3. IsFiniteSet(S)
  BY <1>2, FS_Subset DEF Keys
<1> QED
  BY <1>3, FS_CardinalityType

\* A nonempty set of keys has a least and a greatest element.
LEMMA MinKey ==
  ASSUME NEW S \in SUBSET Keys, S # {}
  PROVE  Min(S) \in S /\ \A y \in S : Min(S) <= y
<1>1. S \subseteq Nat
  BY NodeAssumption DEF Keys
<1>2. \E x \in S : \A y \in S : ~ (<<y, x>> \in OpToRel(<, Nat))
  BY <1>1, NatLessThanWellFounded, WFMin
<1>3. PICK x \in S : \A y \in S : ~ (<<y, x>> \in OpToRel(<, Nat))
  BY <1>2
<1>4. \A y \in S : x <= y
  <2> SUFFICES ASSUME NEW y \in S, ~ (x <= y) PROVE FALSE
    OBVIOUS
  <2>1. x \in Nat /\ y \in Nat /\ y < x
    BY <1>1
  <2>2. <<y, x>> \in OpToRel(<, Nat)
    BY <2>1 DEF OpToRel
  <2> QED
    BY <1>3, <2>2
<1> QED
  BY <1>4 DEF Min

\* The greatest key, by reversing the order of the keys.
LEMMA MaxKeyOf ==
  ASSUME NEW S \in SUBSET Keys, S # {}
  PROVE  Max(S) \in S /\ \A y \in S : Max(S) >= y
<1> DEFINE T == {MaxKey + 1 - k : k \in S}
<1>1. MaxKey \in Nat /\ \A k \in S : k \in 1 .. MaxKey
  BY NodeAssumption DEF Keys
<1>2. T \in SUBSET Keys /\ T # {}
  BY <1>1 DEF Keys
<1>3. PICK m \in T : \A y \in T : m <= y
  BY <1>2, MinKey
<1>4. PICK x \in S : m = MaxKey + 1 - x
  OBVIOUS
<1>5. \A y \in S : x >= y
  <2> SUFFICES ASSUME NEW y \in S PROVE x >= y
    OBVIOUS
  <2>1. MaxKey + 1 - x <= MaxKey + 1 - y
    BY <1>3, <1>4
  <2> QED
    BY <1>1, <2>1
<1> QED
  BY <1>5 DEF Max

-----------------------------------------------------------------------------
(* Sequences *)

\* The elements of a sequence after a replacement, an insertion, a removal.
LEMMA ReplaceAtProperties ==
  ASSUME NEW T, NEW s \in Seq(T), NEW i \in 1 .. Len(s), NEW e \in T
  PROVE  /\ ReplaceAt(s, i, e) \in Seq(T)
         /\ Len(ReplaceAt(s, i, e)) = Len(s)
         /\ \A j \in 1 .. Len(s) : ReplaceAt(s, i, e)[j] = IF j = i THEN e ELSE s[j]
BY DEF ReplaceAt

\* An insertion moves what is behind it one place up.
LEMMA InsertAtProperties ==
  ASSUME NEW T, NEW s \in Seq(T), NEW i \in 1 .. Len(s) + 1, NEW e \in T
  PROVE  /\ InsertAt(s, i, e) \in Seq(T)
         /\ Len(InsertAt(s, i, e)) = Len(s) + 1
         /\ \A j \in 1 .. Len(s) + 1 :
              InsertAt(s, i, e)[j] = IF j < i THEN s[j] ELSE IF j = i THEN e ELSE s[j - 1]
<1> DEFINE a == SubSeq(s, 1, i - 1)
           b == SubSeq(s, i, Len(s))
<1>0. Len(s) \in Nat /\ i \in Int /\ i - 1 \in Int /\ \A j \in 1 .. Len(s) : s[j] \in T
  OBVIOUS
<1>1. a \in Seq(T) /\ Len(a) = i - 1 /\ \A j \in 1 .. i - 1 : a[j] = s[j]
  <2>1. /\ a \in Seq(T)
        /\ Len(a) = (IF 1 <= i - 1 THEN (i - 1) - 1 + 1 ELSE 0)
        /\ \A j \in 1 .. (i - 1) - 1 + 1 : a[j] = s[1 + j - 1]
    BY <1>0, SubSeqProperties, \A j \in 1 .. i - 1 : s[j] \in T
  <2> HIDE DEF a
  <2> QED
    BY <1>0, <2>1
<1>2. b \in Seq(T) /\ Len(b) = Len(s) + 1 - i /\ \A j \in 1 .. Len(s) + 1 - i : b[j] = s[i + j - 1]
  <2>1. /\ b \in Seq(T)
        /\ Len(b) = (IF i <= Len(s) THEN Len(s) - i + 1 ELSE 0)
        /\ \A j \in 1 .. Len(s) - i + 1 : b[j] = s[i + j - 1]
    BY <1>0, SubSeqProperties, \A j \in i .. Len(s) : s[j] \in T
  <2> HIDE DEF b
  <2> QED
    BY <1>0, <2>1
<1> HIDE DEF a, b
<1>3. /\ a \o <<e>> \in Seq(T) /\ Len(a \o <<e>>) = i
      /\ \A j \in 1 .. i : (a \o <<e>>)[j] = IF j < i THEN s[j] ELSE e
  BY <1>0, <1>1
<1>4. InsertAt(s, i, e) = (a \o <<e>>) \o b
  BY DEF InsertAt, a, b
<1>5. /\ (a \o <<e>>) \o b \in Seq(T)
      /\ Len((a \o <<e>>) \o b) = i + (Len(s) + 1 - i)
      /\ \A j \in 1 .. i + (Len(s) + 1 - i) :
           ((a \o <<e>>) \o b)[j] = IF j <= i THEN (a \o <<e>>)[j] ELSE b[j - i]
  <2> DEFINE c == a \o <<e>>
  <2>1. c \in Seq(T) /\ Len(c) = i
    BY <1>3
  <2> HIDE DEF c
  <2>2. /\ c \o b \in Seq(T)
        /\ Len(c \o b) = Len(c) + Len(b)
        /\ \A j \in 1 .. Len(c) + Len(b) :
             (c \o b)[j] = IF j <= Len(c) THEN c[j] ELSE b[j - Len(c)]
    BY <1>2, <2>1, ConcatProperties
  <2>3. /\ c \o b \in Seq(T)
        /\ Len(c \o b) = i + (Len(s) + 1 - i)
        /\ \A j \in 1 .. i + (Len(s) + 1 - i) :
             (c \o b)[j] = IF j <= i THEN c[j] ELSE b[j - i]
    BY <1>2, <2>1, <2>2, Zenon
  <2> QED
    BY <2>3 DEF c
<1>6. \A j \in 1 .. Len(s) + 1 : j > i => j - i \in 1 .. Len(s) + 1 - i /\ i + (j - i) - 1 = j - 1
  BY <1>0
<1> QED
  BY <1>0, <1>2, <1>3, <1>4, <1>5, <1>6

\* A removal moves what is behind it one place down.
LEMMA RemoveAtProperties ==
  ASSUME NEW T, NEW s \in Seq(T), NEW i \in 1 .. Len(s)
  PROVE  /\ RemoveAt(s, i) \in Seq(T)
         /\ Len(RemoveAt(s, i)) = Len(s) - 1
         /\ \A j \in 1 .. Len(s) - 1 :
              RemoveAt(s, i)[j] = IF j < i THEN s[j] ELSE s[j + 1]
<1> DEFINE a == SubSeq(s, 1, i - 1)
           b == SubSeq(s, i + 1, Len(s))
<1>0. Len(s) \in Nat /\ i \in Int /\ i - 1 \in Int /\ i + 1 \in Int /\ \A j \in 1 .. Len(s) : s[j] \in T
  OBVIOUS
<1>1. a \in Seq(T) /\ Len(a) = i - 1 /\ \A j \in 1 .. i - 1 : a[j] = s[j]
  <2>1. /\ a \in Seq(T)
        /\ Len(a) = (IF 1 <= i - 1 THEN (i - 1) - 1 + 1 ELSE 0)
        /\ \A j \in 1 .. (i - 1) - 1 + 1 : a[j] = s[1 + j - 1]
    BY <1>0, SubSeqProperties, \A j \in 1 .. i - 1 : s[j] \in T
  <2> HIDE DEF a
  <2> QED
    BY <1>0, <2>1
<1>2. b \in Seq(T) /\ Len(b) = Len(s) - i /\ \A j \in 1 .. Len(s) - i : b[j] = s[i + j]
  <2>1. /\ b \in Seq(T)
        /\ Len(b) = (IF i + 1 <= Len(s) THEN Len(s) - (i + 1) + 1 ELSE 0)
        /\ \A j \in 1 .. Len(s) - (i + 1) + 1 : b[j] = s[(i + 1) + j - 1]
    BY <1>0, SubSeqProperties, \A j \in i + 1 .. Len(s) : s[j] \in T
  <2> HIDE DEF b
  <2> QED
    BY <1>0, <2>1
<1> HIDE DEF a, b
<1>3. RemoveAt(s, i) = a \o b
  BY DEF RemoveAt, a, b
<1>4. /\ a \o b \in Seq(T)
      /\ Len(a \o b) = (i - 1) + (Len(s) - i)
      /\ \A j \in 1 .. (i - 1) + (Len(s) - i) :
           (a \o b)[j] = IF j <= i - 1 THEN a[j] ELSE b[j - (i - 1)]
  <2>1. /\ a \o b \in Seq(T)
        /\ Len(a \o b) = Len(a) + Len(b)
        /\ \A j \in 1 .. Len(a) + Len(b) :
             (a \o b)[j] = IF j <= Len(a) THEN a[j] ELSE b[j - Len(a)]
    BY <1>1, <1>2, ConcatProperties
  <2> QED
    BY <1>1, <1>2, <2>1, Zenon
<1>5. \A j \in 1 .. Len(s) - 1 :
        j >= i => j - (i - 1) \in 1 .. Len(s) - i /\ i + (j - (i - 1)) = j + 1
  BY <1>0
<1> QED
  BY <1>0, <1>1, <1>2, <1>3, <1>4, <1>5

-----------------------------------------------------------------------------
(* Leaves *)

\* A leaf object: its record has the right types and write_kvs_ holds no key that
\* kvs_ lacks.
LeafOK(leaf) == leaf \in LeafType /\ leaf.written \subseteq DOMAIN leaf.kvs

\* Leaf records by node id, as in the store.
StoreOK(stored) ==
  DOMAIN stored \subseteq Nat /\ \A id \in DOMAIN stored : stored[id] \in KVs

\* The parts of a leaf.
LEMMA LeafElim ==
  ASSUME NEW leaf \in LeafType
  PROVE  /\ leaf.id \in Nat /\ leaf.kvs \in KVs /\ leaf.written \in SUBSET Keys
         /\ leaf.count \in 0 .. WordMod - 1 /\ leaf.size \in 0 .. WordMod - 1
         /\ leaf.size \in Int
         /\ leaf.min \in Keys \cup {NoKey} /\ leaf.max \in Keys \cup {NoKey}
         /\ DOMAIN leaf.kvs \in SUBSET Keys /\ leaf.kvs \in [DOMAIN leaf.kvs -> Values]
<1>1. /\ leaf.id \in Nat /\ leaf.kvs \in KVs /\ leaf.written \in SUBSET Keys
      /\ leaf.count \in 0 .. WordMod - 1 /\ leaf.size \in 0 .. WordMod - 1
      /\ leaf.min \in Keys \cup {NoKey} /\ leaf.max \in Keys \cup {NoKey}
  BY DEF LeafType
<1>2. leaf.size \in Int
  BY <1>1, NodeAssumption
<1> QED
  BY <1>1, <1>2, KVsElim

\* A constructed leaf is well-formed.
LEMMA NewLeafOK ==
  ASSUME NEW id \in Nat
  PROVE  LeafOK(NewLeaf(id)) /\ NewLeaf(id).id = id /\ NewLeaf(id).kvs = EmptyKVs
<1>1. 0 \in 0 .. WordMod - 1
  BY NodeAssumption
<1>2. EmptyKVs \in [{} -> Values] /\ DOMAIN EmptyKVs = {}
  BY DEF EmptyKVs
<1>3. EmptyKVs \in KVs
  BY <1>2, KVsIntro
<1> QED
  BY <1>1, <1>3 DEF LeafOK, NewLeaf, LeafType

\* Merging a stored record only adds items.
LEMMA LoadOK ==
  ASSUME NEW leaf, LeafOK(leaf), NEW stored, StoreOK(stored)
  PROVE  LeafOK(Load(leaf, stored)) /\ Load(leaf, stored).id = leaf.id
<1>1. CASE leaf.id \notin DOMAIN stored
  BY <1>1 DEF Load
<1>2. CASE leaf.id \in DOMAIN stored
  <2> DEFINE rec == stored[leaf.id]
             D == DOMAIN leaf.kvs \cup DOMAIN rec
             f == [k \in D |-> IF k \in DOMAIN leaf.kvs THEN leaf.kvs[k] ELSE rec[k]]
  <2>1. rec \in KVs
    BY <1>2 DEF StoreOK
  <2>2. DOMAIN rec \subseteq Keys /\ rec \in [DOMAIN rec -> Values]
    BY <2>1, KVsElim
  <2>3. leaf \in LeafType /\ leaf.written \subseteq DOMAIN leaf.kvs
    BY DEF LeafOK
  <2>4. DOMAIN leaf.kvs \in SUBSET Keys /\ leaf.kvs \in [DOMAIN leaf.kvs -> Values]
    BY <2>3, LeafElim
  <2>5. Load(leaf, stored) = [leaf EXCEPT !.kvs = f]
    BY <1>2 DEF Load, Deserialize
  <2> HIDE DEF rec
  <2>6. D \in SUBSET Keys /\ f \in [D -> Values] /\ DOMAIN f = D
    BY <2>2, <2>4
  <2>7. f \in KVs
    BY <2>6, KVsIntro
  <2>8. leaf.written \subseteq DOMAIN f
    BY <2>3, <2>6
  <2> HIDE DEF f, D
  <2> QED
    BY <2>3, <2>5, <2>7, <2>8 DEF LeafOK, LeafType
<1> QED
  BY <1>1, <1>2

\* An inserted item, with the statistics brought up to date.
LEMMA PutItemOK ==
  ASSUME NEW leaf, LeafOK(leaf), NEW key \in Keys, NEW value \in Values
  PROVE  /\ LeafOK(PutItem(leaf, key, value))
         /\ PutItem(leaf, key, value).id = leaf.id
<1> DEFINE D == DOMAIN leaf.kvs \cup {key}
           f == [k \in D |-> IF k = key THEN value ELSE leaf.kvs[k]]
<1>1. leaf \in LeafType /\ leaf.written \subseteq DOMAIN leaf.kvs
  BY DEF LeafOK
<1>2. DOMAIN leaf.kvs \in SUBSET Keys /\ leaf.kvs \in [DOMAIN leaf.kvs -> Values]
  BY <1>1, LeafElim
<1>3. D \in SUBSET Keys /\ f \in [D -> Values] /\ DOMAIN f = D
  BY <1>2
<1>4. f \in KVs
  BY <1>3, KVsIntro
<1>5. PutItem(leaf, key, value) = [leaf EXCEPT !.written = leaf.written \cup {key}, !.kvs = f]
  BY DEF PutItem
<1>6. leaf.written \cup {key} \subseteq DOMAIN f /\ leaf.written \cup {key} \subseteq Keys
  BY <1>1, <1>2, <1>3
<1> HIDE DEF f, D
<1> QED
  BY <1>1, <1>4, <1>5, <1>6 DEF LeafOK, LeafType

\* The statistics of a leaf after an insert are words and keys.
LEMMA AddKVOK ==
  ASSUME NEW leaf, LeafOK(leaf), NEW key \in Keys
  PROVE  /\ LeafOK(UpdateStatByAddKV(leaf, key))
         /\ UpdateStatByAddKV(leaf, key).id = leaf.id
<1> DEFINE n == Cardinality(DOMAIN leaf.kvs)
           newMax == n = 1 \/ key > leaf.max
           newMin == n = 1 \/ key < leaf.min
           grown  == IF n = 1
                     THEN 2 * KeySize + RefSize
                     ELSE (IF newMax THEN KeySize - KeyLen(leaf.max) ELSE 0)
                          + (IF newMin THEN KeySize - KeyLen(leaf.min) ELSE 0)
           hi == IF newMax THEN key ELSE leaf.max
           lo == IF newMin THEN key ELSE leaf.min
<1>1. leaf \in LeafType
  BY DEF LeafOK
<1>2. DOMAIN leaf.kvs \in SUBSET Keys
  BY <1>1, LeafElim
<1>3. n \in Int
  BY <1>2, KeysFinite
<1>4. grown \in Int
  <2>1. KeySize \in Int /\ RefSize \in Int
    BY NodeAssumption
  <2>2. KeyLen(leaf.max) \in Int /\ KeyLen(leaf.min) \in Int
    BY KeyLenType
  <2> QED
    BY <2>1, <2>2
<1>5. lo \in Keys \cup {NoKey} /\ hi \in Keys \cup {NoKey}
  BY <1>1, LeafElim
<1>6. Word(n) \in 0 .. WordMod - 1
  BY <1>3, WordType
<1>7. Word(leaf.size + ValueSize + grown) \in 0 .. WordMod - 1
  <2>1. leaf.size \in Int /\ ValueSize \in Int
    BY <1>1, LeafElim, NodeAssumption
  <2> HIDE DEF grown
  <2>2. leaf.size + ValueSize + grown \in Int
    BY <1>4, <2>1
  <2> QED
    BY <2>2, WordType
<1>8. UpdateStatByAddKV(leaf, key) =
        [leaf EXCEPT !.count = Word(n), !.size = Word(leaf.size + ValueSize + grown),
                     !.max = hi, !.min = lo]
  BY DEF UpdateStatByAddKV
<1> HIDE DEF n, grown, lo, hi, newMax, newMin
<1> QED
  BY <1>1, <1>5, <1>6, <1>7, <1>8 DEF LeafOK, LeafType

\* A removed item.
LEMMA DropItemOK ==
  ASSUME NEW leaf, LeafOK(leaf), NEW key
  PROVE  /\ LeafOK(DropItem(leaf, key))
         /\ DropItem(leaf, key).id = leaf.id
         /\ DOMAIN DropItem(leaf, key).kvs = DOMAIN leaf.kvs \ {key}
<1> DEFINE D == DOMAIN leaf.kvs \ {key}
           f == Restrict(leaf.kvs, D)
<1>1. leaf \in LeafType /\ leaf.written \subseteq DOMAIN leaf.kvs
  BY DEF LeafOK
<1>2. DOMAIN leaf.kvs \in SUBSET Keys /\ leaf.kvs \in [DOMAIN leaf.kvs -> Values]
  BY <1>1, LeafElim
<1>3. D \in SUBSET Keys /\ f \in [D -> Values] /\ DOMAIN f = D
  BY <1>2 DEF Restrict
<1>4. f \in KVs
  BY <1>3, KVsIntro
<1>5. DropItem(leaf, key) = [leaf EXCEPT !.kvs = f, !.written = leaf.written \ {key}]
  BY DEF DropItem
<1>6. leaf.written \ {key} \subseteq DOMAIN f /\ leaf.written \ {key} \subseteq Keys
  BY <1>1, <1>2, <1>3
<1>7. DOMAIN f = DOMAIN leaf.kvs \ {key}
  BY <1>3
<1> HIDE DEF f, D
<1> QED
  BY <1>1, <1>4, <1>5, <1>6, <1>7 DEF LeafOK, LeafType

\* The statistics of a leaf that still has items after a delete.
LEMMA DelKVOK ==
  ASSUME NEW leaf, LeafOK(leaf), DOMAIN leaf.kvs # {}, NEW key
  PROVE  /\ LeafOK(UpdateStatByDelKV(leaf, key))
         /\ UpdateStatByDelKV(leaf, key).id = leaf.id
<1> DEFINE D == DOMAIN leaf.kvs
           c == Word(Cardinality(D))
           a == Word(leaf.size - KeyLen(leaf.max))
           b == Word(leaf.size - KeyLen(leaf.min))
           counted == [leaf EXCEPT !.count = c]
<1>1. leaf \in LeafType
  BY DEF LeafOK
<1>2. D \in SUBSET Keys
  BY <1>1, LeafElim
<1>3. c \in 0 .. WordMod - 1
  BY <1>2, KeysFinite, WordType
<1>4. a \in 0 .. WordMod - 1 /\ b \in 0 .. WordMod - 1
  <2>1. leaf.size - KeyLen(leaf.max) \in Int /\ leaf.size - KeyLen(leaf.min) \in Int
    BY <1>1, LeafElim, KeyLenType
  <2> QED
    BY <2>1, WordType
<1>5. Max(D) \in Keys /\ Min(D) \in Keys
  BY <1>2, MinKey, MaxKeyOf
<1> DEFINE r == UpdateStatByDelKV(leaf, key)
<1>6. \/ r = [leaf EXCEPT !.count = c, !.size = a, !.max = Max(D)]
      \/ r = [leaf EXCEPT !.count = c, !.size = b, !.min = Min(D)]
      \/ r = [leaf EXCEPT !.count = c]
  <2>1. counted.size = leaf.size
    BY <1>1 DEF LeafType
  <2>2. CASE key = leaf.max
    BY <1>1, <2>1, <2>2 DEF UpdateStatByDelKV, LeafType
  <2>3. CASE key # leaf.max /\ key = leaf.min
    BY <1>1, <2>1, <2>3 DEF UpdateStatByDelKV, LeafType
  <2>4. CASE key # leaf.max /\ key # leaf.min
    BY <2>4 DEF UpdateStatByDelKV
  <2> QED
    BY <2>2, <2>3, <2>4
<1> HIDE DEF D, a, b, c, r
<1>7. LeafOK(r) /\ r.id = leaf.id
  BY <1>1, <1>3, <1>4, <1>5, <1>6 DEF LeafOK, LeafType
<1> QED
  BY <1>7 DEF r

-----------------------------------------------------------------------------
(* Splits *)

\* Split moves some of the items of a leaf, and not all: the first stays, the
\* last goes.
LEMMA SplitParts ==
  ASSUME NEW leaf, LeafOK(leaf), LeafNeedSplit(leaf)
  PROVE  /\ RightKeys(leaf) \subseteq DOMAIN leaf.kvs
         /\ RightKeys(leaf) # {}
         /\ DOMAIN leaf.kvs \ RightKeys(leaf) # {}
<1> DEFINE D == DOMAIN leaf.kvs
           n == Cardinality(D)
           Below(k) == {j \in D : j < k}
<1>1. D \in SUBSET Keys
  BY LeafElim DEF LeafOK
<1>2. IsFiniteSet(D) /\ n \in Nat /\ n >= 3
  BY <1>1, KeysFinite DEF LeafNeedSplit
<1>3. D # {}
  BY <1>2, FS_EmptySet
<1>4. \A k \in D : k \in Int
  BY <1>1, NodeAssumption DEF Keys
<1>5. RightKeys(leaf) = {k \in D : 2 * Cardinality(Below(k)) >= n}
  BY DEF RightKeys
<1>6. Min(D) \in D /\ \A y \in D : Min(D) <= y
  BY <1>1, <1>3, MinKey
<1>7. Max(D) \in D /\ \A y \in D : Max(D) >= y
  BY <1>1, <1>3, MaxKeyOf
<1>8. Below(Min(D)) = {}
  <2> SUFFICES ASSUME NEW j \in D, j < Min(D) PROVE FALSE
    OBVIOUS
  <2>1. Min(D) <= j /\ Min(D) \in Int /\ j \in Int
    BY <1>4, <1>6
  <2> QED
    BY <2>1
<1>9. Below(Max(D)) = D \ {Max(D)}
  <2>1. \A j \in D : j < Max(D) <=> j # Max(D)
    <3> SUFFICES ASSUME NEW j \in D PROVE j < Max(D) <=> j # Max(D)
      OBVIOUS
    <3>1. Max(D) >= j /\ Max(D) \in Int /\ j \in Int
      BY <1>4, <1>7
    <3> QED
      BY <3>1
  <2> QED
    BY <2>1
<1>10. Cardinality(Below(Min(D))) = 0
  BY <1>8, FS_EmptySet
<1>11. Cardinality(Below(Max(D))) = n - 1
  BY <1>2, <1>7, <1>9, FS_RemoveElement
<1> HIDE DEF D, n, Below
<1>12. Min(D) \notin RightKeys(leaf)
  BY <1>2, <1>5, <1>10
<1>13. Max(D) \in RightKeys(leaf)
  BY <1>2, <1>5, <1>7, <1>11
<1> QED
  BY <1>5, <1>6, <1>12, <1>13 DEF D

\* The left half keeps its id.
LEMMA SplitLeftOK ==
  ASSUME NEW leaf, LeafOK(leaf), LeafNeedSplit(leaf)
  PROVE  LeafOK(SplitLeft(leaf)) /\ SplitLeft(leaf).id = leaf.id
<1> DEFINE R == RightKeys(leaf)
           L == DOMAIN leaf.kvs \ R
           f == Restrict(leaf.kvs, L)
           w == leaf.written \ R
           c == Word(Cardinality(L))
           z == Word(leaf.size - Word(Cardinality(R) * (KeySize + ValueSize)))
<1>1. leaf \in LeafType /\ leaf.written \subseteq DOMAIN leaf.kvs
  BY DEF LeafOK
<1>2. DOMAIN leaf.kvs \in SUBSET Keys /\ leaf.kvs \in [DOMAIN leaf.kvs -> Values] /\ leaf.size \in Int
  BY <1>1, LeafElim
<1>3. R \subseteq DOMAIN leaf.kvs /\ L # {}
  BY SplitParts
<1>4. SplitLeft(leaf) =
        [leaf EXCEPT !.kvs = f, !.written = w, !.count = c, !.size = z, !.min = Min(L), !.max = Max(L)]
  BY DEF SplitLeft
<1> HIDE DEF R
<1>5. L \in SUBSET Keys /\ R \in SUBSET Keys
  BY <1>2, <1>3
<1>6. f \in [L -> Values] /\ DOMAIN f = L
  BY <1>2 DEF Restrict
<1>7. f \in KVs
  BY <1>5, <1>6, KVsIntro
<1>8. w \subseteq L /\ w \subseteq Keys
  BY <1>1, <1>2
<1>9. c \in 0 .. WordMod - 1
  BY <1>5, KeysFinite, WordType
<1>10. z \in 0 .. WordMod - 1
  <2>1. Cardinality(R) \in Int /\ KeySize + ValueSize \in Int
    BY <1>5, KeysFinite, NodeAssumption
  <2>2. Word(Cardinality(R) * (KeySize + ValueSize)) \in Int
    BY <2>1, WordType
  <2>3. leaf.size - Word(Cardinality(R) * (KeySize + ValueSize)) \in Int
    BY <1>2, <2>2
  <2> QED
    BY <2>3, WordType
<1>11. Min(L) \in Keys /\ Max(L) \in Keys
  BY <1>3, <1>5, MinKey, MaxKeyOf
<1> HIDE DEF L, f, w, c, z
<1> QED
  BY <1>1, <1>4, <1>6, <1>7, <1>8, <1>9, <1>10, <1>11 DEF LeafOK, LeafType

\* The right half is a new node all of whose items are in write_kvs_.
LEMMA SplitRightOK ==
  ASSUME NEW leaf, LeafOK(leaf), LeafNeedSplit(leaf), NEW id \in Nat
  PROVE  LeafOK(SplitRight(leaf, id)) /\ SplitRight(leaf, id).id = id
<1> DEFINE R == RightKeys(leaf)
           f == Restrict(leaf.kvs, R)
           z == Word(Cardinality(R) * (KeySize + ValueSize))
           new == NewLeaf(id)
<1>1. DOMAIN leaf.kvs \in SUBSET Keys /\ leaf.kvs \in [DOMAIN leaf.kvs -> Values]
  BY LeafElim DEF LeafOK
<1>2. R \subseteq DOMAIN leaf.kvs /\ R # {}
  BY SplitParts
<1>3. SplitRight(leaf, id) =
        [new EXCEPT !.kvs = f, !.written = R, !.size = z, !.min = Min(R), !.max = Max(R)]
  BY DEF SplitRight
<1>4. new \in LeafType /\ new.id = id
  BY NewLeafOK DEF LeafOK
<1> HIDE DEF R, new
<1>5. R \in SUBSET Keys
  BY <1>1, <1>2
<1>6. f \in [R -> Values] /\ DOMAIN f = R
  BY <1>1, <1>2 DEF Restrict
<1>7. f \in KVs
  BY <1>5, <1>6, KVsIntro
<1>8. z \in 0 .. WordMod - 1
  <2>1. Cardinality(R) \in Int /\ KeySize + ValueSize \in Int
    BY <1>5, KeysFinite, NodeAssumption
  <2> QED
    BY <2>1, WordType
<1>9. Min(R) \in Keys /\ Max(R) \in Keys
  BY <1>2, <1>5, MinKey, MaxKeyOf
<1> HIDE DEF f, z
<1> QED
  BY <1>3, <1>4, <1>5, <1>6, <1>7, <1>8, <1>9 DEF LeafOK, LeafType

-----------------------------------------------------------------------------
(* The children of the root *)

\* Well-formed leaves whose ids differ and are at most n.
ChildrenOK(c, n) ==
  /\ c \in Seq(LeafType)
  /\ \A i \in 1 .. Len(c) : LeafOK(c[i]) /\ c[i].id <= n
  /\ \A i, j \in 1 .. Len(c) : i # j => c[i].id # c[j].id

\* A sequence of the same length with the same ids at the same places.
LEMMA ChildrenSameIds ==
  ASSUME NEW n \in Nat, NEW c, ChildrenOK(c, n), NEW d \in Seq(LeafType), Len(d) = Len(c),
         \A i \in 1 .. Len(c) : LeafOK(d[i]) /\ d[i].id = c[i].id
  PROVE  ChildrenOK(d, n)
BY DEF ChildrenOK

\* Replacing a leaf by another state of it.
LEMMA ReplaceOK ==
  ASSUME NEW n \in Nat, NEW c, ChildrenOK(c, n), NEW i \in 1 .. Len(c),
         NEW leaf, LeafOK(leaf), leaf.id = c[i].id
  PROVE  /\ ChildrenOK(ReplaceAt(c, i, leaf), n)
         /\ Len(ReplaceAt(c, i, leaf)) = Len(c)
<1> DEFINE d == ReplaceAt(c, i, leaf)
<1>1. c \in Seq(LeafType) /\ leaf \in LeafType
  BY DEF ChildrenOK, LeafOK
<1>2. /\ d \in Seq(LeafType) /\ Len(d) = Len(c)
      /\ \A j \in 1 .. Len(c) : d[j] = IF j = i THEN leaf ELSE c[j]
  BY <1>1, ReplaceAtProperties
<1>3. \A j \in 1 .. Len(c) : LeafOK(d[j]) /\ d[j].id = c[j].id
  BY <1>2 DEF ChildrenOK
<1> HIDE DEF d
<1>4. ChildrenOK(d, n)
  BY <1>2, <1>3, ChildrenSameIds
<1> QED
  BY <1>2, <1>4 DEF d

\* Adding a leaf with the next id.
LEMMA AddChildOK ==
  ASSUME NEW n \in Nat, NEW c, ChildrenOK(c, n), NEW i \in 1 .. Len(c) + 1,
         NEW leaf, LeafOK(leaf), leaf.id = n + 1
  PROVE  /\ ChildrenOK(AddChild(c, i, leaf), n + 1)
         /\ Len(AddChild(c, i, leaf)) = Len(c) + 1
<1> DEFINE d == AddChild(c, i, leaf)
<1>1. c \in Seq(LeafType) /\ leaf \in LeafType /\ Len(c) \in Nat
  BY DEF ChildrenOK, LeafOK
<1>2. /\ d \in Seq(LeafType) /\ Len(d) = Len(c) + 1
      /\ \A j \in 1 .. Len(c) + 1 : d[j] = IF j < i THEN c[j] ELSE IF j = i THEN leaf ELSE c[j - 1]
  <2>1. d = InsertAt(c, i, leaf)
    BY DEF AddChild
  <2>2. d \in Seq(LeafType) /\ Len(d) = Len(c) + 1
    BY <1>1, <2>1, InsertAtProperties
  <2>3. ASSUME NEW j \in 1 .. Len(c) + 1
        PROVE  d[j] = IF j < i THEN c[j] ELSE IF j = i THEN leaf ELSE c[j - 1]
    BY <1>1, <2>1, InsertAtProperties
  <2> HIDE DEF d
  <2> QED
    BY <2>2, <2>3
<1>3. \A j \in 1 .. Len(c) : LeafOK(c[j]) /\ c[j].id <= n /\ c[j].id \in Nat
  BY LeafElim DEF ChildrenOK, LeafOK
<1>4. \A j, k \in 1 .. Len(c) : j # k => c[j].id # c[k].id
  BY DEF ChildrenOK
<1> HIDE DEF d
<1>5. \A j \in 1 .. Len(d) :
        \/ j = i /\ d[j] = leaf
        \/ j < i /\ j \in 1 .. Len(c) /\ d[j] = c[j]
        \/ j > i /\ j - 1 \in 1 .. Len(c) /\ d[j] = c[j - 1]
  BY <1>1, <1>2
<1>6. \A j \in 1 .. Len(d) : LeafOK(d[j]) /\ d[j].id <= n + 1
  <2> SUFFICES ASSUME NEW j \in 1 .. Len(d) PROVE LeafOK(d[j]) /\ d[j].id <= n + 1
    OBVIOUS
  <2>1. CASE d[j] = leaf
    BY <2>1
  <2>2. CASE \E k \in 1 .. Len(c) : d[j] = c[k]
    <3>1. PICK k \in 1 .. Len(c) : d[j] = c[k]
      BY <2>2
    <3>2. LeafOK(c[k]) /\ c[k].id <= n /\ c[k].id \in Nat
      BY <1>3
    <3> QED
      BY <3>1, <3>2
  <2> QED
    BY <1>5, <2>1, <2>2
<1>7. \A j, k \in 1 .. Len(d) : j # k => d[j].id # d[k].id
  <2> SUFFICES ASSUME NEW j \in 1 .. Len(d), NEW k \in 1 .. Len(d), j < k
               PROVE  d[j].id # d[k].id
    BY <1>1, <1>2
  <2>1. CASE k < i
    BY <1>1, <1>4, <1>5, <2>1
  <2>2. CASE k = i
    BY <1>1, <1>3, <1>5, <2>2
  <2>3. CASE j = i
    BY <1>1, <1>3, <1>5, <2>3
  <2>4. CASE j < i /\ k > i
    <3>1. j \in 1 .. Len(c) /\ k - 1 \in 1 .. Len(c) /\ j # k - 1
      BY <1>1, <1>5, <2>4
    <3> QED
      BY <1>4, <1>5, <2>4, <3>1
  <2>5. CASE j > i
    <3>1. j - 1 \in 1 .. Len(c) /\ k - 1 \in 1 .. Len(c) /\ j - 1 # k - 1
      BY <1>1, <1>5, <2>5
    <3>2. d[j] = c[j - 1] /\ d[k] = c[k - 1]
      BY <1>1, <1>5, <2>5
    <3> QED
      BY <1>4, <3>1, <3>2
  <2> QED
    BY <1>1, <1>2, <2>1, <2>2, <2>3, <2>4, <2>5
<1>8. ChildrenOK(d, n + 1)
  BY <1>2, <1>6, <1>7 DEF ChildrenOK
<1> QED
  BY <1>2, <1>8 DEF d

\* Erasing a leaf, or leaving the children alone.
LEMMA DelChildOK ==
  ASSUME NEW n \in Nat, NEW c, ChildrenOK(c, n), NEW i \in 1 .. Len(c), NEW found
  PROVE  ChildrenOK(DelChild(c, i, found), n)
<1>1. CASE found # i
  BY <1>1 DEF DelChild
<1>2. CASE found = i
  <2> DEFINE d == RemoveAt(c, i)
  <2>1. c \in Seq(LeafType) /\ Len(c) \in Nat
    BY DEF ChildrenOK
  <2>2. /\ d \in Seq(LeafType) /\ Len(d) = Len(c) - 1
        /\ \A j \in 1 .. Len(c) - 1 : d[j] = IF j < i THEN c[j] ELSE c[j + 1]
    BY <2>1, RemoveAtProperties
  <2> HIDE DEF d
  <2>3. \A j \in 1 .. Len(d) :
          \/ j < i /\ j \in 1 .. Len(c) /\ d[j] = c[j]
          \/ j >= i /\ j + 1 \in 1 .. Len(c) /\ d[j] = c[j + 1]
    BY <2>1, <2>2
  <2>4. \A j \in 1 .. Len(d) : LeafOK(d[j]) /\ d[j].id <= n
    BY <2>3 DEF ChildrenOK
  <2>5. \A j, k \in 1 .. Len(c) : j # k => c[j].id # c[k].id
    BY DEF ChildrenOK
  <2>6. \A j, k \in 1 .. Len(d) : j # k => d[j].id # d[k].id
    <3> SUFFICES ASSUME NEW j \in 1 .. Len(d), NEW k \in 1 .. Len(d), j < k
                 PROVE  d[j].id # d[k].id
      BY <2>1, <2>2
    <3>1. CASE k < i
      BY <2>1, <2>3, <2>5, <3>1
    <3>2. CASE j < i /\ k >= i
      <4>1. j \in 1 .. Len(c) /\ k + 1 \in 1 .. Len(c) /\ j # k + 1
        BY <2>1, <2>3, <3>2
      <4>2. d[j] = c[j] /\ d[k] = c[k + 1]
        BY <2>1, <2>3, <3>2
      <4> QED
        BY <2>5, <4>1, <4>2
    <3>3. CASE j >= i
      <4>1. j + 1 \in 1 .. Len(c) /\ k + 1 \in 1 .. Len(c) /\ j + 1 # k + 1
        BY <2>1, <2>3, <3>3
      <4>2. d[j] = c[j + 1] /\ d[k] = c[k + 1]
        BY <2>1, <2>3, <3>3
      <4> QED
        BY <2>5, <4>1, <4>2
    <3> QED
      BY <2>1, <2>2, <3>1, <3>2, <3>3
  <2>7. ChildrenOK(d, n)
    BY <2>2, <2>4, <2>6 DEF ChildrenOK
  <2> QED
    BY <1>2, <2>7 DEF DelChild, d
<1> QED
  BY <1>1, <1>2

\* Which nodes are collected concerns no other field.
LEMMA UnsavedLeafOK ==
  ASSUME NEW leaf, LeafOK(leaf), NEW u \in BOOLEAN
  PROVE  LeafOK([leaf EXCEPT !.unsaved = u]) /\ [leaf EXCEPT !.unsaved = u].id = leaf.id
BY DEF LeafOK, LeafType

\* Any change of the unsaved marks keeps the children in order.
LEMMA MarksOK ==
  ASSUME NEW n \in Nat, NEW c, ChildrenOK(c, n),
         NEW d, d = [i \in 1 .. Len(c) |-> d[i]],
         \A i \in 1 .. Len(c) : \E u \in BOOLEAN : d[i] = [c[i] EXCEPT !.unsaved = u]
  PROVE  ChildrenOK(d, n) /\ Len(d) = Len(c)
<1>1. Len(c) \in Nat
  BY DEF ChildrenOK
<1>2. \A i \in 1 .. Len(c) : LeafOK(d[i]) /\ d[i].id = c[i].id
  <2> SUFFICES ASSUME NEW i \in 1 .. Len(c) PROVE LeafOK(d[i]) /\ d[i].id = c[i].id
    OBVIOUS
  <2>1. PICK u \in BOOLEAN : d[i] = [c[i] EXCEPT !.unsaved = u]
    OBVIOUS
  <2>2. LeafOK(c[i])
    BY DEF ChildrenOK
  <2> DEFINE leaf == c[i]
  <2>3. LeafOK(leaf)
    BY <2>2
  <2> HIDE DEF leaf
  <2>4. LeafOK([leaf EXCEPT !.unsaved = u]) /\ [leaf EXCEPT !.unsaved = u].id = leaf.id
    BY <2>3, UnsavedLeafOK
  <2> QED
    BY <2>1, <2>4, Zenon DEF leaf
<1>3. \A i \in 1 .. Len(c) : d[i] \in LeafType
  BY <1>2 DEF LeafOK
<1>4. d \in Seq(LeafType) /\ Len(d) = Len(c)
  BY <1>1, <1>3
<1>5. ChildrenOK(d, n)
  BY <1>2, <1>4, ChildrenSameIds
<1> QED
  BY <1>4, <1>5

\* Collecting a leaf.
LEMMA CollectOK ==
  ASSUME NEW n \in Nat, NEW c, ChildrenOK(c, n), NEW at
  PROVE  ChildrenOK(Collect(c, at), n) /\ Len(Collect(c, at)) = Len(c)
<1> DEFINE d == Collect(c, at)
           u(i) == i = at \/ (c[i].unsaved /\ c[i].id # c[at].id)
<1>1. \A i \in 1 .. Len(c) : u(i) \in BOOLEAN /\ d[i] = [c[i] EXCEPT !.unsaved = u(i)]
  BY DEF Collect
<1>2. d = [i \in 1 .. Len(c) |-> d[i]]
  BY DEF Collect
<1> HIDE DEF d, u
<1>3. ChildrenOK(d, n) /\ Len(d) = Len(c)
  BY <1>1, <1>2, MarksOK
<1> QED
  BY <1>3 DEF d

\* Taking one out of the unsaved nodes.
LEMMA RemoveUnsavedOK ==
  ASSUME NEW n \in Nat, NEW c, ChildrenOK(c, n), NEW id
  PROVE  ChildrenOK(RemoveUnsaved(c, id), n) /\ Len(RemoveUnsaved(c, id)) = Len(c)
<1> DEFINE d == RemoveUnsaved(c, id)
           u(i) == c[i].unsaved /\ c[i].id # id
<1>1. \A i \in 1 .. Len(c) : u(i) \in BOOLEAN /\ d[i] = [c[i] EXCEPT !.unsaved = u(i)]
  BY DEF RemoveUnsaved
<1>2. d = [i \in 1 .. Len(c) |-> d[i]]
  BY DEF RemoveUnsaved
<1> HIDE DEF d, u
<1>3. ChildrenOK(d, n) /\ Len(d) = Len(c)
  BY <1>1, <1>2, MarksOK
<1> QED
  BY <1>3 DEF d

-----------------------------------------------------------------------------
(* The tree *)

\* The root's size is the size of its two end keys, whatever the children are:
\* this is why the root never outgrows a node.
TreeOK(t) ==
  /\ t \in TreeType
  /\ ChildrenOK(t.children, t.lastId)
  /\ t.size = KeyLen(t.min) + KeyLen(t.max)

\* The parts of a tree.
LEMMA TreeElim ==
  ASSUME NEW t, TreeOK(t)
  PROVE  /\ t \in TreeType /\ t.children \in Seq(LeafType) /\ Len(t.children) \in Nat
         /\ t.lastId \in Nat /\ t.count \in Int /\ t.size \in Int
         /\ ChildrenOK(t.children, t.lastId)
         /\ t.min \in Keys \cup {NoKey} /\ t.max \in Keys \cup {NoKey}
<1>1. /\ t \in TreeType /\ t.children \in Seq(LeafType)
      /\ t.lastId \in Nat /\ t.count \in 0 .. WordMod - 1 /\ t.size \in 0 .. WordMod - 1
      /\ t.min \in Keys \cup {NoKey} /\ t.max \in Keys \cup {NoKey}
  BY DEF TreeOK, TreeType
<1>2. WordMod \in Int
  BY NodeAssumption
<1> QED
  BY <1>1, <1>2 DEF TreeOK

\* New children, with the ids the tree has allocated.
LEMMA ChildrenChanged ==
  ASSUME NEW t, TreeOK(t), NEW u \in TreeType, ChildrenOK(u.children, u.lastId),
         u.size = t.size, u.min = t.min, u.max = t.max
  PROVE  TreeOK(u)
BY DEF TreeOK

\* New children with the same last id.
LEMMA ChildrenReplaced ==
  ASSUME NEW t, TreeOK(t), NEW c, ChildrenOK(c, t.lastId)
  PROVE  /\ TreeOK([t EXCEPT !.children = c])
         /\ [t EXCEPT !.children = c].children = c
         /\ [t EXCEPT !.children = c].lastId = t.lastId
<1>1. t \in TreeType /\ t.size = KeyLen(t.min) + KeyLen(t.max)
  BY DEF TreeOK
<1>2. c \in Seq(LeafType)
  BY DEF ChildrenOK
<1> DEFINE u == [t EXCEPT !.children = c]
<1>3. /\ u \in TreeType /\ u.children = c /\ u.lastId = t.lastId
      /\ u.size = t.size /\ u.min = t.min /\ u.max = t.max
  BY <1>1, <1>2 DEF TreeType
<1> HIDE DEF u
<1>4. TreeOK(u)
  BY <1>1, <1>3 DEF TreeOK
<1> QED
  BY <1>3, <1>4 DEF u

\* Collecting the root.
LEMMA RootMarked ==
  ASSUME NEW t, TreeOK(t), NEW u \in BOOLEAN
  PROVE  /\ TreeOK([t EXCEPT !.unsaved = u])
         /\ [t EXCEPT !.unsaved = u].children = t.children
         /\ [t EXCEPT !.unsaved = u].lastId = t.lastId
<1>1. /\ t \in TreeType /\ t.size = KeyLen(t.min) + KeyLen(t.max)
      /\ ChildrenOK(t.children, t.lastId)
  BY DEF TreeOK
<1> DEFINE v == [t EXCEPT !.unsaved = u]
<1>3. /\ v \in TreeType /\ v.children = t.children /\ v.lastId = t.lastId
      /\ v.size = t.size /\ v.min = t.min /\ v.max = t.max
  BY <1>1 DEF TreeType
<1> HIDE DEF v
<1>4. TreeOK(v)
  BY <1>1, <1>3 DEF TreeOK
<1> QED
  BY <1>3, <1>4 DEF v

\* UpdateStatByRangeChange replaces the lengths of the two ends in the size.
LEMMA RangeChangeOK ==
  ASSUME NEW t, TreeOK(t), t.children # <<>>, NEW delta \in Int
  PROVE  /\ TreeOK(UpdateStatByRangeChange(t, delta))
         /\ UpdateStatByRangeChange(t, delta).size <= MaxNodeSize
<1> DEFINE c == t.children
           lo == c[1].min
           hi == c[Len(c)].max
           k == Word(t.count + delta)
           z == Word(t.size - KeyLen(t.min) + KeyLen(lo) - KeyLen(t.max) + KeyLen(hi))
           u == [t EXCEPT !.min = lo, !.max = hi, !.count = k, !.size = z]
<1>1. /\ t \in TreeType /\ c \in Seq(LeafType) /\ Len(c) \in Nat
      /\ t.count \in Int /\ t.size \in Int /\ ChildrenOK(c, t.lastId)
      /\ t.size = KeyLen(t.min) + KeyLen(t.max)
  BY TreeElim DEF TreeOK
<1>2. UpdateStatByRangeChange(t, delta) = u
  BY DEF UpdateStatByRangeChange
<1>3. 1 \in 1 .. Len(c) /\ Len(c) \in 1 .. Len(c)
  BY <1>1
<1>4. c[1] \in LeafType /\ c[Len(c)] \in LeafType
  BY <1>1, <1>3
<1>5. lo \in Keys \cup {NoKey} /\ hi \in Keys \cup {NoKey}
  BY <1>4, LeafElim
<1>6. k \in 0 .. WordMod - 1
  <2>1. t.count + delta \in Int
    BY <1>1
  <2> QED
    BY <2>1, WordType
<1> HIDE DEF lo, hi, c, k
<1>7. z = KeyLen(lo) + KeyLen(hi) /\ z \in 0 .. WordMod - 1 /\ z <= MaxNodeSize
  <2>1. /\ KeyLen(lo) \in Nat /\ KeyLen(lo) <= KeySize
        /\ KeyLen(hi) \in Nat /\ KeyLen(hi) <= KeySize
        /\ KeyLen(t.min) \in Nat /\ KeyLen(t.max) \in Nat
    BY KeyLenType
  <2> DEFINE sum == KeyLen(lo) + KeyLen(hi)
  <2>2. t.size - KeyLen(t.min) + KeyLen(lo) - KeyLen(t.max) + KeyLen(hi) = sum
    BY <1>1, <2>1
  <2>3. sum \in 0 .. WordMod - 1 /\ sum <= MaxNodeSize
    BY <2>1, NodeAssumption, RootFits
  <2>4. Word(sum) = sum
    BY <2>3, WordSmall
  <2>5. z = sum
    BY <2>2, <2>4
  <2> QED
    BY <2>3, <2>5
<1> HIDE DEF z
<1>8. /\ u \in TreeType /\ u.children = t.children /\ u.lastId = t.lastId
      /\ u.size = z /\ u.min = lo /\ u.max = hi
  BY <1>1, <1>5, <1>6, <1>7 DEF TreeType
<1> HIDE DEF u
<1>9. TreeOK(u) /\ u.size <= MaxNodeSize
  BY <1>1, <1>7, <1>8 DEF TreeOK, c
<1> QED
  BY <1>2, <1>9

\* A tree without children.
LEMMA ResetStatOK ==
  ASSUME NEW t, TreeOK(t)
  PROVE  TreeOK(ResetStat(t))
<1> DEFINE u == [t EXCEPT !.count = 0, !.size = 0, !.min = NoKey, !.max = NoKey]
<1>1. t \in TreeType /\ ChildrenOK(t.children, t.lastId)
  BY DEF TreeOK
<1>2. 0 \in 0 .. WordMod - 1 /\ KeyLen(NoKey) = 0
  BY NodeAssumption DEF KeyLen
<1>3. /\ u \in TreeType /\ u.children = t.children /\ u.lastId = t.lastId
      /\ u.size = 0 /\ u.min = NoKey /\ u.max = NoKey
  BY <1>1, <1>2 DEF TreeType
<1> HIDE DEF u
<1>4. TreeOK(u)
  BY <1>1, <1>2, <1>3 DEF TreeOK
<1> QED
  BY <1>4 DEF ResetStat, u

\* Merging the stored record of one leaf.
LEMMA LoadChildOK ==
  ASSUME NEW t, TreeOK(t), NEW i \in 1 .. Len(t.children), NEW stored, StoreOK(stored)
  PROVE  /\ TreeOK(LoadChild(t, i, stored))
         /\ Len(LoadChild(t, i, stored).children) = Len(t.children)
         /\ LoadChild(t, i, stored).lastId = t.lastId
<1> DEFINE c == t.children
           leaf == Load(c[i], stored)
           d == ReplaceAt(c, i, leaf)
<1>1. t \in TreeType /\ t.lastId \in Nat /\ ChildrenOK(c, t.lastId)
  BY TreeElim
<1>2. LeafOK(c[i])
  BY <1>1 DEF ChildrenOK
<1>3. LeafOK(leaf) /\ leaf.id = c[i].id
  BY <1>2, LoadOK
<1>4. LoadChild(t, i, stored) = [t EXCEPT !.children = d]
  BY <1>1 DEF LoadChild, ReplaceAt, TreeType
<1> HIDE DEF leaf, c
<1>5. ChildrenOK(d, t.lastId) /\ Len(d) = Len(c)
  BY <1>1, <1>3, ReplaceOK DEF c
<1> HIDE DEF d
<1>6. /\ TreeOK([t EXCEPT !.children = d])
      /\ [t EXCEPT !.children = d].children = d
      /\ [t EXCEPT !.children = d].lastId = t.lastId
  BY <1>5, ChildrenReplaced
<1> QED
  BY <1>4, <1>5, <1>6 DEF c

-----------------------------------------------------------------------------
(* Insert *)

\* The positions the two binary searches may return.
LEMMA BoundsInRange ==
  ASSUME NEW c \in Seq(LeafType), NEW key
  PROVE  /\ MaxKeyLowerBound(c, key) \subseteq 1 .. Len(c) + 1
         /\ MaxKeyUpperBound(c, key) \subseteq 1 .. Len(c) + 1
BY DEF MaxKeyLowerBound, MaxKeyUpperBound

\* The last turn of Insert's loop never splits the root.
LEMMA InsertAtRootOK ==
  ASSUME NEW t, TreeOK(t), t.children # <<>>
  PROVE  TreeOK(InsertAtRoot(t).tree) /\ InsertAtRoot(t).st = C_OK
<1> DEFINE r == UpdateStatByRangeChange(t, 1)
<1>1. TreeOK(r) /\ r.size <= MaxNodeSize
  BY RangeChangeOK
<1> HIDE DEF r
<1>2. ~ RootNeedSplit(r)
  BY <1>1, TreeElim, NodeAssumption DEF RootNeedSplit
<1>3. InsertAtRoot(t) = Outcome([r EXCEPT !.unsaved = TRUE], C_OK)
  BY <1>2 DEF InsertAtRoot, r
<1>4. TreeOK([r EXCEPT !.unsaved = TRUE])
  BY <1>1, RootMarked
<1> QED
  BY <1>3, <1>4 DEF Outcome

\* The first turn, with and without a split of the leaf.
LEMMA InsertAtLeafOK ==
  ASSUME NEW t, TreeOK(t), NEW i \in 1 .. Len(t.children),
         NEW leaf, LeafOK(leaf), leaf.id = t.children[i].id,
         NEW o \in InsertAtLeaf(t, i, leaf)
  PROVE  TreeOK(o.tree) /\ o.st = C_OK
<1> DEFINE c == t.children
           n == t.lastId
<1>1. t \in TreeType /\ ChildrenOK(c, n) /\ n \in Nat /\ c \in Seq(LeafType) /\ Len(c) \in Nat /\ Len(c) >= 1
  BY TreeElim
<1>2. CASE ~ LeafNeedSplit(leaf)
  <2> DEFINE d == Collect(ReplaceAt(c, i, leaf), i)
             u == [t EXCEPT !.children = d]
  <2>1. o = InsertAtRoot(u)
    BY <1>2 DEF InsertAtLeaf
  <2>2. ChildrenOK(ReplaceAt(c, i, leaf), n) /\ Len(ReplaceAt(c, i, leaf)) = Len(c)
    BY <1>1, ReplaceOK
  <2>3. ChildrenOK(d, n) /\ Len(d) = Len(c)
    BY <1>1, <2>2, CollectOK
  <2> HIDE DEF d
  <2>4. TreeOK(u) /\ u.children = d
    BY <2>3, ChildrenReplaced
  <2>5. d # <<>>
    BY <1>1, <2>3
  <2> HIDE DEF u
  <2> QED
    BY <2>1, <2>4, <2>5, InsertAtRootOK
<1>3. CASE LeafNeedSplit(leaf)
  <2> DEFINE id == AllocateNodeID(t)
             right == SplitRight(leaf, id)
             left == SplitLeft(leaf)
             kept == ReplaceAt(c, i, left)
             grown(at) == AddChild(kept, at, right)
             l(at) == IF at <= i THEN i + 1 ELSE i
             d(at) == Collect(Collect(grown(at), at), l(at))
             u(at) == [t EXCEPT !.lastId = id, !.children = d(at)]
  <2>1. PICK at \in MaxKeyUpperBound(kept, right.max) : o = InsertAtRoot(u(at))
    BY <1>3 DEF InsertAtLeaf
  <2>2. id = n + 1 /\ id \in Nat
    BY <1>1 DEF AllocateNodeID
  <2>3. LeafOK(right) /\ right.id = id
    BY <1>3, <2>2, SplitRightOK
  <2>4. LeafOK(left) /\ left.id = c[i].id
    BY <1>3, SplitLeftOK
  <2> HIDE DEF id, right, left
  <2>5. ChildrenOK(kept, n) /\ Len(kept) = Len(c)
    BY <1>1, <2>4, ReplaceOK
  <2> HIDE DEF kept
  <2>6. at \in 1 .. Len(kept) + 1
    BY <2>1, <2>5, BoundsInRange DEF ChildrenOK
  <2>7. ChildrenOK(grown(at), id) /\ Len(grown(at)) = Len(c) + 1
    BY <1>1, <2>2, <2>3, <2>5, <2>6, AddChildOK
  <2> HIDE DEF grown, l
  <2>8. ChildrenOK(Collect(grown(at), at), id) /\ Len(Collect(grown(at), at)) = Len(c) + 1
    BY <2>2, <2>7, CollectOK
  <2>9. ChildrenOK(d(at), id) /\ Len(d(at)) = Len(c) + 1
    BY <2>2, <2>8, CollectOK
  <2> HIDE DEF d
  <2> DEFINE v == u(at)
             dd == d(at)
  <2> HIDE DEF dd
  <2>10. ChildrenOK(dd, id) /\ dd \in Seq(LeafType) /\ Len(dd) = Len(c) + 1
    BY <2>9 DEF dd, ChildrenOK
  <2>11. v = [t EXCEPT !.lastId = id, !.children = dd]
    BY DEF dd
  <2> HIDE DEF v, u
  <2>12. /\ v \in TreeType /\ v.children = dd /\ v.lastId = id
         /\ v.size = t.size /\ v.min = t.min /\ v.max = t.max
    BY <1>1, <2>2, <2>10, <2>11 DEF TreeType
  <2>13. TreeOK(v)
    BY <2>10, <2>12, ChildrenChanged
  <2>14. v.children # <<>>
    BY <1>1, <2>10, <2>12
  <2> QED
    BY <2>1, <2>13, <2>14, InsertAtRootOK DEF v
<1> QED
  BY <1>2, <1>3

\* BptNode::Insert at a leaf: a stale entry of write_kvs_ is never met.
LEMMA InsertIntoLeafOK ==
  ASSUME NEW t, TreeOK(t), NEW i \in 1 .. Len(t.children), NEW key \in Keys, NEW value \in Values,
         NEW o \in InsertIntoLeaf(t, i, key, value)
  PROVE  TreeOK(o.tree) /\ o.st \in {C_OK, C_BPTREE_DUPLICATE_KEY}
<1> DEFINE leaf == t.children[i]
           put == PutItem(leaf, key, value)
           new == UpdateStatByAddKV(put, key)
<1>1. ChildrenOK(t.children, t.lastId)
  BY TreeElim
<1>2. LeafOK(leaf)
  BY <1>1 DEF ChildrenOK
<1>3. CASE key \in DOMAIN leaf.kvs
  <2>1. o = Outcome(t, C_BPTREE_DUPLICATE_KEY)
    BY <1>3 DEF InsertIntoLeaf
  <2> QED
    BY <2>1 DEF Outcome
<1>4. CASE key \notin DOMAIN leaf.kvs
  <2>1. key \notin leaf.written
    BY <1>2, <1>4 DEF LeafOK
  <2>2. o \in InsertAtLeaf(t, i, new)
    BY <1>4, <2>1 DEF InsertIntoLeaf
  <2> HIDE DEF leaf
  <2>3. LeafOK(put) /\ put.id = leaf.id
    BY <1>2, PutItemOK
  <2> HIDE DEF put
  <2>4. LeafOK(new) /\ new.id = put.id
    BY <2>3, AddKVOK
  <2> HIDE DEF new
  <2>5. new.id = t.children[i].id
    BY <2>3, <2>4 DEF leaf
  <2> QED
    BY <2>2, <2>4, <2>5, InsertAtLeafOK
<1> QED
  BY <1>3, <1>4

\* Bptree::Insert, into an empty tree or an existing one.
LEMMA InsertOutcomesOK ==
  ASSUME NEW t, TreeOK(t), NEW stored, StoreOK(stored), NEW key \in Keys, NEW value \in Values,
         NEW o \in InsertOutcomes(t, stored, key, value)
  PROVE  TreeOK(o.tree) /\ o.st \in {C_OK, C_BPTREE_DUPLICATE_KEY}
<1>1. /\ t \in TreeType /\ t.children \in Seq(LeafType) /\ Len(t.children) \in Nat
      /\ t.lastId \in Nat /\ ChildrenOK(t.children, t.lastId)
  BY TreeElim
<1>2. CASE Len(t.children) = 0
  <2> DEFINE id == AllocateNodeID(t)
             c == <<NewLeaf(id)>>
             u == [t EXCEPT !.lastId = id, !.children = c]
  <2>1. id \in Nat
    BY <1>1 DEF AllocateNodeID
  <2>2. [t EXCEPT !.children = c, !.lastId = id] = u
    BY <1>1 DEF TreeType
  <2>3. o \in InsertIntoLeaf(u, 1, key, value)
    BY <1>2, <2>2 DEF InsertOutcomes
  <2>4. LeafOK(NewLeaf(id)) /\ NewLeaf(id).id = id
    BY <2>1, NewLeafOK
  <2>5. NewLeaf(id) \in LeafType
    BY <2>4 DEF LeafOK
  <2>6. ChildrenOK(c, id) /\ c \in Seq(LeafType) /\ Len(c) = 1
    BY <2>1, <2>4, <2>5 DEF ChildrenOK
  <2> HIDE DEF id, c
  <2>7. /\ u \in TreeType /\ u.children = c /\ u.lastId = id
        /\ u.size = t.size /\ u.min = t.min /\ u.max = t.max
    BY <1>1, <2>1, <2>6 DEF TreeType
  <2> HIDE DEF u
  <2>8. TreeOK(u)
    BY <2>6, <2>7, ChildrenChanged
  <2>9. 1 \in 1 .. Len(u.children)
    <3>1. 1 \in 1 .. 1
      OBVIOUS
    <3>2. Len(u.children) = 1
      BY <2>6, <2>7, Zenon
    <3> QED
      BY <3>1, <3>2, Zenon
  <2> QED
    BY <2>3, <2>8, <2>9, InsertIntoLeafOK
<1>3. CASE Len(t.children) # 0
  <2> DEFINE n == Len(t.children)
             pos(at) == IF at > n THEN n ELSE at
             u(i) == LoadChild(t, i, stored)
  <2>1. PICK at \in MaxKeyLowerBound(t.children, key) :
          o \in InsertIntoLeaf(u(pos(at)), pos(at), key, value)
    BY <1>3 DEF InsertOutcomes
  <2>2. at \in 1 .. n + 1
    BY <1>1, BoundsInRange
  <2>3. pos(at) \in 1 .. n
    BY <1>1, <1>3, <2>2
  <2> HIDE DEF pos
  <2>4. TreeOK(u(pos(at))) /\ Len(u(pos(at)).children) = n
    BY <2>3, LoadChildOK
  <2> HIDE DEF u
  <2> QED
    BY <2>1, <2>3, <2>4, InsertIntoLeafOK
<1> QED
  BY <1>2, <1>3

-----------------------------------------------------------------------------
(* Delete and GetItem *)

\* The position FindChild may return.
LEMMA FindChildInRange ==
  ASSUME NEW c \in Seq(LeafType), NEW key, NEW i \in FindChild(c, key)
  PROVE  i \in 1 .. Len(c) + 1
<1>1. Len(c) \in Nat /\ MaxKeyLowerBound(c, key) \subseteq 1 .. Len(c) + 1
  BY BoundsInRange
<1>2. PICK j \in MaxKeyLowerBound(c, key) :
        i = IF j <= Len(c) /\ key >= c[j].min THEN j ELSE Len(c) + 1
  BY DEF FindChild
<1> QED
  BY <1>1, <1>2

\* The last turn of Delete's loop.
LEMMA DeleteAtRootOK ==
  ASSUME NEW t, TreeOK(t)
  PROVE  TreeOK(DeleteAtRoot(t).tree) /\ DeleteAtRoot(t).st = C_OK
<1> DEFINE r == IF t.children = <<>> THEN ResetStat(t) ELSE UpdateStatByRangeChange(t, -1)
<1>1. TreeOK(r)
  <2>1. CASE t.children = <<>>
    BY <2>1, ResetStatOK
  <2>2. CASE t.children # <<>>
    BY <2>2, RangeChangeOK, -1 \in Int
  <2> QED
    BY <2>1, <2>2
<1>2. DeleteAtRoot(t) = Outcome([r EXCEPT !.unsaved = TRUE], C_OK)
  BY DEF DeleteAtRoot
<1> HIDE DEF r
<1>3. TreeOK([r EXCEPT !.unsaved = TRUE])
  BY <1>1, RootMarked
<1> QED
  BY <1>2, <1>3 DEF Outcome

\* Delete at a leaf: the key is not there, or was its last item, or one of several.
LEMMA DeleteFromLeafOK ==
  ASSUME NEW t, TreeOK(t), NEW i \in 1 .. Len(t.children), NEW key,
         NEW o \in DeleteFromLeaf(t, i, key)
  PROVE  TreeOK(o.tree) /\ o.st = C_OK
<1> DEFINE c == t.children
           n == t.lastId
           leaf == DropItem(c[i], key)
           left == ReplaceAt(c, i, leaf)
<1>1. ChildrenOK(c, n) /\ n \in Nat /\ c \in Seq(LeafType)
  BY TreeElim
<1>2. LeafOK(c[i])
  BY <1>1 DEF ChildrenOK
<1>3. LeafOK(leaf) /\ leaf.id = c[i].id
  BY <1>2, DropItemOK
<1>4. CASE key \notin DOMAIN c[i].kvs
  <2>1. o = Outcome(t, C_OK)
    BY <1>4 DEF DeleteFromLeaf
  <2> QED
    BY <2>1 DEF Outcome
<1>5. CASE key \in DOMAIN c[i].kvs /\ DOMAIN leaf.kvs = {}
  <2> DEFINE d(found) == DelChild(RemoveUnsaved(left, leaf.id), i, found)
             u(found) == [t EXCEPT !.children = d(found)]
  <2>1. PICK found \in MaxKeyLowerBound(left, leaf.max) : o = DeleteAtRoot(u(found))
    BY <1>5 DEF DeleteFromLeaf
  <2> HIDE DEF leaf
  <2>2. ChildrenOK(left, n) /\ Len(left) = Len(c)
    BY <1>1, <1>3, ReplaceOK
  <2> HIDE DEF left
  <2>3. ChildrenOK(RemoveUnsaved(left, leaf.id), n) /\ Len(RemoveUnsaved(left, leaf.id)) = Len(c)
    BY <1>1, <2>2, RemoveUnsavedOK
  <2>4. ChildrenOK(d(found), n)
    BY <1>1, <2>3, DelChildOK
  <2> HIDE DEF d
  <2>5. TreeOK(u(found))
    BY <2>4, ChildrenReplaced
  <2> HIDE DEF u
  <2> QED
    BY <2>1, <2>5, DeleteAtRootOK
<1>6. CASE key \in DOMAIN c[i].kvs /\ DOMAIN leaf.kvs # {}
  <2> DEFINE new == UpdateStatByDelKV(leaf, key)
             d == Collect(ReplaceAt(c, i, new), i)
             u == [t EXCEPT !.children = d]
  <2>1. o = DeleteAtRoot(u)
    BY <1>6 DEF DeleteFromLeaf
  <2> HIDE DEF leaf
  <2>2. LeafOK(new) /\ new.id = c[i].id
    BY <1>3, <1>6, DelKVOK
  <2> HIDE DEF new
  <2>3. ChildrenOK(ReplaceAt(c, i, new), n)
    BY <1>1, <2>2, ReplaceOK
  <2>4. ChildrenOK(d, n)
    BY <1>1, <2>3, CollectOK
  <2> HIDE DEF d
  <2>5. TreeOK(u)
    BY <2>4, ChildrenReplaced
  <2> HIDE DEF u
  <2> QED
    BY <2>1, <2>5, DeleteAtRootOK
<1> QED
  BY <1>4, <1>5, <1>6

\* What a visit of a leaf may report.
LEMMA LoadStatusType ==
  ASSUME NEW leaf, NEW stored
  PROVE  LoadStatus(leaf, stored) \in {C_OK, C_STORAGE_KV_NOT_FOUND}
BY DEF LoadStatus

\* Bptree::Delete.
LEMMA DeleteOutcomesOK ==
  ASSUME NEW t, TreeOK(t), NEW stored, StoreOK(stored), NEW key,
         NEW o \in DeleteOutcomes(t, stored, key)
  PROVE  TreeOK(o.tree) /\ o.st \in {C_OK, C_STORAGE_KV_NOT_FOUND}
<1> DEFINE c == t.children
           u(i) == LoadChild(t, i, stored)
<1>1. c \in Seq(LeafType) /\ Len(c) \in Nat
  BY TreeElim
<1>2. PICK i \in FindChild(c, key) :
        o \in IF i > Len(c)
              THEN {Outcome(t, C_OK)}
              ELSE IF LoadStatus(c[i], stored) # C_OK
                   THEN {Outcome(t, LoadStatus(c[i], stored))}
                   ELSE DeleteFromLeaf(u(i), i, key)
  BY DEF DeleteOutcomes
<1>3. i \in 1 .. Len(c) + 1
  BY <1>1, <1>2, FindChildInRange
<1>4. CASE i > Len(c) \/ LoadStatus(c[i], stored) # C_OK
  BY <1>2, <1>4, LoadStatusType DEF Outcome
<1>5. CASE i <= Len(c) /\ LoadStatus(c[i], stored) = C_OK
  <2>1. i \in 1 .. Len(t.children) /\ o \in DeleteFromLeaf(u(i), i, key)
    BY <1>1, <1>2, <1>3, <1>5
  <2>2. TreeOK(u(i)) /\ Len(u(i).children) = Len(t.children)
    BY <2>1, LoadChildOK
  <2> HIDE DEF u
  <2> QED
    BY <2>1, <2>2, DeleteFromLeafOK
<1> QED
  BY <1>1, <1>3, <1>4, <1>5

\* Bptree::GetItem: only the cache of one leaf may change.
LEMMA GetItemOutcomesOK ==
  ASSUME NEW t, TreeOK(t), NEW stored, StoreOK(stored), NEW key,
         NEW o \in GetItemOutcomes(t, stored, key)
  PROVE  TreeOK(o.tree) /\ o.st \in {C_OK, C_STORAGE_KV_NOT_FOUND, C_BPTREE_ERROR}
<1> DEFINE c == t.children
           u(i) == LoadChild(t, i, stored)
           st(i) == IF key \in DOMAIN u(i).children[i].kvs THEN C_OK ELSE C_BPTREE_ERROR
<1>1. c \in Seq(LeafType) /\ Len(c) \in Nat
  BY TreeElim
<1>2. PICK i \in FindChild(c, key) :
        o = IF i > Len(c)
            THEN Outcome(t, C_STORAGE_KV_NOT_FOUND)
            ELSE IF LoadStatus(c[i], stored) # C_OK
                 THEN Outcome(t, LoadStatus(c[i], stored))
                 ELSE Outcome(u(i), st(i))
  BY DEF GetItemOutcomes
<1>3. i \in 1 .. Len(c) + 1
  BY <1>1, <1>2, FindChildInRange
<1>4. CASE i > Len(c) \/ LoadStatus(c[i], stored) # C_OK
  BY <1>2, <1>4, LoadStatusType DEF Outcome
<1>5. CASE i <= Len(c) /\ LoadStatus(c[i], stored) = C_OK
  <2>1. i \in 1 .. Len(t.children) /\ o = Outcome(u(i), st(i))
    BY <1>1, <1>2, <1>3, <1>5
  <2>2. TreeOK(u(i))
    BY <2>1, LoadChildOK
  <2>3. st(i) \in {C_OK, C_BPTREE_ERROR}
    OBVIOUS
  <2> HIDE DEF u, st
  <2> QED
    BY <2>1, <2>2, <2>3 DEF Outcome
<1> QED
  BY <1>1, <1>3, <1>4, <1>5

-----------------------------------------------------------------------------
(* PullUnsavedTreeNode *)

\* The records of the store.
DiskOK(d) == d.root \in Seq(Refs) /\ StoreOK(d.leaf)

\* Dumping any of the unsaved nodes keeps the records well-formed.
LEMMA DumpNodesOK ==
  ASSUME NEW t, t.children \in Seq(LeafType), NEW d, DiskOK(d), NEW N \in SUBSET UnsavedNodes(t)
  PROVE  DiskOK(DumpNodes(t, d, N))
<1> DEFINE c == t.children
           leaves == N \ {0}
           ids == {c[i].id : i \in leaves}
           root == IF 0 \in N THEN RefsOf(c) ELSE d.root
           pos(id) == CHOOSE i \in leaves : c[i].id = id
           leaf == [id \in DOMAIN d.leaf \cup ids |->
                      IF id \in ids THEN c[pos(id)].kvs ELSE d.leaf[id]]
<1>1. c \in Seq(LeafType) /\ Len(c) \in Nat
  OBVIOUS
<1>2. leaves \subseteq 1 .. Len(c)
  BY DEF UnsavedNodes
<1>3. \A i \in 1 .. Len(c) :
        /\ c[i].id \in Nat /\ c[i].kvs \in KVs
        /\ c[i].count \in 0 .. WordMod - 1 /\ c[i].size \in 0 .. WordMod - 1
        /\ c[i].min \in Keys \cup {NoKey} /\ c[i].max \in Keys \cup {NoKey}
  <2> SUFFICES ASSUME NEW i \in 1 .. Len(c)
               PROVE  /\ c[i].id \in Nat /\ c[i].kvs \in KVs
                      /\ c[i].count \in 0 .. WordMod - 1 /\ c[i].size \in 0 .. WordMod - 1
                      /\ c[i].min \in Keys \cup {NoKey} /\ c[i].max \in Keys \cup {NoKey}
    OBVIOUS
  <2>1. c[i] \in LeafType
    BY <1>1
  <2> QED
    BY <2>1, LeafElim
<1>4. root \in Seq(Refs)
  <2>1. d.root \in Seq(Refs)
    BY DEF DiskOK
  <2>2. RefsOf(c) \in Seq(Refs)
    <3> DEFINE r(i) == [id |-> c[i].id, count |-> c[i].count, size |-> c[i].size,
                        min |-> c[i].min, max |-> c[i].max]
    <3>1. \A i \in 1 .. Len(c) : r(i) \in Refs
      BY <1>3 DEF Refs
    <3>2. RefsOf(c) = [i \in 1 .. Len(c) |-> r(i)]
      BY DEF RefsOf
    <3> HIDE DEF r
    <3> QED
      BY <1>1, <3>1, <3>2
  <2> QED
    BY <2>1, <2>2
<1>5. StoreOK(leaf)
  <2>1. DOMAIN leaf = DOMAIN d.leaf \cup ids /\ DOMAIN leaf \subseteq Nat
    BY <1>2, <1>3 DEF DiskOK, StoreOK
  <2>2. ASSUME NEW id \in DOMAIN leaf PROVE leaf[id] \in KVs
    <3>1. CASE id \in ids
      <4>1. \E i \in leaves : c[i].id = id
        BY <3>1
      <4>2. pos(id) \in leaves
        BY <4>1
      <4>3. leaf[id] = c[pos(id)].kvs
        BY <2>1, <3>1
      <4> HIDE DEF pos, leaf
      <4> QED
        BY <1>2, <1>3, <4>2, <4>3
    <3>2. CASE id \notin ids
      BY <2>1, <3>2 DEF DiskOK, StoreOK
    <3> QED
      BY <3>1, <3>2
  <2> HIDE DEF leaf
  <2> QED
    BY <2>1, <2>2 DEF StoreOK
<1>6. DumpNodes(t, d, N) = [root |-> root, leaf |-> leaf]
  BY DEF DumpNodes
<1> HIDE DEF root, leaf
<1> QED
  BY <1>4, <1>5, <1>6 DEF DiskOK

\* unsaved_nodes_ is emptied.
LEMMA ClearUnsavedOK ==
  ASSUME NEW t, TreeOK(t)
  PROVE  TreeOK(ClearUnsaved(t))
<1> DEFINE c == t.children
           d == [i \in 1 .. Len(c) |-> [c[i] EXCEPT !.unsaved = FALSE]]
           u == [t EXCEPT !.unsaved = FALSE]
           v == [u EXCEPT !.children = d]
<1>1. t \in TreeType /\ ChildrenOK(c, t.lastId) /\ t.lastId \in Nat
  BY TreeElim
<1>2. ClearUnsaved(t) = v
  BY <1>1 DEF ClearUnsaved, TreeType
<1>3. TreeOK(u) /\ u.lastId = t.lastId
  BY RootMarked
<1>4. d = [i \in 1 .. Len(c) |-> d[i]]
  OBVIOUS
<1>5. \A i \in 1 .. Len(c) : \E b \in BOOLEAN : d[i] = [c[i] EXCEPT !.unsaved = b]
  OBVIOUS
<1> HIDE DEF u, d
<1>6. ChildrenOK(d, t.lastId)
  BY <1>1, <1>4, <1>5, MarksOK
<1>7. TreeOK(v)
  BY <1>3, <1>6, ChildrenReplaced
<1> QED
  BY <1>2, <1>7

-----------------------------------------------------------------------------
(* The session *)

\* The inductive invariant.
BptreeInv ==
  /\ TreeOK(tree)
  /\ DiskOK(disk)
  /\ ret \in [op : {"Open", "Insert", "Delete", "GetItem", "Save"},
              key : Keys \cup {NoKey}, st : Statuses]
  /\ RootNeverSplits
  /\ InsertNeverErrs

\* A session starts with an empty tree.
LEMMA InitOK == Init => BptreeInv
<1> SUFFICES ASSUME Init PROVE BptreeInv
  OBVIOUS
<1>1. disk.root = <<>> /\ DOMAIN disk.leaf = {}
  BY DEF Init, EmptyDisk
<1>2. DiskOK(disk)
  BY <1>1 DEF DiskOK, StoreOK
<1>3. 0 \in 0 .. WordMod - 1 /\ KeyLen(NoKey) = 0
  BY NodeAssumption DEF KeyLen
<1>4. tree = [children |-> <<>>, count |-> 0, size |-> 0, min |-> NoKey, max |-> NoKey,
              unsaved |-> FALSE, lastId |-> 0]
  BY DEF Init, OpenTree, EmptyDisk
<1>5. TreeOK(tree)
  BY <1>3, <1>4 DEF TreeOK, TreeType, ChildrenOK
<1>6. ret = [op |-> "Open", key |-> NoKey, st |-> C_OK]
  BY DEF Init
<1> QED
  BY <1>2, <1>5, <1>6
  DEF BptreeInv, RootNeverSplits, InsertNeverErrs, Statuses, UNDEFINED, C_OK

\* Every call and every save, complete or not, keeps the invariant.
LEMMA NextOK == BptreeInv /\ [Next]_vars => BptreeInv'
<1> SUFFICES ASSUME BptreeInv, [Next]_vars PROVE BptreeInv'
  OBVIOUS
<1>1. TreeOK(tree) /\ DiskOK(disk) /\ StoreOK(disk.leaf)
  BY DEF BptreeInv, DiskOK
<1> USE DEF C_OK, C_BPTREE_DUPLICATE_KEY, C_BPTREE_ERROR, C_STORAGE_KV_NOT_FOUND, UNDEFINED
<1>2. ASSUME NEW key \in Keys, NEW value \in Values, Insert(key, value) PROVE BptreeInv'
  <2>1. PICK o \in InsertOutcomes(tree, disk.leaf, key, value) :
          tree' = o.tree /\ ret' = [op |-> "Insert", key |-> key, st |-> o.st]
    BY <1>2 DEF Insert
  <2>2. TreeOK(o.tree) /\ o.st \in {C_OK, C_BPTREE_DUPLICATE_KEY}
    BY <1>1, InsertOutcomesOK
  <2>3. disk' = disk
    BY <1>2 DEF Insert
  <2> QED
    BY <1>1, <2>1, <2>2, <2>3 DEF BptreeInv, RootNeverSplits, InsertNeverErrs, Statuses
<1>3. ASSUME NEW key \in Keys, Delete(key) PROVE BptreeInv'
  <2>1. PICK o \in DeleteOutcomes(tree, disk.leaf, key) :
          tree' = o.tree /\ ret' = [op |-> "Delete", key |-> key, st |-> o.st]
    BY <1>3 DEF Delete
  <2>2. TreeOK(o.tree) /\ o.st \in {C_OK, C_STORAGE_KV_NOT_FOUND}
    BY <1>1, DeleteOutcomesOK
  <2>3. disk' = disk
    BY <1>3 DEF Delete
  <2> QED
    BY <1>1, <2>1, <2>2, <2>3 DEF BptreeInv, RootNeverSplits, InsertNeverErrs, Statuses
<1>4. ASSUME NEW key \in Keys, GetItem(key) PROVE BptreeInv'
  <2>1. PICK o \in GetItemOutcomes(tree, disk.leaf, key) :
          tree' = o.tree /\ ret' = [op |-> "GetItem", key |-> key, st |-> o.st]
    BY <1>4 DEF GetItem
  <2>2. TreeOK(o.tree) /\ o.st \in {C_OK, C_STORAGE_KV_NOT_FOUND, C_BPTREE_ERROR}
    BY <1>1, GetItemOutcomesOK
  <2>3. disk' = disk
    BY <1>4 DEF GetItem
  <2> QED
    BY <1>1, <2>1, <2>2, <2>3 DEF BptreeInv, RootNeverSplits, InsertNeverErrs, Statuses
<1>5. ASSUME Save PROVE BptreeInv'
  <2>1. DiskOK(disk')
    BY <1>1, <1>5, TreeElim, DumpNodesOK DEF Save
  <2>2. TreeOK(tree')
    BY <1>1, <1>5, ClearUnsavedOK DEF Save
  <2>3. ret' = [op |-> "Save", key |-> NoKey, st |-> C_OK]
    BY <1>5 DEF Save
  <2> QED
    BY <2>1, <2>2, <2>3 DEF BptreeInv, RootNeverSplits, InsertNeverErrs, Statuses
<1>6. ASSUME SaveFails PROVE BptreeInv'
  <2>1. PICK N \in SUBSET UnsavedNodes(tree) : disk' = DumpNodes(tree, disk, N)
    BY <1>6 DEF SaveFails
  <2>2. DiskOK(disk')
    BY <1>1, <2>1, TreeElim, DumpNodesOK
  <2>3. tree' = tree /\ ret' = [op |-> "Save", key |-> NoKey, st |-> C_OK]
    BY <1>6 DEF SaveFails
  <2> QED
    BY <1>1, <2>2, <2>3 DEF BptreeInv, RootNeverSplits, InsertNeverErrs, Statuses
<1>7. CASE UNCHANGED vars
  BY <1>7 DEF vars, BptreeInv, RootNeverSplits, InsertNeverErrs
<1> QED
  BY <1>2, <1>3, <1>4, <1>5, <1>6, <1>7 DEF Next

\* The invariant holds in every reachable state.
LEMMA InvHolds == Spec => []BptreeInv
<1> QED
  BY InitOK, NextOK, PTL DEF Spec

\* Every variable keeps its type, for every number of keys and node size: all
\* sizes and counts, also those that wrap around, are machine words.
THEOREM TreeTyped == Spec => []TypeOK
<1>1. BptreeInv => TypeOK
  BY DEF BptreeInv, TreeOK, DiskOK, StoreOK, TypeOK
<1> QED
  BY <1>1, InvHolds, PTL

\* UpdateStatByRangeChange keeps only the two end keys in the size of the root,
\* so NeedSplit never holds for it while two keys fit into a node.
THEOREM RootStaysWhole == Spec => []RootNeverSplits
<1>1. BptreeInv => RootNeverSplits
  BY DEF BptreeInv
<1> QED
  BY <1>1, InvHolds, PTL

\* AllocateNodeID gives every leaf an id above those of all live leaves, so no
\* two of them meet in unsaved_nodes_ or in the store.
THEOREM LeavesKeepTheirIds == Spec => []NodeIdsUnique
<1>1. BptreeInv => NodeIdsUnique
  BY DEF BptreeInv, TreeOK, ChildrenOK, NodeIdsUnique
<1> QED
  BY <1>1, InvHolds, PTL

\* No merge, split or delete leaves a key in write_kvs_ that kvs_ lacks, so an
\* insert succeeds or reports a duplicate.
THEOREM InsertsSucceed == Spec => []InsertNeverErrs
<1>1. BptreeInv => InsertNeverErrs
  BY DEF BptreeInv
<1> QED
  BY <1>1, InvHolds, PTL

-----------------------------------------------------------------------------
(* Unsaved items *)

\* The items of a leaf are in its stored record, or the leaf will be dumped.
Backed(leaf, stored) ==
  \/ leaf.unsaved
  \/ \A k \in DOMAIN leaf.kvs :
       /\ leaf.id \in DOMAIN stored
       /\ k \in DOMAIN stored[leaf.id]
       /\ stored[leaf.id][k] = leaf.kvs[k]

AllBacked(c, stored) == \A i \in 1 .. Len(c) : Backed(c[i], stored)

\* A mark changes nothing else of a leaf.
LEMMA MarkedLeaf ==
  ASSUME NEW leaf \in LeafType, NEW u \in BOOLEAN, NEW d, d = [leaf EXCEPT !.unsaved = u]
  PROVE  d.id = leaf.id /\ d.kvs = leaf.kvs /\ d.unsaved = u
BY DEF LeafType

\* Collecting marks one leaf and, ids being different, takes the mark of no other.
LEMMA CollectFacts ==
  ASSUME NEW n \in Nat, NEW c, ChildrenOK(c, n), NEW at \in 1 .. Len(c), NEW d, d = Collect(c, at)
  PROVE  \A i \in 1 .. Len(c) :
           /\ d[i].id = c[i].id /\ d[i].kvs = c[i].kvs
           /\ d[i].unsaved <=> (i = at \/ c[i].unsaved)
<1> SUFFICES ASSUME NEW i \in 1 .. Len(c)
             PROVE  /\ d[i].id = c[i].id /\ d[i].kvs = c[i].kvs
                    /\ d[i].unsaved <=> (i = at \/ c[i].unsaved)
  OBVIOUS
<1>1. PICK u \in BOOLEAN : u = (i = at \/ (c[i].unsaved /\ c[i].id # c[at].id))
  OBVIOUS
<1>2. d[i] = [c[i] EXCEPT !.unsaved = u]
  BY <1>1, Zenon DEF Collect
<1>3. PICK leaf : leaf = c[i]
  OBVIOUS
<1>4. leaf \in LeafType
  BY <1>3 DEF ChildrenOK
<1>5. d[i] = [leaf EXCEPT !.unsaved = u]
  BY <1>2, <1>3, Zenon
<1>6. d[i].id = leaf.id /\ d[i].kvs = leaf.kvs /\ d[i].unsaved = u
  BY <1>4, <1>5, MarkedLeaf
<1>7. i # at => c[i].id # c[at].id
  BY DEF ChildrenOK
<1>8. u <=> (i = at \/ c[i].unsaved)
  BY <1>1, <1>7, Zenon
<1> QED
  BY <1>3, <1>6, <1>8, Zenon

\* Taking a node out of unsaved_nodes_ takes the mark of no node with another id.
LEMMA RemoveUnsavedFacts ==
  ASSUME NEW n \in Nat, NEW c, ChildrenOK(c, n), NEW id, NEW d, d = RemoveUnsaved(c, id)
  PROVE  \A i \in 1 .. Len(c) :
           /\ d[i].id = c[i].id /\ d[i].kvs = c[i].kvs
           /\ c[i].id # id => (d[i].unsaved <=> c[i].unsaved)
<1> SUFFICES ASSUME NEW i \in 1 .. Len(c)
             PROVE  /\ d[i].id = c[i].id /\ d[i].kvs = c[i].kvs
                    /\ c[i].id # id => (d[i].unsaved <=> c[i].unsaved)
  OBVIOUS
<1>1. PICK u \in BOOLEAN : u = (c[i].unsaved /\ c[i].id # id)
  OBVIOUS
<1>2. d[i] = [c[i] EXCEPT !.unsaved = u]
  BY <1>1, Zenon DEF RemoveUnsaved
<1>3. PICK leaf : leaf = c[i]
  OBVIOUS
<1>4. leaf \in LeafType
  BY <1>3 DEF ChildrenOK
<1>5. d[i] = [leaf EXCEPT !.unsaved = u]
  BY <1>2, <1>3, Zenon
<1>6. d[i].id = leaf.id /\ d[i].kvs = leaf.kvs /\ d[i].unsaved = u
  BY <1>4, <1>5, MarkedLeaf
<1> QED
  BY <1>1, <1>3, <1>6, Zenon

\* Collecting a leaf backs it, and all others stay backed.
LEMMA CollectBacks ==
  ASSUME NEW n \in Nat, NEW c, ChildrenOK(c, n), NEW at \in 1 .. Len(c), NEW stored,
         NEW i \in 1 .. Len(c), i = at \/ Backed(c[i], stored)
  PROVE  Backed(Collect(c, at)[i], stored)
<1>1. PICK d : d = Collect(c, at)
  OBVIOUS
<1>2. /\ d[i].id = c[i].id /\ d[i].kvs = c[i].kvs
      /\ d[i].unsaved <=> (i = at \/ c[i].unsaved)
  BY <1>1, CollectFacts
<1>3. Backed(d[i], stored)
  BY <1>2 DEF Backed
<1> QED
  BY <1>1, <1>3

\* A visit adds only items of the leaf's own record.
LEMMA LoadBacked ==
  ASSUME NEW leaf, LeafOK(leaf), NEW stored, Backed(leaf, stored)
  PROVE  Backed(Load(leaf, stored), stored)
<1>1. CASE leaf.id \notin DOMAIN stored
  BY <1>1 DEF Load
<1>2. CASE leaf.id \in DOMAIN stored
  <2> DEFINE rec == stored[leaf.id]
             f == [k \in DOMAIN leaf.kvs \cup DOMAIN rec |->
                     IF k \in DOMAIN leaf.kvs THEN leaf.kvs[k] ELSE rec[k]]
  <2>1. PICK d : d = Load(leaf, stored)
    OBVIOUS
  <2>2. d = [leaf EXCEPT !.kvs = f] /\ leaf \in LeafType
    BY <1>2, <2>1 DEF Load, Deserialize, LeafOK
  <2>3. /\ DOMAIN f = DOMAIN leaf.kvs \cup DOMAIN rec
        /\ \A k \in DOMAIN f : f[k] = IF k \in DOMAIN leaf.kvs THEN leaf.kvs[k] ELSE rec[k]
    OBVIOUS
  <2> HIDE DEF f
  <2>4. d.id = leaf.id /\ d.kvs = f
    BY <2>2 DEF LeafType
  <2>5. d.unsaved = leaf.unsaved
    BY <2>2 DEF LeafType
  <2>6. CASE leaf.unsaved
    BY <2>1, <2>5, <2>6 DEF Backed
  <2>7. CASE ~leaf.unsaved
    <3>1. \A k \in DOMAIN leaf.kvs : k \in DOMAIN rec /\ rec[k] = leaf.kvs[k]
      BY <2>7 DEF Backed
    <3>2. \A k \in DOMAIN f : k \in DOMAIN rec /\ rec[k] = f[k]
      BY <2>3, <3>1
    <3> QED
      BY <1>2, <2>1, <2>4, <3>2 DEF Backed
  <2> QED
    BY <2>6, <2>7
<1> QED
  BY <1>1, <1>2

\* The leaves after one has been replaced.
LEMMA ReplacedLeaf ==
  ASSUME NEW n, NEW c, ChildrenOK(c, n), NEW i \in 1 .. Len(c), NEW leaf, LeafOK(leaf)
  PROVE  /\ Len(ReplaceAt(c, i, leaf)) = Len(c)
         /\ \A j \in 1 .. Len(c) : ReplaceAt(c, i, leaf)[j] = IF j = i THEN leaf ELSE c[j]
<1>1. c \in Seq(LeafType) /\ leaf \in LeafType
  BY DEF ChildrenOK, LeafOK
<1> QED
  BY <1>1, ReplaceAtProperties

\* The children after a visit.
LEMMA LoadChildBacked ==
  ASSUME NEW t, TreeOK(t), NEW i \in 1 .. Len(t.children), NEW stored, StoreOK(stored),
         AllBacked(t.children, stored)
  PROVE  AllBacked(LoadChild(t, i, stored).children, stored)
<1> DEFINE c == t.children
           leaf == Load(c[i], stored)
           d == ReplaceAt(c, i, leaf)
<1>1. t \in TreeType /\ c \in Seq(LeafType) /\ ChildrenOK(c, t.lastId)
  BY TreeElim
<1>2. LeafOK(c[i]) /\ Backed(c[i], stored)
  BY <1>1 DEF ChildrenOK, AllBacked
<1>3. LeafOK(leaf) /\ Backed(leaf, stored)
  BY <1>2, LoadOK, LoadBacked
<1>4. LoadChild(t, i, stored).children = d
  BY <1>1 DEF LoadChild, ReplaceAt, TreeType
<1> HIDE DEF leaf
<1>5. Len(d) = Len(c) /\ \A j \in 1 .. Len(c) : d[j] = IF j = i THEN leaf ELSE c[j]
  BY <1>1, <1>3, ReplacedLeaf
<1> HIDE DEF d
<1>6. AllBacked(d, stored)
  <2> SUFFICES ASSUME NEW j \in 1 .. Len(c) PROVE Backed(d[j], stored)
    BY <1>5 DEF AllBacked
  <2>1. Backed(c[j], stored)
    BY DEF AllBacked
  <2> QED
    BY <1>3, <1>5, <2>1
<1> QED
  BY <1>4, <1>6

\* The last turns of Insert and Delete leave the children alone.
LEMMA RootTurns ==
  ASSUME NEW t, TreeOK(t)
  PROVE  /\ t.children # <<>> => InsertAtRoot(t).tree.children = t.children
         /\ DeleteAtRoot(t).tree.children = t.children
<1>1. t \in TreeType
  BY TreeElim
<1>2. \A delta : UpdateStatByRangeChange(t, delta).children = t.children
  BY <1>1 DEF UpdateStatByRangeChange, TreeType
<1>3. ASSUME t.children # <<>>
      PROVE  InsertAtRoot(t).tree.children = t.children
  <2> DEFINE r == UpdateStatByRangeChange(t, 1)
  <2>1. TreeOK(r) /\ r.size <= MaxNodeSize /\ r.children = t.children
    BY <1>2, <1>3, RangeChangeOK
  <2> HIDE DEF r
  <2>2. ~ RootNeedSplit(r)
    BY <2>1, TreeElim, NodeAssumption DEF RootNeedSplit
  <2>3. PICK v : v = [r EXCEPT !.unsaved = TRUE]
    OBVIOUS
  <2>4. InsertAtRoot(t) = Outcome(v, C_OK)
    BY <2>2, <2>3, Zenon DEF InsertAtRoot, r
  <2>5. v.children = r.children
    BY <2>1, <2>3, RootMarked, Zenon
  <2> QED
    BY <2>1, <2>4, <2>5 DEF Outcome
<1>4. DeleteAtRoot(t).tree.children = t.children
  <2> DEFINE r == IF t.children = <<>> THEN ResetStat(t) ELSE UpdateStatByRangeChange(t, -1)
  <2>1. TreeOK(r) /\ r.children = t.children
    <3>1. CASE t.children = <<>>
      BY <1>1, <3>1, ResetStatOK DEF ResetStat, TreeType
    <3>2. CASE t.children # <<>>
      BY <1>2, <3>2, RangeChangeOK, -1 \in Int
    <3> QED
      BY <3>1, <3>2
  <2>2. PICK v : v = [r EXCEPT !.unsaved = TRUE]
    OBVIOUS
  <2>3. DeleteAtRoot(t) = Outcome(v, C_OK)
    BY <2>2, Zenon DEF DeleteAtRoot
  <2> HIDE DEF r
  <2>4. v.children = r.children
    BY <2>1, <2>2, RootMarked, Zenon
  <2> QED
    BY <2>1, <2>3, <2>4 DEF Outcome
<1> QED
  BY <1>3, <1>4

\* A replaced leaf that is collected at once.
LEMMA ReplaceBacked ==
  ASSUME NEW n \in Nat, NEW c, ChildrenOK(c, n), NEW i \in 1 .. Len(c),
         NEW leaf, LeafOK(leaf), leaf.id = c[i].id, NEW stored, AllBacked(c, stored)
  PROVE  AllBacked(Collect(ReplaceAt(c, i, leaf), i), stored)
<1>1. PICK d : d = ReplaceAt(c, i, leaf)
  OBVIOUS
<1>2. ChildrenOK(d, n) /\ Len(d) = Len(c)
  BY <1>1, ReplaceOK
<1>3. \A j \in 1 .. Len(c) : d[j] = IF j = i THEN leaf ELSE c[j]
  BY <1>1, ReplacedLeaf
<1>4. Len(Collect(d, i)) = Len(c)
  BY <1>2, CollectOK
<1>5. ASSUME NEW j \in 1 .. Len(c) PROVE Backed(Collect(d, i)[j], stored)
  <2>1. j = i \/ Backed(d[j], stored)
    BY <1>3 DEF AllBacked
  <2> QED
    BY <1>2, <2>1, CollectBacks
<1> QED
  BY <1>1, <1>4, <1>5 DEF AllBacked

\* The leaves after one has been added.
LEMMA AddedLeaf ==
  ASSUME NEW n, NEW c, ChildrenOK(c, n), NEW i \in 1 .. Len(c) + 1, NEW leaf, LeafOK(leaf),
         NEW j \in 1 .. Len(c) + 1
  PROVE  AddChild(c, i, leaf)[j] = IF j < i THEN c[j] ELSE IF j = i THEN leaf ELSE c[j - 1]
<1>1. c \in Seq(LeafType) /\ leaf \in LeafType
  BY DEF ChildrenOK, LeafOK
<1> QED
  BY <1>1, InsertAtProperties DEF AddChild

\* The leaf that got the key, or both halves of it, are collected.
LEMMA InsertAtLeafBacked ==
  ASSUME NEW t, TreeOK(t), NEW i \in 1 .. Len(t.children),
         NEW leaf, LeafOK(leaf), leaf.id = t.children[i].id,
         NEW o \in InsertAtLeaf(t, i, leaf), NEW stored, AllBacked(t.children, stored)
  PROVE  AllBacked(o.tree.children, stored)
<1> DEFINE c == t.children
           n == t.lastId
<1>1. t \in TreeType /\ ChildrenOK(c, n) /\ n \in Nat /\ c \in Seq(LeafType) /\ Len(c) \in Nat /\ Len(c) >= 1
  BY TreeElim
<1>2. CASE ~ LeafNeedSplit(leaf)
  <2> DEFINE d == Collect(ReplaceAt(c, i, leaf), i)
             u == [t EXCEPT !.children = d]
  <2>1. o = InsertAtRoot(u)
    BY <1>2 DEF InsertAtLeaf
  <2>2. ChildrenOK(ReplaceAt(c, i, leaf), n) /\ Len(ReplaceAt(c, i, leaf)) = Len(c)
    BY <1>1, ReplaceOK
  <2>3. ChildrenOK(d, n) /\ Len(d) = Len(c)
    BY <1>1, <2>2, CollectOK
  <2>4. AllBacked(d, stored)
    BY <1>1, ReplaceBacked
  <2> HIDE DEF d
  <2>5. TreeOK(u) /\ u.children = d
    BY <2>3, ChildrenReplaced
  <2>6. d # <<>>
    BY <1>1, <2>3
  <2> HIDE DEF u
  <2> QED
    BY <2>1, <2>4, <2>5, <2>6, RootTurns
<1>3. CASE LeafNeedSplit(leaf)
  <2> DEFINE id == AllocateNodeID(t)
             right == SplitRight(leaf, id)
             left == SplitLeft(leaf)
             kept == ReplaceAt(c, i, left)
  <2>0. PICK at \in MaxKeyUpperBound(kept, right.max) :
          \E g, l, e, d, u :
            /\ o = InsertAtRoot(u) /\ u = [t EXCEPT !.lastId = id, !.children = d]
            /\ d = Collect(e, l) /\ e = Collect(g, at)
            /\ l = (IF at <= i THEN i + 1 ELSE i) /\ g = AddChild(kept, at, right)
    BY <1>3 DEF InsertAtLeaf
  <2>1. PICK g, l, e, d, u :
          /\ o = InsertAtRoot(u) /\ u = [t EXCEPT !.lastId = id, !.children = d]
          /\ d = Collect(e, l) /\ e = Collect(g, at)
          /\ l = (IF at <= i THEN i + 1 ELSE i) /\ g = AddChild(kept, at, right)
    BY <2>0
  <2>2. id = n + 1 /\ id \in Nat
    BY <1>1 DEF AllocateNodeID
  <2>3. LeafOK(right) /\ right.id = id
    BY <1>3, <2>2, SplitRightOK
  <2>4. LeafOK(left) /\ left.id = c[i].id
    BY <1>3, SplitLeftOK
  <2> HIDE DEF id, right, left
  <2>5. ChildrenOK(kept, n) /\ Len(kept) = Len(c)
    BY <1>1, <2>4, ReplaceOK
  <2>6. \A j \in 1 .. Len(c) : kept[j] = IF j = i THEN left ELSE c[j]
    BY <1>1, <2>4, ReplacedLeaf
  <2> HIDE DEF kept
  <2>7. at \in 1 .. Len(kept) + 1
    BY <2>0, <2>5, BoundsInRange DEF ChildrenOK
  <2>8. ChildrenOK(g, id) /\ Len(g) = Len(c) + 1
    BY <1>1, <2>1, <2>2, <2>3, <2>5, <2>7, AddChildOK
  <2>9. \A j \in 1 .. Len(c) + 1 :
          g[j] = IF j < at THEN kept[j] ELSE IF j = at THEN right ELSE kept[j - 1]
    <3> SUFFICES ASSUME NEW j \in 1 .. Len(kept) + 1
                 PROVE  g[j] = IF j < at THEN kept[j] ELSE IF j = at THEN right ELSE kept[j - 1]
      BY <2>5
    <3>1. AddChild(kept, at, right)[j]
            = IF j < at THEN kept[j] ELSE IF j = at THEN right ELSE kept[j - 1]
      BY <2>3, <2>5, <2>7, AddedLeaf
    <3> QED
      BY <2>1, <3>1, Zenon
  <2>10. l \in 1 .. Len(g) /\ at \in 1 .. Len(g)
    BY <1>1, <2>1, <2>5, <2>7, <2>8
  <2>11. ASSUME NEW j \in 1 .. Len(g) PROVE j = at \/ j = l \/ Backed(g[j], stored)
    <3>1. CASE j < at /\ j # l
      <4>1. g[j] = c[j] /\ j \in 1 .. Len(c)
        BY <1>1, <2>1, <2>5, <2>6, <2>7, <2>8, <2>9, <3>1
      <4> QED
        BY <4>1 DEF AllBacked
    <3>2. CASE j > at /\ j # l
      <4>1. j \in 1 .. Len(c) + 1 /\ j - 1 \in 1 .. Len(c) /\ j - 1 # i /\ ~(j < at) /\ j # at
        BY <1>1, <2>1, <2>5, <2>7, <2>8, <3>2
      <4>2. g[j] = kept[j - 1] /\ kept[j - 1] = c[j - 1]
        BY <2>6, <2>9, <4>1
      <4> QED
        BY <4>1, <4>2 DEF AllBacked
    <3> QED
      BY <1>1, <2>7, <2>8, <2>10, <3>1, <3>2
  <2>12. ChildrenOK(e, id) /\ Len(e) = Len(g)
    BY <2>1, <2>2, <2>8, CollectOK
  <2>13. \A j \in 1 .. Len(g) : j = l \/ Backed(e[j], stored)
    BY <2>1, <2>2, <2>8, <2>10, <2>11, CollectBacks
  <2>14. ChildrenOK(d, id) /\ Len(d) = Len(g)
    BY <2>1, <2>2, <2>12, CollectOK
  <2>15. AllBacked(d, stored)
    <3>1. \A j \in 1 .. Len(e) : Backed(Collect(e, l)[j], stored)
      BY <2>2, <2>10, <2>12, <2>13, CollectBacks
    <3> QED
      BY <2>1, <2>12, <2>14, <3>1 DEF AllBacked
  <2>16. /\ u \in TreeType /\ u.children = d /\ u.lastId = id
         /\ u.size = t.size /\ u.min = t.min /\ u.max = t.max
    BY <1>1, <2>1, <2>2, <2>14 DEF TreeType, ChildrenOK
  <2>17. TreeOK(u)
    BY <2>14, <2>16, ChildrenChanged
  <2>18. d # <<>>
    BY <1>1, <2>8, <2>14
  <2> QED
    BY <2>1, <2>15, <2>16, <2>17, <2>18, RootTurns
<1> QED
  BY <1>2, <1>3

\* BptNode::Insert: a duplicate changes nothing.
LEMMA InsertIntoLeafBacked ==
  ASSUME NEW t, TreeOK(t), NEW i \in 1 .. Len(t.children), NEW key \in Keys, NEW value \in Values,
         NEW o \in InsertIntoLeaf(t, i, key, value), NEW stored, AllBacked(t.children, stored)
  PROVE  AllBacked(o.tree.children, stored)
<1> DEFINE leaf == t.children[i]
           put == PutItem(leaf, key, value)
           new == UpdateStatByAddKV(put, key)
<1>1. ChildrenOK(t.children, t.lastId)
  BY TreeElim
<1>2. LeafOK(leaf)
  BY <1>1 DEF ChildrenOK
<1>3. CASE key \in DOMAIN leaf.kvs
  <2>1. o = Outcome(t, C_BPTREE_DUPLICATE_KEY)
    BY <1>3 DEF InsertIntoLeaf
  <2> QED
    BY <2>1 DEF Outcome
<1>4. CASE key \notin DOMAIN leaf.kvs
  <2>1. key \notin leaf.written
    BY <1>2, <1>4 DEF LeafOK
  <2>2. o \in InsertAtLeaf(t, i, new)
    BY <1>4, <2>1 DEF InsertIntoLeaf
  <2> HIDE DEF leaf
  <2>3. LeafOK(put) /\ put.id = leaf.id
    BY <1>2, PutItemOK
  <2> HIDE DEF put
  <2>4. LeafOK(new) /\ new.id = put.id
    BY <2>3, AddKVOK
  <2> HIDE DEF new
  <2>5. new.id = t.children[i].id
    BY <2>3, <2>4 DEF leaf
  <2> QED
    BY <2>2, <2>4, <2>5, InsertAtLeafBacked
<1> QED
  BY <1>3, <1>4

\* Bptree::Insert: a leaf that has just been constructed has nothing to forget.
LEMMA InsertBacked ==
  ASSUME NEW t, TreeOK(t), NEW stored, StoreOK(stored), NEW key \in Keys, NEW value \in Values,
         NEW o \in InsertOutcomes(t, stored, key, value), AllBacked(t.children, stored)
  PROVE  AllBacked(o.tree.children, stored)
<1>1. /\ t \in TreeType /\ t.children \in Seq(LeafType) /\ Len(t.children) \in Nat
      /\ t.lastId \in Nat /\ ChildrenOK(t.children, t.lastId)
  BY TreeElim
<1>2. CASE Len(t.children) = 0
  <2> DEFINE id == AllocateNodeID(t)
             c == <<NewLeaf(id)>>
             u == [t EXCEPT !.lastId = id, !.children = c]
  <2>1. id \in Nat
    BY <1>1 DEF AllocateNodeID
  <2>2. [t EXCEPT !.children = c, !.lastId = id] = u
    BY <1>1 DEF TreeType
  <2>3. o \in InsertIntoLeaf(u, 1, key, value)
    BY <1>2, <2>2 DEF InsertOutcomes
  <2>4. LeafOK(NewLeaf(id)) /\ NewLeaf(id).id = id /\ NewLeaf(id).kvs = EmptyKVs
    BY <2>1, NewLeafOK
  <2>5. NewLeaf(id) \in LeafType
    BY <2>4 DEF LeafOK
  <2>6. ChildrenOK(c, id) /\ c \in Seq(LeafType) /\ Len(c) = 1 /\ c[1] = NewLeaf(id)
    BY <2>1, <2>4, <2>5 DEF ChildrenOK
  <2>7. AllBacked(c, stored)
    <3>1. DOMAIN NewLeaf(id).kvs = {}
      BY <2>4 DEF EmptyKVs
    <3>2. Backed(NewLeaf(id), stored)
      BY <3>1 DEF Backed
    <3> QED
      BY <2>6, <3>2 DEF AllBacked
  <2> HIDE DEF id, c
  <2>8. /\ u \in TreeType /\ u.children = c /\ u.lastId = id
        /\ u.size = t.size /\ u.min = t.min /\ u.max = t.max
    BY <1>1, <2>1, <2>6 DEF TreeType
  <2> HIDE DEF u
  <2>9. TreeOK(u)
    BY <2>6, <2>8, ChildrenChanged
  <2>10. Len(u.children) = 1 /\ AllBacked(u.children, stored)
    BY <2>6, <2>7, <2>8, Zenon
  <2>11. 1 \in 1 .. Len(u.children)
    <3>1. 1 \in 1 .. 1
      OBVIOUS
    <3> QED
      BY <2>10, <3>1, Zenon
  <2> QED
    BY <2>3, <2>9, <2>10, <2>11, InsertIntoLeafBacked
<1>3. CASE Len(t.children) # 0
  <2> DEFINE n == Len(t.children)
             pos(at) == IF at > n THEN n ELSE at
             u(i) == LoadChild(t, i, stored)
  <2>1. PICK at \in MaxKeyLowerBound(t.children, key) :
          o \in InsertIntoLeaf(u(pos(at)), pos(at), key, value)
    BY <1>3 DEF InsertOutcomes
  <2>2. at \in 1 .. n + 1
    BY <1>1, BoundsInRange
  <2>3. pos(at) \in 1 .. n
    BY <1>1, <1>3, <2>2
  <2> HIDE DEF pos
  <2>4. TreeOK(u(pos(at))) /\ Len(u(pos(at)).children) = n
    BY <2>3, LoadChildOK
  <2>5. AllBacked(u(pos(at)).children, stored)
    BY <2>3, LoadChildBacked
  <2> HIDE DEF u
  <2> QED
    BY <2>1, <2>3, <2>4, <2>5, InsertIntoLeafBacked
<1> QED
  BY <1>2, <1>3

\* Erasing a child takes no other one away.
LEMMA DelChildBacked ==
  ASSUME NEW n \in Nat, NEW c, ChildrenOK(c, n), NEW i \in 1 .. Len(c), NEW found,
         NEW stored, AllBacked(c, stored)
  PROVE  AllBacked(DelChild(c, i, found), stored)
<1>1. CASE found # i
  BY <1>1 DEF DelChild
<1>2. CASE found = i
  <2> DEFINE d == RemoveAt(c, i)
  <2>1. c \in Seq(LeafType) /\ Len(c) \in Nat
    BY DEF ChildrenOK
  <2>2. /\ Len(d) = Len(c) - 1
        /\ \A j \in 1 .. Len(c) - 1 : d[j] = IF j < i THEN c[j] ELSE c[j + 1]
    BY <2>1, RemoveAtProperties
  <2> HIDE DEF d
  <2>3. \A j \in 1 .. Len(d) : \E k \in 1 .. Len(c) : d[j] = c[k]
    <3> SUFFICES ASSUME NEW j \in 1 .. Len(d) PROVE \E k \in 1 .. Len(c) : d[j] = c[k]
      OBVIOUS
    <3>1. j \in 1 .. Len(c) /\ j + 1 \in 1 .. Len(c)
      BY <2>1, <2>2
    <3>2. d[j] = c[j] \/ d[j] = c[j + 1]
      BY <2>1, <2>2
    <3> QED
      BY <3>1, <3>2
  <2>4. AllBacked(d, stored)
    BY <2>3 DEF AllBacked
  <2> QED
    BY <1>2, <2>4 DEF DelChild, d
<1> QED
  BY <1>1, <1>2

\* Delete at a leaf.  A leaf whose last item has gone is the only one taken out
\* of unsaved_nodes_, and it has nothing left that could be forgotten.
LEMMA DeleteFromLeafBacked ==
  ASSUME NEW t, TreeOK(t), NEW i \in 1 .. Len(t.children), NEW key,
         NEW o \in DeleteFromLeaf(t, i, key), NEW stored, AllBacked(t.children, stored)
  PROVE  AllBacked(o.tree.children, stored)
<1> DEFINE c == t.children
           n == t.lastId
           leaf == DropItem(c[i], key)
           left == ReplaceAt(c, i, leaf)
<1>1. ChildrenOK(c, n) /\ n \in Nat /\ c \in Seq(LeafType)
  BY TreeElim
<1>2. LeafOK(c[i])
  BY <1>1 DEF ChildrenOK
<1>3. LeafOK(leaf) /\ leaf.id = c[i].id
  BY <1>2, DropItemOK
<1>4. CASE key \notin DOMAIN c[i].kvs
  <2>1. o = Outcome(t, C_OK)
    BY <1>4 DEF DeleteFromLeaf
  <2> QED
    BY <2>1 DEF Outcome
<1>5. CASE key \in DOMAIN c[i].kvs /\ DOMAIN leaf.kvs = {}
  <2> DEFINE e == RemoveUnsaved(left, leaf.id)
             d(found) == DelChild(e, i, found)
             u(found) == [t EXCEPT !.children = d(found)]
  <2>1. PICK found \in MaxKeyLowerBound(left, leaf.max) : o = DeleteAtRoot(u(found))
    BY <1>5 DEF DeleteFromLeaf
  <2> HIDE DEF leaf
  <2>2. ChildrenOK(left, n) /\ Len(left) = Len(c)
    BY <1>1, <1>3, ReplaceOK
  <2>3. \A j \in 1 .. Len(c) : left[j] = IF j = i THEN leaf ELSE c[j]
    BY <1>1, <1>3, ReplacedLeaf
  <2> HIDE DEF left
  <2>4. ChildrenOK(e, n) /\ Len(e) = Len(c)
    BY <1>1, <2>2, RemoveUnsavedOK
  <2>5. \A j \in 1 .. Len(c) :
          /\ e[j].id = left[j].id /\ e[j].kvs = left[j].kvs
          /\ left[j].id # leaf.id => (e[j].unsaved <=> left[j].unsaved)
    BY <1>1, <2>2, RemoveUnsavedFacts
  <2> HIDE DEF e
  <2>6. AllBacked(e, stored)
    <3> SUFFICES ASSUME NEW j \in 1 .. Len(c) PROVE Backed(e[j], stored)
      BY <2>4 DEF AllBacked
    <3>1. CASE j = i
      <4>1. DOMAIN e[j].kvs = {}
        BY <1>5, <2>3, <2>5, <3>1
      <4> QED
        BY <4>1 DEF Backed
    <3>2. CASE j # i
      <4>1. left[j] = c[j] /\ c[j].id # leaf.id
        BY <1>1, <1>3, <2>3, <3>2 DEF ChildrenOK
      <4>2. Backed(c[j], stored)
        BY DEF AllBacked
      <4>3. e[j].id = c[j].id /\ e[j].kvs = c[j].kvs /\ (e[j].unsaved <=> c[j].unsaved)
        BY <2>5, <4>1
      <4> QED
        BY <4>2, <4>3 DEF Backed
    <3> QED
      BY <3>1, <3>2
  <2>7. ChildrenOK(d(found), n) /\ AllBacked(d(found), stored)
    BY <1>1, <2>4, <2>6, DelChildOK, DelChildBacked
  <2> HIDE DEF d
  <2>8. TreeOK(u(found)) /\ u(found).children = d(found)
    BY <2>7, ChildrenReplaced
  <2> HIDE DEF u
  <2> QED
    BY <2>1, <2>7, <2>8, RootTurns
<1>6. CASE key \in DOMAIN c[i].kvs /\ DOMAIN leaf.kvs # {}
  <2> DEFINE new == UpdateStatByDelKV(leaf, key)
             d == Collect(ReplaceAt(c, i, new), i)
             u == [t EXCEPT !.children = d]
  <2>1. o = DeleteAtRoot(u)
    BY <1>6 DEF DeleteFromLeaf
  <2> HIDE DEF leaf
  <2>2. LeafOK(new) /\ new.id = c[i].id
    BY <1>3, <1>6, DelKVOK
  <2> HIDE DEF new
  <2>3. ChildrenOK(ReplaceAt(c, i, new), n)
    BY <1>1, <2>2, ReplaceOK
  <2>4. ChildrenOK(d, n) /\ AllBacked(d, stored)
    BY <1>1, <2>2, <2>3, CollectOK, ReplaceBacked
  <2> HIDE DEF d
  <2>5. TreeOK(u) /\ u.children = d
    BY <2>4, ChildrenReplaced
  <2> HIDE DEF u
  <2> QED
    BY <2>1, <2>4, <2>5, RootTurns
<1> QED
  BY <1>4, <1>5, <1>6

\* Bptree::Delete.
LEMMA DeleteBacked ==
  ASSUME NEW t, TreeOK(t), NEW stored, StoreOK(stored), NEW key,
         NEW o \in DeleteOutcomes(t, stored, key), AllBacked(t.children, stored)
  PROVE  AllBacked(o.tree.children, stored)
<1> DEFINE c == t.children
           u(i) == LoadChild(t, i, stored)
<1>1. c \in Seq(LeafType) /\ Len(c) \in Nat
  BY TreeElim
<1>2. PICK i \in FindChild(c, key) :
        o \in IF i > Len(c)
              THEN {Outcome(t, C_OK)}
              ELSE IF LoadStatus(c[i], stored) # C_OK
                   THEN {Outcome(t, LoadStatus(c[i], stored))}
                   ELSE DeleteFromLeaf(u(i), i, key)
  BY DEF DeleteOutcomes
<1>3. i \in 1 .. Len(c) + 1
  BY <1>1, <1>2, FindChildInRange
<1>4. CASE i > Len(c) \/ LoadStatus(c[i], stored) # C_OK
  BY <1>2, <1>4 DEF Outcome
<1>5. CASE i <= Len(c) /\ LoadStatus(c[i], stored) = C_OK
  <2>1. i \in 1 .. Len(t.children) /\ o \in DeleteFromLeaf(u(i), i, key)
    BY <1>1, <1>2, <1>3, <1>5
  <2>2. TreeOK(u(i)) /\ Len(u(i).children) = Len(t.children) /\ AllBacked(u(i).children, stored)
    BY <2>1, LoadChildOK, LoadChildBacked
  <2> HIDE DEF u
  <2> QED
    BY <2>1, <2>2, DeleteFromLeafBacked
<1> QED
  BY <1>1, <1>3, <1>4, <1>5

\* Bptree::GetItem.
LEMMA GetItemBacked ==
  ASSUME NEW t, TreeOK(t), NEW stored, StoreOK(stored), NEW key,
         NEW o \in GetItemOutcomes(t, stored, key), AllBacked(t.children, stored)
  PROVE  AllBacked(o.tree.children, stored)
<1> DEFINE c == t.children
           u(i) == LoadChild(t, i, stored)
           st(i) == IF key \in DOMAIN u(i).children[i].kvs THEN C_OK ELSE C_BPTREE_ERROR
<1>1. c \in Seq(LeafType) /\ Len(c) \in Nat
  BY TreeElim
<1>2. PICK i \in FindChild(c, key) :
        o = IF i > Len(c)
            THEN Outcome(t, C_STORAGE_KV_NOT_FOUND)
            ELSE IF LoadStatus(c[i], stored) # C_OK
                 THEN Outcome(t, LoadStatus(c[i], stored))
                 ELSE Outcome(u(i), st(i))
  BY DEF GetItemOutcomes
<1>3. i \in 1 .. Len(c) + 1
  BY <1>1, <1>2, FindChildInRange
<1>4. CASE i > Len(c) \/ LoadStatus(c[i], stored) # C_OK
  BY <1>2, <1>4 DEF Outcome
<1>5. CASE i <= Len(c) /\ LoadStatus(c[i], stored) = C_OK
  <2>1. i \in 1 .. Len(t.children) /\ o = Outcome(u(i), st(i))
    BY <1>1, <1>2, <1>3, <1>5
  <2>2. AllBacked(u(i).children, stored)
    BY <2>1, LoadChildBacked
  <2> HIDE DEF u, st
  <2> QED
    BY <2>1, <2>2 DEF Outcome
<1> QED
  BY <1>1, <1>3, <1>4, <1>5

\* A dump, complete or not: the record of a dumped leaf is that leaf's items, and
\* the record of no other leaf is touched.
LEMMA DumpBacks ==
  ASSUME NEW t, TreeOK(t), NEW d, DiskOK(d), NEW N \in SUBSET UnsavedNodes(t),
         AllBacked(t.children, d.leaf), NEW i \in 1 .. Len(t.children),
         i \in N \/ ~ t.children[i].unsaved
  PROVE  LET leaf == t.children[i]
             stored == DumpNodes(t, d, N).leaf
         IN  \A k \in DOMAIN leaf.kvs :
               leaf.id \in DOMAIN stored /\ k \in DOMAIN stored[leaf.id]
               /\ stored[leaf.id][k] = leaf.kvs[k]
<1> DEFINE c == t.children
           leaves == N \ {0}
           ids == {c[j].id : j \in leaves}
           pos(id) == CHOOSE j \in leaves : c[j].id = id
           stored == [id \in DOMAIN d.leaf \cup ids |->
                        IF id \in ids THEN c[pos(id)].kvs ELSE d.leaf[id]]
<1>1. DumpNodes(t, d, N).leaf = stored
  BY DEF DumpNodes
<1>2. /\ Len(c) \in Nat
      /\ \A j, k \in 1 .. Len(c) : j # k => c[j].id # c[k].id
  BY TreeElim DEF ChildrenOK
<1>3. \A j \in leaves : j \in 1 .. Len(c) /\ c[j].unsaved
  BY <1>2 DEF UnsavedNodes
<1>4. \A id \in DOMAIN d.leaf \cup ids :
        id \in DOMAIN stored /\ stored[id] = IF id \in ids THEN c[pos(id)].kvs ELSE d.leaf[id]
  OBVIOUS
<1>5. CASE i \in N
  <2>1. i \in leaves /\ c[i].id \in ids
    BY <1>5
  <2>2. pos(c[i].id) \in leaves /\ c[pos(c[i].id)].id = c[i].id
    BY <2>1
  <2>3. pos(c[i].id) = i
    BY <1>2, <1>3, <2>1, <2>2
  <2> HIDE DEF pos, stored
  <2>4. c[i].id \in DOMAIN stored /\ stored[c[i].id] = c[i].kvs
    BY <1>4, <2>1, <2>3
  <2> QED
    BY <1>1, <2>4
<1>6. CASE i \notin N
  <2>1. ~ c[i].unsaved
    BY <1>6
  <2>2. c[i].id \notin ids
    BY <1>2, <1>3, <2>1
  <2>3. \A k \in DOMAIN c[i].kvs :
          /\ c[i].id \in DOMAIN d.leaf /\ k \in DOMAIN d.leaf[c[i].id]
          /\ d.leaf[c[i].id][k] = c[i].kvs[k]
    BY <2>1 DEF AllBacked, Backed
  <2> HIDE DEF pos, stored, ids
  <2> QED
    BY <1>1, <1>4, <2>2, <2>3
<1> QED
  BY <1>5, <1>6

\* What is in unsaved_nodes_ may be emptied once every node in it is dumped.
LEMMA SaveBacks ==
  ASSUME NEW t, TreeOK(t), NEW d, DiskOK(d), AllBacked(t.children, d.leaf)
  PROVE  AllBacked(ClearUnsaved(t).children, DumpNodes(t, d, UnsavedNodes(t)).leaf)
<1> DEFINE c == t.children
           v == ClearUnsaved(t)
           stored == DumpNodes(t, d, UnsavedNodes(t)).leaf
<1>1. t \in TreeType /\ c \in Seq(LeafType) /\ Len(c) \in Nat
  BY TreeElim
<1>2. v.children = [i \in 1 .. Len(c) |-> [c[i] EXCEPT !.unsaved = FALSE]]
  BY <1>1 DEF ClearUnsaved, TreeType
<1>3. Len(v.children) = Len(c)
  BY <1>1, <1>2
<1>4. ASSUME NEW i \in 1 .. Len(c) PROVE Backed(v.children[i], stored)
  <2>1. PICK leaf : leaf = c[i]
    OBVIOUS
  <2>2. leaf \in LeafType
    BY <1>1, <2>1
  <2>3. v.children[i] = [leaf EXCEPT !.unsaved = FALSE]
    BY <1>2, <2>1
  <2>4. v.children[i].id = leaf.id /\ v.children[i].kvs = leaf.kvs
    BY <2>2, <2>3, MarkedLeaf, FALSE \in BOOLEAN
  <2>5. i \in UnsavedNodes(t) \/ ~ c[i].unsaved
    BY DEF UnsavedNodes
  <2>6. \A k \in DOMAIN leaf.kvs :
          leaf.id \in DOMAIN stored /\ k \in DOMAIN stored[leaf.id]
          /\ stored[leaf.id][k] = leaf.kvs[k]
    BY <2>1, <2>5, DumpBacks
  <2> HIDE DEF v, stored
  <2> QED
    BY <2>4, <2>6 DEF Backed
<1> HIDE DEF v, stored
<1>5. AllBacked(v.children, stored)
  BY <1>3, <1>4 DEF AllBacked
<1> QED
  BY <1>5 DEF v, stored

\* A save that fails leaves the nodes collected.
LEMMA PartBacks ==
  ASSUME NEW t, TreeOK(t), NEW d, DiskOK(d), NEW N \in SUBSET UnsavedNodes(t),
         AllBacked(t.children, d.leaf)
  PROVE  AllBacked(t.children, DumpNodes(t, d, N).leaf)
<1>1. ASSUME NEW i \in 1 .. Len(t.children), ~ t.children[i].unsaved
      PROVE  Backed(t.children[i], DumpNodes(t, d, N).leaf)
  BY <1>1, DumpBacks DEF Backed
<1> QED
  BY <1>1 DEF AllBacked, Backed

\* No cached item is forgotten, whatever was split, emptied, merged or only in
\* part saved: every change of a leaf collects it, and unsaved_nodes_ loses a node
\* only when it has been dumped or has no item left.
THEOREM NothingIsForgotten == Spec => []NothingUnsavedForgotten
<1> DEFINE Inv == BptreeInv /\ AllBacked(tree.children, disk.leaf)
<1>1. Init => Inv
  <2> SUFFICES ASSUME Init PROVE Inv
    OBVIOUS
  <2>1. tree.children = <<>>
    BY DEF Init, OpenTree, EmptyDisk
  <2> QED
    BY <2>1, InitOK DEF AllBacked
<1>2. Inv /\ [Next]_vars => Inv'
  <2> SUFFICES ASSUME BptreeInv, AllBacked(tree.children, disk.leaf), [Next]_vars
               PROVE  Inv'
    OBVIOUS
  <2>1. BptreeInv'
    BY NextOK
  <2>2. TreeOK(tree) /\ DiskOK(disk) /\ StoreOK(disk.leaf)
    BY DEF BptreeInv, DiskOK
  <2>3. ASSUME NEW key \in Keys, NEW value \in Values, Insert(key, value)
        PROVE  AllBacked(tree.children, disk.leaf)'
    <3>1. PICK o \in InsertOutcomes(tree, disk.leaf, key, value) : tree' = o.tree /\ disk' = disk
      BY <2>3 DEF Insert
    <3>2. AllBacked(o.tree.children, disk.leaf)
      BY <2>2, InsertBacked
    <3> QED
      BY <3>1, <3>2
  <2>4. ASSUME NEW key \in Keys, Delete(key) PROVE AllBacked(tree.children, disk.leaf)'
    <3>1. PICK o \in DeleteOutcomes(tree, disk.leaf, key) : tree' = o.tree /\ disk' = disk
      BY <2>4 DEF Delete
    <3>2. AllBacked(o.tree.children, disk.leaf)
      BY <2>2, DeleteBacked
    <3> QED
      BY <3>1, <3>2
  <2>5. ASSUME NEW key \in Keys, GetItem(key) PROVE AllBacked(tree.children, disk.leaf)'
    <3>1. PICK o \in GetItemOutcomes(tree, disk.leaf, key) : tree' = o.tree /\ disk' = disk
      BY <2>5 DEF GetItem
    <3>2. AllBacked(o.tree.children, disk.leaf)
      BY <2>2, GetItemBacked
    <3> QED
      BY <3>1, <3>2
  <2>6. ASSUME Save PROVE AllBacked(tree.children, disk.leaf)'
    BY <2>2, <2>6, SaveBacks DEF Save
  <2>7. ASSUME SaveFails PROVE AllBacked(tree.children, disk.leaf)'
    <3>1. PICK N \in SUBSET UnsavedNodes(tree) : tree' = tree /\ disk' = DumpNodes(tree, disk, N)
      BY <2>7 DEF SaveFails
    <3>2. AllBacked(tree.children, DumpNodes(tree, disk, N).leaf)
      BY <2>2, PartBacks
    <3> QED
      BY <3>1, <3>2
  <2>8. CASE UNCHANGED vars
    BY <2>1, <2>8 DEF vars
  <2> QED
    BY <2>1, <2>3, <2>4, <2>5, <2>6, <2>7, <2>8 DEF Next
<1>3. Inv => NothingUnsavedForgotten
  BY DEF AllBacked, Backed, NothingUnsavedForgotten
<1> HIDE DEF Inv
<1> QED
  BY <1>1, <1>2, <1>3, PTL DEF Spec

=============================================================================
