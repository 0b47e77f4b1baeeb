---------------------------- MODULE TableProofs ----------------------------
(***************************************************************************)
(* Proofs about Table, with any number of statements, sessions, crashes    *)
(* and failed writes: every variable keeps its type, the root never splits *)
(* and no insert fails with C_BPTREE_ERROR; while nothing is deleted every *)
(* key in the index, cached or stored, has its row; and as long as the     *)
(* index is one leaf, no key of an INSERT that ran through Submit is lost. *)
(* Sessions start counting node ids at 0 again, so the invariants of       *)
(* BptreeProofs about ids do not hold here, and none of this supposes that *)
(* ids are not used twice.                                                 *)
(* The second half is the refinement of IndexSpec by an index of any       *)
(* number of leaves, for statements of one row and without failures.  It   *)
(* supposes NodeIdsUnique: with two leaves under one id it does not hold.  *)
(***************************************************************************)
EXTENDS Table, BptreeProofs

-----------------------------------------------------------------------------
(* The keys of a leaf *)

\* A visit adds the keys of the leaf's record.
LEMMA LoadKeys ==
  ASSUME NEW leaf, LeafOK(leaf), NEW stored, NEW S, DOMAIN leaf.kvs \subseteq S,
         \A id \in DOMAIN stored : DOMAIN stored[id] \subseteq S
  PROVE  DOMAIN Load(leaf, stored).kvs \subseteq S
<1>1. CASE leaf.id \notin DOMAIN stored
  BY <1>1 DEF Load
<1>2. CASE leaf.id \in DOMAIN stored
  <2> DEFINE f == [k \in DOMAIN leaf.kvs \cup DOMAIN stored[leaf.id] |->
                     IF k \in DOMAIN leaf.kvs THEN leaf.kvs[k] ELSE stored[leaf.id][k]]
  <2>1. Load(leaf, stored) = [leaf EXCEPT !.kvs = f]
    BY <1>2 DEF Load, Deserialize
  <2>2. DOMAIN f \subseteq S
    BY <1>2
  <2> HIDE DEF f
  <2>3. Load(leaf, stored).kvs = f
    BY <2>1 DEF LeafOK, LeafType
  <2> QED
    BY <2>2, <2>3
<1> QED
  BY <1>1, <1>2

\* An insert adds the key.
LEMMA PutKeys ==
  ASSUME NEW leaf, LeafOK(leaf), NEW key, NEW value
  PROVE  DOMAIN PutItem(leaf, key, value).kvs = DOMAIN leaf.kvs \cup {key}
<1> DEFINE f == [k \in DOMAIN leaf.kvs \cup {key} |-> IF k = key THEN value ELSE leaf.kvs[k]]
<1>1. PICK w : PutItem(leaf, key, value) = [leaf EXCEPT !.written = w, !.kvs = f]
  BY DEF PutItem
<1>2. DOMAIN f = DOMAIN leaf.kvs \cup {key}
  OBVIOUS
<1> HIDE DEF f
<1> QED
  BY <1>1, <1>2 DEF LeafOK, LeafType

\* The statistics concern no item.
LEMMA StatKeys ==
  ASSUME NEW leaf, LeafOK(leaf), NEW key
  PROVE  /\ UpdateStatByAddKV(leaf, key).kvs = leaf.kvs
         /\ UpdateStatByDelKV(leaf, key).kvs = leaf.kvs
<1>1. leaf \in LeafType
  BY DEF LeafOK
<1>2. UpdateStatByAddKV(leaf, key).kvs = leaf.kvs
  <2>1. PICK c, z, hi, lo :
          UpdateStatByAddKV(leaf, key)
            = [leaf EXCEPT !.count = c, !.size = z, !.max = hi, !.min = lo]
    BY Zenon DEF UpdateStatByAddKV
  <2> QED
    BY <1>1, <2>1 DEF LeafType
<1>3. UpdateStatByDelKV(leaf, key).kvs = leaf.kvs
  <2> DEFINE r == UpdateStatByDelKV(leaf, key)
  <2>1. PICK c : c = Word(Cardinality(DOMAIN leaf.kvs))
    OBVIOUS
  <2>2. PICK counted : counted = [leaf EXCEPT !.count = c]
    OBVIOUS
  <2>3. \/ \E z, hi : r = [counted EXCEPT !.size = z, !.max = hi]
        \/ \E z, lo : r = [counted EXCEPT !.size = z, !.min = lo]
        \/ r = counted
    <3>1. CASE key = leaf.max
      BY <2>1, <2>2, <3>1, Zenon DEF UpdateStatByDelKV
    <3>2. CASE key # leaf.max /\ key = leaf.min
      BY <2>1, <2>2, <3>2, Zenon DEF UpdateStatByDelKV
    <3>3. CASE key # leaf.max /\ key # leaf.min
      BY <2>1, <2>2, <3>3 DEF UpdateStatByDelKV
    <3> QED
      BY <3>1, <3>2, <3>3
  <2> HIDE DEF r
  <2> QED
    BY <1>1, <2>2, <2>3 DEF LeafType, r
<1> QED
  BY <1>2, <1>3

\* A split leaves no key that was not there.
LEMMA SplitKeys ==
  ASSUME NEW leaf, LeafOK(leaf), LeafNeedSplit(leaf), NEW id \in Nat
  PROVE  /\ DOMAIN SplitLeft(leaf).kvs \subseteq DOMAIN leaf.kvs
         /\ DOMAIN SplitRight(leaf, id).kvs \subseteq DOMAIN leaf.kvs
<1> DEFINE R == RightKeys(leaf)
           L == DOMAIN leaf.kvs \ R
<1>1. leaf \in LeafType /\ NewLeaf(id) \in LeafType /\ R \subseteq DOMAIN leaf.kvs
  BY NewLeafOK, SplitParts DEF LeafOK
<1>2. DOMAIN SplitLeft(leaf).kvs = L
  <2>1. PICK w, c, z, lo, hi, f :
          /\ SplitLeft(leaf) = [leaf EXCEPT !.kvs = f, !.written = w, !.count = c, !.size = z,
                                            !.min = lo, !.max = hi]
          /\ f = Restrict(leaf.kvs, L)
    BY Zenon DEF SplitLeft
  <2>2. DOMAIN f = L
    BY <2>1 DEF Restrict
  <2> QED
    BY <1>1, <2>1, <2>2 DEF LeafType
<1>3. DOMAIN SplitRight(leaf, id).kvs = R
  <2>1. PICK new : new = NewLeaf(id)
    OBVIOUS
  <2>2. PICK w, z, lo, hi, f :
          /\ SplitRight(leaf, id) = [new EXCEPT !.kvs = f, !.written = w, !.size = z,
                                                !.min = lo, !.max = hi]
          /\ f = Restrict(leaf.kvs, R)
    BY <2>1, Zenon DEF SplitRight
  <2>3. DOMAIN f = R
    BY <2>2 DEF Restrict
  <2> QED
    BY <1>1, <2>1, <2>2, <2>3 DEF LeafType
<1> QED
  BY <1>1, <1>2, <1>3

-----------------------------------------------------------------------------
(* Trees whose keys are in a set *)

LeafIn(leaf, S) == LeafOK(leaf) /\ DOMAIN leaf.kvs \subseteq S

\* Nothing is said of the ids of the leaves.
LeavesIn(c, S) == c \in Seq(LeafType) /\ \A i \in 1 .. Len(c) : LeafIn(c[i], S)

TreeIn(t, S) == t \in TreeType /\ LeavesIn(t.children, S)

StoreIn(stored, S) == StoreOK(stored) /\ \A id \in DOMAIN stored : DOMAIN stored[id] \subseteq S

DiskIn(d, S) == d.root \in Seq(Refs) /\ StoreIn(d.leaf, S)

\* The same leaves with other marks.
LEMMA MarkedLeaves ==
  ASSUME NEW S, NEW c, LeavesIn(c, S), NEW d, d = [i \in 1 .. Len(c) |-> d[i]],
         \A i \in 1 .. Len(c) : \E u \in BOOLEAN : d[i] = [c[i] EXCEPT !.unsaved = u]
  PROVE  LeavesIn(d, S) /\ Len(d) = Len(c)
<1>1. Len(c) \in Nat
  BY DEF LeavesIn
<1>2. ASSUME NEW i \in 1 .. Len(c) PROVE LeafIn(d[i], S)
  <2>0. PICK u \in BOOLEAN : d[i] = [c[i] EXCEPT !.unsaved = u]
    OBVIOUS
  <2>1. PICK leaf : leaf = c[i] /\ d[i] = [leaf EXCEPT !.unsaved = u]
    BY <2>0
  <2>2. LeafIn(leaf, S) /\ leaf \in LeafType
    BY <2>1 DEF LeavesIn, LeafIn, LeafOK
  <2>3. LeafOK(d[i])
    BY <2>1, <2>2, UnsavedLeafOK DEF LeafIn
  <2>4. d[i].kvs = leaf.kvs
    BY <2>1, <2>2, MarkedLeaf
  <2> QED
    BY <2>2, <2>3, <2>4 DEF LeafIn
<1>3. \A i \in 1 .. Len(c) : d[i] \in LeafType
  BY <1>2 DEF LeafIn, LeafOK
<1>4. d \in Seq(LeafType) /\ Len(d) = Len(c)
  BY <1>1, <1>3
<1> QED
  BY <1>2, <1>4 DEF LeavesIn

\* Leaves collected, or taken out of unsaved_nodes_.
LEMMA CollectIn ==
  ASSUME NEW S, NEW c, LeavesIn(c, S), NEW at
  PROVE  LeavesIn(Collect(c, at), S) /\ Len(Collect(c, at)) = Len(c)
<1> DEFINE d == Collect(c, at)
           u(i) == i = at \/ (c[i].unsaved /\ c[i].id # c[at].id)
<1>1. \A i \in 1 .. Len(c) : u(i) \in BOOLEAN /\ d[i] = [c[i] EXCEPT !.unsaved = u(i)]
  BY DEF Collect
<1>2. d = [i \in 1 .. Len(c) |-> d[i]]
  BY DEF Collect
<1> HIDE DEF d, u
<1>3. LeavesIn(d, S) /\ Len(d) = Len(c)
  BY <1>1, <1>2, MarkedLeaves
<1> QED
  BY <1>3 DEF d

\* TreeCtx::RemoveUnsavedTreeNode.
LEMMA RemoveUnsavedIn ==
  ASSUME NEW S, NEW c, LeavesIn(c, S), NEW id
  PROVE  LeavesIn(RemoveUnsaved(c, id), S) /\ Len(RemoveUnsaved(c, id)) = Len(c)
<1> DEFINE d == RemoveUnsaved(c, id)
           u(i) == c[i].unsaved /\ c[i].id # id
<1>1. \A i \in 1 .. Len(c) : u(i) \in BOOLEAN /\ d[i] = [c[i] EXCEPT !.unsaved = u(i)]
  BY DEF RemoveUnsaved
<1>2. d = [i \in 1 .. Len(c) |-> d[i]]
  BY DEF RemoveUnsaved
<1> HIDE DEF d, u
<1>3. LeavesIn(d, S) /\ Len(d) = Len(c)
  BY <1>1, <1>2, MarkedLeaves
<1> QED
  BY <1>3 DEF d

\* A leaf replaced, added or erased.
LEMMA ReplaceIn ==
  ASSUME NEW S, NEW c, LeavesIn(c, S), NEW i \in 1 .. Len(c), NEW leaf, LeafIn(leaf, S)
  PROVE  LeavesIn(ReplaceAt(c, i, leaf), S) /\ Len(ReplaceAt(c, i, leaf)) = Len(c)
<1> DEFINE d == ReplaceAt(c, i, leaf)
<1>2. c \in Seq(LeafType) /\ leaf \in LeafType
  BY DEF LeavesIn, LeafIn, LeafOK
<1>3. /\ d \in Seq(LeafType) /\ Len(d) = Len(c)
      /\ \A j \in 1 .. Len(c) : d[j] = IF j = i THEN leaf ELSE c[j]
  BY <1>2, ReplaceAtProperties
<1> HIDE DEF d
<1>4. \A j \in 1 .. Len(c) : LeafIn(d[j], S)
  BY <1>3 DEF LeavesIn
<1>5. LeavesIn(d, S) /\ Len(d) = Len(c)
  BY <1>3, <1>4 DEF LeavesIn
<1> QED
  BY <1>5 DEF d

\* BptNode::AddChild.
LEMMA AddChildIn ==
  ASSUME NEW S, NEW c, LeavesIn(c, S), NEW i \in 1 .. Len(c) + 1, NEW leaf, LeafIn(leaf, S)
  PROVE  LeavesIn(AddChild(c, i, leaf), S) /\ Len(AddChild(c, i, leaf)) = Len(c) + 1
<1> DEFINE d == AddChild(c, i, leaf)
<1>1. c \in Seq(LeafType) /\ leaf \in LeafType /\ Len(c) \in Nat
  BY DEF LeavesIn, LeafIn, LeafOK
<1>2. d = InsertAt(c, i, leaf)
  BY DEF AddChild
<1>3. d \in Seq(LeafType) /\ Len(d) = Len(c) + 1
  BY <1>1, <1>2, InsertAtProperties
<1>4. ASSUME NEW j \in 1 .. Len(c) + 1
      PROVE  d[j] = IF j < i THEN c[j] ELSE IF j = i THEN leaf ELSE c[j - 1]
  BY <1>1, <1>2, InsertAtProperties
<1> HIDE DEF d
<1>5. ASSUME NEW j \in 1 .. Len(c) + 1 PROVE LeafIn(d[j], S)
  <2>1. CASE j < i
    <3>1. d[j] = c[j] /\ j \in 1 .. Len(c)
      BY <1>1, <1>4, <2>1
    <3> QED
      BY <3>1 DEF LeavesIn
  <2>2. CASE j = i
    BY <1>1, <1>4, <2>2
  <2>3. CASE j > i
    <3>1. ~(j < i) /\ j # i /\ j - 1 \in 1 .. Len(c)
      BY <1>1, <2>3
    <3>2. d[j] = c[j - 1]
      BY <1>4, <3>1
    <3> QED
      BY <3>1, <3>2 DEF LeavesIn
  <2> QED
    BY <1>1, <2>1, <2>2, <2>3
<1>6. LeavesIn(d, S)
  BY <1>3, <1>5 DEF LeavesIn
<1> QED
  BY <1>3, <1>6 DEF d

\* BptNode::DelChild.
LEMMA DelChildIn ==
  ASSUME NEW S, NEW c, LeavesIn(c, S), NEW i \in 1 .. Len(c), NEW found
  PROVE  LeavesIn(DelChild(c, i, found), S)
<1>1. CASE found # i
  BY <1>1 DEF DelChild
<1>2. CASE found = i
  <2> DEFINE d == RemoveAt(c, i)
  <2>1. c \in Seq(LeafType) /\ Len(c) \in Nat
    BY DEF LeavesIn
  <2>2. /\ d \in Seq(LeafType) /\ Len(d) = Len(c) - 1
        /\ \A j \in 1 .. Len(c) - 1 : d[j] = IF j < i THEN c[j] ELSE c[j + 1]
    BY <2>1, RemoveAtProperties
  <2> HIDE DEF d
  <2>3. ASSUME NEW j \in 1 .. Len(d) PROVE LeafIn(d[j], S)
    <3>1. j \in 1 .. Len(c) /\ j + 1 \in 1 .. Len(c)
      BY <2>1, <2>2
    <3>2. d[j] = c[j] \/ d[j] = c[j + 1]
      BY <2>1, <2>2
    <3> QED
      BY <3>1, <3>2 DEF LeavesIn
  <2>4. LeavesIn(d, S)
    BY <2>2, <2>3 DEF LeavesIn
  <2> QED
    BY <1>2, <2>4 DEF DelChild, d
<1> QED
  BY <1>1, <1>2

\* New children.
LEMMA NewChildren ==
  ASSUME NEW S, NEW t \in TreeType, NEW c, LeavesIn(c, S)
  PROVE  TreeIn([t EXCEPT !.children = c], S) /\ [t EXCEPT !.children = c].children = c
<1>1. c \in Seq(LeafType)
  BY DEF LeavesIn
<1>2. PICK u : u = [t EXCEPT !.children = c]
  OBVIOUS
<1>3. u \in TreeType /\ u.children = c
  BY <1>1, <1>2 DEF TreeType
<1> QED
  BY <1>2, <1>3 DEF TreeIn

\* The statistics of the root are words and keys, and its mark is a mark.
LEMMA RootTyped ==
  ASSUME NEW S, NEW t, TreeIn(t, S), NEW delta \in Int, NEW b \in BOOLEAN
  PROVE  /\ t.children # <<>> => TreeIn(UpdateStatByRangeChange(t, delta), S)
         /\ TreeIn(ResetStat(t), S)
         /\ TreeIn([t EXCEPT !.unsaved = b], S)
<1> DEFINE c == t.children
<1>1. /\ t \in TreeType /\ c \in Seq(LeafType) /\ Len(c) \in Nat /\ LeavesIn(c, S)
      /\ t.count \in 0 .. WordMod - 1 /\ t.size \in 0 .. WordMod - 1 /\ WordMod \in Int
  BY NodeAssumption DEF TreeIn, LeavesIn, TreeType
<1>2. ASSUME c # <<>> PROVE TreeIn(UpdateStatByRangeChange(t, delta), S)
  <2>1. PICK lo, hi, k, z :
          /\ lo = c[1].min /\ hi = c[Len(c)].max
          /\ k = t.count + delta
          /\ z = t.size - KeyLen(t.min) + KeyLen(lo) - KeyLen(t.max) + KeyLen(hi)
    OBVIOUS
  <2>2. UpdateStatByRangeChange(t, delta)
          = [t EXCEPT !.min = lo, !.max = hi, !.count = Word(k), !.size = Word(z)]
    BY <2>1, Zenon DEF UpdateStatByRangeChange
  <2>3. c[1] \in LeafType /\ c[Len(c)] \in LeafType
    <3>1. 1 \in 1 .. Len(c) /\ Len(c) \in 1 .. Len(c)
      BY <1>1, <1>2
    <3> QED
      BY <1>1, <3>1
  <2>4. lo \in Keys \cup {NoKey} /\ hi \in Keys \cup {NoKey}
    BY <2>1, <2>3, LeafElim
  <2>5. k \in Int /\ z \in Int
    <3>1. /\ KeyLen(lo) \in Int /\ KeyLen(hi) \in Int /\ KeyLen(t.min) \in Int
          /\ KeyLen(t.max) \in Int
      BY KeyLenType
    <3>2. t.count \in Int /\ t.size \in Int
      BY <1>1
    <3>3. \A a, e, f, g, h \in Int : a - e + f - g + h \in Int
      OBVIOUS
    <3>4. k \in Int
      BY <2>1, <3>2
    <3>5. z \in Int
      BY <2>1, <3>1, <3>2, <3>3, Zenon
    <3> QED
      BY <3>4, <3>5
  <2>6. PICK w, x : w = Word(k) /\ x = Word(z) /\ w \in 0 .. WordMod - 1 /\ x \in 0 .. WordMod - 1
    BY <2>5, WordType
  <2>7. PICK u : u = [t EXCEPT !.min = lo, !.max = hi, !.count = w, !.size = x]
    OBVIOUS
  <2>8. u \in TreeType /\ u.children = c
    BY <1>1, <2>4, <2>6, <2>7 DEF TreeType
  <2>9. UpdateStatByRangeChange(t, delta) = u
    BY <2>2, <2>6, <2>7, Zenon
  <2> QED
    BY <1>1, <2>8, <2>9 DEF TreeIn
<1>3. TreeIn(ResetStat(t), S)
  <2>1. PICK u : u = [t EXCEPT !.count = 0, !.size = 0, !.min = NoKey, !.max = NoKey]
    OBVIOUS
  <2>2. 0 \in 0 .. WordMod - 1
    BY NodeAssumption
  <2>3. u \in TreeType /\ u.children = c
    BY <1>1, <2>1, <2>2 DEF TreeType
  <2> QED
    BY <1>1, <2>1, <2>3 DEF TreeIn, ResetStat
<1>4. TreeIn([t EXCEPT !.unsaved = b], S)
  <2>1. PICK u : u = [t EXCEPT !.unsaved = b]
    OBVIOUS
  <2>2. u \in TreeType /\ u.children = c
    BY <1>1, <2>1 DEF TreeType
  <2> QED
    BY <1>1, <2>1, <2>2 DEF TreeIn
<1> QED
  BY <1>2, <1>3, <1>4

-----------------------------------------------------------------------------
(* The calls on the index *)

\* The visit of a leaf.
LEMMA LoadChildIn ==
  ASSUME NEW S, NEW t, TreeIn(t, S), NEW i \in 1 .. Len(t.children), NEW stored, StoreIn(stored, S)
  PROVE  /\ TreeIn(LoadChild(t, i, stored), S)
         /\ Len(LoadChild(t, i, stored).children) = Len(t.children)
<1> DEFINE c == t.children
           leaf == Load(c[i], stored)
           d == ReplaceAt(c, i, leaf)
<1>1. t \in TreeType /\ LeavesIn(c, S) /\ t.lastId \in Nat
  BY DEF TreeIn, TreeType
<1>2. LeafIn(c[i], S)
  BY <1>1 DEF LeavesIn
<1>3. LeafIn(leaf, S)
  BY <1>2, LoadOK, LoadKeys DEF LeafIn, StoreIn
<1>4. LoadChild(t, i, stored) = [t EXCEPT !.children = d]
  BY <1>1 DEF LoadChild, ReplaceAt, TreeType
<1> HIDE DEF leaf
<1>5. LeavesIn(d, S) /\ Len(d) = Len(c)
  BY <1>1, <1>3, ReplaceIn
<1> HIDE DEF d
<1> QED
  BY <1>1, <1>4, <1>5, NewChildren

\* The last turns of Insert and Delete.
LEMMA RootIn ==
  ASSUME NEW S, NEW t, TreeIn(t, S)
  PROVE  /\ t.children # <<>> => /\ TreeIn(InsertAtRoot(t).tree, S)
                                 /\ InsertAtRoot(t).st \in Statuses
         /\ TreeIn(DeleteAtRoot(t).tree, S) /\ DeleteAtRoot(t).st \in Statuses
<1>1. ASSUME t.children # <<>>
      PROVE  TreeIn(InsertAtRoot(t).tree, S) /\ InsertAtRoot(t).st \in Statuses
  <2> DEFINE r == UpdateStatByRangeChange(t, 1)
  <2>1. TreeIn(r, S)
    BY <1>1, RootTyped, TRUE \in BOOLEAN, 1 \in Int
  <2> HIDE DEF r
  <2>2. PICK v : v = [r EXCEPT !.unsaved = TRUE]
    OBVIOUS
  <2>3. TreeIn(v, S)
    BY <2>1, <2>2, RootTyped, TRUE \in BOOLEAN, 1 \in Int
  <2>4. InsertAtRoot(t) = Outcome(r, UNDEFINED) \/ InsertAtRoot(t) = Outcome(v, C_OK)
    BY <2>2, Zenon DEF InsertAtRoot, r
  <2> QED
    BY <2>1, <2>3, <2>4 DEF Outcome, Statuses
<1>2. TreeIn(DeleteAtRoot(t).tree, S) /\ DeleteAtRoot(t).st \in Statuses
  <2> DEFINE r == IF t.children = <<>> THEN ResetStat(t) ELSE UpdateStatByRangeChange(t, -1)
  <2>1. TreeIn(r, S)
    BY RootTyped, TRUE \in BOOLEAN, -1 \in Int
  <2>2. PICK v : v = [r EXCEPT !.unsaved = TRUE]
    OBVIOUS
  <2>3. DeleteAtRoot(t) = Outcome(v, C_OK)
    BY <2>2, Zenon DEF DeleteAtRoot
  <2> HIDE DEF r
  <2>4. TreeIn(v, S)
    BY <2>1, <2>2, RootTyped, TRUE \in BOOLEAN, 1 \in Int
  <2> QED
    BY <2>3, <2>4 DEF Outcome, Statuses
<1> QED
  BY <1>1, <1>2

\* The turn for the leaf that has just got its key, which may split it.
LEMMA InsertAtLeafIn ==
  ASSUME NEW S, NEW t, TreeIn(t, S), NEW i \in 1 .. Len(t.children), NEW leaf, LeafIn(leaf, S),
         NEW o \in InsertAtLeaf(t, i, leaf)
  PROVE  TreeIn(o.tree, S) /\ o.st \in Statuses
<1> DEFINE c == t.children
<1>1. t \in TreeType /\ LeavesIn(c, S) /\ t.lastId \in Nat /\ Len(c) \in Nat /\ Len(c) >= 1
  BY DEF TreeIn, TreeType, LeavesIn
<1>2. CASE ~ LeafNeedSplit(leaf)
  <2> DEFINE d == Collect(ReplaceAt(c, i, leaf), i)
             u == [t EXCEPT !.children = d]
  <2>1. o = InsertAtRoot(u)
    BY <1>2 DEF InsertAtLeaf
  <2>2. LeavesIn(ReplaceAt(c, i, leaf), S) /\ Len(ReplaceAt(c, i, leaf)) = Len(c)
    BY <1>1, ReplaceIn
  <2>3. LeavesIn(d, S) /\ Len(d) = Len(c)
    BY <2>2, CollectIn
  <2> HIDE DEF d
  <2>4. TreeIn(u, S) /\ u.children = d
    BY <1>1, <2>3, NewChildren
  <2>5. u.children # <<>>
    BY <1>1, <2>3, <2>4
  <2> HIDE DEF u
  <2> QED
    BY <2>1, <2>4, <2>5, RootIn
<1>3. CASE LeafNeedSplit(leaf)
  <2> DEFINE id == AllocateNodeID(t)
             right == SplitRight(leaf, id)
             left == SplitLeft(leaf)
             kept == ReplaceAt(c, i, left)
  <2>1. PICK at \in MaxKeyUpperBound(kept, right.max) :
          \E l : o = InsertAtRoot([t EXCEPT !.lastId = id,
                             !.children = Collect(Collect(AddChild(kept, at, right), at), l)])
    BY <1>3 DEF InsertAtLeaf
  <2>2. id \in Nat
    BY <1>1 DEF AllocateNodeID
  <2>3. LeafOK(leaf) /\ DOMAIN leaf.kvs \subseteq S
    BY DEF LeafIn
  <2>4. LeafIn(right, S)
    BY <1>3, <2>2, <2>3, SplitRightOK, SplitKeys DEF LeafIn
  <2>5. LeafIn(left, S)
    BY <1>3, <2>2, <2>3, SplitLeftOK, SplitKeys DEF LeafIn
  <2> HIDE DEF id, right, left
  <2>6. LeavesIn(kept, S) /\ Len(kept) = Len(c)
    BY <1>1, <2>5, ReplaceIn
  <2> HIDE DEF kept
  <2>7. at \in 1 .. Len(kept) + 1
    BY <2>1, <2>6, BoundsInRange DEF LeavesIn
  <2>8. PICK l, e, d, u : /\ o = InsertAtRoot(u) /\ u = [t EXCEPT !.lastId = id, !.children = d]
                          /\ d = Collect(e, l) /\ e = Collect(AddChild(kept, at, right), at)
    BY <2>1
  <2>9. LeavesIn(AddChild(kept, at, right), S) /\ Len(AddChild(kept, at, right)) = Len(c) + 1
    BY <2>4, <2>6, <2>7, AddChildIn
  <2>10. LeavesIn(e, S) /\ Len(e) = Len(c) + 1
    BY <2>8, <2>9, CollectIn
  <2>11. LeavesIn(d, S) /\ Len(d) = Len(c) + 1
    BY <2>8, <2>10, CollectIn
  <2>12. TreeIn(u, S) /\ u.children = d
    <3>1. d \in Seq(LeafType)
      BY <2>11 DEF LeavesIn
    <3>2. u \in TreeType /\ u.children = d
      BY <1>1, <2>2, <2>8, <3>1 DEF TreeType
    <3> QED
      BY <2>11, <3>2 DEF TreeIn
  <2>13. u.children # <<>>
    BY <1>1, <2>11, <2>12
  <2> QED
    BY <2>8, <2>12, <2>13, RootIn
<1> QED
  BY <1>2, <1>3

\* BptNode::Insert at a leaf.
LEMMA InsertIntoLeafIn ==
  ASSUME NEW S, NEW t, TreeIn(t, S), NEW i \in 1 .. Len(t.children),
         NEW key \in Keys, key \in S, NEW value \in Values,
         NEW o \in InsertIntoLeaf(t, i, key, value)
  PROVE  TreeIn(o.tree, S) /\ o.st \in Statuses
<1> DEFINE leaf == t.children[i]
           put == PutItem(leaf, key, value)
           new == UpdateStatByAddKV(put, key)
<1>1. LeafIn(leaf, S) /\ LeafOK(leaf)
  BY DEF TreeIn, LeavesIn, LeafIn
<1>2. CASE key \in DOMAIN leaf.kvs
  <2>1. o = Outcome(t, C_BPTREE_DUPLICATE_KEY)
    BY <1>2 DEF InsertIntoLeaf
  <2> QED
    BY <2>1 DEF Outcome, Statuses
<1>3. CASE key \notin DOMAIN leaf.kvs
  <2>1. key \notin leaf.written
    BY <1>1, <1>3 DEF LeafOK
  <2>2. o \in InsertAtLeaf(t, i, new)
    BY <1>3, <2>1 DEF InsertIntoLeaf
  <2> HIDE DEF leaf
  <2>3. LeafOK(put) /\ DOMAIN put.kvs \subseteq S
    BY <1>1, PutItemOK, PutKeys DEF LeafIn
  <2> HIDE DEF put
  <2>4. LeafIn(new, S)
    BY <2>3, AddKVOK, StatKeys DEF LeafIn
  <2> HIDE DEF new
  <2> QED
    BY <2>2, <2>4, InsertAtLeafIn
<1> QED
  BY <1>2, <1>3

\* Bptree::Insert of a key of S.
LEMMA InsertIn ==
  ASSUME NEW S, NEW t, TreeIn(t, S), NEW stored, StoreIn(stored, S),
         NEW key \in Keys, key \in S, NEW value \in Values,
         NEW o \in InsertOutcomes(t, stored, key, value)
  PROVE  TreeIn(o.tree, S) /\ o.st \in Statuses
<1>1. /\ t \in TreeType /\ t.children \in Seq(LeafType) /\ Len(t.children) \in Nat
      /\ t.lastId \in Nat
  BY DEF TreeIn, TreeType
<1>2. CASE Len(t.children) = 0
  <2> DEFINE id == AllocateNodeID(t)
             c == <<NewLeaf(id)>>
             u == [t EXCEPT !.lastId = id, !.children = c]
  <2>1. id \in Nat
    BY <1>1 DEF AllocateNodeID
  <2>2. [t EXCEPT !.children = c, !.lastId = id] = u
    BY <1>1 DEF TreeType
  <2>3. o \in InsertIntoLeaf(u, 1, key, value)
    BY <1>2, <2>2 DEF InsertOutcomes
  <2>4. LeafIn(NewLeaf(id), S)
    <3>1. LeafOK(NewLeaf(id)) /\ NewLeaf(id).kvs = EmptyKVs
      BY <2>1, NewLeafOK
    <3>2. DOMAIN EmptyKVs = {}
      BY DEF EmptyKVs
    <3> QED
      BY <3>1, <3>2 DEF LeafIn
  <2>5. LeavesIn(c, S) /\ Len(c) = 1
    BY <2>4 DEF LeavesIn, LeafIn, LeafOK
  <2> HIDE DEF id, c
  <2>6. TreeIn(u, S) /\ u.children = c
    <3>1. c \in Seq(LeafType)
      BY <2>5 DEF LeavesIn
    <3>2. u \in TreeType /\ u.children = c
      BY <1>1, <2>1, <3>1 DEF TreeType
    <3> QED
      BY <2>5, <3>2 DEF TreeIn
  <2>7. 1 \in 1 .. Len(u.children)
    <3>1. 1 \in 1 .. 1
      OBVIOUS
    <3>2. Len(u.children) = 1
      BY <2>5, <2>6, Zenon
    <3> QED
      BY <3>1, <3>2, Zenon
  <2> HIDE DEF u
  <2> QED
    BY <2>3, <2>6, <2>7, InsertIntoLeafIn
<1>3. CASE Len(t.children) # 0
  <2> DEFINE n == Len(t.children)
             pos(at) == IF at > n THEN n ELSE at
             u(i) == LoadChild(t, i, stored)
  <2>1. PICK at \in MaxKeyLowerBound(t.children, key) :
          o \in InsertIntoLeaf(u(pos(at)), pos(at), key, value)
    BY <1>3 DEF InsertOutcomes
  <2>2. at \in 1 .. n + 1
    BY <1>1, BoundsInRange
  <2>3. pos(at) \in 1 .. n
    BY <1>1, <1>3, <2>2
  <2> HIDE DEF pos
  <2>4. TreeIn(u(pos(at)), S) /\ Len(u(pos(at)).children) = n
    BY <2>3, LoadChildIn
  <2> HIDE DEF u
  <2> QED
    BY <2>1, <2>3, <2>4, InsertIntoLeafIn
<1> QED
  BY <1>2, <1>3

\* Delete at a leaf.
LEMMA DeleteFromLeafIn ==
  ASSUME NEW S, NEW t, TreeIn(t, S), NEW i \in 1 .. Len(t.children), NEW key,
         NEW o \in DeleteFromLeaf(t, i, key)
  PROVE  TreeIn(o.tree, S) /\ o.st \in Statuses
<1> DEFINE c == t.children
           leaf == DropItem(c[i], key)
           left == ReplaceAt(c, i, leaf)
<1>1. t \in TreeType /\ LeavesIn(c, S) /\ t.lastId \in Nat
  BY DEF TreeIn, TreeType
<1>2. LeafIn(c[i], S)
  BY <1>1 DEF LeavesIn
<1>3. LeafIn(leaf, S)
  BY <1>2, DropItemOK DEF LeafIn
<1>4. CASE key \notin DOMAIN c[i].kvs
  <2>1. o = Outcome(t, C_OK)
    BY <1>4 DEF DeleteFromLeaf
  <2> QED
    BY <2>1 DEF Outcome, Statuses
<1>5. CASE key \in DOMAIN c[i].kvs /\ DOMAIN leaf.kvs = {}
  <2> DEFINE e == RemoveUnsaved(left, leaf.id)
             d(found) == DelChild(e, i, found)
             u(found) == [t EXCEPT !.children = d(found)]
  <2>1. PICK found \in MaxKeyLowerBound(left, leaf.max) : o = DeleteAtRoot(u(found))
    BY <1>5 DEF DeleteFromLeaf
  <2> HIDE DEF leaf
  <2>2. LeavesIn(left, S) /\ Len(left) = Len(c)
    BY <1>1, <1>3, ReplaceIn
  <2> HIDE DEF left
  <2>3. LeavesIn(e, S) /\ Len(e) = Len(c)
    BY <2>2, RemoveUnsavedIn
  <2> HIDE DEF e
  <2>4. LeavesIn(d(found), S)
    BY <2>3, DelChildIn
  <2> HIDE DEF d
  <2>5. TreeIn(u(found), S)
    BY <1>1, <2>4, NewChildren
  <2> HIDE DEF u
  <2> QED
    BY <2>1, <2>5, RootIn
<1>6. CASE key \in DOMAIN c[i].kvs /\ DOMAIN leaf.kvs # {}
  <2> DEFINE new == UpdateStatByDelKV(leaf, key)
             d == Collect(ReplaceAt(c, i, new), i)
             u == [t EXCEPT !.children = d]
  <2>1. o = DeleteAtRoot(u)
    BY <1>6 DEF DeleteFromLeaf
  <2> HIDE DEF leaf
  <2>2. LeafIn(new, S)
    BY <1>3, <1>6, DelKVOK, StatKeys DEF LeafIn
  <2> HIDE DEF new
  <2>3. LeavesIn(ReplaceAt(c, i, new), S)
    BY <1>1, <2>2, ReplaceIn
  <2>4. LeavesIn(d, S)
    BY <2>3, CollectIn
  <2> HIDE DEF d
  <2>5. TreeIn(u, S)
    BY <1>1, <2>4, NewChildren
  <2> HIDE DEF u
  <2> QED
    BY <2>1, <2>5, RootIn
<1> QED
  BY <1>4, <1>5, <1>6

\* Bptree::Delete.
LEMMA DeleteIn ==
  ASSUME NEW S, NEW t, TreeIn(t, S), NEW stored, StoreIn(stored, S), NEW key,
         NEW o \in DeleteOutcomes(t, stored, key)
  PROVE  TreeIn(o.tree, S) /\ o.st \in Statuses
<1> DEFINE c == t.children
           u(i) == LoadChild(t, i, stored)
<1>1. c \in Seq(LeafType) /\ Len(c) \in Nat
  BY DEF TreeIn, LeavesIn
<1>2. PICK i \in FindChild(c, key) :
        o \in IF i > Len(c)
              THEN {Outcome(t, C_OK)}
              ELSE IF LoadStatus(c[i], stored) # C_OK
                   THEN {Outcome(t, LoadStatus(c[i], stored))}
                   ELSE DeleteFromLeaf(u(i), i, key)
  BY DEF DeleteOutcomes
<1>3. i \in 1 .. Len(c) + 1
  BY <1>1, <1>2, FindChildInRange
<1>4. CASE i > Len(c) \/ LoadStatus(c[i], stored) # C_OK
  BY <1>2, <1>4, LoadStatusType DEF Outcome, Statuses
<1>5. CASE i <= Len(c) /\ LoadStatus(c[i], stored) = C_OK
  <2>1. i \in 1 .. Len(t.children) /\ o \in DeleteFromLeaf(u(i), i, key)
    BY <1>1, <1>2, <1>3, <1>5
  <2>2. TreeIn(u(i), S) /\ Len(u(i).children) = Len(t.children)
    BY <2>1, LoadChildIn
  <2> HIDE DEF u
  <2> QED
    BY <2>1, <2>2, DeleteFromLeafIn
<1> QED
  BY <1>1, <1>3, <1>4, <1>5

-----------------------------------------------------------------------------
(* The store *)

\* After a dump a record holds the items of a leaf, or is the record it was.
LEMMA DumpRecords ==
  ASSUME NEW t, t.children \in Seq(LeafType), NEW d, NEW N \in SUBSET UnsavedNodes(t),
         NEW id \in DOMAIN DumpNodes(t, d, N).leaf
  PROVE  \/ \E i \in 1 .. Len(t.children) : DumpNodes(t, d, N).leaf[id] = t.children[i].kvs
         \/ id \in DOMAIN d.leaf /\ DumpNodes(t, d, N).leaf[id] = d.leaf[id]
<1> DEFINE c == t.children
           leaves == N \ {0}
           ids == {c[j].id : j \in leaves}
           pos == CHOOSE j \in leaves : c[j].id = id
           stored == [n \in DOMAIN d.leaf \cup ids |->
                        IF n \in ids THEN c[CHOOSE j \in leaves : c[j].id = n].kvs ELSE d.leaf[n]]
<1>1. DumpNodes(t, d, N).leaf = stored
  BY DEF DumpNodes
<1>2. id \in DOMAIN d.leaf \cup ids /\ stored[id] = IF id \in ids THEN c[pos].kvs ELSE d.leaf[id]
  BY <1>1
<1>3. leaves \subseteq 1 .. Len(c)
  BY DEF UnsavedNodes
<1> HIDE DEF stored
<1>4. CASE id \in ids
  <2>1. \E j \in leaves : c[j].id = id
    BY <1>4
  <2>2. pos \in leaves
    BY <2>1
  <2> HIDE DEF pos
  <2> QED
    BY <1>1, <1>2, <1>3, <1>4, <2>2
<1>5. CASE id \notin ids
  BY <1>1, <1>2, <1>5
<1> QED
  BY <1>4, <1>5

\* PullUnsavedTreeNode, complete or not, stores only keys of cached leaves.
LEMMA DumpIn ==
  ASSUME NEW S, NEW t, TreeIn(t, S), NEW d, DiskIn(d, S), NEW N \in SUBSET UnsavedNodes(t)
  PROVE  DiskIn(DumpNodes(t, d, N), S)
<1> DEFINE e == DumpNodes(t, d, N)
<1>1. t.children \in Seq(LeafType) /\ DiskOK(d)
  BY DEF TreeIn, LeavesIn, DiskIn, StoreIn, DiskOK
<1>2. DiskOK(e)
  BY <1>1, DumpNodesOK
<1>3. ASSUME NEW id \in DOMAIN e.leaf PROVE DOMAIN e.leaf[id] \subseteq S
  <2>1. \/ \E i \in 1 .. Len(t.children) : e.leaf[id] = t.children[i].kvs
        \/ id \in DOMAIN d.leaf /\ e.leaf[id] = d.leaf[id]
    BY <1>1, DumpRecords
  <2> HIDE DEF e
  <2> QED
    BY <2>1 DEF TreeIn, LeavesIn, LeafIn, DiskIn, StoreIn
<1> HIDE DEF e
<1>4. DiskIn(e, S)
  BY <1>2, <1>3 DEF DiskOK, DiskIn, StoreIn
<1> QED
  BY <1>4 DEF e

\* unsaved_nodes_ is emptied.
LEMMA ClearIn ==
  ASSUME NEW S, NEW t, TreeIn(t, S)
  PROVE  TreeIn(ClearUnsaved(t), S)
<1> DEFINE c == t.children
           d == [i \in 1 .. Len(c) |-> [c[i] EXCEPT !.unsaved = FALSE]]
           u == [t EXCEPT !.unsaved = FALSE]
           v == [u EXCEPT !.children = d]
<1>1. t \in TreeType /\ LeavesIn(c, S)
  BY DEF TreeIn
<1>2. ClearUnsaved(t) = v
  BY <1>1 DEF ClearUnsaved, TreeType
<1>3. TreeIn(u, S)
  BY RootTyped, FALSE \in BOOLEAN, 1 \in Int
<1>4. d = [i \in 1 .. Len(c) |-> d[i]]
  OBVIOUS
<1>5. \A i \in 1 .. Len(c) : \E b \in BOOLEAN : d[i] = [c[i] EXCEPT !.unsaved = b]
  OBVIOUS
<1> HIDE DEF u, d
<1>6. LeavesIn(d, S)
  BY <1>1, <1>4, <1>5, MarkedLeaves
<1>7. TreeIn(v, S)
  BY <1>3, <1>6, NewChildren DEF TreeIn
<1> QED
  BY <1>2, <1>7

\* A new session knows the leaves of the root record; none of them has been read.
LEMMA OpenIn ==
  ASSUME NEW S, NEW d, DiskIn(d, S)
  PROVE  TreeIn(OpenIndex(d), S)
<1> DEFINE root == d.root
           c == [i \in 1 .. Len(root) |-> LeafFromRef(root[i])]
<1>1. root \in Seq(Refs) /\ Len(root) \in Nat
  BY DEF DiskIn
<1>2. ASSUME NEW i \in 1 .. Len(root) PROVE LeafIn(LeafFromRef(root[i]), S)
  <2>1. PICK ref \in Refs : ref = root[i]
    BY <1>1
  <2>2. PICK new : new = NewLeaf(ref.id)
    OBVIOUS
  <2>3. ref.id \in Nat
    BY DEF Refs
  <2>4. LeafOK(new) /\ new.kvs = EmptyKVs
    BY <2>2, <2>3, NewLeafOK
  <2>5. PICK leaf : leaf = [new EXCEPT !.count = ref.count, !.size = ref.size,
                                       !.min = ref.min, !.max = ref.max]
    OBVIOUS
  <2>6. LeafOK(leaf) /\ leaf.kvs = EmptyKVs
    BY <2>4, <2>5 DEF LeafOK, LeafType, Refs
  <2>7. LeafFromRef(root[i]) = leaf
    BY <2>1, <2>2, <2>5, Zenon DEF LeafFromRef
  <2>8. DOMAIN EmptyKVs = {}
    BY DEF EmptyKVs
  <2> QED
    BY <2>6, <2>7, <2>8 DEF LeafIn
<1>3. \A i \in 1 .. Len(root) : LeafFromRef(root[i]) \in LeafType
  BY <1>2 DEF LeafIn, LeafOK
<1>4. c \in Seq(LeafType) /\ Len(c) = Len(root) /\ \A i \in 1 .. Len(root) : c[i] = LeafFromRef(root[i])
  BY <1>1, <1>3
<1>5. OpenIndex(d) = [children |-> c, count |-> 0, size |-> 0, min |-> NoKey, max |-> NoKey,
                      unsaved |-> FALSE, lastId |-> 0]
  BY DEF OpenIndex, OpenTree, PersistedTreeId
<1> HIDE DEF c
<1>6. LeavesIn(c, S)
  BY <1>2, <1>4 DEF LeavesIn
<1>7. 0 \in 0 .. WordMod - 1 /\ 0 \in Nat
  BY NodeAssumption
<1>8. OpenIndex(d) \in TreeType /\ OpenIndex(d).children = c
  BY <1>4, <1>5, <1>7 DEF TreeType
<1> QED
  BY <1>6, <1>8 DEF TreeIn

\* Keys in a set are in every larger set.
LEMMA LargerSet ==
  ASSUME NEW S, NEW T, S \subseteq T, NEW t, NEW d
  PROVE  (TreeIn(t, S) => TreeIn(t, T)) /\ (DiskIn(d, S) => DiskIn(d, T))
BY DEF TreeIn, LeavesIn, LeafIn, DiskIn, StoreIn

-----------------------------------------------------------------------------
(* Statements *)

\* The rows of a chunk.
LEMMA ChunkParts ==
  ASSUME NEW chunk \in Chunks
  PROVE  /\ Len(chunk) \in Nat \ {0} /\ DOMAIN chunk = 1 .. Len(chunk)
         /\ \A i \in 1 .. Len(chunk) : chunk[i].key \in Keys /\ chunk[i].val \in RowValues
         /\ ChunkKeys(chunk) \subseteq Keys
         /\ \A i \in 1 .. Len(chunk) : chunk[i].key \in ChunkKeys(chunk)
<1>1. PICK n \in 1 .. MaxChunk : chunk \in [1 .. n -> Row]
  BY DEF Chunks
<1>2. n \in Nat \ {0}
  BY <1>1, TableAssumption
<1>3. Len(chunk) = n /\ DOMAIN chunk = 1 .. n
  BY <1>1, <1>2
<1>4. \A i \in 1 .. n : chunk[i].key \in Keys /\ chunk[i].val \in RowValues
  BY <1>1 DEF Row
<1> QED
  BY <1>2, <1>3, <1>4 DEF ChunkKeys

\* A nonempty set of positions has a last one.
LEMMA LastPosition ==
  ASSUME NEW n \in Nat, NEW P \in SUBSET (1 .. n), P # {}
  PROVE  \E i \in P : \A j \in P : j <= i
<1> DEFINE T == {n - i : i \in P}
<1>0. \A i \in P : i \in 1 .. n /\ n - i \in Nat
  OBVIOUS
<1>1. T \subseteq Nat /\ T # {}
  BY <1>0, Zenon
<1>2. PICK m \in T : \A y \in T : ~ (<<y, m>> \in OpToRel(<, Nat))
  BY <1>1, NatLessThanWellFounded, WFMin
<1>3. PICK i \in P : m = n - i
  OBVIOUS
<1>4. ASSUME NEW j \in P, ~ (j <= i) PROVE FALSE
  <2>1. n - j \in T /\ n - j \in Nat /\ m \in Nat /\ n - j < m
    BY <1>3, <1>4
  <2>2. <<n - j, m>> \in OpToRel(<, Nat)
    BY <2>1 DEF OpToRel
  <2> QED
    BY <1>2, <2>1, <2>2
<1> QED
  BY <1>4

\* MPutKV stores a row of the table for every key of the chunk, even when two
\* rows of it have the same key.
LEMMA PutRowsOK ==
  ASSUME NEW chunk \in Chunks, \A k \in DOMAIN rows : rows[k] \in RowValues
  PROVE  /\ DOMAIN PutRows(chunk) = DOMAIN rows \cup ChunkKeys(chunk)
         /\ \A k \in DOMAIN PutRows(chunk) : PutRows(chunk)[k] \in RowValues
<1> DEFINE K == ChunkKeys(chunk)
           IsLast(k, i) == chunk[i].key = k /\ \A j \in DOMAIN chunk : chunk[j].key = k => j <= i
           last(k) == CHOOSE i \in DOMAIN chunk : IsLast(k, i)
           val(k) == IF k \in K THEN chunk[last(k)].val ELSE rows[k]
<1>1. PutRows(chunk) = [k \in DOMAIN rows \cup K |-> val(k)]
  BY DEF PutRows
<1>2. ASSUME NEW k \in K PROVE val(k) \in RowValues
  <2> DEFINE P == {i \in DOMAIN chunk : chunk[i].key = k}
  <2>1. Len(chunk) \in Nat /\ P \in SUBSET (1 .. Len(chunk))
    BY ChunkParts
  <2>2. P # {}
    BY <1>2 DEF ChunkKeys
  <2>3. \E i \in P : \A j \in P : j <= i
    BY <2>1, <2>2, LastPosition
  <2>4. \E i \in DOMAIN chunk : IsLast(k, i)
    BY <2>3
  <2> HIDE DEF IsLast
  <2>5. last(k) \in DOMAIN chunk
    BY <2>4
  <2> HIDE DEF last
  <2> QED
    BY <1>2, <2>5, ChunkParts
<1>3. \A k \in DOMAIN rows \cup K : val(k) \in RowValues
  BY <1>2
<1> HIDE DEF val, K
<1> QED
  BY <1>1, <1>3 DEF K

-----------------------------------------------------------------------------
(* Types *)

JobType == [op : {"none", "insert", "delete", "update"}, chunk : Chunks \cup {<<>>},
            phase : Phases, done : Nat]

\* A statement has a row left for the index as long as it is in that phase, and
\* only a DELETE goes on to remove row data.
JobOK ==
  /\ job \in JobType
  /\ job.done <= Len(job.chunk)
  /\ job.phase = "index" => job.chunk \in Chunks /\ job.done < Len(job.chunk)
  /\ job.phase = "data" => job.op = "delete"

TableInv ==
  /\ TreeIn(tree, Keys)
  /\ DiskIn(disk, Keys)
  /\ ret \in [op : {"Open", "Insert", "Delete", "GetItem", "Save"},
              key : Keys \cup {NoKey}, st : Statuses]
  /\ DOMAIN rows \subseteq Keys
  /\ \A k \in DOMAIN rows : rows[k] \in RowValues
  /\ JobOK
  /\ acked \subseteq Keys

\* A job without rows.
LEMMA IdleOK == Idle \in JobType /\ Len(Idle.chunk) = 0 /\ Idle.done = 0 /\ Idle.phase = "idle"
BY DEF Idle, JobType, Phases

\* The row a statement hands to the index next.
LEMMA NextRow ==
  ASSUME JobOK, job.phase = "index"
  PROVE  /\ job.chunk[job.done + 1].key \in Keys
         /\ job.chunk[job.done + 1].key \in ChunkKeys(job.chunk)
<1>1. job.chunk \in Chunks /\ job.done \in Nat /\ job.done < Len(job.chunk)
  BY DEF JobOK, JobType
<1>2. Len(job.chunk) \in Nat
  BY <1>1, ChunkParts
<1>3. job.done + 1 \in 1 .. Len(job.chunk)
  BY <1>1, <1>2
<1> QED
  BY <1>1, <1>3, ChunkParts

\* Whatever a step does with the index, it does with keys that are in the tree or
\* the store already and, if it is an INSERT's, with the keys of its chunk.
LEMMA IndexStep ==
  ASSUME [TableNext]_tableVars, JobOK, NEW S, TreeIn(tree, S), DiskIn(disk, S),
         job.op = "insert" => ChunkKeys(job.chunk) \subseteq S
  PROVE  TreeIn(tree', S) /\ DiskIn(disk', S)
<1>1. StoreIn(disk.leaf, S)
  BY DEF DiskIn
<1>2. CASE InsertRow
  <2>1. PICK key : key = job.chunk[job.done + 1].key
    OBVIOUS
  <2>2. key \in Keys /\ key \in S
    BY <1>2, <2>1, NextRow DEF InsertRow
  <2>3. PICK o \in InsertOutcomes(tree, disk.leaf, key, NoValue) : tree' = o.tree
    BY <1>2, <2>1 DEF InsertRow
  <2>4. NoValue \in Values
    BY TableAssumption
  <2>5. TreeIn(o.tree, S)
    BY <1>1, <2>2, <2>3, <2>4, InsertIn
  <2> QED
    BY <1>2, <2>3, <2>5 DEF InsertRow
<1>3. CASE DeleteRow
  <2>1. PICK key : key = job.chunk[job.done + 1].key
    OBVIOUS
  <2>2. PICK o \in DeleteOutcomes(tree, disk.leaf, key) : tree' = o.tree
    BY <1>3, <2>1 DEF DeleteRow
  <2>3. TreeIn(o.tree, S)
    BY <1>1, <2>2, DeleteIn
  <2> QED
    BY <1>3, <2>2, <2>3 DEF DeleteRow
<1>4. CASE Submit
  <2>1. DiskIn(DumpNodes(tree, disk, UnsavedNodes(tree)), S) /\ TreeIn(ClearUnsaved(tree), S)
    BY DumpIn, ClearIn
  <2> QED
    BY <1>4, <2>1 DEF Submit
<1>5. CASE SubmitFails
  <2>1. PICK N \in SUBSET UnsavedNodes(tree) : disk' = DumpNodes(tree, disk, N) /\ tree' = tree
    BY <1>5 DEF SubmitFails
  <2>2. DiskIn(DumpNodes(tree, disk, N), S)
    BY DumpIn
  <2> QED
    BY <2>1, <2>2
<1>6. CASE Reopen
  <2>1. TreeIn(OpenIndex(disk), S)
    BY OpenIn
  <2> QED
    BY <1>6, <2>1 DEF Reopen
<1>7. CASE Crash
  <2>1. PICK N \in SUBSET UnsavedNodes(tree) :
          disk' = DumpNodes(tree, disk, N) /\ tree' = OpenIndex(disk')
    BY <1>7 DEF Crash
  <2>2. PICK d : d = DumpNodes(tree, disk, N)
    OBVIOUS
  <2>3. DiskIn(d, S)
    BY <2>2, DumpIn
  <2>4. TreeIn(OpenIndex(d), S)
    BY <2>3, OpenIn
  <2>5. disk' = d
    BY <2>1, <2>2
  <2>6. tree' = OpenIndex(d)
    BY <2>1, <2>5
  <2> QED
    BY <2>3, <2>4, <2>5, <2>6
<1>8. CASE UNCHANGED <<tree, disk>>
  BY <1>8
<1>9. \/ InsertRow \/ DeleteRow \/ Submit \/ SubmitFails \/ Reopen \/ Crash
      \/ UNCHANGED <<tree, disk>>
  BY DEF TableNext, BeginInsert, BeginDelete, DeleteData, DeleteDataFails, Update, tableVars
<1> QED
  BY <1>2, <1>3, <1>4, <1>5, <1>6, <1>7, <1>8, <1>9

\* An outcome of the index has one of the statuses.
LEMMA OutcomeTyped ==
  ASSUME TableInv, job.phase = "index", NEW key, key = job.chunk[job.done + 1].key
  PROVE  /\ key \in Keys
         /\ \A o \in InsertOutcomes(tree, disk.leaf, key, NoValue) : o.st \in Statuses
         /\ \A o \in DeleteOutcomes(tree, disk.leaf, key) : o.st \in Statuses
<1>1. key \in Keys
  BY NextRow DEF TableInv
<1>2. NoValue \in Values
  BY TableAssumption
<1>3. StoreIn(disk.leaf, Keys) /\ TreeIn(tree, Keys)
  BY DEF TableInv, DiskIn
<1> QED
  BY <1>1, <1>2, <1>3, InsertIn, DeleteIn

\* The job after a row, and after the data phase.
LEMMA JobMoves ==
  ASSUME NEW j \in JobType, NEW p \in Phases
  PROVE  /\ [j EXCEPT !.phase = p] \in JobType
         /\ [j EXCEPT !.phase = p].phase = p /\ [j EXCEPT !.phase = p].op = j.op
         /\ [j EXCEPT !.phase = p].chunk = j.chunk /\ [j EXCEPT !.phase = p].done = j.done
         /\ [j EXCEPT !.done = @ + 1] \in JobType
         /\ [j EXCEPT !.done = @ + 1].phase = j.phase /\ [j EXCEPT !.done = @ + 1].op = j.op
         /\ [j EXCEPT !.done = @ + 1].chunk = j.chunk
         /\ [j EXCEPT !.done = @ + 1].done = j.done + 1
BY DEF JobType

\* The job after the index is done with one of its rows.
LEMMA RowDone ==
  ASSUME JobOK, job.phase = "index", NEW p \in Phases,
         p = "submit" \/ (p = "data" /\ job.op = "delete"),
         \/ job' = Idle
         \/ job.done + 1 = Len(job.chunk) /\ job' = [job EXCEPT !.phase = p, !.done = @ + 1]
         \/ job.done + 1 # Len(job.chunk) /\ job' = [job EXCEPT !.done = @ + 1]
  PROVE  JobOK'
<1>1. /\ job \in JobType /\ job.chunk \in Chunks /\ job.done \in Nat
      /\ job.done < Len(job.chunk) /\ Len(job.chunk) \in Nat
  BY ChunkParts DEF JobOK, JobType
<1>2. CASE job' = Idle
  BY <1>2, IdleOK DEF JobOK
<1>3. CASE job.done + 1 = Len(job.chunk) /\ job' = [job EXCEPT !.phase = p, !.done = @ + 1]
  <2>1. PICK i : i = [job EXCEPT !.done = @ + 1]
    OBVIOUS
  <2>2. i \in JobType /\ i.op = job.op /\ i.chunk = job.chunk /\ i.done = job.done + 1
    BY <1>1, <2>1, JobMoves
  <2>3. job' = [i EXCEPT !.phase = p]
    BY <1>1, <1>3, <2>1 DEF JobType
  <2>4. /\ job' \in JobType /\ job'.phase = p /\ job'.op = job.op /\ job'.chunk = job.chunk
        /\ job'.done = job.done + 1
    BY <2>2, <2>3, JobMoves
  <2> QED
    BY <1>1, <1>3, <2>4 DEF JobOK
<1>4. CASE job.done + 1 # Len(job.chunk) /\ job' = [job EXCEPT !.done = @ + 1]
  <2>1. /\ job' \in JobType /\ job'.phase = "index" /\ job'.op = job.op
        /\ job'.chunk = job.chunk /\ job'.done = job.done + 1
    BY <1>1, <1>4, JobMoves
  <2> QED
    BY <1>1, <1>4, <2>1 DEF JobOK
<1> QED
  BY <1>2, <1>3, <1>4

\* Every step of a statement, and every other step, keeps the job in order.
LEMMA JobStep ==
  ASSUME JobOK, [TableNext]_tableVars
  PROVE  JobOK'
<1>1. ASSUME NEW chunk \in Chunks, BeginInsert(chunk) \/ BeginDelete(chunk) PROVE JobOK'
  <2>1. PICK op \in {"insert", "delete"} :
          job' = [op |-> op, chunk |-> chunk, phase |-> "index", done |-> 0]
    BY <1>1 DEF BeginInsert, BeginDelete
  <2>2. Len(chunk) \in Nat \ {0}
    BY ChunkParts
  <2> QED
    BY <2>1, <2>2 DEF JobOK, JobType, Phases
<1>2. CASE InsertRow
  <2>1. \/ job' = Idle
        \/ /\ job.done + 1 = Len(job.chunk)
           /\ job' = [job EXCEPT !.phase = "submit", !.done = @ + 1]
        \/ job.done + 1 # Len(job.chunk) /\ job' = [job EXCEPT !.done = @ + 1]
    BY <1>2 DEF InsertRow
  <2>2. job.phase = "index" /\ "submit" \in Phases
    BY <1>2 DEF InsertRow, Phases
  <2> QED
    BY <2>1, <2>2, RowDone
<1>3. CASE DeleteRow
  <2>1. \/ job' = Idle
        \/ /\ job.done + 1 = Len(job.chunk)
           /\ job' = [job EXCEPT !.phase = "data", !.done = @ + 1]
        \/ job.done + 1 # Len(job.chunk) /\ job' = [job EXCEPT !.done = @ + 1]
    BY <1>3 DEF DeleteRow
  <2>2. job.phase = "index" /\ job.op = "delete" /\ "data" \in Phases
    BY <1>3 DEF DeleteRow, Phases
  <2> QED
    BY <2>1, <2>2, RowDone
<1>4. CASE DeleteData
  <2>1. job' = [job EXCEPT !.phase = "submit"] /\ "submit" \in Phases /\ job \in JobType
    BY <1>4 DEF DeleteData, Phases, JobOK
  <2>2. /\ job' \in JobType /\ job'.phase = "submit" /\ job'.chunk = job.chunk
        /\ job'.done = job.done
    BY <2>1, JobMoves
  <2> QED
    BY <2>2 DEF JobOK
<1>5. CASE Update
  <2>1. job' = [op |-> "update", chunk |-> <<>>, phase |-> "submit", done |-> 0]
    BY <1>5 DEF Update
  <2> QED
    BY <2>1 DEF JobOK, JobType, Phases
<1>6. CASE DeleteDataFails \/ Submit \/ SubmitFails \/ Crash
  <2>1. job' = Idle
    BY <1>6 DEF DeleteDataFails, Submit, SubmitFails, Crash
  <2> QED
    BY <2>1, IdleOK DEF JobOK
<1>7. CASE Reopen \/ UNCHANGED tableVars
  <2>1. job' = job
    BY <1>7 DEF Reopen, tableVars
  <2> QED
    BY <2>1 DEF JobOK
<1> QED
  BY <1>1, <1>2, <1>3, <1>4, <1>5, <1>6, <1>7 DEF TableNext

\* What the last call was and returned.
LEMMA RetStep ==
  ASSUME TableInv, [TableNext]_tableVars
  PROVE  ret' \in [op : {"Open", "Insert", "Delete", "GetItem", "Save"},
                   key : Keys \cup {NoKey}, st : Statuses]
<1> DEFINE R == [op : {"Open", "Insert", "Delete", "GetItem", "Save"},
                 key : Keys \cup {NoKey}, st : Statuses]
<1>1. ret \in R /\ C_OK \in Statuses
  BY DEF TableInv, Statuses
<1>2. CASE InsertRow
  <2>1. PICK key : key = job.chunk[job.done + 1].key
    OBVIOUS
  <2>2. PICK o \in InsertOutcomes(tree, disk.leaf, key, NoValue) :
          ret' = [op |-> "Insert", key |-> key, st |-> o.st]
    BY <1>2, <2>1 DEF InsertRow
  <2>3. key \in Keys /\ o.st \in Statuses
    BY <1>2, <2>1, <2>2, OutcomeTyped DEF InsertRow
  <2> QED
    BY <2>2, <2>3
<1>3. CASE DeleteRow
  <2>1. PICK key : key = job.chunk[job.done + 1].key
    OBVIOUS
  <2>2. PICK o \in DeleteOutcomes(tree, disk.leaf, key) :
          ret' = [op |-> "Delete", key |-> key, st |-> o.st]
    BY <1>3, <2>1 DEF DeleteRow
  <2>3. key \in Keys /\ o.st \in Statuses
    BY <1>3, <2>1, <2>2, OutcomeTyped DEF DeleteRow
  <2> QED
    BY <2>2, <2>3
<1>4. CASE Submit \/ SubmitFails
  <2>1. ret' = [op |-> "Save", key |-> NoKey, st |-> C_OK]
    BY <1>4 DEF Submit, SubmitFails
  <2> QED
    BY <1>1, <2>1
<1>5. CASE Reopen \/ Crash
  <2>1. ret' = [op |-> "Open", key |-> NoKey, st |-> C_OK]
    BY <1>5 DEF Reopen, Crash
  <2> QED
    BY <1>1, <2>1
<1>6. CASE UNCHANGED ret
  BY <1>1, <1>6
<1>7. \/ InsertRow \/ DeleteRow \/ Submit \/ SubmitFails \/ Reopen \/ Crash
      \/ UNCHANGED ret
  BY DEF TableNext, BeginInsert, BeginDelete, DeleteData, DeleteDataFails, Update, tableVars
<1> QED
  BY <1>2, <1>3, <1>4, <1>5, <1>6, <1>7

\* The row data.
LEMMA RowsStep ==
  ASSUME JobOK, DOMAIN rows \subseteq Keys, \A k \in DOMAIN rows : rows[k] \in RowValues,
         [TableNext]_tableVars
  PROVE  /\ DOMAIN rows' \subseteq Keys
         /\ \A k \in DOMAIN rows' : rows'[k] \in RowValues
<1>1. ASSUME NEW chunk \in Chunks, BeginInsert(chunk)
      PROVE  DOMAIN rows' \subseteq Keys /\ \A k \in DOMAIN rows' : rows'[k] \in RowValues
  <2>1. PICK r : r = PutRows(chunk)
    OBVIOUS
  <2>2. DOMAIN r \subseteq Keys /\ \A k \in DOMAIN r : r[k] \in RowValues
    BY <2>1, PutRowsOK, ChunkParts
  <2>3. rows' = r
    BY <1>1, <2>1 DEF BeginInsert
  <2> QED
    BY <2>2, <2>3
<1>2. CASE DeleteData
  <2>1. PICK K : rows' = [k \in DOMAIN rows \ K |-> rows[k]]
    BY <1>2 DEF DeleteData, DelRows
  <2> QED
    BY <2>1
<1>3. CASE UNCHANGED rows
  BY <1>3
<1>4. (\E chunk \in Chunks : BeginInsert(chunk)) \/ DeleteData \/ UNCHANGED rows
  BY DEF TableNext, BeginDelete, InsertRow, DeleteRow, DeleteDataFails, Update, Submit,
         SubmitFails, Reopen, Crash, tableVars
<1> QED
  BY <1>1, <1>2, <1>3, <1>4

\* The history of acknowledged inserts.
LEMMA AckedStep ==
  ASSUME JobOK, acked \subseteq Keys, [TableNext]_tableVars
  PROVE  acked' \subseteq Keys
<1>1. CASE Submit
  <2>1. acked' \subseteq acked \cup ChunkKeys(job.chunk)
    BY <1>1 DEF Submit
  <2>2. ChunkKeys(job.chunk) \subseteq Keys
    <3>1. job.chunk \in Chunks \/ job.chunk = <<>>
      BY DEF JobOK, JobType
    <3>2. ChunkKeys(<<>>) = {}
      BY DEF ChunkKeys
    <3> QED
      BY <3>1, <3>2, ChunkParts
  <2> QED
    BY <2>1, <2>2
<1>2. CASE acked' \subseteq acked
  BY <1>2
<1>3. Submit \/ acked' \subseteq acked
  BY DEF TableNext, BeginInsert, BeginDelete, InsertRow, DeleteRow, DeleteData,
         DeleteDataFails, Update, SubmitFails, Reopen, Crash, tableVars
<1> QED
  BY <1>1, <1>2, <1>3

\* All variables start with their types.
LEMMA TableInitOK == TableInit => TableInv
<1> SUFFICES ASSUME TableInit PROVE TableInv
  OBVIOUS
<1>1. BptreeInv
  BY InitOK DEF TableInit
<1>2. TreeIn(tree, Keys)
  <2>1. tree \in TreeType /\ ChildrenOK(tree.children, tree.lastId)
    BY <1>1 DEF BptreeInv, TreeOK
  <2>2. \A i \in 1 .. Len(tree.children) : LeafIn(tree.children[i], Keys)
    BY <2>1, LeafElim DEF ChildrenOK, LeafIn, LeafOK
  <2> QED
    BY <2>1, <2>2 DEF TreeIn, LeavesIn, ChildrenOK
<1>3. DiskIn(disk, Keys)
  <2>1. DiskOK(disk)
    BY <1>1 DEF BptreeInv
  <2> QED
    BY <2>1, KVsElim DEF DiskIn, StoreIn, DiskOK, StoreOK
<1>4. JobOK
  BY IdleOK DEF TableInit, JobOK
<1> QED
  BY <1>1, <1>2, <1>3, <1>4 DEF TableInit, TableInv, BptreeInv

\* Every step keeps them.
LEMMA TableNextOK == TableInv /\ [TableNext]_tableVars => TableInv'
<1> SUFFICES ASSUME TableInv, [TableNext]_tableVars PROVE TableInv'
  OBVIOUS
<1>1. /\ TreeIn(tree, Keys) /\ DiskIn(disk, Keys) /\ JobOK /\ acked \subseteq Keys
      /\ DOMAIN rows \subseteq Keys /\ \A k \in DOMAIN rows : rows[k] \in RowValues
  BY DEF TableInv
<1>2. ChunkKeys(job.chunk) \subseteq Keys
  <2>1. job.chunk \in Chunks \/ job.chunk = <<>>
    BY <1>1 DEF JobOK, JobType
  <2>2. ChunkKeys(<<>>) = {}
    BY DEF ChunkKeys
  <2> QED
    BY <2>1, <2>2, ChunkParts
<1>3. TreeIn(tree', Keys) /\ DiskIn(disk', Keys)
  BY <1>1, <1>2, IndexStep
<1>4. JobOK' /\ acked' \subseteq Keys
  BY <1>1, JobStep, AckedStep
<1>5. DOMAIN rows' \subseteq Keys /\ \A k \in DOMAIN rows' : rows'[k] \in RowValues
  BY <1>1, RowsStep
<1>6. ret' \in [op : {"Open", "Insert", "Delete", "GetItem", "Save"},
                key : Keys \cup {NoKey}, st : Statuses]
  BY RetStep
<1> QED
  BY <1>3, <1>4, <1>5, <1>6 DEF TableInv

LEMMA TableInvHolds == TableSpec => []TableInv
<1> QED
  BY TableInitOK, TableNextOK, PTL DEF TableSpec

\* Every variable of a table keeps its type, through any number of statements,
\* sessions, crashes and failed writes, whether node ids are used twice or not.
THEOREM TableIsTyped == TableSpec => []TableTypeOK
<1>1. ASSUME TableInv PROVE TableTypeOK
  <2>1. TypeOK
    BY <1>1 DEF TableInv, TreeIn, DiskIn, StoreIn, StoreOK, TypeOK
  <2>2. job \in JobType /\ job.done <= Len(job.chunk)
    BY <1>1 DEF TableInv, JobOK
  <2>3. Len(job.chunk) \in Nat /\ job.done \in Nat /\ job.chunk \in Chunks \cup {<<>>}
    BY <2>2, ChunkParts DEF JobType
  <2>4. job.done \in 0 .. Len(job.chunk)
    BY <2>2, <2>3
  <2> QED
    BY <1>1, <2>1, <2>2, <2>3, <2>4 DEF TableInv, TableTypeOK, JobType
<1> QED
  BY <1>1, TableInvHolds, PTL

-----------------------------------------------------------------------------
(* Items and rows *)

\* While nothing is deleted every key of the index, cached or stored, has its row:
\* an INSERT has stored its rows before it hands the first key to the index.
RowsInv ==
  /\ TableInv
  /\ job.op # "delete"
  /\ TreeIn(tree, DOMAIN rows)
  /\ DiskIn(disk, DOMAIN rows)
  /\ job.op = "insert" => ChunkKeys(job.chunk) \subseteq DOMAIN rows

\* Rows are only added, so no key can lose its row.
LEMMA RowsOnlyGrow ==
  ASSUME "delete" \notin Statements, JobOK, job.op # "delete", [TableNext]_tableVars,
         \A k \in DOMAIN rows : rows[k] \in RowValues
  PROVE  /\ job'.op # "delete"
         /\ DOMAIN rows \subseteq DOMAIN rows'
         /\ job'.op = "insert" =>
              \/ job.op = "insert" /\ job'.chunk = job.chunk
              \/ ChunkKeys(job'.chunk) \subseteq DOMAIN rows'
<1>1. job \in JobType
  BY DEF JobOK
<1>2. ASSUME NEW chunk \in Chunks, BeginInsert(chunk)
      PROVE  /\ job'.op # "delete" /\ DOMAIN rows \subseteq DOMAIN rows'
             /\ ChunkKeys(job'.chunk) \subseteq DOMAIN rows'
  <2>1. PICK r : r = PutRows(chunk)
    OBVIOUS
  <2>2. DOMAIN r = DOMAIN rows \cup ChunkKeys(chunk)
    BY <2>1, PutRowsOK
  <2>3. rows' = r /\ job'.op = "insert" /\ job'.chunk = chunk
    BY <1>2, <2>1 DEF BeginInsert
  <2> QED
    BY <2>2, <2>3
<1>3. CASE InsertRow
  <2>1. \/ job' = Idle
        \/ job' = [job EXCEPT !.phase = "submit", !.done = @ + 1]
        \/ job' = [job EXCEPT !.done = @ + 1]
    BY <1>3 DEF InsertRow
  <2>2. job.op = "insert" /\ rows' = rows
    BY <1>3 DEF InsertRow
  <2>3. job' = Idle \/ (job'.op = "insert" /\ job'.chunk = job.chunk)
    BY <1>1, <2>1, <2>2 DEF JobType
  <2> QED
    BY <2>2, <2>3 DEF Idle
<1>4. CASE Update \/ Submit \/ SubmitFails \/ Crash
  <2>1. job'.op \in {"none", "update"} /\ rows' = rows
    BY <1>4 DEF Update, Submit, SubmitFails, Crash, Idle
  <2> QED
    BY <2>1
<1>5. CASE Reopen \/ UNCHANGED tableVars
  BY <1>5 DEF Reopen, tableVars
<1>6. /\ ~ DeleteRow /\ ~ DeleteData /\ ~ DeleteDataFails
      /\ \A chunk \in Chunks : ~ BeginDelete(chunk)
  BY DEF DeleteRow, DeleteData, DeleteDataFails, BeginDelete, JobOK
<1> QED
  BY <1>2, <1>3, <1>4, <1>5, <1>6 DEF TableNext

\* A step keeps the invariant.
LEMMA RowsInvNext ==
  ASSUME "delete" \notin Statements, RowsInv, [TableNext]_tableVars
  PROVE  RowsInv'
<1>1. /\ TableInv /\ JobOK /\ job.op # "delete"
      /\ \A k \in DOMAIN rows : rows[k] \in RowValues
  BY DEF RowsInv, TableInv
<1>2. TableInv'
  BY <1>1, TableNextOK
<1>3. PICK S : S = DOMAIN rows
  OBVIOUS
<1>4. /\ TreeIn(tree, S) /\ DiskIn(disk, S)
      /\ job.op = "insert" => ChunkKeys(job.chunk) \subseteq S
  BY <1>3 DEF RowsInv
<1>5. TreeIn(tree', S) /\ DiskIn(disk', S)
  BY <1>1, <1>4, IndexStep
<1>6. /\ job'.op # "delete" /\ S \subseteq DOMAIN rows'
      /\ job'.op = "insert" =>
           \/ job.op = "insert" /\ job'.chunk = job.chunk
           \/ ChunkKeys(job'.chunk) \subseteq DOMAIN rows'
  BY <1>1, <1>3, RowsOnlyGrow
<1>7. PICK T : T = DOMAIN rows'
  OBVIOUS
<1>8. TreeIn(tree', T) /\ DiskIn(disk', T)
  BY <1>5, <1>6, <1>7, LargerSet
<1>9. job'.op = "insert" => ChunkKeys(job'.chunk) \subseteq T
  BY <1>4, <1>6, <1>7
<1> QED
  BY <1>2, <1>6, <1>7, <1>8, <1>9 DEF RowsInv

\* While nothing is deleted, a scan's MGetKV finds a row for every item a stored
\* leaf holds: after a duplicate key in the middle of a chunk, a failed write or a
\* crash, and also when two leaves have been stored under one id.  (With DELETE it
\* is not so: a crash may come between the row data and the dump of the leaf.)
THEOREM StoredItemsHaveRows ==
  ASSUME "delete" \notin Statements
  PROVE  TableSpec => []IndexedKeysHaveRows
<1>1. TableInit => RowsInv
  <2> SUFFICES ASSUME TableInit PROVE RowsInv
    OBVIOUS
  <2>1. TableInv
    BY TableInitOK
  <2>2. tree.children = <<>> /\ DOMAIN disk.leaf = {} /\ job = Idle
    BY DEF TableInit, Init, OpenTree, EmptyDisk
  <2>3. TreeIn(tree, DOMAIN rows)
    BY <2>1, <2>2 DEF TableInv, TreeIn, LeavesIn
  <2>4. DiskIn(disk, DOMAIN rows)
    BY <2>1, <2>2 DEF TableInv, DiskIn, StoreIn
  <2> QED
    BY <2>1, <2>2, <2>3, <2>4 DEF RowsInv, Idle
<1>2. RowsInv /\ [TableNext]_tableVars => RowsInv'
  BY RowsInvNext
<1>3. RowsInv => IndexedKeysHaveRows
  BY DEF RowsInv, IndexedKeysHaveRows, StoredWalk, DiskIn, StoreIn
<1> QED
  BY <1>1, <1>2, <1>3, PTL DEF TableSpec

-----------------------------------------------------------------------------
(* An index of one leaf *)

\* The index is no larger than one leaf.
AtMostOne(c) == Len(c) <= 1

Single(c) == Len(c) = 1

LEMMA SingleParts ==
  ASSUME NEW c \in Seq(LeafType)
  PROVE  /\ Single(c) => Len(c) = 1 /\ 1 \in 1 .. Len(c) /\ c[1] \in LeafType /\ c # <<>>
         /\ AtMostOne(c) => Single(c) \/ c = <<>>
         /\ AtMostOne(c) => ~ \E n \in Nat \ {0} : Len(c) = n + 1
<1>1. Len(c) \in Nat
  OBVIOUS
<1>2. ASSUME Single(c) PROVE Len(c) = 1 /\ 1 \in 1 .. Len(c) /\ c[1] \in LeafType /\ c # <<>>
  BY <1>2, EmptySeq DEF Single
<1>3. ASSUME AtMostOne(c) PROVE Single(c) \/ c = <<>>
  <2>1. PICK n \in Nat : n = Len(c)
    BY <1>1
  <2>2. n = 0 \/ n = 1
    BY <1>3, <2>1 DEF AtMostOne
  <2> QED
    BY <2>1, <2>2, EmptySeq, Zenon DEF Single
<1>4. ASSUME AtMostOne(c), NEW n \in Nat \ {0}, Len(c) = n + 1 PROVE FALSE
  BY <1>4 DEF AtMostOne
<1> QED
  BY <1>2, <1>3, <1>4

\* The keys are in the range by which FindChild looks for them.
Spans(leaf, K) == \A k \in K : leaf.min <= k /\ k <= leaf.max

\* The leaf has the keys: they are cached, or in its record, and then the leaf is
\* not dumped before a visit has read them.
Keeps(leaf, stored, K) ==
  /\ Spans(leaf, K)
  /\ \/ K \subseteq DOMAIN leaf.kvs
     \/ ~ leaf.unsaved /\ leaf.id \in DOMAIN stored /\ K \subseteq DOMAIN stored[leaf.id]

Held(t, stored, K) ==
  K # {} => t.children # <<>> /\ Keeps(t.children[1], stored, K)

\* The next complete save stores the keys.
Awaits(t, K) ==
  /\ t.unsaved /\ t.children # <<>> /\ t.children[1].unsaved
  /\ Spans(t.children[1], K) /\ K \subseteq DOMAIN t.children[1].kvs

\* A visit of the leaf reads the keys and changes nothing but the items.
LEMMA VisitFields ==
  ASSUME NEW leaf, LeafOK(leaf), NEW stored, NEW new, new = Load(leaf, stored)
  PROVE  /\ new.id = leaf.id /\ new.min = leaf.min /\ new.max = leaf.max
         /\ new.unsaved = leaf.unsaved /\ DOMAIN leaf.kvs \subseteq DOMAIN new.kvs
         /\ leaf.id \in DOMAIN stored => DOMAIN stored[leaf.id] \subseteq DOMAIN new.kvs
<1>1. CASE leaf.id \notin DOMAIN stored
  BY <1>1 DEF Load
<1>2. CASE leaf.id \in DOMAIN stored
  <2> DEFINE f == [k \in DOMAIN leaf.kvs \cup DOMAIN stored[leaf.id] |->
                     IF k \in DOMAIN leaf.kvs THEN leaf.kvs[k] ELSE stored[leaf.id][k]]
  <2>1. new = [leaf EXCEPT !.kvs = f]
    BY <1>2 DEF Load, Deserialize
  <2>2. DOMAIN leaf.kvs \subseteq DOMAIN f /\ DOMAIN stored[leaf.id] \subseteq DOMAIN f
    OBVIOUS
  <2> HIDE DEF f
  <2> QED
    BY <2>1, <2>2 DEF LeafOK, LeafType
<1> QED
  BY <1>1, <1>2

LEMMA VisitReads ==
  ASSUME NEW leaf, LeafOK(leaf), NEW stored, NEW K, Keeps(leaf, stored, K)
  PROVE  Spans(Load(leaf, stored), K) /\ K \subseteq DOMAIN Load(leaf, stored).kvs
<1>1. PICK new : new = Load(leaf, stored)
  OBVIOUS
<1>2. /\ new.min = leaf.min /\ new.max = leaf.max /\ DOMAIN leaf.kvs \subseteq DOMAIN new.kvs
      /\ leaf.id \in DOMAIN stored => DOMAIN stored[leaf.id] \subseteq DOMAIN new.kvs
  BY <1>1, VisitFields
<1>3. Spans(new, K) /\ K \subseteq DOMAIN new.kvs
  BY <1>2 DEF Keeps, Spans
<1> QED
  BY <1>1, <1>3

\* An inserted key is in the range, and the keys that were there still are: only
\* the first key of a leaf narrows its range.
LEMMA InsertSpans ==
  ASSUME NEW leaf, LeafOK(leaf), NEW key \in Keys, key \notin DOMAIN leaf.kvs,
         NEW value \in Values, NEW K, Spans(leaf, K), K \subseteq DOMAIN leaf.kvs,
         NEW new, new = UpdateStatByAddKV(PutItem(leaf, key, value), key)
  PROVE  /\ new.id = leaf.id /\ DOMAIN new.kvs = DOMAIN leaf.kvs \cup {key}
         /\ Spans(new, K \cup {key})
<1>1. PICK put : put = PutItem(leaf, key, value)
  OBVIOUS
<1>2. /\ LeafOK(put) /\ put.id = leaf.id /\ DOMAIN put.kvs = DOMAIN leaf.kvs \cup {key}
      /\ put.min = leaf.min /\ put.max = leaf.max
  <2>1. PICK w, f : put = [leaf EXCEPT !.written = w, !.kvs = f]
    BY <1>1 DEF PutItem
  <2>2. put.min = leaf.min /\ put.max = leaf.max
    BY <2>1 DEF LeafOK, LeafType
  <2> QED
    BY <1>1, <2>2, PutItemOK, PutKeys
<1>3. new = UpdateStatByAddKV(put, key)
  BY <1>1
<1>4. new.id = leaf.id /\ new.kvs = put.kvs
  BY <1>2, <1>3, AddKVOK, StatKeys
<1> DEFINE n == Cardinality(DOMAIN put.kvs)
           hi == IF n = 1 \/ key > put.max THEN key ELSE put.max
           lo == IF n = 1 \/ key < put.min THEN key ELSE put.min
<1>5. new.min = lo /\ new.max = hi
  <2>1. PICK c, z : new = [put EXCEPT !.count = c, !.size = z, !.max = hi, !.min = lo]
    BY <1>3, Zenon DEF UpdateStatByAddKV
  <2> HIDE DEF hi, lo
  <2> QED
    BY <1>2, <2>1 DEF LeafOK, LeafType
<1>6. n = 1 => K = {}
  <2>1. DOMAIN put.kvs \in SUBSET Keys
    BY <1>2, LeafElim DEF LeafOK
  <2>2. IsFiniteSet(DOMAIN put.kvs)
    BY <2>1, KeysFinite
  <2>3. ASSUME n = 1 PROVE K = {}
    <3>1. PICK x : DOMAIN put.kvs = {x}
      BY <2>2, <2>3, FS_Singleton
    <3> QED
      BY <1>2, <3>1
  <2> QED
    BY <2>3
<1>7. key \in Int /\ put.min \in Int /\ put.max \in Int /\ K \subseteq Int
  <2>1. leaf.min \in Keys \cup {NoKey} /\ leaf.max \in Keys \cup {NoKey} /\ DOMAIN leaf.kvs \subseteq Keys
    BY LeafElim DEF LeafOK
  <2> QED
    BY <1>2, <2>1, NodeAssumption DEF Keys, NoKey
<1> HIDE DEF n
<1>8. Spans(new, K \cup {key})
  BY <1>2, <1>5, <1>6, <1>7 DEF Spans
<1> QED
  BY <1>2, <1>4, <1>8

\* A delete leaves in the range the keys that stay in the leaf.
LEMMA DeleteSpans ==
  ASSUME NEW leaf, LeafOK(leaf), NEW key, NEW K, K # {}, Spans(leaf, K),
         K \subseteq DOMAIN leaf.kvs \ {key},
         NEW new, new = UpdateStatByDelKV(DropItem(leaf, key), key)
  PROVE  new.id = leaf.id /\ DOMAIN new.kvs = DOMAIN leaf.kvs \ {key} /\ Spans(new, K)
<1>1. PICK drop : drop = DropItem(leaf, key)
  OBVIOUS
<1>2. /\ LeafOK(drop) /\ drop.id = leaf.id /\ DOMAIN drop.kvs = DOMAIN leaf.kvs \ {key}
      /\ drop.min = leaf.min /\ drop.max = leaf.max
  <2>1. PICK w, f : drop = [leaf EXCEPT !.kvs = f, !.written = w]
    BY <1>1, Zenon DEF DropItem
  <2>2. drop.min = leaf.min /\ drop.max = leaf.max
    BY <2>1 DEF LeafOK, LeafType
  <2> QED
    BY <1>1, <2>2, DropItemOK
<1>3. new = UpdateStatByDelKV(drop, key)
  BY <1>1
<1>4. new.id = leaf.id /\ new.kvs = drop.kvs
  BY <1>2, <1>3, DelKVOK, StatKeys
<1> DEFINE D == DOMAIN drop.kvs
<1>5. D \in SUBSET Keys /\ D # {} /\ K \subseteq D
  BY <1>2, LeafElim DEF LeafOK
<1>6. PICK lo, hi : lo = Min(D) /\ hi = Max(D)
  OBVIOUS
<1>7. \A k \in K : lo <= k /\ k <= hi
  <2>1. (\A y \in D : lo <= y) /\ hi \in Keys /\ \A y \in D : hi >= y
    BY <1>5, <1>6, MinKey, MaxKeyOf
  <2> QED
    BY <1>5, <2>1 DEF Keys
<1>8. \/ new.min = drop.min /\ new.max = hi
      \/ new.min = lo /\ new.max = drop.max
      \/ new.min = drop.min /\ new.max = drop.max
  <2>1. PICK c : c = Word(Cardinality(D))
    OBVIOUS
  <2>2. PICK counted : counted = [drop EXCEPT !.count = c]
    OBVIOUS
  <2>3. \/ \E z : new = [counted EXCEPT !.size = z, !.max = hi]
        \/ \E z : new = [counted EXCEPT !.size = z, !.min = lo]
        \/ new = counted
    <3>1. CASE key = drop.max
      BY <1>3, <1>6, <2>1, <2>2, <3>1, Zenon DEF UpdateStatByDelKV
    <3>2. CASE key # drop.max /\ key = drop.min
      BY <1>3, <1>6, <2>1, <2>2, <3>2, Zenon DEF UpdateStatByDelKV
    <3>3. CASE key # drop.max /\ key # drop.min
      BY <1>3, <2>1, <2>2, <3>3 DEF UpdateStatByDelKV
    <3> QED
      BY <3>1, <3>2, <3>3
  <2> QED
    BY <1>2, <2>2, <2>3 DEF LeafOK, LeafType
<1>9. Spans(new, K)
  BY <1>2, <1>7, <1>8 DEF Spans
<1> QED
  BY <1>2, <1>4, <1>9

\* A leaf is replaced and collected.
LEMMA Collected ==
  ASSUME NEW c \in Seq(LeafType), NEW i \in 1 .. Len(c), NEW leaf \in LeafType,
         NEW d, d = Collect(ReplaceAt(c, i, leaf), i)
  PROVE  /\ d[i].id = leaf.id /\ d[i].kvs = leaf.kvs
         /\ d[i].min = leaf.min /\ d[i].max = leaf.max /\ d[i].unsaved
<1>1. PICK e : e = ReplaceAt(c, i, leaf)
  OBVIOUS
<1>2. Len(e) = Len(c) /\ e[i] = leaf
  <2>1. /\ Len(ReplaceAt(c, i, leaf)) = Len(c)
        /\ \A j \in 1 .. Len(c) : ReplaceAt(c, i, leaf)[j] = IF j = i THEN leaf ELSE c[j]
    BY ReplaceAtProperties
  <2> QED
    BY <1>1, <2>1
<1>3. d = [j \in 1 .. Len(e) |-> [e[j] EXCEPT !.unsaved =
                                     j = i \/ (e[j].unsaved /\ e[j].id # e[i].id)]]
  BY <1>1 DEF Collect
<1>4. d[i] = [e[i] EXCEPT !.unsaved = i = i \/ (e[i].unsaved /\ e[i].id # e[i].id)]
  BY <1>2, <1>3
<1>5. (i = i \/ (e[i].unsaved /\ e[i].id # e[i].id)) = TRUE
  OBVIOUS
<1>6. d[i] = [leaf EXCEPT !.unsaved = TRUE]
  BY <1>2, <1>4, <1>5, Zenon
<1> QED
  BY <1>6 DEF LeafType

\* The last turns of Insert and Delete leave the children alone and collect the
\* root, unless it would have to split.
LEMMA LastTurns ==
  ASSUME NEW t \in TreeType
  PROVE  /\ InsertAtRoot(t).tree.children = t.children
         /\ InsertAtRoot(t).st = C_OK => InsertAtRoot(t).tree.unsaved
         /\ DeleteAtRoot(t).tree.children = t.children
<1>1. \A delta : /\ UpdateStatByRangeChange(t, delta).children = t.children
                 /\ DOMAIN UpdateStatByRangeChange(t, delta) = DOMAIN t
  BY DEF UpdateStatByRangeChange, TreeType
<1>2. ResetStat(t).children = t.children /\ DOMAIN ResetStat(t) = DOMAIN t
  BY DEF ResetStat, TreeType
<1>3. "unsaved" \in DOMAIN t
  BY DEF TreeType
<1>4. ASSUME NEW r, DOMAIN r = DOMAIN t, r.children = t.children,
             NEW v, v = [r EXCEPT !.unsaved = TRUE]
      PROVE  v.children = t.children /\ v.unsaved
  BY <1>3, <1>4
<1>5. /\ InsertAtRoot(t).tree.children = t.children
      /\ InsertAtRoot(t).st = C_OK => InsertAtRoot(t).tree.unsaved
  <2> DEFINE r == UpdateStatByRangeChange(t, 1)
  <2>1. DOMAIN r = DOMAIN t /\ r.children = t.children
    BY <1>1
  <2> HIDE DEF r
  <2>2. PICK v : v = [r EXCEPT !.unsaved = TRUE]
    OBVIOUS
  <2>3. InsertAtRoot(t) = Outcome(r, UNDEFINED) \/ InsertAtRoot(t) = Outcome(v, C_OK)
    BY <2>2, Zenon DEF InsertAtRoot, r
  <2>4. v.children = t.children /\ v.unsaved
    BY <1>4, <2>1, <2>2
  <2> QED
    BY <2>1, <2>3, <2>4 DEF Outcome, C_OK, UNDEFINED
<1>6. DeleteAtRoot(t).tree.children = t.children
  <2> DEFINE r == IF t.children = <<>> THEN ResetStat(t) ELSE UpdateStatByRangeChange(t, -1)
  <2>1. DOMAIN r = DOMAIN t /\ r.children = t.children
    BY <1>1, <1>2
  <2>2. PICK v : v = [r EXCEPT !.unsaved = TRUE]
    OBVIOUS
  <2>3. DeleteAtRoot(t) = Outcome(v, C_OK)
    BY <2>2, Zenon DEF DeleteAtRoot
  <2> HIDE DEF r
  <2>4. v.children = t.children
    BY <1>4, <2>1, <2>2
  <2> QED
    BY <2>3, <2>4 DEF Outcome
<1> QED
  BY <1>5, <1>6

\* A split adds a leaf.
LEMMA SplitGrows ==
  ASSUME NEW t, TreeIn(t, Keys), NEW i \in 1 .. Len(t.children), NEW leaf, LeafIn(leaf, Keys),
         LeafNeedSplit(leaf), NEW o \in InsertAtLeaf(t, i, leaf)
  PROVE  Len(o.tree.children) = Len(t.children) + 1
<1> DEFINE c == t.children
           id == AllocateNodeID(t)
           right == SplitRight(leaf, id)
           left == SplitLeft(leaf)
           kept == ReplaceAt(c, i, left)
<1>1. t \in TreeType /\ LeavesIn(c, Keys) /\ t.lastId \in Nat /\ Len(c) \in Nat
  BY DEF TreeIn, TreeType, LeavesIn
<1>2. PICK at \in MaxKeyUpperBound(kept, right.max) :
        \E l : o = InsertAtRoot([t EXCEPT !.lastId = id,
                           !.children = Collect(Collect(AddChild(kept, at, right), at), l)])
  BY DEF InsertAtLeaf
<1>3. id \in Nat
  BY <1>1 DEF AllocateNodeID
<1>4. LeafOK(leaf) /\ DOMAIN leaf.kvs \subseteq Keys
  BY DEF LeafIn
<1>5. LeafIn(right, Keys) /\ LeafIn(left, Keys)
  BY <1>3, <1>4, SplitRightOK, SplitLeftOK, SplitKeys DEF LeafIn
<1> HIDE DEF id, right, left
<1>6. LeavesIn(kept, Keys) /\ Len(kept) = Len(c)
  BY <1>1, <1>5, ReplaceIn
<1> HIDE DEF kept
<1>7. at \in 1 .. Len(kept) + 1
  BY <1>2, <1>6, BoundsInRange DEF LeavesIn
<1>8. PICK l, e, d, u : /\ o = InsertAtRoot(u) /\ u = [t EXCEPT !.lastId = id, !.children = d]
                        /\ d = Collect(e, l) /\ e = Collect(AddChild(kept, at, right), at)
  BY <1>2
<1>9. LeavesIn(AddChild(kept, at, right), Keys) /\ Len(AddChild(kept, at, right)) = Len(c) + 1
  BY <1>5, <1>6, <1>7, AddChildIn
<1>10. LeavesIn(e, Keys) /\ Len(e) = Len(c) + 1
  BY <1>8, <1>9, CollectIn
<1>11. LeavesIn(d, Keys) /\ Len(d) = Len(c) + 1
  BY <1>8, <1>10, CollectIn
<1>12. u \in TreeType /\ u.children = d
  BY <1>1, <1>3, <1>8, <1>11 DEF TreeType, LeavesIn
<1>13. o.tree.children = d
  BY <1>8, <1>12, LastTurns
<1> QED
  BY <1>11, <1>13

\* Insert at a leaf that does not split.
LEMMA InsertAtWholeLeaf ==
  ASSUME NEW t, TreeIn(t, Keys), NEW i \in 1 .. Len(t.children), NEW leaf, LeafIn(leaf, Keys),
         NEW o \in InsertAtLeaf(t, i, leaf), Len(o.tree.children) # Len(t.children) + 1
  PROVE  /\ Len(o.tree.children) = Len(t.children)
         /\ o.tree.children[i].id = leaf.id /\ o.tree.children[i].kvs = leaf.kvs
         /\ o.tree.children[i].min = leaf.min /\ o.tree.children[i].max = leaf.max
         /\ o.tree.children[i].unsaved /\ (o.st = C_OK => o.tree.unsaved)
<1> DEFINE c == t.children
           d == Collect(ReplaceAt(c, i, leaf), i)
<1>1. t \in TreeType /\ LeavesIn(c, Keys) /\ c \in Seq(LeafType) /\ Len(c) \in Nat
  BY DEF TreeIn, LeavesIn
<1>2. ~ LeafNeedSplit(leaf)
  <2>1. ASSUME LeafNeedSplit(leaf) PROVE FALSE
    <3>1. Len(o.tree.children) = Len(c) + 1
      BY <2>1, SplitGrows
    <3> QED
      BY <1>1, <3>1
  <2> QED
    BY <2>1
<1>3. PICK u : u = [t EXCEPT !.children = d] /\ o = InsertAtRoot(u)
  BY <1>2 DEF InsertAtLeaf
<1>4. leaf \in LeafType
  BY DEF LeafIn, LeafOK
<1>5. /\ d[i].id = leaf.id /\ d[i].kvs = leaf.kvs
      /\ d[i].min = leaf.min /\ d[i].max = leaf.max /\ d[i].unsaved
  BY <1>1, <1>4, Collected
<1>6. LeavesIn(d, Keys) /\ Len(d) = Len(c)
  BY <1>1, ReplaceIn, CollectIn
<1> HIDE DEF d
<1>7. u \in TreeType /\ u.children = d
  BY <1>1, <1>3, <1>6 DEF TreeType, LeavesIn
<1>8. o.tree.children = d /\ (o.st = C_OK => o.tree.unsaved)
  BY <1>3, <1>7, LastTurns
<1> QED
  BY <1>5, <1>6, <1>8

LEMMA InsertIntoWholeLeaf ==
  ASSUME NEW t, TreeIn(t, Keys), NEW i \in 1 .. Len(t.children), NEW key \in Keys,
         NEW value \in Values, NEW o \in InsertIntoLeaf(t, i, key, value),
         Len(o.tree.children) # Len(t.children) + 1,
         NEW K, Spans(t.children[i], K), K \subseteq DOMAIN t.children[i].kvs
  PROVE  /\ Len(o.tree.children) = Len(t.children)
         /\ o.tree.children[i].id = t.children[i].id
         /\ Spans(o.tree.children[i], K) /\ K \subseteq DOMAIN o.tree.children[i].kvs
         /\ o.st = C_OK => /\ o.tree.unsaved /\ o.tree.children[i].unsaved
                           /\ Spans(o.tree.children[i], K \cup {key})
                           /\ key \in DOMAIN o.tree.children[i].kvs
<1>1. PICK leaf : leaf = t.children[i]
  OBVIOUS
<1>2. LeafIn(leaf, Keys) /\ LeafOK(leaf)
  BY <1>1 DEF TreeIn, LeavesIn, LeafIn
<1>3. CASE key \in DOMAIN leaf.kvs
  <2>1. o = Outcome(t, C_BPTREE_DUPLICATE_KEY)
    BY <1>1, <1>3 DEF InsertIntoLeaf
  <2> QED
    BY <1>2, <2>1 DEF Outcome, C_OK, C_BPTREE_DUPLICATE_KEY
<1>4. CASE key \notin DOMAIN leaf.kvs
  <2> DEFINE put == PutItem(leaf, key, value)
             new == UpdateStatByAddKV(put, key)
  <2>1. key \notin leaf.written
    BY <1>2, <1>4 DEF LeafOK
  <2>2. o \in InsertAtLeaf(t, i, new)
    BY <1>1, <1>4, <2>1 DEF InsertIntoLeaf
  <2>3. Spans(leaf, K) /\ K \subseteq DOMAIN leaf.kvs
    BY <1>1
  <2>4. /\ new.id = leaf.id /\ DOMAIN new.kvs = DOMAIN leaf.kvs \cup {key}
        /\ Spans(new, K \cup {key})
    BY <1>2, <1>4, <2>3, InsertSpans
  <2>5. LeafIn(new, Keys)
    <3>1. LeafOK(put) /\ DOMAIN put.kvs \subseteq Keys
      BY <1>2, PutItemOK, PutKeys DEF LeafIn
    <3> HIDE DEF put
    <3> QED
      BY <3>1, AddKVOK, StatKeys DEF LeafIn
  <2> HIDE DEF put, new
  <2>6. /\ Len(o.tree.children) = Len(t.children)
        /\ o.tree.children[i].id = new.id /\ o.tree.children[i].kvs = new.kvs
        /\ o.tree.children[i].min = new.min /\ o.tree.children[i].max = new.max
        /\ o.tree.children[i].unsaved /\ (o.st = C_OK => o.tree.unsaved)
    BY <2>2, <2>5, InsertAtWholeLeaf
  <2>7. Spans(o.tree.children[i], K \cup {key}) /\ Spans(o.tree.children[i], K)
    BY <2>4, <2>6 DEF Spans
  <2>8. K \cup {key} \subseteq DOMAIN o.tree.children[i].kvs
    BY <2>3, <2>4, <2>6
  <2> QED
    BY <1>1, <2>4, <2>6, <2>7, <2>8
<1> QED
  BY <1>3, <1>4

\* The visit of a leaf, as a tree.
LEMMA VisitTree ==
  ASSUME NEW t, TreeIn(t, Keys), NEW i \in 1 .. Len(t.children), NEW stored, StoreIn(stored, Keys),
         NEW u, u = LoadChild(t, i, stored)
  PROVE  /\ TreeIn(u, Keys) /\ Len(u.children) = Len(t.children)
         /\ u.children[i].id = t.children[i].id
         /\ \A K : Keeps(t.children[i], stored, K) =>
                     Spans(u.children[i], K) /\ K \subseteq DOMAIN u.children[i].kvs
<1>1. TreeIn(u, Keys) /\ Len(u.children) = Len(t.children)
  BY LoadChildIn
<1>2. PICK leaf : leaf = t.children[i]
  OBVIOUS
<1>3. LeafOK(leaf)
  BY <1>2 DEF TreeIn, LeavesIn, LeafIn
<1>4. u.children[i] = Load(leaf, stored)
  <2>1. t.children \in Seq(LeafType) /\ t \in TreeType
    BY DEF TreeIn, LeavesIn
  <2>2. u = [t EXCEPT !.children = [@ EXCEPT ![i] = Load(t.children[i], stored)]]
    BY <2>1 DEF LoadChild, TreeType
  <2> QED
    BY <1>2, <2>1, <2>2 DEF TreeType
<1>5. Load(leaf, stored).id = leaf.id
  BY <1>3, LoadOK DEF StoreIn
<1>6. \A K : Keeps(leaf, stored, K) =>
               Spans(Load(leaf, stored), K) /\ K \subseteq DOMAIN Load(leaf, stored).kvs
  BY <1>3, VisitReads
<1> QED
  BY <1>1, <1>2, <1>4, <1>5, <1>6

\* Bptree::Insert in an index of one leaf: it goes on having the keys it had, and
\* the next complete save stores them with the new one.
LEMMA InsertHeld ==
  ASSUME NEW t, TreeIn(t, Keys), AtMostOne(t.children), NEW stored, StoreIn(stored, Keys),
         NEW key \in Keys, NEW value \in Values,
         NEW o \in InsertOutcomes(t, stored, key, value), AtMostOne(o.tree.children),
         NEW K, Held(t, stored, K)
  PROVE  /\ Held(o.tree, stored, K)
         /\ K # {} => o.tree.children[1].id = t.children[1].id
         /\ o.st = C_OK => Awaits(o.tree, K \cup {key})
<1> DEFINE Goal(u) == /\ o.tree.children # <<>>
                      /\ o.tree.children[1].id = u.children[1].id
                      /\ Spans(o.tree.children[1], K) /\ K \subseteq DOMAIN o.tree.children[1].kvs
                      /\ o.st = C_OK => Awaits(o.tree, K \cup {key})
<1>1. /\ t \in TreeType /\ t.children \in Seq(LeafType) /\ t.lastId \in Nat
      /\ Len(t.children) \in Nat /\ 1 \in Nat
  BY DEF TreeIn, TreeType
<1>2. ASSUME NEW u, TreeIn(u, Keys), Single(u.children), o \in InsertIntoLeaf(u, 1, key, value),
             Spans(u.children[1], K), K \subseteq DOMAIN u.children[1].kvs
      PROVE  Goal(u)
  <2>1. PICK i : i = 1
    OBVIOUS
  <2>2. u.children \in Seq(LeafType)
    BY <1>2 DEF TreeIn, LeavesIn
  <2>3. Len(u.children) = 1 /\ i \in 1 .. Len(u.children)
    BY <2>1, <2>2, <1>2, SingleParts
  <2>4. TreeIn(o.tree, Keys)
    BY <1>2, <2>1, <2>3, InsertIntoLeafIn
  <2>5. o.tree.children \in Seq(LeafType)
    BY <2>4 DEF TreeIn, LeavesIn
  <2>6. Len(o.tree.children) # Len(u.children) + 1
    <3>1. 1 \in Nat \ {0}
      OBVIOUS
    <3> QED
      BY <2>3, <2>5, <3>1, SingleParts, Zenon
  <2>7. o \in InsertIntoLeaf(u, i, key, value) /\ Spans(u.children[i], K)
        /\ K \subseteq DOMAIN u.children[i].kvs
    BY <1>2, <2>1
  <2>8. /\ Len(o.tree.children) = Len(u.children)
        /\ o.tree.children[i].id = u.children[i].id
        /\ Spans(o.tree.children[i], K) /\ K \subseteq DOMAIN o.tree.children[i].kvs
        /\ o.st = C_OK => /\ o.tree.unsaved /\ o.tree.children[i].unsaved
                          /\ Spans(o.tree.children[i], K \cup {key})
                          /\ key \in DOMAIN o.tree.children[i].kvs
    BY <1>2, <2>3, <2>6, <2>7, InsertIntoWholeLeaf, ZenonT(30)
  <2>9. Single(o.tree.children) /\ o.tree.children # <<>>
    <3>1. Single(o.tree.children)
      BY <2>3, <2>8, Zenon DEF Single
    <3> QED
      BY <2>5, <3>1, SingleParts, Zenon
  <2> QED
    BY <2>1, <2>8, <2>9 DEF Awaits
<1>3. CASE t.children = <<>>
  <2> DEFINE id == AllocateNodeID(t)
             c == <<NewLeaf(id)>>
             u == [t EXCEPT !.lastId = id, !.children = c]
  <2>1. id \in Nat
    BY <1>1 DEF AllocateNodeID
  <2>2. [t EXCEPT !.children = c, !.lastId = id] = u
    BY <1>1 DEF TreeType
  <2>3. o \in InsertIntoLeaf(u, 1, key, value)
    BY <1>3, <2>2, EmptySeq DEF InsertOutcomes
  <2>4. LeafIn(NewLeaf(id), Keys)
    <3>1. LeafOK(NewLeaf(id)) /\ NewLeaf(id).kvs = EmptyKVs
      BY <2>1, NewLeafOK
    <3>2. DOMAIN EmptyKVs = {}
      BY DEF EmptyKVs
    <3> QED
      BY <3>1, <3>2 DEF LeafIn
  <2>5. LeavesIn(c, Keys) /\ Single(c) /\ c \in Seq(LeafType)
    BY <2>4 DEF LeavesIn, LeafIn, LeafOK, Single
  <2> HIDE DEF id, c
  <2>6. u \in TreeType /\ u.children = c
    BY <1>1, <2>1, <2>5 DEF TreeType
  <2>7. TreeIn(u, Keys)
    BY <2>5, <2>6 DEF TreeIn
  <2>8. K = {}
    BY <1>3 DEF Held
  <2> HIDE DEF u
  <2>9. Single(u.children) /\ Spans(u.children[1], K) /\ K \subseteq DOMAIN u.children[1].kvs
    BY <2>5, <2>6, <2>8 DEF Spans
  <2>10. Goal(u)
    BY <1>2, <2>3, <2>7, <2>9
  <2> QED
    BY <2>8, <2>10 DEF Held
<1>4. CASE t.children # <<>>
  <2> DEFINE n == Len(t.children)
             pos(at) == IF at > n THEN n ELSE at
  <2>1. Single(t.children)
    BY <1>1, <1>4, SingleParts
  <2>2. n = 1 /\ 1 \in 1 .. n
    BY <1>1, <2>1, SingleParts
  <2>3. PICK at \in MaxKeyLowerBound(t.children, key) :
          o \in InsertIntoLeaf(LoadChild(t, pos(at), stored), pos(at), key, value)
    BY <2>2 DEF InsertOutcomes
  <2>4. at \in 1 .. n + 1
    BY <1>1, BoundsInRange
  <2>5. pos(at) = 1
    BY <2>2, <2>4
  <2>6. PICK u : u = LoadChild(t, 1, stored)
    OBVIOUS
  <2>7. o \in InsertIntoLeaf(u, 1, key, value)
    BY <2>3, <2>5, <2>6, Zenon
  <2>8. /\ TreeIn(u, Keys) /\ Len(u.children) = Len(t.children)
        /\ u.children[1].id = t.children[1].id
        /\ \A L : Keeps(t.children[1], stored, L) =>
                    Spans(u.children[1], L) /\ L \subseteq DOMAIN u.children[1].kvs
    <3> DEFINE i == 1
    <3>1. i \in 1 .. n /\ u = LoadChild(t, i, stored)
      BY <2>2, <2>6
    <3> HIDE DEF i, n
    <3>2. /\ TreeIn(u, Keys) /\ Len(u.children) = Len(t.children)
          /\ u.children[i].id = t.children[i].id
          /\ \A L : Keeps(t.children[i], stored, L) =>
                      Spans(u.children[i], L) /\ L \subseteq DOMAIN u.children[i].kvs
      BY <3>1, VisitTree DEF n
    <3> QED
      BY <3>2, Zenon DEF i
  <2>9. Single(u.children)
    BY <2>2, <2>8, Zenon DEF Single
  <2>10. Spans(u.children[1], K) /\ K \subseteq DOMAIN u.children[1].kvs
    <3>1. CASE K = {}
      BY <3>1 DEF Spans
    <3>2. CASE K # {}
      BY <2>8, <3>2 DEF Held
    <3> QED
      BY <3>1, <3>2
  <2>11. Goal(u)
    BY <1>2, <2>7, <2>8, <2>9, <2>10
  <2> QED
    BY <2>8, <2>11 DEF Held, Keeps
<1> QED
  BY <1>3, <1>4

\* Delete of another key at a leaf that does not become empty.
LEMMA DeleteFromWholeLeaf ==
  ASSUME NEW t, TreeIn(t, Keys), NEW i \in 1 .. Len(t.children), NEW key,
         NEW o \in DeleteFromLeaf(t, i, key), NEW K, K # {}, key \notin K,
         Spans(t.children[i], K), K \subseteq DOMAIN t.children[i].kvs
  PROVE  /\ Len(o.tree.children) = Len(t.children)
         /\ o.tree.children[i].id = t.children[i].id
         /\ Spans(o.tree.children[i], K) /\ K \subseteq DOMAIN o.tree.children[i].kvs
<1>1. PICK leaf : leaf = t.children[i]
  OBVIOUS
<1>2. LeafIn(leaf, Keys) /\ LeafOK(leaf)
  BY <1>1 DEF TreeIn, LeavesIn, LeafIn
<1>3. /\ t \in TreeType /\ LeavesIn(t.children, Keys) /\ t.children \in Seq(LeafType)
      /\ Spans(leaf, K) /\ K \subseteq DOMAIN leaf.kvs
  BY <1>1 DEF TreeIn, LeavesIn
<1>4. CASE key \notin DOMAIN leaf.kvs
  <2>1. o = Outcome(t, C_OK)
    BY <1>1, <1>4 DEF DeleteFromLeaf
  <2> QED
    BY <2>1 DEF Outcome
<1>5. CASE key \in DOMAIN leaf.kvs
  <2> DEFINE drop == DropItem(leaf, key)
             new == UpdateStatByDelKV(drop, key)
             d == Collect(ReplaceAt(t.children, i, new), i)
  <2>1. LeafOK(drop) /\ DOMAIN drop.kvs = DOMAIN leaf.kvs \ {key} /\ DOMAIN drop.kvs # {}
    BY <1>2, <1>3, DropItemOK
  <2>2. PICK u : u = [t EXCEPT !.children = d] /\ o = DeleteAtRoot(u)
    BY <1>1, <1>5, <2>1 DEF DeleteFromLeaf
  <2>3. /\ new.id = leaf.id /\ DOMAIN new.kvs = DOMAIN leaf.kvs \ {key} /\ Spans(new, K)
    BY <1>2, <1>3, DeleteSpans
  <2> HIDE DEF drop
  <2>4. LeafIn(new, Keys) /\ new \in LeafType
    BY <1>2, <2>1, DelKVOK, StatKeys DEF LeafIn, LeafOK
  <2> HIDE DEF new
  <2>5. /\ d[i].id = new.id /\ d[i].kvs = new.kvs
        /\ d[i].min = new.min /\ d[i].max = new.max
    BY <1>3, <2>4, Collected
  <2>6. LeavesIn(d, Keys) /\ Len(d) = Len(t.children)
    BY <1>3, <2>4, ReplaceIn, CollectIn
  <2> HIDE DEF d
  <2>7. u \in TreeType /\ u.children = d
    BY <1>3, <2>2, <2>6 DEF TreeType, LeavesIn
  <2>8. o.tree.children = d
    BY <2>2, <2>7, LastTurns
  <2>9. Spans(d[i], K) /\ K \subseteq DOMAIN d[i].kvs
    BY <1>3, <2>3, <2>5 DEF Spans
  <2> QED
    BY <1>1, <2>3, <2>5, <2>6, <2>8, <2>9
<1> QED
  BY <1>4, <1>5

\* Bptree::Delete in an index of one leaf leaves it all other keys.
LEMMA DeleteHeld ==
  ASSUME NEW t, TreeIn(t, Keys), AtMostOne(t.children), NEW stored, StoreIn(stored, Keys),
         NEW key, NEW o \in DeleteOutcomes(t, stored, key),
         NEW K, key \notin K, Held(t, stored, K)
  PROVE  /\ Held(o.tree, stored, K)
         /\ K # {} => o.tree.children[1].id = t.children[1].id
<1> SUFFICES ASSUME K # {}
             PROVE  Held(o.tree, stored, K) /\ o.tree.children[1].id = t.children[1].id
  BY DEF Held
<1> DEFINE c == t.children
<1>1. c \in Seq(LeafType) /\ Single(c) /\ Keeps(c[1], stored, K)
  BY SingleParts DEF TreeIn, LeavesIn, Held
<1>2. PICK i \in FindChild(c, key) :
        o \in IF i > Len(c)
              THEN {Outcome(t, C_OK)}
              ELSE IF LoadStatus(c[i], stored) # C_OK
                   THEN {Outcome(t, LoadStatus(c[i], stored))}
                   ELSE DeleteFromLeaf(LoadChild(t, i, stored), i, key)
  BY DEF DeleteOutcomes
<1>3. i \in 1 .. Len(c) + 1
  BY <1>1, <1>2, FindChildInRange
<1>4. CASE i > Len(c) \/ LoadStatus(c[i], stored) # C_OK
  BY <1>2, <1>4 DEF Outcome
<1>5. CASE i <= Len(c) /\ LoadStatus(c[i], stored) = C_OK
  <2>1. i \in 1 .. Len(c) /\ o \in DeleteFromLeaf(LoadChild(t, i, stored), i, key)
    BY <1>1, <1>2, <1>3, <1>5
  <2>2. i = 1
    <3>1. Len(c) = 1
      BY <1>1, SingleParts
    <3> QED
      BY <2>1, <3>1
  <2>3. PICK u : u = LoadChild(t, i, stored)
    OBVIOUS
  <2>4. /\ TreeIn(u, Keys) /\ Len(u.children) = Len(c) /\ u.children[i].id = c[i].id
        /\ \A L : Keeps(c[i], stored, L) =>
                    Spans(u.children[i], L) /\ L \subseteq DOMAIN u.children[i].kvs
    BY <2>1, <2>3, VisitTree
  <2>5. Keeps(c[i], stored, K)
    BY <1>1, <2>2
  <2>6. o \in DeleteFromLeaf(u, i, key) /\ i \in 1 .. Len(u.children)
    BY <2>1, <2>3, <2>4
  <2>7. Spans(u.children[i], K) /\ K \subseteq DOMAIN u.children[i].kvs
    BY <2>4, <2>5
  <2>8. /\ Len(o.tree.children) = Len(u.children)
        /\ o.tree.children[i].id = u.children[i].id
        /\ Spans(o.tree.children[i], K) /\ K \subseteq DOMAIN o.tree.children[i].kvs
    BY <2>4, <2>6, <2>7, DeleteFromWholeLeaf
  <2>9. Keeps(o.tree.children[i], stored, K)
    BY <2>8 DEF Keeps
  <2>10. o.tree.children # <<>>
    <3>1. o.tree.children \in Seq(LeafType)
      BY <2>4, <2>6, DeleteFromLeafIn DEF TreeIn, LeavesIn
    <3>2. Single(o.tree.children)
      BY <1>1, <2>4, <2>8, Zenon DEF Single
    <3> QED
      BY <3>1, <3>2, SingleParts, Zenon
  <2> QED
    BY <2>2, <2>4, <2>8, <2>9, <2>10 DEF Held
<1> QED
  BY <1>1, <1>3, <1>4, <1>5

\* What a new session knows of a leaf before it visits it.
LEMMA OpenParts ==
  ASSUME NEW d, d.root \in Seq(Refs), NEW c, c = OpenIndex(d).children
  PROVE  /\ c \in Seq(LeafType) /\ Len(c) = Len(d.root)
         /\ \A i \in 1 .. Len(d.root) :
              /\ c[i].id = d.root[i].id /\ c[i].min = d.root[i].min /\ c[i].max = d.root[i].max
              /\ DOMAIN c[i].kvs = {} /\ ~ c[i].unsaved
<1> DEFINE root == d.root
           e == [i \in 1 .. Len(root) |-> LeafFromRef(root[i])]
<1>1. Len(root) \in Nat
  OBVIOUS
<1>2. ASSUME NEW i \in 1 .. Len(root)
      PROVE  /\ LeafFromRef(root[i]) \in LeafType
             /\ LeafFromRef(root[i]).id = root[i].id /\ LeafFromRef(root[i]).min = root[i].min
             /\ LeafFromRef(root[i]).max = root[i].max
             /\ DOMAIN LeafFromRef(root[i]).kvs = {} /\ ~ LeafFromRef(root[i]).unsaved
  <2>1. PICK ref \in Refs : ref = root[i]
    OBVIOUS
  <2>2. PICK new : new = NewLeaf(ref.id)
    OBVIOUS
  <2>3. ref.id \in Nat
    BY DEF Refs
  <2>4. new \in LeafType /\ new.id = ref.id /\ new.kvs = EmptyKVs /\ new.unsaved = FALSE
    BY <2>2, <2>3, NewLeafOK DEF LeafOK, NewLeaf
  <2>5. PICK leaf : leaf = [new EXCEPT !.count = ref.count, !.size = ref.size,
                                       !.min = ref.min, !.max = ref.max]
    OBVIOUS
  <2>6. /\ leaf \in LeafType /\ leaf.id = ref.id /\ leaf.min = ref.min /\ leaf.max = ref.max
        /\ leaf.kvs = EmptyKVs /\ leaf.unsaved = FALSE
    BY <2>4, <2>5 DEF LeafType, Refs
  <2>7. LeafFromRef(root[i]) = leaf
    BY <2>1, <2>2, <2>5, Zenon DEF LeafFromRef
  <2>8. DOMAIN EmptyKVs = {}
    BY DEF EmptyKVs
  <2> QED
    BY <2>1, <2>6, <2>7, <2>8
<1>3. OpenIndex(d).children = e
  BY DEF OpenIndex, OpenTree
<1>4. e \in Seq(LeafType) /\ Len(e) = Len(root) /\ \A i \in 1 .. Len(root) : e[i] = LeafFromRef(root[i])
  BY <1>1, <1>2
<1> HIDE DEF e
<1> QED
  BY <1>2, <1>3, <1>4

\* A new session finds the keys it can read from the store.
LEMMA HeldFound ==
  ASSUME NEW d, DiskIn(d, Keys), AtMostOne(OpenIndex(d).children),
         NEW K, K \subseteq Keys, Held(OpenIndex(d), d.leaf, K), NEW key \in K,
         NEW o \in GetItemOutcomes(OpenIndex(d), d.leaf, key)
  PROVE  o.st = C_OK
<1>1. PICK t : t = OpenIndex(d)
  OBVIOUS
<1>2. PICK c : c = t.children
  OBVIOUS
<1>3. TreeIn(t, Keys) /\ c \in Seq(LeafType) /\ StoreIn(d.leaf, Keys)
  BY <1>1, <1>2, OpenIn DEF TreeIn, LeavesIn, DiskIn
<1>4. Single(c) /\ Keeps(c[1], d.leaf, K)
  BY <1>1, <1>2, <1>3, SingleParts DEF Held
<1> DEFINE i == 1
<1>5. Len(c) = i /\ i \in 1 .. Len(c) /\ c[i] \in LeafType
  BY <1>3, <1>4, SingleParts, Zenon
<1>6. c[i].min \in Int /\ c[i].max \in Int /\ key \in Int
  <2>1. c[i].min \in Keys \cup {NoKey} /\ c[i].max \in Keys \cup {NoKey}
    BY <1>5, LeafElim
  <2> QED
    BY <2>1, NodeAssumption DEF Keys, NoKey
<1>7. /\ c[i].min <= key /\ key <= c[i].max
      /\ c[i].id \in DOMAIN d.leaf
  <2>1. Len(c) = Len(d.root) /\ \A j \in 1 .. Len(d.root) : DOMAIN c[j].kvs = {}
    BY <1>1, <1>2, OpenParts DEF DiskIn
  <2>2. DOMAIN c[i].kvs = {}
    BY <1>5, <2>1
  <2>3. Keeps(c[i], d.leaf, K)
    BY <1>4
  <2> QED
    BY <2>2, <2>3 DEF Keeps, Spans
<1>8. FindChild(c, key) = {i}
  <2>1. SortedByMax(c)
    <3>1. \A a, b \in 1 .. Len(c) : ~ (a < b)
      BY <1>5
    <3> QED
      BY <3>1 DEF SortedByMax
  <2>2. \A a \in MaxKeyLowerBound(c, key) : a = i
    <3>1. SUFFICES ASSUME NEW a \in 1 .. i + 1, \A j \in 1 .. a - 1 : c[j].max < key
                   PROVE  a = i
      BY <1>5, <2>1 DEF MaxKeyLowerBound
    <3>2. CASE a = i + 1
      <4>1. i \in 1 .. a - 1
        BY <3>2
      <4>2. c[i].max < key
        BY <3>1, <4>1
      <4> QED
        BY <1>6, <1>7, <4>2
    <3> QED
      BY <3>2
  <2>3. i \in MaxKeyLowerBound(c, key)
    <3>1. i \in 1 .. Len(c) + 1 /\ (\A j \in 1 .. i - 1 : c[j].max < key) /\ c[i].max >= key
      BY <1>5, <1>6, <1>7
    <3> QED
      BY <2>1, <3>1 DEF MaxKeyLowerBound
  <2>4. i <= Len(c) /\ key >= c[i].min
    BY <1>5, <1>6, <1>7
  <2> HIDE DEF i
  <2> QED
    BY <2>2, <2>3, <2>4 DEF FindChild
<1>9. LoadStatus(c[i], d.leaf) = C_OK
  BY <1>7 DEF LoadStatus
<1>10. ~ (i > Len(c))
  BY <1>5
<1>11. Keeps(c[i], d.leaf, K)
  BY <1>4
<1> HIDE DEF i
<1>12. PICK u : u = LoadChild(t, i, d.leaf)
  OBVIOUS
<1>13. key \in DOMAIN u.children[i].kvs
  <2>1. \A L : Keeps(t.children[i], d.leaf, L) => L \subseteq DOMAIN u.children[i].kvs
    BY <1>2, <1>3, <1>5, <1>12, VisitTree
  <2> QED
    BY <1>2, <1>11, <2>1
<1>14. o \in GetItemOutcomes(t, d.leaf, key)
  BY <1>1
<1>15. o = Outcome(u, C_OK)
  BY <1>2, <1>8, <1>9, <1>10, <1>12, <1>13, <1>14 DEF GetItemOutcomes
<1> QED
  BY <1>15 DEF Outcome

\* What dumping any of the unsaved nodes of a tree of one leaf changes in the store.
LEMMA DumpParts ==
  ASSUME NEW t, TreeIn(t, Keys), Single(t.children), NEW d, DiskIn(d, Keys),
         NEW N \in SUBSET UnsavedNodes(t), NEW e, e = DumpNodes(t, d, N),
         NEW leaf, leaf = t.children[1]
  PROVE  /\ 1 \in N => /\ leaf.unsaved /\ leaf.id \in DOMAIN e.leaf
                       /\ e.leaf[leaf.id] = leaf.kvs
         /\ 1 \notin N => DOMAIN e.leaf = DOMAIN d.leaf
                          /\ \A id \in DOMAIN d.leaf : e.leaf[id] = d.leaf[id]
         /\ 0 \in N => /\ Single(e.root)
                       /\ e.root[1].id = leaf.id /\ e.root[1].min = leaf.min
                       /\ e.root[1].max = leaf.max
         /\ 0 \notin N => e.root = d.root
<1> DEFINE c == t.children
           leaves == N \ {0}
           ids == {c[i].id : i \in leaves}
           stored == [id \in DOMAIN d.leaf \cup ids |->
                        IF id \in ids THEN c[CHOOSE i \in leaves : c[i].id = id].kvs ELSE d.leaf[id]]
<1>1. c \in Seq(LeafType)
  BY DEF TreeIn, LeavesIn
<1>2. Len(c) = 1
  BY <1>1, SingleParts
<1>3. (\A i \in N : i = 0 \/ i = 1) /\ (1 \in N => leaf.unsaved)
  <2>1. N \subseteq {i \in 1 .. Len(c) : c[i].unsaved} \cup {0}
    BY DEF UnsavedNodes
  <2>2. 1 .. Len(c) = {1}
    BY <1>2
  <2> QED
    BY <2>1, <2>2
<1>4. e.leaf = stored /\ e.root = IF 0 \in N THEN RefsOf(c) ELSE d.root
  BY DEF DumpNodes
<1>5. ASSUME 1 \in N
      PROVE  /\ leaf.unsaved /\ leaf.id \in DOMAIN e.leaf /\ e.leaf[leaf.id] = leaf.kvs
  <2>1. 1 \in leaves /\ \A i \in leaves : i = 1
    BY <1>3, <1>5
  <2>2. ids = {leaf.id}
    BY <2>1
  <2>3. DOMAIN stored = DOMAIN d.leaf \cup {leaf.id}
    BY <2>2
  <2>4. (CHOOSE i \in leaves : c[i].id = leaf.id) = 1
    BY <2>1
  <2>5. stored[leaf.id] = leaf.kvs
    BY <2>2, <2>4
  <2> HIDE DEF stored
  <2> QED
    BY <1>3, <1>4, <1>5, <2>3, <2>5
<1>6. ASSUME 1 \notin N
      PROVE  DOMAIN e.leaf = DOMAIN d.leaf /\ \A id \in DOMAIN d.leaf : e.leaf[id] = d.leaf[id]
  <2>1. \A i : i \notin leaves
    BY <1>3, <1>6
  <2>2. ids = {}
    BY <2>1
  <2>3. DOMAIN stored = DOMAIN d.leaf /\ \A id \in DOMAIN d.leaf : stored[id] = d.leaf[id]
    BY <2>2
  <2> HIDE DEF stored
  <2> QED
    BY <1>4, <2>3
<1>7. /\ 0 \in N => /\ Single(e.root)
                    /\ e.root[1].id = leaf.id /\ e.root[1].min = leaf.min
                    /\ e.root[1].max = leaf.max
      /\ 0 \notin N => e.root = d.root
  <2>1. /\ Len(RefsOf(c)) = 1
        /\ RefsOf(c)[1].id = c[1].id /\ RefsOf(c)[1].min = c[1].min /\ RefsOf(c)[1].max = c[1].max
    BY <1>2 DEF RefsOf
  <2> QED
    BY <1>4, <2>1 DEF Single
<1> QED
  BY <1>5, <1>6, <1>7

\* What a new session opened from the store finds, and in which leaf.
Opens(d, id, K) ==
  /\ AtMostOne(OpenIndex(d).children)
  /\ Held(OpenIndex(d), d.leaf, K)
  /\ K # {} => OpenIndex(d).children[1].id = id

\* The same, as a fact about records.
LEMMA OpensRecords ==
  ASSUME NEW d, DiskIn(d, Keys), NEW id, NEW K, K # {}
  PROVE  Opens(d, id, K) <=>
           /\ Single(d.root) /\ d.root[1].id = id
           /\ Spans(d.root[1], K) /\ id \in DOMAIN d.leaf /\ K \subseteq DOMAIN d.leaf[id]
<1>1. PICK c : c = OpenIndex(d).children
  OBVIOUS
<1>2. /\ c \in Seq(LeafType) /\ Len(c) = Len(d.root)
      /\ \A i \in 1 .. Len(d.root) :
           /\ c[i].id = d.root[i].id /\ c[i].min = d.root[i].min /\ c[i].max = d.root[i].max
           /\ DOMAIN c[i].kvs = {} /\ ~ c[i].unsaved
  <2>1. d.root \in Seq(Refs)
    BY DEF DiskIn
  <2>2. c \in Seq(LeafType) /\ Len(c) = Len(d.root)
    BY <1>1, <2>1, OpenParts, ZenonT(30)
  <2>3. ASSUME NEW i \in 1 .. Len(d.root)
        PROVE  /\ c[i].id = d.root[i].id /\ c[i].min = d.root[i].min /\ c[i].max = d.root[i].max
               /\ DOMAIN c[i].kvs = {} /\ ~ c[i].unsaved
    BY <1>1, <2>1, OpenParts, ZenonT(30)
  <2> QED
    BY <2>2, <2>3
<1>3. Single(c) <=> Single(d.root)
  BY <1>2, Zenon DEF Single
<1>4. Opens(d, id, K) <=> Single(c) /\ Keeps(c[1], d.leaf, K) /\ c[1].id = id
  <2>1. Single(c) => AtMostOne(c) /\ c # <<>>
    <3>1. Single(c) => c # <<>>
      BY <1>2, SingleParts
    <3>2. Single(c) => AtMostOne(c)
      BY DEF Single, AtMostOne
    <3> QED
      BY <3>1, <3>2
  <2>2. AtMostOne(c) /\ c # <<>> => Single(c)
    BY <1>2, SingleParts
  <2> QED
    BY <1>1, <2>1, <2>2, Zenon DEF Opens, Held
<1>5. ASSUME Single(c)
      PROVE  /\ c[1].id = d.root[1].id /\ c[1].min = d.root[1].min /\ c[1].max = d.root[1].max
             /\ DOMAIN c[1].kvs = {} /\ ~ c[1].unsaved
  <2>1. 1 \in 1 .. Len(d.root)
    BY <1>2, <1>5, SingleParts
  <2> QED
    BY <1>2, <2>1, Zenon
<1>6. ASSUME Single(c)
      PROVE  Keeps(c[1], d.leaf, K) <=>
               /\ Spans(d.root[1], K) /\ d.root[1].id \in DOMAIN d.leaf
               /\ K \subseteq DOMAIN d.leaf[d.root[1].id]
  BY <1>5, <1>6 DEF Keeps, Spans
<1> QED
  BY <1>3, <1>4, <1>5, <1>6

\* However many nodes are dumped, the keys that a leaf has and the store has stay
\* in both.
LEMMA DumpHeld ==
  ASSUME NEW t, TreeIn(t, Keys), AtMostOne(t.children), NEW d, DiskIn(d, Keys),
         NEW N \in SUBSET UnsavedNodes(t), NEW e, e = DumpNodes(t, d, N),
         NEW K, Held(t, d.leaf, K), Opens(d, t.children[1].id, K)
  PROVE  Held(t, e.leaf, K) /\ Opens(e, t.children[1].id, K)
<1>1. t.children \in Seq(LeafType) /\ DiskIn(e, Keys)
  BY DumpIn DEF TreeIn, LeavesIn
<1>2. CASE K = {}
  <2>1. AtMostOne(OpenIndex(e).children)
    <3>1. /\ Len(OpenIndex(e).children) = Len(e.root)
          /\ Len(OpenIndex(d).children) = Len(d.root)
      BY <1>1, OpenParts DEF DiskIn
    <3>2. e.root = RefsOf(t.children) \/ e.root = d.root
      BY DEF DumpNodes
    <3>3. Len(RefsOf(t.children)) = Len(t.children)
      BY <1>1 DEF RefsOf
    <3> QED
      BY <3>1, <3>2, <3>3, Zenon DEF AtMostOne, Opens
  <2> QED
    BY <1>2, <2>1 DEF Held, Opens
<1>3. CASE K # {}
  <2>1. PICK leaf : leaf = t.children[1]
    OBVIOUS
  <2>2. Single(t.children) /\ t.children # <<>> /\ Keeps(leaf, d.leaf, K)
    BY <1>1, <1>3, <2>1, SingleParts DEF Held
  <2>3. /\ Single(d.root) /\ d.root[1].id = leaf.id /\ Spans(d.root[1], K)
        /\ leaf.id \in DOMAIN d.leaf /\ K \subseteq DOMAIN d.leaf[leaf.id]
    BY <1>3, <2>1, OpensRecords
  <2>4. /\ 1 \in N => /\ leaf.unsaved /\ leaf.id \in DOMAIN e.leaf
                      /\ e.leaf[leaf.id] = leaf.kvs
        /\ 1 \notin N => DOMAIN e.leaf = DOMAIN d.leaf
                         /\ \A id \in DOMAIN d.leaf : e.leaf[id] = d.leaf[id]
        /\ 0 \in N => /\ Single(e.root)
                      /\ e.root[1].id = leaf.id /\ e.root[1].min = leaf.min
                      /\ e.root[1].max = leaf.max
        /\ 0 \notin N => e.root = d.root
    BY <2>1, <2>2, DumpParts
  <2>5. leaf.id \in DOMAIN e.leaf /\ K \subseteq DOMAIN e.leaf[leaf.id]
    BY <2>2, <2>3, <2>4 DEF Keeps
  <2>6. Single(e.root) /\ e.root[1].id = leaf.id /\ Spans(e.root[1], K)
    BY <2>2, <2>3, <2>4 DEF Keeps, Spans
  <2>7. Keeps(leaf, e.leaf, K)
    BY <2>2, <2>5 DEF Keeps
  <2> QED
    BY <1>1, <1>3, <2>1, <2>2, <2>5, <2>6, <2>7, OpensRecords DEF Held
<1> QED
  BY <1>2, <1>3

\* A complete save stores the keys that await it.
LEMMA SaveStores ==
  ASSUME NEW t, TreeIn(t, Keys), AtMostOne(t.children), NEW d, DiskIn(d, Keys),
         NEW e, e = DumpNodes(t, d, UnsavedNodes(t)), NEW K, Awaits(t, K)
  PROVE  Held(t, e.leaf, K) /\ Opens(e, t.children[1].id, K)
<1>1. t.children \in Seq(LeafType) /\ DiskIn(e, Keys)
  BY DumpIn DEF TreeIn, LeavesIn
<1>2. PICK leaf : leaf = t.children[1]
  OBVIOUS
<1>3. /\ Single(t.children) /\ t.children # <<>> /\ leaf.unsaved /\ t.unsaved
      /\ Spans(leaf, K) /\ K \subseteq DOMAIN leaf.kvs
  BY <1>1, <1>2, SingleParts DEF Awaits
<1>4. PICK N \in SUBSET UnsavedNodes(t) : N = UnsavedNodes(t)
  OBVIOUS
<1>5. 0 \in N /\ 1 \in N
  <2>1. 1 \in 1 .. Len(t.children)
    BY <1>1, <1>3, SingleParts
  <2> QED
    BY <1>2, <1>3, <1>4, <2>1 DEF UnsavedNodes
<1>6. /\ leaf.id \in DOMAIN e.leaf /\ e.leaf[leaf.id] = leaf.kvs
      /\ Single(e.root) /\ e.root[1].id = leaf.id
      /\ e.root[1].min = leaf.min /\ e.root[1].max = leaf.max
  BY <1>2, <1>3, <1>4, <1>5, DumpParts
<1>7. Held(t, e.leaf, K)
  BY <1>2, <1>3 DEF Held, Keeps
<1>8. CASE K # {}
  <2>1. Spans(e.root[1], K) /\ K \subseteq DOMAIN e.leaf[leaf.id]
    BY <1>3, <1>6 DEF Spans
  <2> QED
    BY <1>1, <1>2, <1>6, <1>7, <1>8, <2>1, OpensRecords
<1>9. CASE K = {}
  <2>1. Len(OpenIndex(e).children) = Len(e.root)
    BY <1>1, OpenParts DEF DiskIn
  <2>2. AtMostOne(OpenIndex(e).children)
    BY <1>6, <2>1 DEF AtMostOne, Single
  <2> QED
    BY <1>7, <1>9, <2>2 DEF Opens, Held
<1> QED
  BY <1>8, <1>9

\* Fewer keys, or another leaf when there is none to be found.
LEMMA FewerKeys ==
  ASSUME NEW t, NEW d, NEW id, NEW K, NEW L, L \subseteq K
  PROVE  /\ Held(t, d.leaf, K) => Held(t, d.leaf, L)
         /\ Awaits(t, K) => Awaits(t, L)
         /\ Opens(d, id, K) => Opens(d, id, L)
         /\ \A j : Opens(d, id, K) /\ (K # {} => j = id) => Opens(d, j, K)
<1>1. \A u : Held(u, d.leaf, K) => Held(u, d.leaf, L)
  BY DEF Held, Keeps, Spans
<1> QED
  BY <1>1 DEF Opens, Awaits, Spans

\* The keys that a leaf has and those that await the next save.
LEMMA JoinedKeys ==
  ASSUME NEW t, NEW stored, NEW K, Held(t, stored, K), NEW L, Awaits(t, L)
  PROVE  Awaits(t, K \cup L)
<1>1. PICK leaf : leaf = t.children[1]
  OBVIOUS
<1>2. K # {} => Spans(leaf, K) /\ K \subseteq DOMAIN leaf.kvs
  BY <1>1 DEF Held, Keeps, Awaits
<1>3. Spans(leaf, K) /\ K \subseteq DOMAIN leaf.kvs
  BY <1>2 DEF Spans
<1>4. Spans(leaf, K \cup L)
  BY <1>1, <1>3 DEF Awaits, Spans
<1> QED
  BY <1>1, <1>3, <1>4 DEF Awaits

\* unsaved_nodes_ is emptied after a save.
LEMMA ClearHeld ==
  ASSUME NEW t, TreeIn(t, Keys), NEW stored, NEW K, Held(t, stored, K)
  PROVE  /\ Held(ClearUnsaved(t), stored, K)
         /\ K # {} => ClearUnsaved(t).children[1].id = t.children[1].id
<1> SUFFICES ASSUME K # {}
             PROVE  /\ Held(ClearUnsaved(t), stored, K)
                    /\ ClearUnsaved(t).children[1].id = t.children[1].id
  BY DEF Held
<1> DEFINE c == t.children
           d == [i \in 1 .. Len(c) |-> [c[i] EXCEPT !.unsaved = FALSE]]
<1>1. t \in TreeType /\ c \in Seq(LeafType) /\ c # <<>> /\ Keeps(c[1], stored, K)
  BY DEF TreeIn, LeavesIn, Held
<1>2. ClearUnsaved(t).children = d
  BY <1>1 DEF ClearUnsaved, TreeType
<1>3. 1 \in 1 .. Len(c)
  BY <1>1, EmptySeq
<1>4. PICK leaf : leaf = c[1]
  OBVIOUS
<1>5. leaf \in LeafType
  BY <1>1, <1>3, <1>4
<1>6. d[1] = [leaf EXCEPT !.unsaved = FALSE] /\ d # <<>>
  BY <1>3, <1>4
<1> HIDE DEF d
<1>7. /\ d[1].id = leaf.id /\ d[1].kvs = leaf.kvs /\ d[1].min = leaf.min
      /\ d[1].max = leaf.max /\ d[1].unsaved = FALSE
  BY <1>5, <1>6 DEF LeafType
<1>8. Keeps(d[1], stored, K)
  BY <1>1, <1>4, <1>7 DEF Keeps, Spans
<1> QED
  BY <1>2, <1>4, <1>6, <1>7, <1>8 DEF Held

-----------------------------------------------------------------------------
(* Durable inserts *)

\* The index has not outgrown one leaf.
OneLeaf == AtMostOne(tree.children)

\* The keys of its chunk that an INSERT has handed to the index.
Started(j) == {j.chunk[i].key : i \in 1 .. j.done}

\* The leaf of the session and the store both have every key of an INSERT that ran
\* through Submit; of the INSERT under way, the keys it has handed to the index
\* await the save.
DurableInv ==
  /\ TableInv
  /\ AtMostOne(tree.children)
  /\ Held(tree, disk.leaf, acked)
  /\ Opens(disk, tree.children[1].id, acked)
  /\ job.op = "delete" => acked \cap ChunkKeys(job.chunk) = {}
  /\ job.op = "insert" /\ job.done > 0 => Awaits(tree, Started(job))
  /\ job.op = "insert" /\ job.phase = "submit" => job.chunk \in Chunks /\ job.done = Len(job.chunk)

\* What an INSERT's row leaves behind.
LEMMA DurableInsertRow ==
  ASSUME DurableInv, TableInv', AtMostOne(tree'.children), InsertRow
  PROVE  DurableInv'
<1>1. /\ TreeIn(tree, Keys) /\ DiskIn(disk, Keys) /\ StoreIn(disk.leaf, Keys) /\ JobOK
      /\ job \in JobType /\ job.op = "insert" /\ job.phase = "index"
      /\ disk' = disk /\ acked' = acked
  BY DEF DurableInv, TableInv, DiskIn, JobOK, InsertRow
<1>2. /\ job.chunk \in Chunks /\ job.done \in Nat /\ job.done < Len(job.chunk)
      /\ Len(job.chunk) \in Nat
  BY <1>1, ChunkParts DEF JobOK, JobType
<1>3. PICK key : key = job.chunk[job.done + 1].key
  OBVIOUS
<1>4. key \in Keys /\ NoValue \in Values
  BY <1>1, <1>3, NextRow, TableAssumption
<1>5. PICK o \in InsertOutcomes(tree, disk.leaf, key, NoValue) :
        /\ tree' = o.tree
        /\ \/ job' = Idle
           \/ /\ o.st = C_OK /\ job.done + 1 = Len(job.chunk)
              /\ job' = [job EXCEPT !.phase = "submit", !.done = @ + 1]
           \/ /\ o.st = C_OK /\ job.done + 1 # Len(job.chunk)
              /\ job' = [job EXCEPT !.done = @ + 1]
  BY <1>3 DEF InsertRow
<1> DEFINE K == acked \cup Started(job)
<1>6. Held(tree, disk.leaf, K)
  <2>1. CASE job.done > 0
    <3>1. Awaits(tree, Started(job)) /\ Held(tree, disk.leaf, acked)
      BY <1>1, <2>1 DEF DurableInv
    <3>2. Awaits(tree, K)
      BY <3>1, JoinedKeys
    <3> QED
      BY <3>2 DEF Awaits, Held, Keeps
  <2>2. CASE job.done = 0
    <3>1. Started(job) = {}
      BY <2>2 DEF Started
    <3> QED
      BY <3>1 DEF DurableInv
  <2> QED
    BY <1>2, <2>1, <2>2
<1>7. AtMostOne(tree.children) /\ AtMostOne(o.tree.children)
  BY <1>5 DEF DurableInv
<1> HIDE DEF K
<1>8. /\ Held(tree', disk.leaf, K)
      /\ K # {} => tree'.children[1].id = tree.children[1].id
      /\ o.st = C_OK => Awaits(tree', K \cup {key})
  BY <1>1, <1>4, <1>5, <1>6, <1>7, InsertHeld, ZenonT(40)
<1>9. Held(tree', disk'.leaf, acked') /\ Opens(disk', tree'.children[1].id, acked')
  <2>1. Held(tree', disk.leaf, acked)
    BY <1>8, FewerKeys DEF K
  <2>2. Opens(disk, tree'.children[1].id, acked)
    <3>1. acked # {} => tree'.children[1].id = tree.children[1].id
      BY <1>8 DEF K
    <3> QED
      BY <3>1, FewerKeys DEF DurableInv
  <2> QED
    BY <1>1, <2>1, <2>2
<1>10. CASE job' = Idle
  BY <1>9, <1>10 DEF DurableInv, Idle
<1>11. CASE job' # Idle
  <2>1. /\ job'.op = "insert" /\ job'.chunk = job.chunk /\ job'.done = job.done + 1
        /\ job'.phase = "submit" => job.done + 1 = Len(job.chunk)
    BY <1>1, <1>5, <1>11 DEF JobType
  <2>2. o.st = C_OK
    BY <1>5, <1>11
  <2>3. Started(job') \subseteq K \cup {key}
    <3>1. SUFFICES ASSUME NEW i \in 1 .. job.done + 1
                   PROVE  job.chunk[i].key \in Started(job) \cup {key}
      BY <2>1 DEF Started, K
    <3>2. CASE i \in 1 .. job.done
      BY <3>2 DEF Started
    <3>3. CASE i = job.done + 1
      BY <1>3, <3>3
    <3> QED
      BY <1>2, <3>2, <3>3
  <2>4. Awaits(tree', Started(job'))
    BY <1>8, <2>2, <2>3, FewerKeys
  <2> QED
    BY <1>2, <1>9, <2>1, <2>4 DEF DurableInv
<1> QED
  BY <1>10, <1>11

\* What a DELETE's row leaves behind.
LEMMA DurableDeleteRow ==
  ASSUME DurableInv, TableInv', AtMostOne(tree'.children), DeleteRow
  PROVE  DurableInv'
<1>1. /\ TreeIn(tree, Keys) /\ StoreIn(disk.leaf, Keys) /\ AtMostOne(tree.children)
      /\ JobOK /\ job \in JobType /\ job.op = "delete" /\ job.phase = "index"
      /\ disk' = disk /\ acked' = acked /\ acked \cap ChunkKeys(job.chunk) = {}
  BY DEF DurableInv, TableInv, DiskIn, JobOK, DeleteRow
<1>2. PICK key : key = job.chunk[job.done + 1].key
  OBVIOUS
<1>3. key \notin acked
  BY <1>1, <1>2, NextRow
<1>4. PICK o \in DeleteOutcomes(tree, disk.leaf, key) :
        /\ tree' = o.tree
        /\ \/ job' = Idle
           \/ job' = [job EXCEPT !.phase = "data", !.done = @ + 1]
           \/ job' = [job EXCEPT !.done = @ + 1]
  BY <1>2 DEF DeleteRow
<1>5. /\ Held(tree', disk.leaf, acked)
      /\ acked # {} => tree'.children[1].id = tree.children[1].id
  BY <1>1, <1>3, <1>4, DeleteHeld DEF DurableInv
<1>6. Opens(disk, tree'.children[1].id, acked)
  BY <1>5, FewerKeys DEF DurableInv
<1>7. job' = Idle \/ (job'.op = "delete" /\ job'.chunk = job.chunk)
  BY <1>1, <1>4 DEF JobType
<1>8. /\ job'.op = "delete" => acked' \cap ChunkKeys(job'.chunk) = {}
      /\ job'.op # "insert"
  BY <1>1, <1>7 DEF Idle
<1> QED
  BY <1>1, <1>5, <1>6, <1>8 DEF DurableInv

\* A complete save stores what an INSERT has done.
LEMMA DurableSubmit ==
  ASSUME DurableInv, TableInv', AtMostOne(tree'.children), Submit
  PROVE  DurableInv'
<1>1. /\ TreeIn(tree, Keys) /\ DiskIn(disk, Keys) /\ AtMostOne(tree.children)
      /\ JobOK /\ job \in JobType
  BY DEF DurableInv, TableInv, JobOK
<1>2. PICK e : e = DumpNodes(tree, disk, UnsavedNodes(tree))
  OBVIOUS
<1>3. disk' = e /\ tree' = ClearUnsaved(tree) /\ job' = Idle /\ job.phase = "submit"
  BY <1>2 DEF Submit
<1>4. Held(tree, e.leaf, acked') /\ Opens(e, tree.children[1].id, acked')
  <2>1. CASE job.op = "insert"
    <3>1. /\ job.chunk \in Chunks /\ job.done = Len(job.chunk)
          /\ acked' = acked \cup ChunkKeys(job.chunk)
      BY <1>3, <2>1 DEF DurableInv, Submit
    <3>2. Started(job) = ChunkKeys(job.chunk) /\ job.done > 0
      BY <3>1, ChunkParts DEF Started, ChunkKeys
    <3>3. Awaits(tree, ChunkKeys(job.chunk))
      BY <2>1, <3>2 DEF DurableInv
    <3>4. Awaits(tree, acked')
      BY <3>1, <3>3, JoinedKeys DEF DurableInv
    <3> QED
      BY <1>1, <1>2, <3>4, SaveStores
  <2>2. CASE job.op # "insert"
    <3>1. acked' = acked
      BY <2>2 DEF Submit
    <3>2. UnsavedNodes(tree) \in SUBSET UnsavedNodes(tree)
      OBVIOUS
    <3>3. Held(tree, e.leaf, acked) /\ Opens(e, tree.children[1].id, acked)
      BY <1>1, <1>2, <3>2, DumpHeld DEF DurableInv
    <3> QED
      BY <3>1, <3>3
  <2> QED
    BY <2>1, <2>2
<1>5. /\ Held(tree', e.leaf, acked')
      /\ acked' # {} => tree'.children[1].id = tree.children[1].id
  BY <1>1, <1>3, <1>4, ClearHeld
<1>6. Opens(e, tree'.children[1].id, acked')
  BY <1>4, <1>5, FewerKeys
<1> QED
  BY <1>3, <1>5, <1>6 DEF DurableInv, Idle

\* A new session finds in its leaf what the store has.
LEMMA OpenHeld ==
  ASSUME NEW d, NEW id, NEW K, Opens(d, id, K)
  PROVE  /\ Held(OpenIndex(d), d.leaf, K)
         /\ Opens(d, OpenIndex(d).children[1].id, K)
<1>1. PICK j : j = OpenIndex(d).children[1].id
  OBVIOUS
<1>2. Held(OpenIndex(d), d.leaf, K) /\ (K # {} => j = id)
  BY <1>1 DEF Opens
<1>3. Opens(d, j, K)
  BY <1>2, FewerKeys
<1> QED
  BY <1>1, <1>2, <1>3

\* The save of a statement fails, or the process dies and the next one opens the
\* index: any part of the unsaved nodes may have been dumped.
LEMMA DurableFailure ==
  ASSUME DurableInv, TableInv', AtMostOne(tree'.children), SubmitFails \/ Reopen \/ Crash
  PROVE  DurableInv'
<1>1. /\ TreeIn(tree, Keys) /\ DiskIn(disk, Keys) /\ AtMostOne(tree.children)
      /\ Held(tree, disk.leaf, acked) /\ Opens(disk, tree.children[1].id, acked)
  BY DEF DurableInv, TableInv
<1>2. acked' = acked /\ job' = Idle
  BY DEF SubmitFails, Reopen, Crash
<1>3. Held(tree', disk'.leaf, acked) /\ Opens(disk', tree'.children[1].id, acked)
  <2>1. CASE SubmitFails
    <3>1. PICK N \in SUBSET UnsavedNodes(tree) : disk' = DumpNodes(tree, disk, N)
      BY <2>1 DEF SubmitFails
    <3>2. tree' = tree
      BY <2>1 DEF SubmitFails
    <3> QED
      BY <1>1, <3>1, <3>2, DumpHeld
  <2>2. CASE Reopen
    <3>1. tree' = OpenIndex(disk) /\ disk' = disk
      BY <2>2 DEF Reopen
    <3> QED
      BY <1>1, <3>1, OpenHeld
  <2>3. CASE Crash
    <3>1. PICK N \in SUBSET UnsavedNodes(tree) :
            disk' = DumpNodes(tree, disk, N) /\ tree' = OpenIndex(disk')
      BY <2>3 DEF Crash
    <3>2. PICK e : e = DumpNodes(tree, disk, N)
      OBVIOUS
    <3>3. Opens(e, tree.children[1].id, acked)
      BY <1>1, <3>2, DumpHeld
    <3>4. Held(OpenIndex(e), e.leaf, acked) /\ Opens(e, OpenIndex(e).children[1].id, acked)
      BY <3>3, OpenHeld
    <3>5. disk' = e /\ tree' = OpenIndex(e)
      BY <3>1, <3>2
    <3> QED
      BY <3>4, <3>5
  <2> QED
    BY <2>1, <2>2, <2>3
<1> QED
  BY <1>2, <1>3 DEF DurableInv, Idle

\* A step that leaves the index and the store alone.
LEMMA DurableElse ==
  ASSUME DurableInv, TableInv',
         \/ \E chunk \in Chunks : BeginInsert(chunk) \/ BeginDelete(chunk)
         \/ DeleteData \/ DeleteDataFails \/ Update \/ UNCHANGED tableVars
  PROVE  DurableInv'
<1>1. /\ AtMostOne(tree.children) /\ Held(tree, disk.leaf, acked)
      /\ Opens(disk, tree.children[1].id, acked) /\ JobOK /\ job \in JobType
  BY DEF DurableInv, TableInv, JobOK
<1>2. ASSUME NEW chunk \in Chunks, BeginInsert(chunk) PROVE DurableInv'
  <2>1. tree' = tree /\ disk' = disk /\ acked' = acked
    BY <1>2 DEF BeginInsert
  <2>2. job'.op = "insert" /\ job'.done = 0 /\ job'.phase = "index"
    BY <1>2 DEF BeginInsert
  <2> QED
    BY <1>1, <2>1, <2>2 DEF DurableInv
<1>3. ASSUME NEW chunk \in Chunks, BeginDelete(chunk) PROVE DurableInv'
  <2>1. tree' = tree /\ disk' = disk /\ acked' = acked \ ChunkKeys(chunk)
    BY <1>3 DEF BeginDelete
  <2>2. job'.op = "delete" /\ job'.chunk = chunk
    BY <1>3 DEF BeginDelete
  <2>3. acked' \subseteq acked /\ acked' \cap ChunkKeys(chunk) = {}
    BY <2>1
  <2>4. Held(tree, disk.leaf, acked') /\ Opens(disk, tree.children[1].id, acked')
    BY <1>1, <2>3, FewerKeys
  <2> QED
    BY <1>1, <2>1, <2>2, <2>3, <2>4 DEF DurableInv
<1>4. CASE DeleteData
  <2>1. tree' = tree /\ disk' = disk /\ acked' = acked
    BY <1>4 DEF DeleteData
  <2>2. job.op = "delete" /\ job' = [job EXCEPT !.phase = "submit"]
    BY <1>1, <1>4 DEF DeleteData, JobOK
  <2>3. job'.op = "delete" /\ job'.chunk = job.chunk
    BY <1>1, <2>2 DEF JobType
  <2>4. acked \cap ChunkKeys(job.chunk) = {}
    BY <2>2 DEF DurableInv
  <2> QED
    BY <1>1, <2>1, <2>3, <2>4 DEF DurableInv
<1>5. CASE Update
  <2>1. tree' = tree /\ disk' = disk /\ acked' = acked /\ job'.op = "update"
    BY <1>5 DEF Update
  <2> QED
    BY <1>1, <2>1 DEF DurableInv
<1>6. CASE UNCHANGED tableVars
  <2>1. tree' = tree /\ disk' = disk /\ acked' = acked /\ job' = job
    BY <1>6 DEF tableVars
  <2>2. Started(job') = Started(job)
    BY <2>1
  <2> QED
    BY <2>1, <2>2 DEF DurableInv
<1>7. CASE DeleteDataFails
  <2>1. tree' = tree /\ disk' = disk /\ acked' = acked /\ job'.op = "none"
    BY <1>7 DEF DeleteDataFails, Idle
  <2> QED
    BY <1>1, <2>1 DEF DurableInv
<1> QED
  BY <1>2, <1>3, <1>4, <1>5, <1>6, <1>7

LEMMA DurableNext ==
  ASSUME DurableInv, OneLeaf', [TableNext]_tableVars
  PROVE  DurableInv'
<1>1. TableInv'
  BY TableNextOK DEF DurableInv
<1>2. AtMostOne(tree'.children)
  BY DEF OneLeaf
<1> QED
  BY <1>1, <1>2, DurableInsertRow, DurableDeleteRow, DurableSubmit, DurableFailure, DurableElse
     DEF TableNext

LEMMA DurableInit == TableInit => DurableInv
<1> SUFFICES ASSUME TableInit PROVE DurableInv
  OBVIOUS
<1>1. TableInv
  BY TableInitOK
<1>2. acked = {} /\ job = Idle /\ tree.children = <<>> /\ disk.root = <<>>
  BY DEF TableInit, Init, OpenTree, EmptyDisk
<1>3. AtMostOne(<<>>)
  BY DEF AtMostOne
<1>4. AtMostOne(OpenIndex(disk).children)
  <2>1. PICK c : c = OpenIndex(disk).children
    OBVIOUS
  <2>2. c \in Seq(LeafType) /\ Len(c) = 0
    BY <1>1, <1>2, <2>1, OpenParts DEF TableInv, DiskIn
  <2> QED
    BY <2>1, <2>2 DEF AtMostOne
<1>5. Held(tree, disk.leaf, acked) /\ Opens(disk, tree.children[1].id, acked)
  BY <1>2, <1>4 DEF Held, Opens
<1> QED
  BY <1>1, <1>2, <1>3, <1>5 DEF DurableInv, Idle

LEMMA DurableFound ==
  ASSUME DurableInv
  PROVE  acked \subseteq Stored
<1>1. /\ DiskIn(disk, Keys) /\ acked \subseteq Keys /\ AtMostOne(OpenIndex(disk).children)
      /\ Held(OpenIndex(disk), disk.leaf, acked)
  BY DEF DurableInv, TableInv, Opens
<1>2. ASSUME NEW key \in acked, NEW o \in GetItemOutcomes(OpenIndex(disk), disk.leaf, key)
      PROVE  o.st = C_OK
  BY <1>1, <1>2, HeldFound
<1> QED
  BY <1>1, <1>2 DEF Stored

\* As long as the index is one leaf, a new session finds every key of an INSERT that
\* ran through Submit and that no DELETE was started for, whatever statements,
\* failed writes, crashes and reopens come in between: Submit dumps the leaf and the
\* root in some order and may stop in the middle, and each order leaves a root record
\* and a leaf record that have the older keys.
THEOREM InsertsStayFound ==
  TableSpec /\ []OneLeaf => [](acked \subseteq Stored) /\ InsertsAreDurable
<1> DEFINE Found == acked \subseteq Stored
<1>1. TableInit => DurableInv
  BY DurableInit
<1>2. DurableInv /\ OneLeaf' /\ [TableNext]_tableVars => DurableInv'
  BY DurableNext
<1>3. DurableInv => Found
  BY DurableFound
<1> DEFINE Step == Found /\ NodeIdsUnique /\ RangesApart /\ ~SplitCutShort
<1>4. Found' => [Step => acked' \subseteq Stored']_tableVars
  OBVIOUS
<1> HIDE DEF Found
<1>5. TableSpec /\ []OneLeaf => []Found
  BY <1>1, <1>2, <1>3, PTL DEF TableSpec
<1>6. []Found => [][Step => acked' \subseteq Stored']_tableVars
  BY <1>4, PTL
<1> QED
  BY <1>5, <1>6, PTL DEF Found, InsertsAreDurable

-----------------------------------------------------------------------------
(* The root across sessions *)

\* The size of the root is that of the two ends of its range.
RootSized(t) == t.size = KeyLen(t.min) + KeyLen(t.max)

\* The same statistics of the root.
SameRoot(t, u) == u.size = t.size /\ u.min = t.min /\ u.max = t.max

LEMMA SameRootSized ==
  ASSUME NEW t, RootSized(t), NEW u, SameRoot(t, u)
  PROVE  RootSized(u)
BY DEF RootSized, SameRoot

\* A change of the children, of the id counter or of the mark is none of the root.
LEMMA RootUntouched ==
  ASSUME NEW t \in TreeType, NEW c, NEW id, NEW b
  PROVE  /\ SameRoot(t, [t EXCEPT !.children = c])
         /\ SameRoot(t, [t EXCEPT !.lastId = id, !.children = c])
         /\ SameRoot(t, [t EXCEPT !.unsaved = b])
BY DEF SameRoot, TreeType

\* Two keys fit into a node.
LEMMA TwoKeysFit ==
  ASSUME NEW lo, NEW hi
  PROVE  /\ KeyLen(lo) + KeyLen(hi) \in 0 .. WordMod - 1
         /\ KeyLen(lo) + KeyLen(hi) <= MaxNodeSize
<1>1. /\ KeyLen(lo) \in Nat /\ KeyLen(lo) <= KeySize
      /\ KeyLen(hi) \in Nat /\ KeyLen(hi) <= KeySize
  BY KeyLenType
<1> QED
  BY <1>1, NodeAssumption, RootFits

\* The root turns from one range to another without growing.
LEMMA RangeSized ==
  ASSUME NEW t \in TreeType, RootSized(t), NEW delta,
         NEW r, r = UpdateStatByRangeChange(t, delta)
  PROVE  RootSized(r) /\ r.size <= MaxNodeSize
<1>1. PICK lo, hi, k, z :
        /\ z = t.size - KeyLen(t.min) + KeyLen(lo) - KeyLen(t.max) + KeyLen(hi)
        /\ r = [t EXCEPT !.min = lo, !.max = hi, !.count = k, !.size = Word(z)]
  BY Zenon DEF UpdateStatByRangeChange
<1>2. PICK sum : sum = KeyLen(lo) + KeyLen(hi)
  OBVIOUS
<1>3. z = sum
  BY <1>1, <1>2, KeyLenType DEF RootSized
<1>4. Word(z) = sum /\ sum <= MaxNodeSize
  BY <1>2, <1>3, TwoKeysFit, WordSmall
<1>5. r.size = sum /\ r.min = lo /\ r.max = hi
  BY <1>1, <1>4 DEF TreeType
<1> QED
  BY <1>2, <1>4, <1>5 DEF RootSized

\* So it is never split.
LEMMA RootTurnsSized ==
  ASSUME NEW t \in TreeType, RootSized(t)
  PROVE  /\ RootSized(InsertAtRoot(t).tree) /\ InsertAtRoot(t).st = C_OK
         /\ RootSized(DeleteAtRoot(t).tree) /\ DeleteAtRoot(t).st = C_OK
<1>1. RootSized(InsertAtRoot(t).tree) /\ InsertAtRoot(t).st = C_OK
  <2>1. PICK r : r = UpdateStatByRangeChange(t, 1)
    OBVIOUS
  <2>2. RootSized(r) /\ r.size <= MaxNodeSize
    BY <2>1, RangeSized
  <2>3. r.size \in Int
    BY <2>2, KeyLenType DEF RootSized
  <2>4. ~ RootNeedSplit(r)
    BY <2>2, <2>3, NodeAssumption DEF RootNeedSplit
  <2>5. PICK v : v = [r EXCEPT !.unsaved = TRUE]
    OBVIOUS
  <2>6. InsertAtRoot(t) = Outcome(v, C_OK)
    BY <2>1, <2>4, <2>5, Zenon DEF InsertAtRoot
  <2>7. v.size = r.size /\ v.min = r.min /\ v.max = r.max
    BY <2>1, <2>5 DEF UpdateStatByRangeChange, TreeType
  <2>8. RootSized(v)
    BY <2>2, <2>7 DEF RootSized
  <2> QED
    BY <2>6, <2>8 DEF Outcome
<1>2. RootSized(DeleteAtRoot(t).tree) /\ DeleteAtRoot(t).st = C_OK
  <2>1. PICK r : r = IF t.children = <<>> THEN ResetStat(t) ELSE UpdateStatByRangeChange(t, -1)
    OBVIOUS
  <2>2. RootSized(r) /\ "size" \in DOMAIN r /\ "min" \in DOMAIN r /\ "max" \in DOMAIN r
    <3>1. CASE t.children = <<>>
      <4>1. r = [t EXCEPT !.count = 0, !.size = 0, !.min = NoKey, !.max = NoKey]
        BY <2>1, <3>1 DEF ResetStat
      <4> QED
        BY <4>1 DEF TreeType, RootSized, KeyLen
    <3>2. CASE t.children # <<>>
      <4>1. r = UpdateStatByRangeChange(t, -1)
        BY <2>1, <3>2
      <4>2. RootSized(r)
        BY <4>1, RangeSized
      <4> QED
        BY <4>1, <4>2 DEF UpdateStatByRangeChange, TreeType
    <3> QED
      BY <3>1, <3>2
  <2>3. PICK v : v = [r EXCEPT !.unsaved = TRUE]
    OBVIOUS
  <2>4. DeleteAtRoot(t) = Outcome(v, C_OK)
    BY <2>1, <2>3, Zenon DEF DeleteAtRoot
  <2>5. v.size = r.size /\ v.min = r.min /\ v.max = r.max
    BY <2>3
  <2>6. RootSized(v)
    BY <2>2, <2>5 DEF RootSized
  <2> QED
    BY <2>4, <2>6 DEF Outcome
<1> QED
  BY <1>1, <1>2

\* Insert changes the leaves first, then the root.
LEMMA InsertTurn ==
  ASSUME NEW t, TreeIn(t, Keys), NEW i \in 1 .. Len(t.children), NEW leaf, LeafIn(leaf, Keys),
         NEW o \in InsertAtLeaf(t, i, leaf)
  PROVE  \E u \in TreeType : SameRoot(t, u) /\ o = InsertAtRoot(u)
<1> DEFINE c == t.children
<1>1. t \in TreeType /\ LeavesIn(c, Keys) /\ t.lastId \in Nat /\ Len(c) \in Nat
  BY DEF TreeIn, TreeType, LeavesIn
<1>2. CASE ~ LeafNeedSplit(leaf)
  <2> DEFINE d == Collect(ReplaceAt(c, i, leaf), i)
  <2>1. PICK u : u = [t EXCEPT !.children = d] /\ o = InsertAtRoot(u)
    BY <1>2 DEF InsertAtLeaf
  <2>2. LeavesIn(d, Keys)
    BY <1>1, ReplaceIn, CollectIn
  <2> HIDE DEF d
  <2>3. u \in TreeType /\ SameRoot(t, u)
    BY <1>1, <2>1, <2>2 DEF TreeType, LeavesIn, SameRoot
  <2> QED
    BY <2>1, <2>3
<1>3. CASE LeafNeedSplit(leaf)
  <2> DEFINE id == AllocateNodeID(t)
             right == SplitRight(leaf, id)
             left == SplitLeft(leaf)
             kept == ReplaceAt(c, i, left)
  <2>1. PICK at \in MaxKeyUpperBound(kept, right.max) :
          \E l : o = InsertAtRoot([t EXCEPT !.lastId = id,
                             !.children = Collect(Collect(AddChild(kept, at, right), at), l)])
    BY <1>3 DEF InsertAtLeaf
  <2>2. id \in Nat
    BY <1>1 DEF AllocateNodeID
  <2>3. LeafOK(leaf) /\ DOMAIN leaf.kvs \subseteq Keys
    BY DEF LeafIn
  <2>4. LeafIn(right, Keys)
    BY <1>3, <2>2, <2>3, SplitRightOK, SplitKeys DEF LeafIn
  <2>5. LeafIn(left, Keys)
    BY <1>3, <2>2, <2>3, SplitLeftOK, SplitKeys DEF LeafIn
  <2> HIDE DEF id, right, left
  <2>6. LeavesIn(kept, Keys) /\ Len(kept) = Len(c)
    BY <1>1, <2>5, ReplaceIn
  <2> HIDE DEF kept
  <2>7. at \in 1 .. Len(kept) + 1
    BY <2>1, <2>6, BoundsInRange DEF LeavesIn
  <2>8. PICK l, e, d, u : /\ o = InsertAtRoot(u) /\ u = [t EXCEPT !.lastId = id, !.children = d]
                          /\ d = Collect(e, l) /\ e = Collect(AddChild(kept, at, right), at)
    BY <2>1
  <2>9. LeavesIn(AddChild(kept, at, right), Keys)
    BY <2>4, <2>6, <2>7, AddChildIn
  <2>10. d \in Seq(LeafType)
    BY <2>8, <2>9, CollectIn DEF LeavesIn
  <2>11. u \in TreeType /\ SameRoot(t, u)
    BY <1>1, <2>2, <2>8, <2>10 DEF TreeType, SameRoot
  <2> QED
    BY <2>8, <2>11
<1> QED
  BY <1>2, <1>3

\* Bptree::Insert at a leaf: it succeeds or finds the key.
LEMMA InsertIntoLeafSized ==
  ASSUME NEW t, TreeIn(t, Keys), RootSized(t), NEW i \in 1 .. Len(t.children),
         NEW key \in Keys, NEW value \in Values, NEW o \in InsertIntoLeaf(t, i, key, value)
  PROVE  RootSized(o.tree) /\ o.st \in {C_OK, C_BPTREE_DUPLICATE_KEY}
<1> DEFINE leaf == t.children[i]
           put == PutItem(leaf, key, value)
           new == UpdateStatByAddKV(put, key)
<1>1. LeafIn(leaf, Keys) /\ LeafOK(leaf)
  BY DEF TreeIn, LeavesIn, LeafIn
<1>2. CASE key \in DOMAIN leaf.kvs
  <2>1. o = Outcome(t, C_BPTREE_DUPLICATE_KEY)
    BY <1>2 DEF InsertIntoLeaf
  <2> QED
    BY <2>1 DEF Outcome
<1>3. CASE key \notin DOMAIN leaf.kvs
  <2>1. key \notin leaf.written
    BY <1>1, <1>3 DEF LeafOK
  <2>2. o \in InsertAtLeaf(t, i, new)
    BY <1>3, <2>1 DEF InsertIntoLeaf
  <2> HIDE DEF leaf
  <2>3. LeafOK(put) /\ DOMAIN put.kvs \subseteq Keys
    BY <1>1, PutItemOK, PutKeys DEF LeafIn
  <2> HIDE DEF put
  <2>4. LeafIn(new, Keys)
    BY <2>3, AddKVOK, StatKeys DEF LeafIn
  <2> HIDE DEF new
  <2>5. PICK u \in TreeType : SameRoot(t, u) /\ o = InsertAtRoot(u)
    BY <2>2, <2>4, InsertTurn
  <2> QED
    BY <2>5, SameRootSized, RootTurnsSized
<1> QED
  BY <1>2, <1>3

\* A visit changes no statistics of the root.
LEMMA VisitSized ==
  ASSUME NEW t \in TreeType, NEW i, NEW stored
  PROVE  SameRoot(t, LoadChild(t, i, stored))
BY DEF SameRoot, LoadChild, TreeType

\* Bptree::Insert.
LEMMA InsertSized ==
  ASSUME NEW t, TreeIn(t, Keys), RootSized(t), NEW stored, StoreIn(stored, Keys),
         NEW key \in Keys, NEW value \in Values, NEW o \in InsertOutcomes(t, stored, key, value)
  PROVE  RootSized(o.tree) /\ o.st \in {C_OK, C_BPTREE_DUPLICATE_KEY}
<1>1. /\ t \in TreeType /\ t.children \in Seq(LeafType) /\ Len(t.children) \in Nat
      /\ t.lastId \in Nat
  BY DEF TreeIn, TreeType
<1>2. CASE Len(t.children) = 0
  <2> DEFINE id == AllocateNodeID(t)
             c == <<NewLeaf(id)>>
             u == [t EXCEPT !.lastId = id, !.children = c]
  <2>1. id \in Nat
    BY <1>1 DEF AllocateNodeID
  <2>2. [t EXCEPT !.children = c, !.lastId = id] = u
    BY <1>1 DEF TreeType
  <2>3. o \in InsertIntoLeaf(u, 1, key, value)
    BY <1>2, <2>2 DEF InsertOutcomes
  <2>4. LeafIn(NewLeaf(id), Keys)
    <3>1. LeafOK(NewLeaf(id)) /\ NewLeaf(id).kvs = EmptyKVs
      BY <2>1, NewLeafOK
    <3>2. DOMAIN EmptyKVs = {}
      BY DEF EmptyKVs
    <3> QED
      BY <3>1, <3>2 DEF LeafIn
  <2>5. LeavesIn(c, Keys) /\ Len(c) = 1
    BY <2>4 DEF LeavesIn, LeafIn, LeafOK
  <2> HIDE DEF id, c
  <2>6. TreeIn(u, Keys) /\ u.children = c /\ RootSized(u)
    <3>1. c \in Seq(LeafType)
      BY <2>5 DEF LeavesIn
    <3>2. u \in TreeType /\ u.children = c /\ SameRoot(t, u)
      BY <1>1, <2>1, <3>1 DEF TreeType, SameRoot
    <3> QED
      BY <2>5, <3>2, SameRootSized DEF TreeIn
  <2> HIDE DEF u
  <2>7. 1 \in 1 .. Len(u.children)
    BY <2>5, <2>6
  <2> QED
    BY <2>3, <2>6, <2>7, InsertIntoLeafSized
<1>3. CASE Len(t.children) # 0
  <2> DEFINE n == Len(t.children)
             pos(at) == IF at > n THEN n ELSE at
  <2>1. PICK at \in MaxKeyLowerBound(t.children, key) :
          o \in InsertIntoLeaf(LoadChild(t, pos(at), stored), pos(at), key, value)
    BY <1>3 DEF InsertOutcomes
  <2>2. at \in 1 .. n + 1
    BY <1>1, <2>1, BoundsInRange
  <2>3. PICK i : i = pos(at)
    OBVIOUS
  <2>4. i \in 1 .. n
    BY <1>1, <1>3, <2>2, <2>3
  <2>5. PICK u : u = LoadChild(t, i, stored)
    OBVIOUS
  <2>6. TreeIn(u, Keys) /\ Len(u.children) = n /\ RootSized(u)
    BY <1>1, <2>4, <2>5, LoadChildIn, VisitSized, SameRootSized
  <2>7. o \in InsertIntoLeaf(u, i, key, value)
    BY <2>1, <2>3, <2>5
  <2> QED
    BY <2>4, <2>6, <2>7, InsertIntoLeafSized
<1> QED
  BY <1>2, <1>3

\* Delete changes the leaves first, then the root, or nothing at all.
LEMMA DeleteFromLeafSized ==
  ASSUME NEW t, TreeIn(t, Keys), RootSized(t), NEW i \in 1 .. Len(t.children), NEW key,
         NEW o \in DeleteFromLeaf(t, i, key)
  PROVE  RootSized(o.tree) /\ o.st = C_OK
<1> DEFINE c == t.children
           leaf == DropItem(c[i], key)
           left == ReplaceAt(c, i, leaf)
<1>1. /\ t \in TreeType /\ LeavesIn(c, Keys) /\ LeafOK(c[i]) /\ LeafOK(leaf)
      /\ LeafIn(leaf, Keys)
  BY DropItemOK DEF TreeIn, LeavesIn, LeafIn
<1>2. ASSUME NEW e, LeavesIn(e, Keys), o = DeleteAtRoot([t EXCEPT !.children = e])
      PROVE  RootSized(o.tree) /\ o.st = C_OK
  <2>1. PICK u : u = [t EXCEPT !.children = e]
    OBVIOUS
  <2>2. u \in TreeType /\ SameRoot(t, u)
    BY <1>1, <1>2, <2>1, NewChildren, RootUntouched DEF TreeIn
  <2> QED
    BY <1>2, <2>1, <2>2, SameRootSized, RootTurnsSized
<1>3. CASE key \notin DOMAIN c[i].kvs
  <2>1. DeleteFromLeaf(t, i, key) = {Outcome(t, C_OK)}
    BY <1>3 DEF DeleteFromLeaf
  <2> QED
    BY <2>1 DEF Outcome
<1>4. CASE key \in DOMAIN c[i].kvs /\ DOMAIN leaf.kvs = {}
  <2>1. PICK found : o = DeleteAtRoot([t EXCEPT !.children =
                                         DelChild(RemoveUnsaved(left, leaf.id), i, found)])
    BY <1>4 DEF DeleteFromLeaf
  <2>2. LeavesIn(left, Keys) /\ Len(left) = Len(c)
    BY <1>1, ReplaceIn
  <2> HIDE DEF left
  <2>3. /\ LeavesIn(RemoveUnsaved(left, leaf.id), Keys)
        /\ Len(RemoveUnsaved(left, leaf.id)) = Len(c)
    BY <2>2, RemoveUnsavedIn
  <2>4. LeavesIn(DelChild(RemoveUnsaved(left, leaf.id), i, found), Keys)
    BY <2>3, DelChildIn
  <2> QED
    BY <1>2, <2>1, <2>4
<1>5. CASE key \in DOMAIN c[i].kvs /\ DOMAIN leaf.kvs # {}
  <2> DEFINE new == UpdateStatByDelKV(leaf, key)
             d == Collect(ReplaceAt(c, i, new), i)
  <2>1. o = DeleteAtRoot([t EXCEPT !.children = d])
    BY <1>5 DEF DeleteFromLeaf
  <2>2. LeafIn(new, Keys)
    BY <1>1, <1>5, DelKVOK, StatKeys DEF LeafIn
  <2> HIDE DEF new
  <2>3. LeavesIn(d, Keys)
    BY <1>1, <2>2, ReplaceIn, CollectIn
  <2> HIDE DEF d
  <2> QED
    BY <1>2, <2>1, <2>3
<1> QED
  BY <1>3, <1>4, <1>5

\* Bptree::Delete.
LEMMA DeleteSized ==
  ASSUME NEW t, TreeIn(t, Keys), RootSized(t), NEW stored, StoreIn(stored, Keys), NEW key,
         NEW o \in DeleteOutcomes(t, stored, key)
  PROVE  RootSized(o.tree) /\ o.st \in {C_OK, C_STORAGE_KV_NOT_FOUND}
<1> DEFINE c == t.children
<1>1. t \in TreeType /\ c \in Seq(LeafType) /\ Len(c) \in Nat
  BY DEF TreeIn, LeavesIn
<1>2. PICK i \in FindChild(c, key) :
        o \in IF i > Len(c)
              THEN {Outcome(t, C_OK)}
              ELSE IF LoadStatus(c[i], stored) # C_OK
                   THEN {Outcome(t, LoadStatus(c[i], stored))}
                   ELSE DeleteFromLeaf(LoadChild(t, i, stored), i, key)
  BY DEF DeleteOutcomes
<1>3. i \in 1 .. Len(c) + 1
  BY <1>1, <1>2, FindChildInRange
<1>4. CASE \E st \in {C_OK, C_STORAGE_KV_NOT_FOUND} : o = Outcome(t, st)
  BY <1>4 DEF Outcome
<1>5. CASE i \in 1 .. Len(c) /\ o \in DeleteFromLeaf(LoadChild(t, i, stored), i, key)
  <2>1. PICK u : u = LoadChild(t, i, stored)
    OBVIOUS
  <2>2. TreeIn(u, Keys) /\ Len(u.children) = Len(c) /\ RootSized(u)
    BY <1>1, <1>5, <2>1, LoadChildIn, VisitSized, SameRootSized
  <2> QED
    BY <1>5, <2>1, <2>2, DeleteFromLeafSized
<1>6. LoadStatus(c[i], stored) \in {C_OK, C_STORAGE_KV_NOT_FOUND}
  BY LoadStatusType
<1> QED
  BY <1>1, <1>2, <1>3, <1>4, <1>5, <1>6

LEMMA ClearSized ==
  ASSUME NEW t \in TreeType
  PROVE  SameRoot(t, ClearUnsaved(t))
BY DEF SameRoot, ClearUnsaved, TreeType

LEMMA OpenSized ==
  ASSUME NEW d
  PROVE  RootSized(OpenIndex(d))
BY DEF RootSized, OpenIndex, OpenTree, KeyLen

\* The root of whatever session a statement runs in.
RootInv == TableInv /\ RootSized(tree) /\ RootNeverSplits /\ InsertNeverErrs

LEMMA RootStep ==
  ASSUME RootInv, [TableNext]_tableVars
  PROVE  RootInv'
<1>1. TableInv' /\ TreeIn(tree, Keys) /\ tree \in TreeType /\ StoreIn(disk.leaf, Keys)
  BY TableNextOK DEF RootInv, TableInv, DiskIn, TreeIn
<1> DEFINE Status(r) == r.st # UNDEFINED /\ (r.op = "Insert" => r.st # C_BPTREE_ERROR)
<1>2. RootSized(tree) /\ Status(ret)
  BY DEF RootInv, RootNeverSplits, InsertNeverErrs
<1>3. SUFFICES RootSized(tree') /\ Status(ret')
  BY <1>1 DEF RootInv, RootNeverSplits, InsertNeverErrs
<1>4. CASE InsertRow
  <2>1. PICK key : key = job.chunk[job.done + 1].key
    OBVIOUS
  <2>2. PICK o \in InsertOutcomes(tree, disk.leaf, key, NoValue) :
          tree' = o.tree /\ ret' = [op |-> "Insert", key |-> key, st |-> o.st]
    BY <1>4, <2>1 DEF InsertRow
  <2>3. key \in Keys /\ NoValue \in Values
    BY <1>4, <2>1, NextRow, TableAssumption DEF RootInv, TableInv, InsertRow
  <2>4. RootSized(o.tree) /\ o.st \in {C_OK, C_BPTREE_DUPLICATE_KEY}
    BY <1>1, <1>2, <2>3, InsertSized
  <2> QED
    BY <2>2, <2>4 DEF C_OK, C_BPTREE_DUPLICATE_KEY, C_BPTREE_ERROR, UNDEFINED
<1>5. CASE DeleteRow
  <2>0. PICK key : key = job.chunk[job.done + 1].key
    OBVIOUS
  <2>1. PICK o \in DeleteOutcomes(tree, disk.leaf, key) :
          tree' = o.tree /\ ret' = [op |-> "Delete", key |-> key, st |-> o.st]
    BY <1>5, <2>0 DEF DeleteRow
  <2>2. RootSized(o.tree) /\ o.st \in {C_OK, C_STORAGE_KV_NOT_FOUND}
    BY <1>1, <1>2, <2>1, DeleteSized
  <2> QED
    BY <2>1, <2>2 DEF C_OK, C_STORAGE_KV_NOT_FOUND, UNDEFINED
<1>6. CASE Submit \/ SubmitFails
  <2>1. tree' = ClearUnsaved(tree) \/ tree' = tree
    BY <1>6 DEF Submit, SubmitFails
  <2>2. ret'.st = C_OK /\ ret'.op = "Save"
    BY <1>6 DEF Submit, SubmitFails
  <2>3. RootSized(tree')
    BY <1>1, <1>2, <2>1, ClearSized, SameRootSized
  <2> QED
    BY <2>2, <2>3 DEF C_OK, UNDEFINED
<1>7. CASE Reopen \/ Crash
  <2>1. tree' = OpenIndex(disk) \/ tree' = OpenIndex(disk')
    BY <1>7 DEF Reopen, Crash
  <2>2. ret'.st = C_OK /\ ret'.op = "Open"
    BY <1>7 DEF Reopen, Crash
  <2> QED
    BY <2>1, <2>2, OpenSized DEF C_OK, UNDEFINED
<1>8. CASE \/ \E chunk \in Chunks : BeginInsert(chunk) \/ BeginDelete(chunk)
           \/ DeleteData \/ DeleteDataFails \/ Update \/ UNCHANGED tableVars
  <2>1. tree' = tree /\ ret' = ret
    BY <1>8 DEF BeginInsert, BeginDelete, DeleteData, DeleteDataFails, Update, tableVars
  <2> QED
    BY <1>2, <2>1
<1> QED
  BY <1>4, <1>5, <1>6, <1>7, <1>8 DEF TableNext

LEMMA RootInvHolds == TableSpec => []RootInv
<1>1. TableInit => RootInv
  <2> SUFFICES ASSUME TableInit PROVE RootInv
    OBVIOUS
  <2>1. TableInv
    BY TableInitOK
  <2>2. RootSized(tree)
    BY DEF TableInit, Init, OpenTree, RootSized, KeyLen
  <2>3. RootNeverSplits /\ InsertNeverErrs
    BY DEF TableInit, Init, RootNeverSplits, InsertNeverErrs, C_OK, UNDEFINED
  <2> QED
    BY <2>1, <2>2, <2>3 DEF RootInv
<1>2. RootInv /\ [TableNext]_tableVars => RootInv'
  BY RootStep
<1> QED
  BY <1>1, <1>2, PTL DEF TableSpec

\* Whatever statements run in whatever sessions, with failed writes and crashes and
\* node ids used twice: the root of the index never splits, the one case in which
\* BptNode::Split reads the ends of an empty vector.
THEOREM RootStaysWholeAcrossSessions == TableSpec => []RootNeverSplits
<1>1. RootInv => RootNeverSplits
  BY DEF RootInv
<1> QED
  BY <1>1, RootInvHolds, PTL

\* Nor does the second check of BptNode::Insert ever fail a row of an INSERT: a row
\* is stored or its key is there.
THEOREM RowsSucceedAcrossSessions == TableSpec => []InsertNeverErrs
<1>1. RootInv => InsertNeverErrs
  BY DEF RootInv
<1> QED
  BY <1>1, RootInvHolds, PTL

-----------------------------------------------------------------------------
(* The index as a set of keys *)

\* A range that ends at the first and the last of its keys.
Bounded(range, K) == range.min \in K /\ range.max \in K /\ Spans(range, K)

\* Ranges that follow each other without overlap.
Ascending(c) == \A i, j \in 1 .. Len(c) : i < j => c[i].max < c[j].min

\* Nothing to save, and what has been read is in the record.
Clean(leaf, stored) ==
  /\ ~ leaf.unsaved
  /\ leaf.id \in DOMAIN stored
  /\ DOMAIN leaf.kvs \subseteq DOMAIN stored[leaf.id]
  /\ Bounded(leaf, DOMAIN stored[leaf.id])

\* To be saved as it is.
Dirty(leaf) == leaf.unsaved /\ Bounded(leaf, DOMAIN leaf.kvs)

\* The items the leaf has after the next complete save.
Items(leaf, stored) == IF leaf.unsaved THEN DOMAIN leaf.kvs ELSE DOMAIN stored[leaf.id]

Covered(c, stored) == UNION {Items(c[i], stored) : i \in 1 .. Len(c)}

\* The keys in the records of the leaves that the root record names.
KeysOf(d) == UNION {DOMAIN d.leaf[d.root[i].id] : i \in 1 .. Len(d.root)}

\* An index that is stored as a whole.
Whole(d) ==
  /\ \A i \in 1 .. Len(d.root) :
       /\ d.root[i].id \in DOMAIN d.leaf
       /\ Bounded(d.root[i], DOMAIN d.leaf[d.root[i].id])
  /\ Ascending(d.root)

\* The session has nothing to save, and the items it has read are those stored.
Agrees(t, d) ==
  /\ RefsOf(t.children) = d.root
  /\ ~ t.unsaved
  /\ \A i \in 1 .. Len(t.children) : Clean(t.children[i], d.leaf)
  /\ Ascending(t.children)

\* The next complete save of these leaves makes K the keys of the index.
Becomes(c, stored, K) ==
  /\ \A i \in 1 .. Len(c) : Clean(c[i], stored) \/ Dirty(c[i])
  /\ Ascending(c)
  /\ Covered(c, stored) = K

Carries(t, d, K) == t.unsaved /\ Becomes(t.children, d.leaf, K)

\* Ranges of keys that follow each other.
Ranged(c) ==
  /\ \A i \in 1 .. Len(c) : c[i].min \in Keys /\ c[i].max \in Keys /\ c[i].min <= c[i].max
  /\ Ascending(c)

\* A bounded range is one of keys.
LEMMA BoundedRange ==
  ASSUME NEW range, NEW K \in SUBSET Keys, Bounded(range, K)
  PROVE  range.min \in Keys /\ range.max \in Keys /\ range.min <= range.max
BY DEF Bounded, Spans

\* The ranges of leaves that are stored or will be.
LEMMA SoundRanges ==
  ASSUME NEW c \in Seq(LeafType), NEW stored, StoreOK(stored), Ascending(c),
         \A i \in 1 .. Len(c) : Clean(c[i], stored) \/ Dirty(c[i])
  PROVE  /\ Ranged(c)
         /\ \A i \in 1 .. Len(c) : Items(c[i], stored) \in SUBSET Keys
                                   /\ Bounded(c[i], Items(c[i], stored))
<1>1. ASSUME NEW i \in 1 .. Len(c)
      PROVE  Items(c[i], stored) \in SUBSET Keys /\ Bounded(c[i], Items(c[i], stored))
  <2>1. PICK leaf \in LeafType : leaf = c[i]
    OBVIOUS
  <2>2. CASE Clean(leaf, stored)
    <3>1. Items(leaf, stored) = DOMAIN stored[leaf.id] /\ stored[leaf.id] \in KVs
      BY <2>2 DEF Clean, Items, StoreOK
    <3>2. DOMAIN stored[leaf.id] \subseteq Keys
      BY <3>1, KVsElim
    <3> QED
      BY <2>1, <2>2, <3>1, <3>2 DEF Clean
  <2>3. CASE Dirty(leaf)
    BY <2>1, <2>3, LeafElim DEF Dirty, Items
  <2> QED
    BY <2>1, <2>2, <2>3
<1>2. ASSUME NEW i \in 1 .. Len(c)
      PROVE  c[i].min \in Keys /\ c[i].max \in Keys /\ c[i].min <= c[i].max
  BY <1>1, BoundedRange
<1> QED
  BY <1>1, <1>2 DEF Ranged

\* The leaves are sorted for the binary searches.
LEMMA RangedSorted ==
  ASSUME NEW c, Len(c) \in Nat, Ranged(c)
  PROVE  /\ SortedByMax(c)
         /\ \A i, j \in 1 .. Len(c) : i < j => c[i].max < c[j].max /\ c[i].min < c[j].min
<1>1. ASSUME NEW i \in 1 .. Len(c), NEW j \in 1 .. Len(c), i < j
      PROVE  c[i].max < c[j].max /\ c[i].min < c[j].min
  <2>1. /\ c[i].min \in Nat /\ c[i].max \in Nat /\ c[j].min \in Nat /\ c[j].max \in Nat
        /\ c[i].min <= c[i].max /\ c[j].min <= c[j].max /\ c[i].max < c[j].min
    BY <1>1 DEF Ranged, Ascending, Keys
  <2> QED
    BY <2>1
<1>2. \A i \in 1 .. Len(c) : c[i].max \in Nat
  BY DEF Ranged, Keys
<1>3. SortedByMax(c)
  BY <1>1, <1>2 DEF SortedByMax
<1> QED
  BY <1>1, <1>3

\* What std::lower_bound promises of a position.
LEMMA LowerParts ==
  ASSUME NEW c \in Seq(LeafType), Ranged(c), NEW key \in Keys, NEW at \in MaxKeyLowerBound(c, key)
  PROVE  /\ at \in 1 .. Len(c) + 1
         /\ \A j \in 1 .. Len(c) : j < at => c[j].max < key
         /\ at \in 1 .. Len(c) => key <= c[at].max
<1>1. Len(c) \in Nat /\ SortedByMax(c)
  BY RangedSorted
<1>2. /\ at \in 1 .. Len(c) + 1
      /\ \A j \in 1 .. at - 1 : c[j].max < key
      /\ at <= Len(c) => c[at].max >= key
  BY <1>1 DEF MaxKeyLowerBound
<1>3. \A j \in 1 .. Len(c) : j < at => j \in 1 .. at - 1
  BY <1>2
<1>4. at \in 1 .. Len(c) => at <= Len(c) /\ c[at].max \in Nat
  BY <1>1 DEF Ranged, Keys
<1> QED
  BY <1>2, <1>3, <1>4 DEF Keys

\* The leaf whose range holds a key is where both searches end.
LEMMA RangeFound ==
  ASSUME NEW c \in Seq(LeafType), Ranged(c), NEW key \in Keys, NEW i \in 1 .. Len(c),
         c[i].min <= key, key <= c[i].max
  PROVE  /\ \A at \in MaxKeyLowerBound(c, key) : at = i
         /\ \A at \in FindChild(c, key) : at = i
<1>1. Len(c) \in Nat /\ c[i].min \in Nat /\ c[i].max \in Nat /\ key \in Nat
  BY DEF Ranged, Keys
<1>2. ASSUME NEW at \in MaxKeyLowerBound(c, key) PROVE at = i
  <2>1. /\ at \in 1 .. Len(c) + 1
        /\ \A j \in 1 .. Len(c) : j < at => c[j].max < key
        /\ at \in 1 .. Len(c) => key <= c[at].max
    BY LowerParts
  <2>2. ~ (i < at)
    BY <1>1, <2>1
  <2>3. ASSUME at < i PROVE FALSE
    <3>1. at \in 1 .. Len(c)
      BY <1>1, <2>1, <2>3
    <3>2. c[at].max < c[i].min /\ c[at].max \in Nat
      BY <2>3, <3>1 DEF Ranged, Ascending, Keys
    <3> QED
      BY <1>1, <2>1, <3>1, <3>2
  <2> QED
    BY <1>1, <2>1, <2>2, <2>3
<1>3. ASSUME NEW at \in FindChild(c, key) PROVE at = i
  <2>1. PICK b \in MaxKeyLowerBound(c, key) :
          at = IF b <= Len(c) /\ key >= c[b].min THEN b ELSE Len(c) + 1
    BY DEF FindChild
  <2>2. b = i /\ i <= Len(c) /\ key >= c[i].min
    BY <1>1, <1>2
  <2> QED
    BY <2>1, <2>2
<1> QED
  BY <1>2, <1>3

\* A key in no range is not looked for in any leaf.
LEMMA RangeMissed ==
  ASSUME NEW c \in Seq(LeafType), Ranged(c), NEW key \in Keys, NEW i \in FindChild(c, key)
  PROVE  /\ i \in 1 .. Len(c) + 1
         /\ i \in 1 .. Len(c) => c[i].min <= key /\ key <= c[i].max
<1>1. Len(c) \in Nat /\ key \in Nat /\ \A j \in 1 .. Len(c) : c[j].min \in Nat /\ c[j].max \in Nat
  BY DEF Ranged, Keys
<1>2. PICK b \in MaxKeyLowerBound(c, key) :
        i = IF b <= Len(c) /\ key >= c[b].min THEN b ELSE Len(c) + 1
  BY DEF FindChild
<1>3. b \in 1 .. Len(c) + 1 /\ (b \in 1 .. Len(c) => key <= c[b].max)
  BY LowerParts
<1>4. i \in 1 .. Len(c) => i = b /\ key >= c[b].min
  BY <1>1, <1>2, <1>3
<1> QED
  BY <1>1, <1>2, <1>3, <1>4

\* There is a position for every key.
LEMMA LowerExists ==
  ASSUME NEW c \in Seq(LeafType), Ranged(c), NEW key \in Keys
  PROVE  FindChild(c, key) # {}
<1> DEFINE n == Len(c)
           P == {p \in 1 .. n : c[p].max >= key}
           Q == {n + 1 - p : p \in P}
<1>1. n \in Nat /\ SortedByMax(c) /\ \A j \in 1 .. n : c[j].max \in Nat
  BY RangedSorted DEF Ranged, Keys
<1>2. MaxKeyLowerBound(c, key) # {}
  <2>1. CASE P = {}
    <3>1. \A j \in 1 .. n : c[j].max < key
      BY <1>1, <2>1 DEF Keys
    <3>2. n + 1 \in 1 .. n + 1 /\ 1 .. (n + 1) - 1 = 1 .. n /\ ~ (n + 1 <= n)
      BY <1>1
    <3> QED
      BY <1>1, <3>1, <3>2 DEF MaxKeyLowerBound
  <2>2. CASE P # {}
    <3>1. Q \in SUBSET (1 .. n) /\ Q # {}
      BY <1>1, <2>2
    <3>2. PICK q \in Q : \A r \in Q : r <= q
      <4> HIDE DEF Q
      <4> QED
        BY <1>1, <3>1, LastPosition
    <3>3. PICK p \in P : q = n + 1 - p
      OBVIOUS
    <3>4. \A r \in P : p <= r
      <4>1. ASSUME NEW r \in P PROVE p <= r
        <5>1. n + 1 - r \in Q
          OBVIOUS
        <5>2. n + 1 - r <= n + 1 - p
          BY <3>2, <3>3, <5>1
        <5> QED
          BY <1>1, <5>2
      <4> QED
        BY <4>1
    <3>5. \A j \in 1 .. p - 1 : c[j].max < key
      <4>1. ASSUME NEW j \in 1 .. p - 1 PROVE c[j].max < key
        <5>1. j \in 1 .. n /\ ~ (p <= j)
          BY <1>1
        <5>2. j \notin P
          BY <3>4, <5>1
        <5> QED
          BY <1>1, <5>1, <5>2 DEF Keys
      <4> QED
        BY <4>1
    <3>6. p \in 1 .. n + 1 /\ c[p].max >= key
      BY <1>1
    <3> QED
      BY <1>1, <3>5, <3>6 DEF MaxKeyLowerBound
  <2> QED
    BY <2>1, <2>2
<1> QED
  BY <1>2 DEF FindChild

-----------------------------------------------------------------------------
(* One leaf among the others *)

\* The leaves but one are stored, in order.
Rest(c, stored, i) ==
  /\ \A j \in 1 .. Len(c) : j # i => Clean(c[j], stored)
  /\ \A j, k \in 1 .. Len(c) : j # i /\ k # i /\ j < k => c[j].max < c[k].min

\* The keys of those leaves.
Beside(c, stored, i) == UNION {DOMAIN stored[c[j].id] : j \in (1 .. Len(c)) \ {i}}

\* A range in the place of leaf i.
Fits(c, i, lo, hi) ==
  /\ \A j \in 1 .. Len(c) : j < i => c[j].max < lo
  /\ \A j \in 1 .. Len(c) : i < j => hi < c[j].min

\* The keys fit there.
Apart(c, i, K) == \A k \in K : Fits(c, i, k, k)

\* The same leaf, apart from its statistics and its mark.
Alike(a, b) == a.id = b.id /\ a.kvs = b.kvs /\ a.min = b.min /\ a.max = b.max

\* Leaves that are the same but for leaf i, and with another number of leaves there.
SameButOne(c, d, i) ==
  /\ Len(d) = Len(c)
  /\ \A j \in 1 .. Len(c) : j # i => Alike(d[j], c[j]) /\ ~ d[j].unsaved

SameButTwo(c, d, i) ==
  /\ Len(d) = Len(c) + 1
  /\ \A j \in 1 .. Len(c) : j < i => Alike(d[j], c[j]) /\ ~ d[j].unsaved
  /\ \A j \in 1 .. Len(c) : i < j => Alike(d[j + 1], c[j]) /\ ~ d[j + 1].unsaved

SameButNone(c, d, i) ==
  /\ Len(d) = Len(c) - 1
  /\ \A j \in 1 .. Len(d) : LET p == IF j < i THEN j ELSE j + 1
                             IN  Alike(d[j], c[p]) /\ ~ d[j].unsaved

LEMMA AlikeClean ==
  ASSUME NEW a, NEW b, Alike(a, b), ~ a.unsaved, NEW stored, Clean(b, stored)
  PROVE  Clean(a, stored) /\ Items(a, stored) = DOMAIN stored[b.id]
BY DEF Alike, Clean, Items, Bounded, Spans

LEMMA DirtyItems ==
  ASSUME NEW a, Dirty(a), NEW stored
  PROVE  Items(a, stored) = DOMAIN a.kvs /\ a.min \in DOMAIN a.kvs /\ a.max \in DOMAIN a.kvs
BY DEF Dirty, Items, Bounded

\* One leaf replaced by a leaf to be saved.
LEMMA PlaceOne ==
  ASSUME NEW c, NEW d, Len(c) \in Nat, NEW stored, NEW i \in 1 .. Len(c),
         Rest(c, stored, i), SameButOne(c, d, i), Dirty(d[i]), Fits(c, i, d[i].min, d[i].max)
  PROVE  Becomes(d, stored, Beside(c, stored, i) \cup DOMAIN d[i].kvs)
<1>0. /\ Len(d) = Len(c)
      /\ \A j \in 1 .. Len(c) : j # i => Alike(d[j], c[j]) /\ ~ d[j].unsaved
  BY DEF SameButOne
<1>1. ASSUME NEW j \in 1 .. Len(c), j # i
      PROVE  Clean(d[j], stored) /\ Items(d[j], stored) = DOMAIN stored[c[j].id]
  BY <1>0, <1>1, AlikeClean DEF Rest
<1>2. Items(d[i], stored) = DOMAIN d[i].kvs
  BY DirtyItems
<1>3. ASSUME NEW j \in 1 .. Len(d), NEW k \in 1 .. Len(d), j < k
      PROVE  d[j].max < d[k].min
  <2>1. CASE j # i /\ k # i
    BY <1>0, <1>3, <2>1 DEF Rest, Alike
  <2>2. CASE j = i
    BY <1>0, <1>3, <2>2 DEF Fits, Alike
  <2>3. CASE k = i
    BY <1>0, <1>3, <2>3 DEF Fits, Alike
  <2> QED
    BY <2>1, <2>2, <2>3
<1>4. Covered(d, stored) = Beside(c, stored, i) \cup DOMAIN d[i].kvs
  <2>1. ASSUME NEW key
        PROVE  (\E j \in 1 .. Len(c) : key \in Items(d[j], stored))
                 <=> (\/ \E j \in (1 .. Len(c)) \ {i} : key \in DOMAIN stored[c[j].id]
                      \/ key \in DOMAIN d[i].kvs)
    BY <1>1, <1>2
  <2> QED
    BY <1>0, <2>1 DEF Covered, Beside
<1>5. \A j \in 1 .. Len(d) : Clean(d[j], stored) \/ Dirty(d[j])
  BY <1>0, <1>1
<1> QED
  BY <1>3, <1>4, <1>5 DEF Ascending, Becomes

\* One leaf replaced by two.
LEMMA PlaceTwo ==
  ASSUME NEW c, NEW d, Len(c) \in Nat, NEW stored, NEW i \in 1 .. Len(c),
         Rest(c, stored, i), SameButTwo(c, d, i), Dirty(d[i]), Dirty(d[i + 1]),
         d[i].max < d[i + 1].min,
         Fits(c, i, d[i].min, d[i].max), Fits(c, i, d[i + 1].min, d[i + 1].max)
  PROVE  Becomes(d, stored, Beside(c, stored, i) \cup DOMAIN d[i].kvs \cup DOMAIN d[i + 1].kvs)
<1>0. /\ Len(d) = Len(c) + 1
      /\ \A j \in 1 .. Len(c) : j < i => Alike(d[j], c[j]) /\ ~ d[j].unsaved
      /\ \A j \in 1 .. Len(c) : i < j => Alike(d[j + 1], c[j]) /\ ~ d[j + 1].unsaved
  BY DEF SameButTwo
<1> DEFINE old(j) == IF j < i THEN j ELSE j - 1
<1>1. ASSUME NEW j \in 1 .. Len(d), j # i, j # i + 1
      PROVE  /\ old(j) \in 1 .. Len(c) /\ old(j) # i
             /\ old(j) < i <=> j < i
             /\ Alike(d[j], c[old(j)]) /\ ~ d[j].unsaved
             /\ Clean(d[j], stored) /\ Items(d[j], stored) = DOMAIN stored[c[old(j)].id]
  <2>1. PICK p : p = old(j)
    OBVIOUS
  <2>2. p \in 1 .. Len(c) /\ p # i /\ (p < i <=> j < i)
    BY <1>0, <1>1, <2>1
  <2>3. Alike(d[j], c[p]) /\ ~ d[j].unsaved
    <3>1. CASE j < i
      BY <1>0, <2>1, <2>2, <3>1
    <3>2. CASE ~ (j < i)
      <4>1. p = j - 1 /\ i + 1 < j
        BY <1>0, <1>1, <2>1, <3>2
      <4>2. i < p /\ j = p + 1
        BY <1>0, <4>1
      <4> QED
        BY <1>0, <2>2, <4>2
    <3> QED
      BY <3>1, <3>2
  <2>4. Clean(d[j], stored) /\ Items(d[j], stored) = DOMAIN stored[c[p].id]
    BY <2>2, <2>3, AlikeClean DEF Rest
  <2> QED
    BY <2>1, <2>2, <2>3, <2>4
<1>2. Items(d[i], stored) = DOMAIN d[i].kvs /\ Items(d[i + 1], stored) = DOMAIN d[i + 1].kvs
  BY DirtyItems
<1>3. ASSUME NEW j \in 1 .. Len(d), NEW k \in 1 .. Len(d), j < k
      PROVE  d[j].max < d[k].min
  <2>1. CASE j \notin {i, i + 1} /\ k \notin {i, i + 1}
    <3>1. PICK p, q : p = old(j) /\ q = old(k)
      OBVIOUS
    <3>2. p < q
      BY <1>0, <1>3, <2>1, <3>1
    <3>3. /\ p \in 1 .. Len(c) /\ q \in 1 .. Len(c) /\ p # i /\ q # i
          /\ d[j].max = c[p].max /\ d[k].min = c[q].min
      BY <1>1, <2>1, <3>1 DEF Alike
    <3> QED
      BY <3>2, <3>3 DEF Rest
  <2>2. CASE j \in {i, i + 1} /\ k \notin {i, i + 1}
    <3>1. PICK q : q = old(k)
      OBVIOUS
    <3>2. i < q
      BY <1>0, <1>3, <2>2, <3>1
    <3>3. q \in 1 .. Len(c) /\ d[k].min = c[q].min
      BY <1>1, <2>2, <3>1 DEF Alike
    <3> QED
      BY <2>2, <3>2, <3>3 DEF Fits
  <2>3. CASE j \notin {i, i + 1} /\ k \in {i, i + 1}
    <3>1. PICK p : p = old(j)
      OBVIOUS
    <3>2. p < i
      BY <1>0, <1>3, <2>3, <3>1
    <3>3. p \in 1 .. Len(c) /\ d[j].max = c[p].max
      BY <1>1, <2>3, <3>1 DEF Alike
    <3> QED
      BY <2>3, <3>2, <3>3 DEF Fits
  <2>4. CASE j \in {i, i + 1} /\ k \in {i, i + 1}
    <3>1. j = i /\ k = i + 1
      BY <1>0, <1>3, <2>4
    <3> QED
      BY <3>1
  <2> QED
    BY <2>1, <2>2, <2>3, <2>4
<1>4. ASSUME NEW p \in 1 .. Len(c), p # i
      PROVE  \E j \in 1 .. Len(d) : j # i /\ j # i + 1 /\ old(j) = p
  <2>1. CASE p < i
    <3>1. p \in 1 .. Len(d) /\ p # i /\ p # i + 1 /\ old(p) = p
      BY <1>0, <2>1
    <3> QED
      BY <3>1
  <2>2. CASE ~ (p < i)
    <3>1. p + 1 \in 1 .. Len(d) /\ p + 1 # i /\ p + 1 # i + 1 /\ old(p + 1) = p
      BY <1>0, <1>4, <2>2
    <3> QED
      BY <3>1
  <2> QED
    BY <2>1, <2>2
<1> HIDE DEF old
<1>5. Covered(d, stored) = Beside(c, stored, i) \cup DOMAIN d[i].kvs \cup DOMAIN d[i + 1].kvs
  <2>1. i \in 1 .. Len(d) /\ i + 1 \in 1 .. Len(d)
    BY <1>0
  <2>2. ASSUME NEW key
        PROVE  (\E j \in 1 .. Len(d) : key \in Items(d[j], stored))
                 <=> (\/ \E p \in (1 .. Len(c)) \ {i} : key \in DOMAIN stored[c[p].id]
                      \/ key \in DOMAIN d[i].kvs
                      \/ key \in DOMAIN d[i + 1].kvs)
    <3>1. ASSUME NEW j \in 1 .. Len(d), key \in Items(d[j], stored)
          PROVE  \/ \E p \in (1 .. Len(c)) \ {i} : key \in DOMAIN stored[c[p].id]
                 \/ key \in DOMAIN d[i].kvs
                 \/ key \in DOMAIN d[i + 1].kvs
      BY <1>1, <1>2, <3>1
    <3>2. ASSUME NEW p \in (1 .. Len(c)) \ {i}, key \in DOMAIN stored[c[p].id]
          PROVE  \E j \in 1 .. Len(d) : key \in Items(d[j], stored)
      BY <1>1, <1>4, <3>2
    <3> QED
      BY <1>2, <2>1, <3>1, <3>2
  <2> QED
    BY <2>2 DEF Covered, Beside
<1>6. \A j \in 1 .. Len(d) : Clean(d[j], stored) \/ Dirty(d[j])
  BY <1>1
<1> QED
  BY <1>3, <1>5, <1>6 DEF Ascending, Becomes

\* One leaf taken away.
LEMMA PlaceNone ==
  ASSUME NEW c, NEW d, Len(c) \in Nat, NEW stored, NEW i \in 1 .. Len(c),
         Rest(c, stored, i), SameButNone(c, d, i)
  PROVE  Becomes(d, stored, Beside(c, stored, i))
<1>0. Len(d) = Len(c) - 1
  BY DEF SameButNone
<1> DEFINE old(j) == IF j < i THEN j ELSE j + 1
<1>1. ASSUME NEW j \in 1 .. Len(d)
      PROVE  /\ old(j) \in 1 .. Len(c) /\ old(j) # i /\ Alike(d[j], c[old(j)])
             /\ Clean(d[j], stored) /\ Items(d[j], stored) = DOMAIN stored[c[old(j)].id]
  <2>1. PICK p : p = old(j)
    OBVIOUS
  <2>2. p \in 1 .. Len(c) /\ p # i
    BY <1>0, <2>1
  <2>3. Alike(d[j], c[p]) /\ ~ d[j].unsaved
    BY <2>1 DEF SameButNone
  <2>4. Clean(d[j], stored) /\ Items(d[j], stored) = DOMAIN stored[c[p].id]
    BY <2>2, <2>3, AlikeClean DEF Rest
  <2> QED
    BY <2>1, <2>2, <2>3, <2>4
<1>2. ASSUME NEW j \in 1 .. Len(d), NEW k \in 1 .. Len(d), j < k
      PROVE  d[j].max < d[k].min
  <2>1. PICK p, q : p = old(j) /\ q = old(k)
    OBVIOUS
  <2>2. p < q
    BY <1>2, <2>1
  <2>3. /\ p \in 1 .. Len(c) /\ q \in 1 .. Len(c) /\ p # i /\ q # i
        /\ d[j].max = c[p].max /\ d[k].min = c[q].min
    BY <1>1, <2>1 DEF Alike
  <2> QED
    BY <2>2, <2>3 DEF Rest
<1>3. ASSUME NEW p \in 1 .. Len(c), p # i PROVE \E j \in 1 .. Len(d) : old(j) = p
  <2>1. CASE p < i
    <3>1. p \in 1 .. Len(d) /\ old(p) = p
      BY <1>0, <2>1
    <3> QED
      BY <3>1
  <2>2. CASE ~ (p < i)
    <3>1. p - 1 \in 1 .. Len(d) /\ old(p - 1) = p
      BY <1>0, <1>3, <2>2
    <3> QED
      BY <3>1
  <2> QED
    BY <2>1, <2>2
<1> HIDE DEF old
<1>4. Covered(d, stored) = Beside(c, stored, i)
  <2>1. ASSUME NEW key
        PROVE  (\E j \in 1 .. Len(d) : key \in Items(d[j], stored))
                 <=> (\E p \in (1 .. Len(c)) \ {i} : key \in DOMAIN stored[c[p].id])
    BY <1>1, <1>3
  <2> QED
    BY <2>1 DEF Covered, Beside
<1> QED
  BY <1>1, <1>2, <1>4 DEF Ascending, Becomes

\* What the agreement says of the leaves.
LEMMA AgreedLeaves ==
  ASSUME NEW t, t.children \in Seq(LeafType), NEW d, StoreOK(d.leaf), Agrees(t, d)
  PROVE  /\ Len(d.root) = Len(t.children)
         /\ KeysOf(d) = Covered(t.children, d.leaf)
         /\ Ranged(t.children)
         /\ \A i \in 1 .. Len(t.children) :
              LET D == DOMAIN d.leaf[t.children[i].id]
              IN  Clean(t.children[i], d.leaf) /\ D \in SUBSET Keys /\ Bounded(t.children[i], D)
<1> DEFINE c == t.children
<1>1. /\ Len(c) \in Nat /\ Len(d.root) = Len(c)
      /\ \A i \in 1 .. Len(c) : d.root[i].id = c[i].id
  BY DEF Agrees, RefsOf
<1>2. ASSUME NEW i \in 1 .. Len(c)
      PROVE  Clean(c[i], d.leaf) /\ Items(c[i], d.leaf) = DOMAIN d.leaf[c[i].id]
  BY DEF Agrees, Clean, Items
<1>3. /\ Ranged(c)
      /\ \A i \in 1 .. Len(c) : Items(c[i], d.leaf) \in SUBSET Keys
                                /\ Bounded(c[i], Items(c[i], d.leaf))
  BY <1>2, SoundRanges DEF Agrees
<1>4. KeysOf(d) = Covered(c, d.leaf)
  BY <1>1, <1>2 DEF KeysOf, Covered
<1> QED
  BY <1>1, <1>2, <1>3, <1>4

\* A key in the range of a leaf is in no other.
LEMMA OtherRange ==
  ASSUME NEW c, Len(c) \in Nat, Ranged(c), NEW i \in 1 .. Len(c), NEW j \in 1 .. Len(c),
         NEW key \in Keys, c[i].min <= key, key <= c[i].max, c[j].min <= key, key <= c[j].max
  PROVE  j = i
<1>1. /\ c[i].min \in Nat /\ c[i].max \in Nat /\ c[j].min \in Nat /\ c[j].max \in Nat
      /\ key \in Nat /\ i \in Nat /\ j \in Nat
  BY DEF Ranged, Keys
<1>2. /\ i < j => c[i].max < c[j].min
      /\ j < i => c[j].max < c[i].min
  BY DEF Ranged, Ascending
<1>3. ~ (i < j) /\ ~ (j < i)
  BY <1>1, <1>2
<1> QED
  BY <1>1, <1>3

\* What it says of one leaf among the others.
LEMMA AgreedLeaf ==
  ASSUME NEW t, t.children \in Seq(LeafType), NEW d, StoreOK(d.leaf), Agrees(t, d),
         NEW i \in 1 .. Len(t.children), NEW D, D = DOMAIN d.leaf[t.children[i].id]
  PROVE  /\ Rest(t.children, d.leaf, i) /\ Apart(t.children, i, D)
         /\ KeysOf(d) = Beside(t.children, d.leaf, i) \cup D
         /\ \A key \in Beside(t.children, d.leaf, i) :
              ~ (t.children[i].min <= key /\ key <= t.children[i].max)
<1> DEFINE c == t.children
<1>1. /\ KeysOf(d) = Covered(c, d.leaf) /\ Ranged(c) /\ Len(c) \in Nat
      /\ \A j \in 1 .. Len(c) : /\ Clean(c[j], d.leaf)
                                /\ DOMAIN d.leaf[c[j].id] \in SUBSET Keys
                                /\ Bounded(c[j], DOMAIN d.leaf[c[j].id])
  BY AgreedLeaves
<1>2. Rest(c, d.leaf, i)
  BY <1>1 DEF Rest, Ranged, Ascending
<1>3. Apart(c, i, D)
  <2>1. ASSUME NEW k \in D, NEW j \in 1 .. Len(c)
        PROVE  /\ j < i => c[j].max < k
               /\ i < j => k < c[j].min
    <3>1. /\ k \in Nat /\ c[i].min <= k /\ k <= c[i].max
          /\ c[i].min \in Nat /\ c[i].max \in Nat /\ c[j].min \in Nat /\ c[j].max \in Nat
      <4>1. k \in Keys /\ c[i].min <= k /\ k <= c[i].max
        BY <1>1 DEF Bounded, Spans
      <4>2. /\ c[i].min \in Keys /\ c[i].max \in Keys
            /\ c[j].min \in Keys /\ c[j].max \in Keys
        BY <1>1 DEF Ranged
      <4> QED
        BY <4>1, <4>2 DEF Keys
    <3>2. /\ j < i => c[j].max < c[i].min
          /\ i < j => c[i].max < c[j].min
      BY <1>1 DEF Ranged, Ascending
    <3> QED
      BY <3>1, <3>2
  <2> QED
    BY <2>1 DEF Apart, Fits
<1>4. KeysOf(d) = Beside(c, d.leaf, i) \cup D
  <2>1. \A j \in 1 .. Len(c) : Items(c[j], d.leaf) = DOMAIN d.leaf[c[j].id]
    BY <1>1 DEF Clean, Items
  <2> QED
    BY <1>1, <2>1 DEF Covered, Beside
<1>5. ASSUME NEW key \in Beside(c, d.leaf, i), c[i].min <= key, key <= c[i].max PROVE FALSE
  <2>1. PICK j \in (1 .. Len(c)) \ {i} : key \in DOMAIN d.leaf[c[j].id]
    BY DEF Beside
  <2>2. key \in Keys /\ c[j].min <= key /\ key <= c[j].max
    BY <1>1, <2>1 DEF Bounded, Spans
  <2> QED
    BY <1>1, <1>5, <2>1, <2>2, OtherRange
<1> QED
  BY <1>2, <1>3, <1>4, <1>5

\* References to the same statistics.
LEMMA SameRefs ==
  ASSUME NEW c \in Seq(LeafType), NEW e \in Seq(LeafType), Len(e) = Len(c),
         \A i \in 1 .. Len(c) : /\ e[i].id = c[i].id /\ e[i].count = c[i].count
                                /\ e[i].size = c[i].size /\ e[i].min = c[i].min
                                /\ e[i].max = c[i].max
  PROVE  RefsOf(e) = RefsOf(c)
BY DEF RefsOf

\* A visit reads exactly the record.
LEMMA VisitExact ==
  ASSUME NEW leaf, LeafOK(leaf), NEW stored, Clean(leaf, stored),
         NEW new, new = Load(leaf, stored)
  PROVE  /\ DOMAIN new.kvs = DOMAIN stored[leaf.id] /\ new.id = leaf.id
         /\ new.count = leaf.count /\ new.size = leaf.size
         /\ new.min = leaf.min /\ new.max = leaf.max /\ Clean(new, stored)
<1> DEFINE f == [k \in DOMAIN leaf.kvs \cup DOMAIN stored[leaf.id] |->
                   IF k \in DOMAIN leaf.kvs THEN leaf.kvs[k] ELSE stored[leaf.id][k]]
<1>1. new = [leaf EXCEPT !.kvs = f]
  BY DEF Load, Deserialize, Clean
<1>2. DOMAIN f = DOMAIN stored[leaf.id]
  BY DEF Clean
<1> HIDE DEF f
<1>3. /\ DOMAIN new.kvs = DOMAIN stored[leaf.id] /\ new.id = leaf.id
      /\ new.count = leaf.count /\ new.size = leaf.size
      /\ new.min = leaf.min /\ new.max = leaf.max /\ new.unsaved = leaf.unsaved
  BY <1>1, <1>2 DEF LeafOK, LeafType
<1>4. Clean(new, stored)
  BY <1>3 DEF Clean, Bounded, Spans
<1> QED
  BY <1>3, <1>4

\* After a visit the session still agrees, and the leaf has all items of its record.
LEMMA VisitAgrees ==
  ASSUME NEW t, TreeIn(t, Keys), NEW d, DiskIn(d, Keys), Agrees(t, d),
         NEW i \in 1 .. Len(t.children), NEW u, u = LoadChild(t, i, d.leaf)
  PROVE  /\ TreeIn(u, Keys) /\ Len(u.children) = Len(t.children) /\ Agrees(u, d)
         /\ \A j \in 1 .. Len(t.children) : /\ u.children[j].id = t.children[j].id
                                            /\ u.children[j].min = t.children[j].min
                                            /\ u.children[j].max = t.children[j].max
         /\ DOMAIN u.children[i].kvs = DOMAIN d.leaf[u.children[i].id]
<1> DEFINE c == t.children
           e == u.children
<1>1. TreeIn(u, Keys) /\ Len(e) = Len(c)
  BY LoadChildIn DEF DiskIn
<1>2. PICK leaf : leaf = c[i]
  OBVIOUS
<1>3. LeafOK(leaf) /\ c \in Seq(LeafType) /\ t \in TreeType /\ e \in Seq(LeafType)
  BY <1>1, <1>2 DEF TreeIn, LeavesIn, LeafIn
<1>4. \A j \in 1 .. Len(c) : Clean(c[j], d.leaf)
  BY DEF Agrees
<1>5. PICK new : new = Load(leaf, d.leaf)
  OBVIOUS
<1>6. e[i] = new /\ u.unsaved = t.unsaved /\ \A j \in 1 .. Len(c) : j # i => e[j] = c[j]
  <2>1. u = [t EXCEPT !.children = [@ EXCEPT ![i] = Load(t.children[i], d.leaf)]]
    BY <1>3 DEF LoadChild, TreeType
  <2> QED
    BY <1>2, <1>3, <1>5, <2>1 DEF TreeType
<1>7. /\ DOMAIN new.kvs = DOMAIN d.leaf[leaf.id] /\ new.id = leaf.id
      /\ new.count = leaf.count /\ new.size = leaf.size
      /\ new.min = leaf.min /\ new.max = leaf.max /\ Clean(new, d.leaf)
  BY <1>2, <1>3, <1>4, <1>5, VisitExact
<1> HIDE DEF e
<1>8. ASSUME NEW j \in 1 .. Len(c)
      PROVE  /\ e[j].id = c[j].id /\ e[j].count = c[j].count /\ e[j].size = c[j].size
             /\ e[j].min = c[j].min /\ e[j].max = c[j].max /\ Clean(e[j], d.leaf)
  <2>1. CASE j = i
    BY <1>2, <1>6, <1>7, <2>1
  <2>2. CASE j # i
    BY <1>4, <1>6, <2>2
  <2> QED
    BY <2>1, <2>2
<1>9. RefsOf(e) = RefsOf(c)
  BY <1>1, <1>3, <1>8, SameRefs
<1>10. Agrees(u, d)
  BY <1>1, <1>6, <1>8, <1>9 DEF Agrees, Ascending, e
<1> QED
  BY <1>1, <1>2, <1>6, <1>7, <1>8, <1>10 DEF e

\* Collecting a leaf changes only marks, and marks only that leaf.
LEMMA CollectAlike ==
  ASSUME NEW c \in Seq(LeafType), NEW at, NEW d, d = Collect(c, at)
  PROVE  /\ Len(d) = Len(c)
         /\ \A j \in 1 .. Len(c) :
              /\ Alike(d[j], c[j])
              /\ j = at => d[j].unsaved
              /\ j # at /\ ~ c[j].unsaved => ~ d[j].unsaved
              /\ c[j].unsaved /\ c[j].id # c[at].id => d[j].unsaved
<1>1. Len(d) = Len(c)
  BY DEF Collect
<1>2. ASSUME NEW j \in 1 .. Len(c)
      PROVE  /\ Alike(d[j], c[j])
             /\ j = at => d[j].unsaved
             /\ j # at /\ ~ c[j].unsaved => ~ d[j].unsaved
             /\ c[j].unsaved /\ c[j].id # c[at].id => d[j].unsaved
  <2>1. PICK leaf : leaf = c[j]
    OBVIOUS
  <2>2. leaf \in LeafType
    BY <2>1
  <2>3. PICK b \in BOOLEAN : b = (j = at \/ (leaf.unsaved /\ leaf.id # c[at].id))
    OBVIOUS
  <2>4. d[j] = [leaf EXCEPT !.unsaved = b]
    BY <2>1, <2>3 DEF Collect
  <2>5. /\ d[j].id = leaf.id /\ d[j].kvs = leaf.kvs /\ d[j].min = leaf.min
        /\ d[j].max = leaf.max /\ d[j].unsaved = b
    BY <2>2, <2>4 DEF LeafType
  <2> QED
    BY <2>1, <2>3, <2>5 DEF Alike
<1> QED
  BY <1>1, <1>2

\* They stay leaves.
LEMMA CollectTyped ==
  ASSUME NEW c \in Seq(LeafType), NEW at
  PROVE  Collect(c, at) \in Seq(LeafType)
<1>1. Len(c) \in Nat
  OBVIOUS
<1>2. ASSUME NEW j \in 1 .. Len(c) PROVE Collect(c, at)[j] \in LeafType
  <2>1. PICK leaf \in LeafType : leaf = c[j]
    OBVIOUS
  <2>2. PICK b \in BOOLEAN : b = (j = at \/ (leaf.unsaved /\ leaf.id # c[at].id))
    OBVIOUS
  <2>3. Collect(c, at)[j] = [leaf EXCEPT !.unsaved = b]
    BY <2>1, <2>2 DEF Collect
  <2> QED
    BY <2>3 DEF LeafType
<1>3. Collect(c, at) = [j \in 1 .. Len(c) |-> Collect(c, at)[j]]
  BY DEF Collect
<1> QED
  BY <1>1, <1>2, <1>3

\* TreeCtx::RemoveUnsavedTreeNode changes only marks, and marks nothing.
LEMMA RemoveUnsavedAlike ==
  ASSUME NEW c \in Seq(LeafType), NEW id, NEW d, d = RemoveUnsaved(c, id)
  PROVE  /\ Len(d) = Len(c)
         /\ \A j \in 1 .. Len(c) : Alike(d[j], c[j]) /\ (~ c[j].unsaved => ~ d[j].unsaved)
<1>1. Len(d) = Len(c)
  BY DEF RemoveUnsaved
<1>2. ASSUME NEW j \in 1 .. Len(c)
      PROVE  Alike(d[j], c[j]) /\ (~ c[j].unsaved => ~ d[j].unsaved)
  <2>1. PICK leaf : leaf = c[j]
    OBVIOUS
  <2>2. leaf \in LeafType
    BY <2>1
  <2>3. PICK b : b = (leaf.unsaved /\ leaf.id # id)
    OBVIOUS
  <2>4. d[j] = [leaf EXCEPT !.unsaved = b]
    BY <2>1, <2>3 DEF RemoveUnsaved
  <2>5. /\ d[j].id = leaf.id /\ d[j].kvs = leaf.kvs /\ d[j].min = leaf.min
        /\ d[j].max = leaf.max /\ d[j].unsaved = b
    BY <2>2, <2>4 DEF LeafType
  <2> QED
    BY <2>1, <2>3, <2>5 DEF Alike
<1> QED
  BY <1>1, <1>2

\* The first key is both ends; another key is one if it is outside.
LEMMA InsertBounds ==
  ASSUME NEW leaf, LeafOK(leaf), NEW key \in Keys, key \notin DOMAIN leaf.kvs,
         NEW value \in Values, NEW K, K = DOMAIN leaf.kvs, K # {} => Bounded(leaf, K),
         NEW new, new = UpdateStatByAddKV(PutItem(leaf, key, value), key)
  PROVE  /\ DOMAIN new.kvs = K \cup {key} /\ Bounded(new, K \cup {key})
<1>1. Spans(leaf, K)
  BY DEF Bounded, Spans
<1>2. DOMAIN new.kvs = K \cup {key} /\ Spans(new, K \cup {key})
  BY <1>1, InsertSpans
<1>3. PICK put : put = PutItem(leaf, key, value)
  OBVIOUS
<1>4. /\ LeafOK(put) /\ DOMAIN put.kvs = K \cup {key}
      /\ put.min = leaf.min /\ put.max = leaf.max
  <2>1. PICK w, f : put = [leaf EXCEPT !.written = w, !.kvs = f]
    BY <1>3 DEF PutItem
  <2>2. put.min = leaf.min /\ put.max = leaf.max
    BY <2>1 DEF LeafOK, LeafType
  <2> QED
    BY <1>3, <2>2, PutItemOK, PutKeys
<1> DEFINE n == Cardinality(DOMAIN put.kvs)
           hi == IF n = 1 \/ key > put.max THEN key ELSE put.max
           lo == IF n = 1 \/ key < put.min THEN key ELSE put.min
<1>5. new.min = lo /\ new.max = hi
  <2>1. PICK c, z : new = [put EXCEPT !.count = c, !.size = z, !.max = hi, !.min = lo]
    BY <1>3, Zenon DEF UpdateStatByAddKV
  <2> HIDE DEF hi, lo
  <2> QED
    BY <1>4, <2>1 DEF LeafOK, LeafType
<1>6. K = {} => n = 1
  <2>1. ASSUME K = {} PROVE n = 1
    <3>1. DOMAIN put.kvs = {key}
      BY <1>4, <2>1
    <3> QED
      BY <3>1, FS_Singleton
  <2> QED
    BY <2>1
<1> HIDE DEF n
<1>7. new.min \in K \cup {key} /\ new.max \in K \cup {key}
  BY <1>4, <1>5, <1>6 DEF Bounded
<1> QED
  BY <1>2, <1>7 DEF Bounded

\* The ends of a set of keys.
LEMMA EndsOfKeys ==
  ASSUME NEW S \in SUBSET Keys, S # {}
  PROVE  Min(S) \in S /\ Max(S) \in S /\ \A y \in S : Min(S) <= y /\ y <= Max(S)
<1>1. Min(S) \in S /\ Max(S) \in S /\ \A y \in S : Min(S) <= y /\ Max(S) >= y
  BY MinKey, MaxKeyOf
<1>2. ASSUME NEW y \in S PROVE y <= Max(S)
  <2>1. PICK m : m = Max(S)
    OBVIOUS
  <2>2. m \in S /\ m >= y
    BY <1>1, <2>1
  <2>3. m \in Nat /\ y \in Nat
    BY <2>2 DEF Keys
  <2> QED
    BY <2>1, <2>2, <2>3
<1> QED
  BY <1>1, <1>2

\* Split gives the upper keys to the new leaf, and both halves know their ends.
LEMMA SplitExact ==
  ASSUME NEW leaf, LeafOK(leaf), LeafNeedSplit(leaf), NEW id \in Nat,
         NEW left, left = SplitLeft(leaf), NEW right, right = SplitRight(leaf, id)
  PROVE  /\ DOMAIN left.kvs \cup DOMAIN right.kvs = DOMAIN leaf.kvs
         /\ Bounded(left, DOMAIN left.kvs) /\ Bounded(right, DOMAIN right.kvs)
         /\ left.max < right.min
<1> DEFINE D == DOMAIN leaf.kvs
           R == RightKeys(leaf)
           L == D \ R
           Below(k) == {j \in D : j < k}
<1>1. leaf \in LeafType /\ NewLeaf(id) \in LeafType /\ D \in SUBSET Keys
  BY NewLeafOK, LeafElim DEF LeafOK
<1>2. R \in SUBSET Keys /\ L \in SUBSET Keys /\ R # {} /\ L # {} /\ L \cup R = D
  BY <1>1, SplitParts
<1>3. PICK lo, hi : lo = Max(L) /\ hi = Min(R)
  OBVIOUS
<1>4. /\ DOMAIN left.kvs = L /\ left.min = Min(L) /\ left.max = lo
  <2>1. PICK w, c, z, f, a :
          /\ left = [leaf EXCEPT !.kvs = f, !.written = w, !.count = c, !.size = z,
                                 !.min = a, !.max = lo]
          /\ f = Restrict(leaf.kvs, L) /\ a = Min(L)
    BY <1>3, Zenon DEF SplitLeft
  <2>2. DOMAIN f = L
    BY <2>1 DEF Restrict
  <2> QED
    BY <1>1, <2>1, <2>2 DEF LeafType
<1>5. /\ DOMAIN right.kvs = R /\ right.min = hi /\ right.max = Max(R)
  <2>1. PICK new : new = NewLeaf(id)
    OBVIOUS
  <2>2. PICK z, f, b :
          /\ right = [new EXCEPT !.kvs = f, !.written = R, !.size = z,
                                 !.min = hi, !.max = b]
          /\ f = Restrict(leaf.kvs, R) /\ b = Max(R)
    BY <1>3, <2>1, Zenon DEF SplitRight
  <2>3. DOMAIN f = R
    BY <2>2 DEF Restrict
  <2> QED
    BY <1>1, <2>1, <2>2, <2>3 DEF LeafType
<1>6. ASSUME NEW r \in R, NEW k \in D, r < k PROVE k \in R
  <2>1. Below(r) \subseteq Below(k)
    <3>1. ASSUME NEW j \in D, j < r PROVE j < k
      BY <1>1, <1>2, <1>6, <3>1 DEF Keys
    <3> QED
      BY <3>1
  <2>2. Below(k) \in SUBSET Keys /\ Below(r) \in SUBSET Keys
    BY <1>1
  <2>3. PICK m, n, p : m = Cardinality(Below(r)) /\ n = Cardinality(Below(k)) /\ p = Cardinality(D)
    OBVIOUS
  <2>4. m \in Nat /\ n \in Nat /\ p \in Nat /\ m <= n
    BY <1>1, <2>1, <2>2, <2>3, KeysFinite, FS_Subset
  <2>5. 2 * m >= p
    BY <2>3 DEF RightKeys
  <2>6. 2 * n >= p
    BY <2>4, <2>5
  <2> QED
    BY <2>3, <2>6 DEF RightKeys
<1>7. lo \in L /\ hi \in R
  BY <1>2, <1>3, MinKey, MaxKeyOf
<1>8. lo < hi
  <2>1. lo \in Nat /\ hi \in Nat /\ lo # hi
    BY <1>2, <1>7 DEF Keys
  <2>2. ~ (hi < lo)
    BY <1>2, <1>6, <1>7
  <2> QED
    BY <2>1, <2>2
<1>9. Bounded(left, L) /\ Bounded(right, R)
  BY <1>2, <1>3, <1>4, <1>5, EndsOfKeys DEF Bounded, Spans
<1> QED
  BY <1>2, <1>4, <1>5, <1>8, <1>9

\* The ranges of the other leaves.
LEMMA RestRanged ==
  ASSUME NEW c \in Seq(LeafType), NEW stored, StoreOK(stored), NEW i \in 1 .. Len(c),
         Rest(c, stored, i), NEW j \in 1 .. Len(c), j # i
  PROVE  /\ c[j].min \in Keys /\ c[j].max \in Keys /\ c[j].min <= c[j].max
         /\ ~ c[j].unsaved
<1>1. Clean(c[j], stored)
  BY DEF Rest
<1>2. stored[c[j].id] \in KVs
  BY <1>1 DEF Clean, StoreOK
<1>3. DOMAIN stored[c[j].id] \in SUBSET Keys
  BY <1>2, KVsElim
<1> QED
  BY <1>1, <1>3, BoundedRange DEF Clean

\* std::upper_bound puts a range behind the leaf it follows.
LEMMA UpperPlace ==
  ASSUME NEW c \in Seq(LeafType), SortedByMax(c), NEW i \in 1 .. Len(c), NEW hi \in Keys,
         \A j \in 1 .. Len(c) : c[j].max \in Nat, c[i].max <= hi,
         \A j \in 1 .. Len(c) : i < j => hi < c[j].max,
         NEW at \in MaxKeyUpperBound(c, hi)
  PROVE  at = i + 1
<1>1. Len(c) \in Nat /\ hi \in Nat /\ i \in Nat
  BY DEF Keys
<1>2. /\ at \in 1 .. Len(c) + 1
      /\ \A j \in 1 .. at - 1 : c[j].max <= hi
      /\ at <= Len(c) => c[at].max > hi
  BY DEF MaxKeyUpperBound
<1>3. ASSUME at <= i PROVE FALSE
  <2>1. at \in 1 .. Len(c) /\ c[at].max > hi
    BY <1>1, <1>2, <1>3
  <2>2. c[at].max <= c[i].max
    <3>1. CASE at = i
      BY <2>1, <3>1
    <3>2. CASE at < i
      BY <2>1, <3>2 DEF SortedByMax
    <3> QED
      BY <1>1, <1>2, <1>3, <3>1, <3>2
  <2>3. c[at].max \in Nat /\ c[i].max \in Nat
    BY <2>1
  <2> QED
    BY <1>1, <2>1, <2>2, <2>3
<1>4. ASSUME i + 1 < at PROVE FALSE
  <2>1. i + 1 \in 1 .. Len(c) /\ i + 1 \in 1 .. at - 1 /\ i < i + 1
    BY <1>1, <1>2, <1>4
  <2>2. c[i + 1].max <= hi /\ hi < c[i + 1].max /\ c[i + 1].max \in Nat
    BY <1>2, <2>1
  <2> QED
    BY <1>1, <2>2
<1> QED
  BY <1>1, <1>2, <1>3, <1>4

\* A leaf that is collected as it is.
LEMMA AlikeDirty ==
  ASSUME NEW a, NEW b, Alike(a, b), a.unsaved, Bounded(b, DOMAIN b.kvs)
  PROVE  Dirty(a) /\ DOMAIN a.kvs = DOMAIN b.kvs /\ a.min = b.min /\ a.max = b.max
BY DEF Alike, Dirty, Bounded, Spans

DifferentIds(c) == \A i, j \in 1 .. Len(c) : i # j => c[i].id # c[j].id

\* One leaf added.
LEMMA AddedLeaves ==
  ASSUME NEW c, c \in Seq(LeafType), NEW p \in 1 .. Len(c) + 1, NEW leaf, leaf \in LeafType
  PROVE  /\ AddChild(c, p, leaf) \in Seq(LeafType) /\ Len(AddChild(c, p, leaf)) = Len(c) + 1
         /\ \A j \in 1 .. Len(c) + 1 :
              AddChild(c, p, leaf)[j] = IF j < p THEN c[j] ELSE IF j = p THEN leaf ELSE c[j - 1]
<1> DEFINE d == InsertAt(c, p, leaf)
<1>1. AddChild(c, p, leaf) = d
  BY DEF AddChild
<1>2. PICK T : T = LeafType
  OBVIOUS
<1>3. c \in Seq(T) /\ leaf \in T
  BY <1>2
<1>4. /\ d \in Seq(T) /\ Len(d) = Len(c) + 1
      /\ \A j \in 1 .. Len(c) + 1 :
           d[j] = IF j < p THEN c[j] ELSE IF j = p THEN leaf ELSE c[j - 1]
  BY <1>3, InsertAtProperties
<1> HIDE DEF d
<1> QED
  BY <1>1, <1>2, <1>4

\* The leaves after an insert into leaf i: without a split, and with one.
PutLeaf(c, i, leaf) == Collect(ReplaceAt(c, i, leaf), i)

PutHalves(c, i, leaf, id, at) ==
  LET grown == AddChild(ReplaceAt(c, i, SplitLeft(leaf)), at, SplitRight(leaf, id))
  IN  Collect(Collect(grown, at), IF at <= i THEN i + 1 ELSE i)

\* A leaf that got a key, in its place, not split.
LEMMA PutWhole ==
  ASSUME NEW c \in Seq(LeafType), NEW i \in 1 .. Len(c), NEW leaf \in LeafType,
         NEW S, S = DOMAIN leaf.kvs, Bounded(leaf, S),
         NEW stored, StoreOK(stored), Rest(c, stored, i), Apart(c, i, S),
         NEW d, d = PutLeaf(c, i, leaf)
  PROVE  Becomes(d, stored, Beside(c, stored, i) \cup S)
<1> DEFINE e == ReplaceAt(c, i, leaf)
<1>1. d = Collect(e, i)
  BY DEF PutLeaf
<1>2. /\ e \in Seq(LeafType) /\ Len(e) = Len(c) /\ Len(c) \in Nat
      /\ \A j \in 1 .. Len(c) : e[j] = IF j = i THEN leaf ELSE c[j]
  BY ReplaceAtProperties
<1> HIDE DEF e
<1>3. /\ Len(d) = Len(e)
      /\ \A j \in 1 .. Len(e) : /\ Alike(d[j], e[j]) /\ (j = i => d[j].unsaved)
                                /\ j # i /\ ~ e[j].unsaved => ~ d[j].unsaved
  BY <1>1, <1>2, CollectAlike
<1>4. Dirty(d[i]) /\ DOMAIN d[i].kvs = S /\ d[i].min = leaf.min /\ d[i].max = leaf.max
  <2>1. Alike(d[i], leaf) /\ d[i].unsaved
    BY <1>2, <1>3
  <2> QED
    BY <2>1, AlikeDirty
<1>5. Fits(c, i, d[i].min, d[i].max)
  BY <1>4 DEF Apart, Fits, Bounded
<1>6. SameButOne(c, d, i)
  BY <1>2, <1>3, RestRanged DEF SameButOne
<1>7. Becomes(d, stored, Beside(c, stored, i) \cup DOMAIN d[i].kvs)
  BY <1>2, <1>3, <1>4, <1>5, <1>6, PlaceOne
<1> QED
  BY <1>4, <1>7

\* A leaf that got a key, split in two.
LEMMA PutSplit ==
  ASSUME NEW c \in Seq(LeafType), NEW i \in 1 .. Len(c), NEW leaf, LeafOK(leaf),
         LeafNeedSplit(leaf), NEW id \in Nat,
         NEW S, S = DOMAIN leaf.kvs,
         NEW stored, StoreOK(stored), Rest(c, stored, i), Apart(c, i, S),
         NEW at \in MaxKeyUpperBound(ReplaceAt(c, i, SplitLeft(leaf)), SplitRight(leaf, id).max),
         NEW d, d = PutHalves(c, i, leaf, id, at), DifferentIds(d)
  PROVE  Becomes(d, stored, Beside(c, stored, i) \cup S)
<1> DEFINE left == SplitLeft(leaf)
           right == SplitRight(leaf, id)
           kept == ReplaceAt(c, i, left)
           g == AddChild(kept, at, right)
           e == Collect(g, at)
<1>0. d = Collect(e, IF at <= i THEN i + 1 ELSE i) /\ at \in MaxKeyUpperBound(kept, right.max)
  BY DEF PutHalves
<1>1. /\ LeafOK(left) /\ LeafOK(right) /\ left \in LeafType /\ right \in LeafType
      /\ Len(c) \in Nat /\ S \in SUBSET Keys
  BY SplitLeftOK, SplitRightOK, LeafElim DEF LeafOK
<1>2. PICK L, R : L = DOMAIN left.kvs /\ R = DOMAIN right.kvs
  OBVIOUS
<1>3. L \cup R = S /\ Bounded(left, L) /\ Bounded(right, R) /\ left.max < right.min
  BY <1>2, SplitExact
<1> HIDE DEF left, right
<1>4. /\ left.min \in S /\ left.max \in S /\ right.min \in S /\ right.max \in S
      /\ left.min <= left.max /\ right.min <= right.max
  BY <1>3 DEF Bounded, Spans
<1>5. /\ left.min \in Nat /\ left.max \in Nat /\ right.min \in Nat /\ right.max \in Nat
      /\ right.max \in Keys
  BY <1>1, <1>4 DEF Keys
<1>6. /\ kept \in Seq(LeafType) /\ Len(kept) = Len(c)
      /\ \A j \in 1 .. Len(c) : kept[j] = IF j = i THEN left ELSE c[j]
  BY <1>1, ReplaceAtProperties
<1> HIDE DEF kept
<1>7. \A j \in 1 .. Len(c) : j # i => /\ c[j].min \in Nat /\ c[j].max \in Nat
                                      /\ c[j].min <= c[j].max /\ ~ c[j].unsaved
  BY RestRanged DEF Keys
<1>8. /\ \A k \in S : \A j \in 1 .. Len(c) : j < i => c[j].max < k
      /\ \A k \in S : \A j \in 1 .. Len(c) : i < j => k < c[j].min
  BY DEF Apart, Fits
<1>9. at = i + 1
  <2>1. \A j \in 1 .. Len(kept) : kept[j].max \in Nat
    BY <1>5, <1>6, <1>7
  <2>2. kept[i].max <= right.max
    BY <1>3, <1>4, <1>5, <1>6
  <2>3. ASSUME NEW j \in 1 .. Len(kept), i < j PROVE right.max < kept[j].max
    <3>1. kept[j] = c[j] /\ right.max < c[j].min /\ c[j].min <= c[j].max
          /\ c[j].min \in Nat /\ c[j].max \in Nat
      BY <1>4, <1>6, <1>7, <1>8, <2>3
    <3> QED
      BY <1>5, <3>1
  <2>4. ASSUME NEW j \in 1 .. Len(kept), NEW k \in 1 .. Len(kept), j < k
        PROVE  kept[j].max <= kept[k].max
    <3>1. CASE j = i
      <4>1. kept[j].max <= right.max /\ right.max < kept[k].max
        BY <2>2, <2>3, <2>4, <3>1
      <4> QED
        BY <1>5, <2>1, <4>1
    <3>2. CASE k = i
      <4>1. kept[j] = c[j] /\ kept[k] = left /\ c[j].max < left.max
        BY <1>4, <1>6, <1>8, <2>4, <3>2
      <4> QED
        BY <1>5, <2>1, <4>1
    <3>3. CASE j # i /\ k # i
      <4>1. kept[j] = c[j] /\ kept[k] = c[k] /\ j \in 1 .. Len(c) /\ k \in 1 .. Len(c)
        BY <1>6, <1>7, <2>4, <3>3
      <4>2. c[j].max < c[k].min
        <5>1. j < k /\ j # i /\ k # i
          BY <2>4, <3>3
        <5> QED
          BY <4>1, <5>1 DEF Rest
      <4>3. c[k].min <= c[k].max /\ c[k].min \in Nat
        BY <1>7, <3>3, <4>1
      <4> QED
        BY <2>1, <4>1, <4>2, <4>3
    <3> QED
      BY <3>1, <3>2, <3>3
  <2>5. SortedByMax(kept)
    BY <2>4 DEF SortedByMax
  <2>6. i \in 1 .. Len(kept)
    BY <1>6
  <2> QED
    BY <1>0, <1>5, <1>6, <2>1, <2>2, <2>3, <2>5, <2>6, UpperPlace
<1>11. /\ g \in Seq(LeafType) /\ Len(g) = Len(c) + 1
       /\ \A j \in 1 .. Len(c) + 1 :
            g[j] = IF j < i + 1 THEN kept[j] ELSE IF j = i + 1 THEN right ELSE kept[j - 1]
  <2>1. i + 1 \in 1 .. Len(kept) + 1 /\ g = AddChild(kept, i + 1, right)
    BY <1>1, <1>6, <1>9
  <2> HIDE DEF g
  <2>2. PICK p \in 1 .. Len(kept) + 1 : p = i + 1
    BY <2>1
  <2>3. g = AddChild(kept, p, right)
    BY <2>1, <2>2
  <2>4. /\ g \in Seq(LeafType) /\ Len(g) = Len(kept) + 1
        /\ \A j \in 1 .. Len(kept) + 1 :
             g[j] = IF j < p THEN kept[j] ELSE IF j = p THEN right ELSE kept[j - 1]
    <3>1. kept \in Seq(LeafType) /\ right \in LeafType
      BY <1>1, <1>6
    <3>2. /\ AddChild(kept, p, right) \in Seq(LeafType)
          /\ Len(AddChild(kept, p, right)) = Len(kept) + 1
          /\ \A j \in 1 .. Len(kept) + 1 :
               AddChild(kept, p, right)[j]
                 = IF j < p THEN kept[j] ELSE IF j = p THEN right ELSE kept[j - 1]
      BY <3>1, AddedLeaves
    <3> QED
      BY <2>3, <3>2
  <2> QED
    BY <1>6, <2>2, <2>4
<1> HIDE DEF g
<1>12. /\ g[i] = left /\ g[i + 1] = right
       /\ \A j \in 1 .. Len(c) : j < i => g[j] = c[j]
       /\ \A j \in 1 .. Len(c) : i < j => g[j + 1] = c[j]
  <2>1. i \in 1 .. Len(c) + 1 /\ i + 1 \in 1 .. Len(c) + 1 /\ i < i + 1
    BY <1>1
  <2>2. g[i] = left /\ g[i + 1] = right
    BY <1>6, <1>11, <2>1
  <2>3. ASSUME NEW j \in 1 .. Len(c), j < i PROVE g[j] = c[j]
    <3>1. j \in 1 .. Len(c) + 1 /\ j < i + 1 /\ j # i
      BY <1>1, <2>3
    <3> QED
      BY <1>6, <1>11, <3>1
  <2>4. ASSUME NEW j \in 1 .. Len(c), i < j PROVE g[j + 1] = c[j]
    <3>1. j + 1 \in 1 .. Len(c) + 1 /\ ~ (j + 1 < i + 1) /\ j + 1 # i + 1 /\ j # i
          /\ (j + 1) - 1 = j
      BY <1>1, <2>4
    <3> QED
      BY <1>6, <1>11, <3>1
  <2> QED
    BY <2>2, <2>3, <2>4
<1>13. /\ Len(e) = Len(g) /\ e \in Seq(LeafType)
       /\ \A j \in 1 .. Len(g) : /\ Alike(e[j], g[j]) /\ (j = i + 1 => e[j].unsaved)
                                 /\ j # i + 1 /\ ~ g[j].unsaved => ~ e[j].unsaved
  <2>1. e \in Seq(LeafType)
    BY <1>11, CollectTyped
  <2> QED
    BY <1>9, <1>11, <2>1, CollectAlike
<1> HIDE DEF e
<1>14. /\ Len(d) = Len(e)
       /\ \A j \in 1 .. Len(e) :
            /\ Alike(d[j], e[j]) /\ (j = i => d[j].unsaved)
            /\ j # i /\ ~ e[j].unsaved => ~ d[j].unsaved
            /\ e[j].unsaved /\ e[j].id # e[i].id => d[j].unsaved
  <2>1. ~ (at <= i)
    BY <1>9
  <2>2. d = Collect(e, i)
    BY <1>0, <2>1
  <2> QED
    BY <1>13, <2>2, CollectAlike
<1>15. i \in 1 .. Len(g) /\ i + 1 \in 1 .. Len(g) /\ i # i + 1
  BY <1>1, <1>11
<1>16. /\ Dirty(d[i]) /\ DOMAIN d[i].kvs = L
       /\ d[i].min = left.min /\ d[i].max = left.max
  <2>1. Alike(d[i], left) /\ d[i].unsaved
    BY <1>12, <1>13, <1>14, <1>15 DEF Alike
  <2> QED
    BY <1>2, <1>3, <2>1, AlikeDirty
<1>17. /\ Dirty(d[i + 1]) /\ DOMAIN d[i + 1].kvs = R
       /\ d[i + 1].min = right.min /\ d[i + 1].max = right.max
  <2>1. Alike(d[i + 1], right) /\ e[i + 1].unsaved
    BY <1>12, <1>13, <1>14, <1>15 DEF Alike
  <2>2. e[i + 1].id # e[i].id
    BY <1>13, <1>14, <1>15 DEF Alike, DifferentIds
  <2>3. d[i + 1].unsaved
    BY <1>13, <1>14, <1>15, <2>1, <2>2
  <2> QED
    BY <1>2, <1>3, <2>1, <2>3, AlikeDirty
<1>18. ASSUME NEW j \in 1 .. Len(g), NEW k \in 1 .. Len(c), j # i, j # i + 1, k # i, g[j] = c[k]
       PROVE  Alike(d[j], c[k]) /\ ~ d[j].unsaved
  <2>1. Alike(e[j], g[j]) /\ Alike(d[j], e[j])
    BY <1>13, <1>14
  <2>2. ~ g[j].unsaved
    BY <1>7, <1>18
  <2>3. ~ d[j].unsaved
    BY <1>13, <1>14, <1>18, <2>2
  <2> QED
    BY <1>18, <2>1, <2>3 DEF Alike
<1>19. ASSUME NEW j \in 1 .. Len(c), j < i PROVE Alike(d[j], c[j]) /\ ~ d[j].unsaved
  <2>1. j \in 1 .. Len(g) /\ j # i /\ j # i + 1
    BY <1>1, <1>11, <1>19
  <2> QED
    BY <1>12, <1>18, <1>19, <2>1
<1>20. ASSUME NEW j \in 1 .. Len(c), i < j PROVE Alike(d[j + 1], c[j]) /\ ~ d[j + 1].unsaved
  <2>1. j + 1 \in 1 .. Len(g) /\ j + 1 # i /\ j + 1 # i + 1 /\ j # i
    BY <1>1, <1>11, <1>20
  <2> QED
    BY <1>12, <1>18, <1>20, <2>1
<1>21. Fits(c, i, d[i].min, d[i].max) /\ Fits(c, i, d[i + 1].min, d[i + 1].max)
  BY <1>4, <1>8, <1>16, <1>17 DEF Fits
<1>22. SameButTwo(c, d, i) /\ d[i].max < d[i + 1].min
  BY <1>3, <1>11, <1>13, <1>14, <1>16, <1>17, <1>19, <1>20 DEF SameButTwo
<1>23. Becomes(d, stored, Beside(c, stored, i) \cup DOMAIN d[i].kvs \cup DOMAIN d[i + 1].kvs)
  BY <1>1, <1>16, <1>17, <1>21, <1>22, PlaceTwo
<1>24. Beside(c, stored, i) \cup DOMAIN d[i].kvs \cup DOMAIN d[i + 1].kvs
         = Beside(c, stored, i) \cup S
  BY <1>3, <1>16, <1>17
<1> QED
  BY <1>23, <1>24

\* Insert at a leaf that has been visited, or is new.
LEMMA InsertAtLeafExact ==
  ASSUME NEW t, TreeIn(t, Keys), NEW i \in 1 .. Len(t.children), NEW leaf, LeafIn(leaf, Keys),
         NEW S, S = DOMAIN leaf.kvs, Bounded(leaf, S), NEW d, DiskIn(d, Keys),
         Rest(t.children, d.leaf, i), Apart(t.children, i, S),
         NEW o \in InsertAtLeaf(t, i, leaf), o.st = C_OK, DifferentIds(o.tree.children)
  PROVE  Carries(o.tree, d, Beside(t.children, d.leaf, i) \cup S)
<1> DEFINE c == t.children
<1>1. /\ t \in TreeType /\ LeavesIn(c, Keys) /\ c \in Seq(LeafType) /\ t.lastId \in Nat
      /\ StoreOK(d.leaf) /\ LeafOK(leaf) /\ leaf \in LeafType
  BY DEF TreeIn, TreeType, LeavesIn, DiskIn, StoreIn, LeafIn, LeafOK
<1>2. ASSUME NEW e, NEW u \in TreeType, u.children = e, o = InsertAtRoot(u),
             DifferentIds(e) => Becomes(e, d.leaf, Beside(c, d.leaf, i) \cup S)
      PROVE  Carries(o.tree, d, Beside(c, d.leaf, i) \cup S)
  <2>1. o.tree.children = e /\ o.tree.unsaved
    BY <1>2, LastTurns
  <2> QED
    BY <1>2, <2>1 DEF Carries
<1>3. CASE ~ LeafNeedSplit(leaf)
  <2> DEFINE e == PutLeaf(c, i, leaf)
             u == [t EXCEPT !.children = e]
  <2>1. o = InsertAtRoot(u)
    BY <1>3 DEF InsertAtLeaf, PutLeaf
  <2>2. LeavesIn(e, Keys)
    BY <1>1, ReplaceIn, CollectIn DEF PutLeaf
  <2>3. Becomes(e, d.leaf, Beside(c, d.leaf, i) \cup S)
    BY <1>1, PutWhole
  <2> HIDE DEF e
  <2>4. u \in TreeType /\ u.children = e
    BY <1>1, <2>2 DEF TreeType, LeavesIn
  <2> HIDE DEF u
  <2> QED
    BY <1>2, <2>1, <2>3, <2>4
<1>4. CASE LeafNeedSplit(leaf)
  <2> DEFINE id == AllocateNodeID(t)
             left == SplitLeft(leaf)
             right == SplitRight(leaf, id)
             kept == ReplaceAt(c, i, left)
  <2>1. PICK at \in MaxKeyUpperBound(kept, right.max) :
          o = InsertAtRoot([t EXCEPT !.lastId = id, !.children = PutHalves(c, i, leaf, id, at)])
    BY <1>4 DEF InsertAtLeaf, PutHalves
  <2>2. id \in Nat
    BY <1>1 DEF AllocateNodeID
  <2>3. DifferentIds(PutHalves(c, i, leaf, id, at))
          => Becomes(PutHalves(c, i, leaf, id, at), d.leaf, Beside(c, d.leaf, i) \cup S)
    BY <1>1, <1>4, <2>2, PutSplit
  <2>4. LeafIn(right, Keys) /\ LeafIn(left, Keys)
    BY <1>4, <2>2, SplitRightOK, SplitLeftOK, SplitKeys DEF LeafIn
  <2>5. PICK e : e = PutHalves(c, i, leaf, id, at)
    OBVIOUS
  <2>6. e = Collect(Collect(AddChild(kept, at, right), at), IF at <= i THEN i + 1 ELSE i)
    BY <2>5 DEF PutHalves
  <2> HIDE DEF left, right, id
  <2>7. LeavesIn(kept, Keys) /\ Len(kept) = Len(c)
    BY <1>1, <2>4, ReplaceIn
  <2> HIDE DEF kept
  <2>8. at \in 1 .. Len(kept) + 1
    BY <2>1, <2>7, BoundsInRange DEF LeavesIn
  <2>9. LeavesIn(e, Keys)
    BY <2>4, <2>6, <2>7, <2>8, AddChildIn, CollectIn
  <2>10. PICK u : u = [t EXCEPT !.lastId = id, !.children = e]
    OBVIOUS
  <2>11. u \in TreeType /\ u.children = e
    BY <1>1, <2>2, <2>9, <2>10 DEF TreeType, LeavesIn
  <2> QED
    BY <1>2, <2>1, <2>3, <2>5, <2>10, <2>11
<1> QED
  BY <1>3, <1>4

\* A leaf that has been visited, or a new one.
Has(leaf, K) == DOMAIN leaf.kvs = K /\ (K # {} => Bounded(leaf, K))

\* Bptree::Insert at such a leaf.
LEMMA InsertIntoExact ==
  ASSUME NEW t, TreeIn(t, Keys), RootSized(t), NEW i \in 1 .. Len(t.children),
         NEW key \in Keys, NEW value \in Values, NEW o \in InsertIntoLeaf(t, i, key, value),
         DifferentIds(o.tree.children), NEW d, DiskIn(d, Keys), NEW K,
         Has(t.children[i], K), Rest(t.children, d.leaf, i), Apart(t.children, i, K \cup {key})
  PROVE  /\ key \in K => o = Outcome(t, C_BPTREE_DUPLICATE_KEY)
         /\ key \notin K =>
              o.st = C_OK /\ Carries(o.tree, d, Beside(t.children, d.leaf, i) \cup (K \cup {key}))
<1>1. PICK leaf : leaf = t.children[i]
  OBVIOUS
<1>2. LeafIn(leaf, Keys) /\ LeafOK(leaf) /\ t.children \in Seq(LeafType) /\ DOMAIN leaf.kvs = K
  BY <1>1 DEF TreeIn, LeavesIn, LeafIn, Has
<1>3. CASE key \in K
  BY <1>1, <1>2, <1>3 DEF InsertIntoLeaf
<1>4. CASE key \notin K
  <2> DEFINE put == PutItem(leaf, key, value)
             new == UpdateStatByAddKV(put, key)
  <2>1. key \notin leaf.written
    BY <1>2, <1>4 DEF LeafOK
  <2>2. o \in InsertAtLeaf(t, i, new)
    BY <1>1, <1>2, <1>4, <2>1 DEF InsertIntoLeaf
  <2>3. DOMAIN new.kvs = K \cup {key} /\ Bounded(new, K \cup {key})
    <3>1. K # {} => Bounded(leaf, K)
      BY <1>1 DEF Has
    <3> QED
      BY <1>2, <1>4, <3>1, InsertBounds
  <2>4. LeafIn(new, Keys)
    <3>1. LeafOK(put) /\ DOMAIN put.kvs \subseteq Keys
      BY <1>2, PutItemOK, PutKeys DEF LeafIn
    <3> HIDE DEF put
    <3> QED
      BY <3>1, AddKVOK, StatKeys DEF LeafIn
  <2> HIDE DEF put, new
  <2>5. o.st = C_OK
    <3>1. PICK u \in TreeType : SameRoot(t, u) /\ o = InsertAtRoot(u)
      BY <2>2, <2>4, InsertTurn
    <3>2. RootSized(u)
      BY <3>1, SameRootSized
    <3> QED
      BY <3>1, <3>2, RootTurnsSized
  <2>6. PICK S : S = K \cup {key}
    OBVIOUS
  <2>7. S = DOMAIN new.kvs /\ Bounded(new, S) /\ Apart(t.children, i, S)
    BY <2>3, <2>6
  <2>8. Carries(o.tree, d, Beside(t.children, d.leaf, i) \cup S)
    BY <2>2, <2>4, <2>5, <2>7, InsertAtLeafExact
  <2> QED
    BY <1>4, <2>5, <2>6, <2>8
<1> QED
  BY <1>3, <1>4

\* The leaf an insert is routed to: the one whose range ends at the key or behind it,
\* or the last one.
LEMMA RoutedFits ==
  ASSUME NEW c \in Seq(LeafType), Ranged(c), Len(c) # 0, NEW key \in Keys,
         NEW at \in MaxKeyLowerBound(c, key), NEW i, i = IF at > Len(c) THEN Len(c) ELSE at
  PROVE  i \in 1 .. Len(c) /\ Fits(c, i, key, key)
<1>1. /\ Len(c) \in Nat /\ key \in Nat
      /\ \A j \in 1 .. Len(c) : c[j].min \in Nat /\ c[j].max \in Nat
  BY DEF Ranged, Keys
<1>2. /\ at \in 1 .. Len(c) + 1
      /\ \A j \in 1 .. Len(c) : j < at => c[j].max < key
      /\ at \in 1 .. Len(c) => key <= c[at].max
  BY LowerParts
<1>3. i \in 1 .. Len(c) /\ i <= at /\ (at \in 1 .. Len(c) => i = at)
  BY <1>1, <1>2
<1>4. ASSUME NEW j \in 1 .. Len(c), j < i PROVE c[j].max < key
  BY <1>1, <1>2, <1>3, <1>4
<1>5. ASSUME NEW j \in 1 .. Len(c), i < j PROVE key < c[j].min
  <2>1. at \in 1 .. Len(c) /\ i = at
    BY <1>1, <1>2, <1>5
  <2>2. key <= c[i].max /\ c[i].max < c[j].min
    BY <1>2, <1>5, <2>1 DEF Ranged, Ascending
  <2> QED
    BY <1>1, <1>3, <2>2
<1> QED
  BY <1>3, <1>4, <1>5 DEF Fits

\* Bptree::Insert: a new key awaits the next save with all the others, one that is
\* there already is rejected.
LEMMA InsertExact ==
  ASSUME NEW t, TreeIn(t, Keys), RootSized(t), NEW d, DiskIn(d, Keys), Agrees(t, d),
         NEW key \in Keys, NEW value \in Values,
         NEW o \in InsertOutcomes(t, d.leaf, key, value), DifferentIds(o.tree.children)
  PROVE  /\ o.st = C_OK => key \notin KeysOf(d) /\ Carries(o.tree, d, KeysOf(d) \cup {key})
         /\ o.st # C_OK => key \in KeysOf(d) /\ Agrees(o.tree, d)
<1>1. /\ t \in TreeType /\ t.children \in Seq(LeafType) /\ t.lastId \in Nat
      /\ Len(t.children) \in Nat /\ StoreOK(d.leaf)
  BY DEF TreeIn, TreeType, DiskIn, StoreIn
<1>2. CASE Len(t.children) = 0
  <2> DEFINE id == AllocateNodeID(t)
             c == <<NewLeaf(id)>>
             u == [t EXCEPT !.lastId = id, !.children = c]
  <2>1. id \in Nat
    BY <1>1 DEF AllocateNodeID
  <2>2. [t EXCEPT !.children = c, !.lastId = id] = u
    BY <1>1 DEF TreeType
  <2>3. o \in InsertIntoLeaf(u, 1, key, value)
    BY <1>2, <2>2 DEF InsertOutcomes
  <2>4. NewLeaf(id) \in LeafType /\ LeafIn(NewLeaf(id), Keys) /\ DOMAIN NewLeaf(id).kvs = {}
    <3>1. LeafOK(NewLeaf(id)) /\ NewLeaf(id).kvs = EmptyKVs
      BY <2>1, NewLeafOK
    <3>2. DOMAIN EmptyKVs = {}
      BY DEF EmptyKVs
    <3> QED
      BY <3>1, <3>2 DEF LeafIn, LeafOK
  <2>5. LeavesIn(c, Keys) /\ Len(c) = 1 /\ DOMAIN c[1].kvs = {}
    BY <2>4 DEF LeavesIn
  <2>6. c \in Seq(LeafType)
    BY <2>5 DEF LeavesIn
  <2> HIDE DEF id, c
  <2>7. u \in TreeType /\ u.children = c
    BY <1>1, <2>1, <2>6 DEF TreeType
  <2>8. TreeIn(u, Keys)
    BY <2>5, <2>7 DEF TreeIn
  <2>9. RootSized(u)
    <3>1. SameRoot(t, u)
      BY <1>1, RootUntouched
    <3> QED
      BY <3>1, SameRootSized
  <2>10. KeysOf(d) = {}
    <3>1. \A j : j \notin 1 .. Len(t.children)
      BY <1>2
    <3>2. Covered(t.children, d.leaf) = {}
      BY <3>1 DEF Covered
    <3> QED
      BY <1>1, <3>2, AgreedLeaves
  <2> HIDE DEF u
  <2>11. PICK i \in 1 .. Len(u.children) :
           Len(u.children) = 1 /\ i = 1 /\ DOMAIN u.children[i].kvs = {}
    <3>1. Len(u.children) = 1 /\ DOMAIN u.children[1].kvs = {}
      BY <2>5, <2>7
    <3>2. 1 \in 1 .. 1
      OBVIOUS
    <3> QED
      BY <3>1, <3>2
  <2>12. /\ Has(u.children[i], {}) /\ Rest(u.children, d.leaf, i)
         /\ Apart(u.children, i, {} \cup {key}) /\ Beside(u.children, d.leaf, i) = {}
    <3>1. \A j : j \in 1 .. Len(u.children) <=> j = i
      <4>1. \A j : j \in 1 .. 1 <=> j = 1
        OBVIOUS
      <4> QED
        BY <2>11, <4>1
    <3>2. i \in Nat
      BY <2>11
    <3>3. ~ (i < i)
      BY <3>2
    <3>4. Has(u.children[i], {})
      BY <2>11 DEF Has
    <3>5. Rest(u.children, d.leaf, i)
      BY <3>1 DEF Rest
    <3>6. Apart(u.children, i, {} \cup {key})
      BY <3>1, <3>3 DEF Apart, Fits
    <3>7. Beside(u.children, d.leaf, i) = {}
      BY <3>1 DEF Beside
    <3> QED
      BY <3>4, <3>5, <3>6, <3>7
  <2>13. o.st = C_OK /\ Carries(o.tree, d, {key})
    <3>1. \A L : /\ Has(u.children[i], L) /\ Rest(u.children, d.leaf, i)
                 /\ Apart(u.children, i, L \cup {key}) /\ key \notin L
                 => o.st = C_OK /\ Carries(o.tree, d, Beside(u.children, d.leaf, i) \cup (L \cup {key}))
      <4>1. o \in InsertIntoLeaf(u, i, key, value)
        BY <2>3, <2>11
      <4> QED
        BY <2>8, <2>9, <4>1, InsertIntoExact
    <3>2. {} \cup ({} \cup {key}) = {key}
      OBVIOUS
    <3> QED
      BY <2>12, <3>1, <3>2
  <2>14. KeysOf(d) \cup {key} = {key}
    BY <2>10
  <2> QED
    BY <2>10, <2>13, <2>14
<1>3. CASE Len(t.children) # 0
  <2> DEFINE n == Len(t.children)
             pos(at) == IF at > n THEN n ELSE at
  <2>1. PICK at \in MaxKeyLowerBound(t.children, key) :
          o \in InsertIntoLeaf(LoadChild(t, pos(at), d.leaf), pos(at), key, value)
    BY <1>3 DEF InsertOutcomes
  <2>2. PICK i : i = pos(at)
    OBVIOUS
  <2>3. /\ Ranged(t.children)
        /\ \A j \in 1 .. Len(t.children) :
             LET D == DOMAIN d.leaf[t.children[j].id]
             IN  D \in SUBSET Keys /\ Bounded(t.children[j], D)
    BY <1>1, AgreedLeaves
  <2>4. i \in 1 .. Len(t.children) /\ Fits(t.children, i, key, key)
    BY <1>1, <1>3, <2>2, <2>3, RoutedFits
  <2>5. PICK u : u = LoadChild(t, i, d.leaf)
    OBVIOUS
  <2>6. o \in InsertIntoLeaf(u, i, key, value)
    BY <2>1, <2>2, <2>5
  <2>7. /\ TreeIn(u, Keys) /\ Len(u.children) = Len(t.children) /\ Agrees(u, d)
        /\ \A j \in 1 .. Len(t.children) : /\ u.children[j].id = t.children[j].id
                                           /\ u.children[j].min = t.children[j].min
                                           /\ u.children[j].max = t.children[j].max
        /\ DOMAIN u.children[i].kvs = DOMAIN d.leaf[u.children[i].id]
    BY <2>4, <2>5, VisitAgrees
  <2>8. RootSized(u)
    <3>1. SameRoot(t, u)
      BY <1>1, <2>5, VisitSized
    <3> QED
      BY <3>1, SameRootSized
  <2>9. PICK K : K = DOMAIN d.leaf[u.children[i].id]
    OBVIOUS
  <2>10. u.children \in Seq(LeafType) /\ i \in 1 .. Len(u.children)
    BY <2>4, <2>7 DEF TreeIn, LeavesIn
  <2>11. /\ Rest(u.children, d.leaf, i) /\ Apart(u.children, i, K)
         /\ KeysOf(d) = Beside(u.children, d.leaf, i) \cup K
    BY <1>1, <2>7, <2>9, <2>10, AgreedLeaf
  <2>12. Has(u.children[i], K)
    BY <1>1, <2>7, <2>9, <2>10, AgreedLeaves DEF Has
  <2>13. Apart(u.children, i, K \cup {key})
    <3>1. Fits(u.children, i, key, key)
      BY <2>4, <2>7 DEF Fits
    <3> QED
      BY <2>11, <3>1 DEF Apart
  <2>14. key \in KeysOf(d) => key \in K
    <3>1. ASSUME key \in Beside(u.children, d.leaf, i) PROVE FALSE
      <4>1. PICK j \in (1 .. Len(u.children)) \ {i} : key \in DOMAIN d.leaf[u.children[j].id]
        BY <3>1 DEF Beside
      <4>2. /\ j \in 1 .. Len(t.children) /\ t.children[j].min <= key /\ key <= t.children[j].max
        BY <2>3, <2>7, <4>1 DEF Bounded, Spans
      <4>3. at = j
        BY <1>1, <2>1, <2>3, <4>2, RangeFound
      <4>4. i = j
        BY <1>1, <2>2, <4>2, <4>3
      <4> QED
        BY <4>1, <4>4
    <3> QED
      BY <2>11, <3>1
  <2> HIDE DEF pos, n
  <2>15. /\ key \in K => o = Outcome(u, C_BPTREE_DUPLICATE_KEY)
         /\ key \notin K =>
              o.st = C_OK /\ Carries(o.tree, d, Beside(u.children, d.leaf, i) \cup (K \cup {key}))
    BY <2>6, <2>7, <2>8, <2>10, <2>11, <2>12, <2>13, InsertIntoExact
  <2>16. Beside(u.children, d.leaf, i) \cup (K \cup {key}) = KeysOf(d) \cup {key}
    BY <2>11
  <2>17. Outcome(u, C_BPTREE_DUPLICATE_KEY).tree = u
         /\ Outcome(u, C_BPTREE_DUPLICATE_KEY).st # C_OK
    BY DEF Outcome, C_OK, C_BPTREE_DUPLICATE_KEY
  <2>18. CASE key \in K
    BY <2>7, <2>11, <2>15, <2>17, <2>18
  <2>19. CASE key \notin K
    BY <2>14, <2>15, <2>16, <2>19
  <2> QED
    BY <2>18, <2>19
<1> QED
  BY <1>2, <1>3

\* When an end is deleted, the first or last of the remaining keys is the new one.
LEMMA DeleteBounds ==
  ASSUME NEW leaf, LeafOK(leaf), NEW key, NEW K, K = DOMAIN leaf.kvs, key \in K,
         Bounded(leaf, K), K \ {key} # {},
         NEW new, new = UpdateStatByDelKV(DropItem(leaf, key), key)
  PROVE  DOMAIN new.kvs = K \ {key} /\ Bounded(new, K \ {key})
<1> DEFINE R == K \ {key}
<1>1. K \in SUBSET Keys /\ R \in SUBSET Keys /\ R # {}
  BY LeafElim DEF LeafOK
<1>2. Spans(leaf, R) /\ R \subseteq DOMAIN leaf.kvs \ {key}
  BY DEF Bounded, Spans
<1>3. DOMAIN new.kvs = R /\ Spans(new, R)
  BY <1>1, <1>2, DeleteSpans
<1>4. PICK drop : drop = DropItem(leaf, key)
  OBVIOUS
<1>5. /\ LeafOK(drop) /\ DOMAIN drop.kvs = R
      /\ drop.min = leaf.min /\ drop.max = leaf.max
  <2>1. PICK w, f : drop = [leaf EXCEPT !.kvs = f, !.written = w]
    BY <1>4, Zenon DEF DropItem
  <2>2. drop.min = leaf.min /\ drop.max = leaf.max
    BY <2>1 DEF LeafOK, LeafType
  <2> QED
    BY <1>4, <2>2, DropItemOK
<1>6. leaf.min \in K /\ leaf.max \in K /\ \A k \in K : leaf.min <= k /\ k <= leaf.max
  BY DEF Bounded, Spans
<1>7. leaf.min = key /\ leaf.max = key => R = {}
  <2>1. ASSUME leaf.min = key, leaf.max = key, NEW k \in R PROVE FALSE
    <3>1. k \in Int /\ key \in Int /\ key <= k /\ k <= key
      BY <1>1, <1>6, <2>1 DEF Keys
    <3> QED
      BY <3>1
  <2> QED
    BY <2>1
<1>8. PICK lo, hi : lo = Min(R) /\ hi = Max(R)
  OBVIOUS
<1>9. lo \in R /\ hi \in R
  BY <1>1, <1>8, MinKey, MaxKeyOf
<1> HIDE DEF R
<1>10. \/ key = leaf.max /\ new.min = leaf.min /\ new.max = hi
       \/ key # leaf.max /\ key = leaf.min /\ new.min = lo /\ new.max = leaf.max
       \/ key # leaf.max /\ key # leaf.min /\ new.min = leaf.min /\ new.max = leaf.max
  <2>1. PICK c : c = Word(Cardinality(R))
    OBVIOUS
  <2>2. PICK counted : counted = [drop EXCEPT !.count = c]
    OBVIOUS
  <2>3. \/ key = drop.max /\ \E z : new = [counted EXCEPT !.size = z, !.max = hi]
        \/ /\ key # drop.max /\ key = drop.min
           /\ \E z : new = [counted EXCEPT !.size = z, !.min = lo]
        \/ key # drop.max /\ key # drop.min /\ new = counted
    <3>1. CASE key = drop.max
      BY <1>4, <1>5, <1>8, <2>1, <2>2, <3>1, Zenon DEF UpdateStatByDelKV
    <3>2. CASE key # drop.max /\ key = drop.min
      BY <1>4, <1>5, <1>8, <2>1, <2>2, <3>2, Zenon DEF UpdateStatByDelKV
    <3>3. CASE key # drop.max /\ key # drop.min
      BY <1>4, <1>5, <2>1, <2>2, <3>3 DEF UpdateStatByDelKV
    <3> QED
      BY <3>1, <3>2, <3>3
  <2> QED
    BY <1>5, <2>2, <2>3 DEF LeafOK, LeafType
<1>11. \A k \in K : k # key => k \in R
  BY DEF R
<1>12. new.min \in R /\ new.max \in R
  BY <1>1, <1>6, <1>7, <1>9, <1>10, <1>11
<1> QED
  BY <1>3, <1>12 DEF Bounded, R

\* The last turn of Delete collects the root.
LEMMA DeleteTurn ==
  ASSUME NEW t \in TreeType
  PROVE  DeleteAtRoot(t).st = C_OK /\ DeleteAtRoot(t).tree.unsaved
<1> DEFINE r == IF t.children = <<>> THEN ResetStat(t) ELSE UpdateStatByRangeChange(t, -1)
<1>1. "unsaved" \in DOMAIN r
  BY DEF UpdateStatByRangeChange, ResetStat, TreeType
<1>2. DeleteAtRoot(t) = Outcome([r EXCEPT !.unsaved = TRUE], C_OK)
  BY Zenon DEF DeleteAtRoot
<1> HIDE DEF r
<1>3. PICK q : q = [r EXCEPT !.unsaved = TRUE]
  OBVIOUS
<1>4. q.unsaved = TRUE
  BY <1>1, <1>3
<1>5. DeleteAtRoot(t).tree = q /\ DeleteAtRoot(t).st = C_OK
  BY <1>2, <1>3 DEF Outcome
<1> QED
  BY <1>4, <1>5

\* The ranges of all leaves.
LEMMA RangedWith ==
  ASSUME NEW c \in Seq(LeafType), NEW stored, StoreOK(stored), NEW i \in 1 .. Len(c),
         Rest(c, stored, i), NEW K \in SUBSET Keys, Bounded(c[i], K), Apart(c, i, K)
  PROVE  Ranged(c)
<1>1. c[i].min \in K /\ c[i].max \in K
  BY DEF Bounded
<1>2. \A j \in 1 .. Len(c) : c[j].min \in Keys /\ c[j].max \in Keys /\ c[j].min <= c[j].max
  BY BoundedRange, RestRanged
<1>3. ASSUME NEW j \in 1 .. Len(c), NEW k \in 1 .. Len(c), j < k PROVE c[j].max < c[k].min
  <2>1. CASE j = i
    BY <1>1, <1>3, <2>1 DEF Apart, Fits
  <2>2. CASE k = i
    BY <1>1, <1>3, <2>2 DEF Apart, Fits
  <2>3. CASE j # i /\ k # i
    BY <1>3, <2>3 DEF Rest
  <2> QED
    BY <2>1, <2>2, <2>3
<1> QED
  BY <1>2, <1>3 DEF Ranged, Ascending

\* The leaves after leaf i has lost its last key.
TakeLeaf(c, i, leaf, found) ==
  DelChild(RemoveUnsaved(ReplaceAt(c, i, leaf), leaf.id), i, found)

LEMMA TakenLeaf ==
  ASSUME NEW c \in Seq(LeafType), NEW i \in 1 .. Len(c), NEW leaf \in LeafType,
         leaf.min = c[i].min, leaf.max = c[i].max,
         NEW stored, StoreOK(stored), Rest(c, stored, i),
         NEW K \in SUBSET Keys, Bounded(c[i], K), Apart(c, i, K),
         NEW found \in MaxKeyLowerBound(ReplaceAt(c, i, leaf), leaf.max),
         NEW d, d = TakeLeaf(c, i, leaf, found)
  PROVE  Becomes(d, stored, Beside(c, stored, i))
<1> DEFINE left == ReplaceAt(c, i, leaf)
           e == RemoveUnsaved(left, leaf.id)
<1>1. /\ left \in Seq(LeafType) /\ Len(left) = Len(c) /\ Len(c) \in Nat
      /\ \A j \in 1 .. Len(c) : left[j] = IF j = i THEN leaf ELSE c[j]
  BY ReplaceAtProperties
<1>2. d = DelChild(e, i, found) /\ found \in MaxKeyLowerBound(left, leaf.max)
  BY DEF TakeLeaf
<1> HIDE DEF left
<1>3. Ranged(c)
  BY RangedWith
<1>4. Ranged(left)
  <2>1. \A j \in 1 .. Len(c) : left[j].min = c[j].min /\ left[j].max = c[j].max
    BY <1>1
  <2> QED
    BY <1>1, <1>3, <2>1 DEF Ranged, Ascending
<1>5. found = i
  <2>1. i \in 1 .. Len(left) /\ leaf.max \in Keys /\ left[i].min <= leaf.max /\ left[i].max = leaf.max
    BY <1>1, <1>3 DEF Ranged
  <2>2. leaf.max <= left[i].max
    BY <2>1 DEF Keys
  <2> QED
    BY <1>1, <1>2, <1>4, <2>1, <2>2, RangeFound
<1>6. /\ Len(e) = Len(left)
      /\ \A j \in 1 .. Len(left) : Alike(e[j], left[j]) /\ (~ left[j].unsaved => ~ e[j].unsaved)
  BY <1>1, RemoveUnsavedAlike
<1>7. e \in Seq(LeafType)
  <2>1. ASSUME NEW j \in 1 .. Len(left) PROVE e[j] \in LeafType
    <3>1. PICK old \in LeafType : old = left[j]
      BY <1>1
    <3>2. PICK b \in BOOLEAN : b = (old.unsaved /\ old.id # leaf.id)
      OBVIOUS
    <3>3. e[j] = [old EXCEPT !.unsaved = b]
      BY <3>1, <3>2 DEF RemoveUnsaved
    <3> QED
      BY <3>3 DEF LeafType
  <2>2. e = [j \in 1 .. Len(left) |-> e[j]]
    BY DEF RemoveUnsaved
  <2> HIDE DEF e
  <2>3. Len(left) \in Nat
    BY <1>1
  <2> QED
    BY <2>1, <2>2, <2>3
<1>8. d = RemoveAt(e, i)
  BY <1>2, <1>5 DEF DelChild
<1> HIDE DEF e
<1>9. /\ Len(d) = Len(c) - 1
      /\ \A j \in 1 .. Len(c) - 1 : d[j] = IF j < i THEN e[j] ELSE e[j + 1]
  <2>1. i \in 1 .. Len(e)
    BY <1>1, <1>6
  <2>2. /\ Len(RemoveAt(e, i)) = Len(e) - 1
        /\ \A j \in 1 .. Len(e) - 1 : RemoveAt(e, i)[j] = IF j < i THEN e[j] ELSE e[j + 1]
    BY <1>7, <2>1, RemoveAtProperties
  <2> QED
    BY <1>1, <1>6, <1>8, <2>2
<1>10. ASSUME NEW j \in 1 .. Len(d), NEW p, p = IF j < i THEN j ELSE j + 1
       PROVE  Alike(d[j], c[p]) /\ ~ d[j].unsaved
  <2>1. p \in 1 .. Len(c) /\ p # i /\ j \in 1 .. Len(c) - 1
    BY <1>1, <1>9, <1>10
  <2>2. d[j] = e[p] /\ left[p] = c[p]
    BY <1>1, <1>9, <1>10, <2>1
  <2>3. ~ c[p].unsaved
    BY <2>1, RestRanged
  <2> QED
    BY <1>1, <1>6, <2>1, <2>2, <2>3
<1>11. SameButNone(c, d, i)
  BY <1>9, <1>10 DEF SameButNone
<1> QED
  BY <1>1, <1>11, PlaceNone

\* Bptree::Delete at a leaf that has been visited; with its last key the leaf goes.
LEMMA DeleteFromExact ==
  ASSUME NEW t, TreeIn(t, Keys), NEW i \in 1 .. Len(t.children),
         NEW key \in Keys, NEW o \in DeleteFromLeaf(t, i, key), NEW d, DiskIn(d, Keys),
         NEW K, Has(t.children[i], K), K # {},
         Rest(t.children, d.leaf, i), Apart(t.children, i, K)
  PROVE  /\ key \notin K => o = Outcome(t, C_OK)
         /\ key \in K =>
              o.st = C_OK /\ Carries(o.tree, d, Beside(t.children, d.leaf, i) \cup (K \ {key}))
<1> DEFINE c == t.children
<1>1. PICK leaf : leaf = c[i]
  OBVIOUS
<1>2. /\ LeafIn(leaf, Keys) /\ LeafOK(leaf) /\ c \in Seq(LeafType) /\ DOMAIN leaf.kvs = K
      /\ Bounded(leaf, K) /\ t \in TreeType /\ LeavesIn(c, Keys) /\ StoreOK(d.leaf)
      /\ K \in SUBSET Keys
  BY <1>1 DEF TreeIn, LeavesIn, LeafIn, Has, DiskIn, StoreIn
<1>3. CASE key \notin K
  <2>1. DeleteFromLeaf(t, i, key) = {Outcome(t, C_OK)}
    BY <1>1, <1>2, <1>3 DEF DeleteFromLeaf
  <2> QED
    BY <1>3, <2>1
<1>4. PICK drop : drop = DropItem(leaf, key)
  OBVIOUS
<1>5. /\ LeafOK(drop) /\ LeafIn(drop, Keys) /\ DOMAIN drop.kvs = K \ {key}
      /\ drop.min = leaf.min /\ drop.max = leaf.max /\ drop \in LeafType
  <2>1. PICK w, f : drop = [leaf EXCEPT !.kvs = f, !.written = w]
    BY <1>4, Zenon DEF DropItem
  <2>2. drop.min = leaf.min /\ drop.max = leaf.max
    BY <1>2, <2>1 DEF LeafOK, LeafType
  <2>3. LeafOK(drop) /\ DOMAIN drop.kvs = K \ {key}
    BY <1>2, <1>4, DropItemOK
  <2>4. LeafIn(drop, Keys)
    BY <1>2, <2>3 DEF LeafIn
  <2> QED
    BY <2>2, <2>3, <2>4 DEF LeafOK
<1>6. ASSUME NEW e, LeavesIn(e, Keys), o = DeleteAtRoot([t EXCEPT !.children = e]),
             Becomes(e, d.leaf, Beside(c, d.leaf, i) \cup (K \ {key}))
      PROVE  o.st = C_OK /\ Carries(o.tree, d, Beside(c, d.leaf, i) \cup (K \ {key}))
  <2>1. PICK u : u = [t EXCEPT !.children = e]
    OBVIOUS
  <2>2. u \in TreeType /\ u.children = e
    BY <1>2, <1>6, <2>1 DEF TreeType, LeavesIn
  <2>3. o.tree.children = e /\ o.st = C_OK /\ o.tree.unsaved
    BY <1>6, <2>1, <2>2, LastTurns, DeleteTurn
  <2> QED
    BY <1>6, <2>3 DEF Carries
<1>7. CASE key \in K /\ K \ {key} = {}
  <2> DEFINE left == ReplaceAt(c, i, drop)
  <2>1. PICK found \in MaxKeyLowerBound(left, drop.max) :
          o = DeleteAtRoot([t EXCEPT !.children = TakeLeaf(c, i, drop, found)])
    BY <1>1, <1>2, <1>4, <1>5, <1>7 DEF DeleteFromLeaf, TakeLeaf
  <2>2. PICK e : e = TakeLeaf(c, i, drop, found)
    OBVIOUS
  <2>3. Becomes(e, d.leaf, Beside(c, d.leaf, i))
    BY <1>1, <1>2, <1>5, <2>1, <2>2, TakenLeaf
  <2>4. LeavesIn(e, Keys)
    <3>1. LeavesIn(left, Keys) /\ Len(left) = Len(c)
      BY <1>2, <1>5, ReplaceIn
    <3> HIDE DEF left
    <3>2. LeavesIn(RemoveUnsaved(left, drop.id), Keys) /\ Len(RemoveUnsaved(left, drop.id)) = Len(c)
      BY <3>1, RemoveUnsavedIn
    <3>3. LeavesIn(DelChild(RemoveUnsaved(left, drop.id), i, found), Keys)
      BY <3>2, DelChildIn
    <3> QED
      BY <2>2, <3>3 DEF TakeLeaf, left
  <2>5. Beside(c, d.leaf, i) \cup (K \ {key}) = Beside(c, d.leaf, i)
    BY <1>7
  <2> QED
    BY <1>6, <1>7, <2>1, <2>2, <2>3, <2>4, <2>5
<1>8. CASE key \in K /\ K \ {key} # {}
  <2> DEFINE new == UpdateStatByDelKV(drop, key)
             S == K \ {key}
  <2>1. o = DeleteAtRoot([t EXCEPT !.children = PutLeaf(c, i, new)])
    BY <1>1, <1>2, <1>4, <1>5, <1>8 DEF DeleteFromLeaf, PutLeaf
  <2>2. DOMAIN new.kvs = S /\ Bounded(new, S)
    BY <1>2, <1>4, <1>8, DeleteBounds
  <2>3. LeafIn(new, Keys) /\ new \in LeafType
    BY <1>5, <1>8, DelKVOK, StatKeys DEF LeafIn, LeafOK
  <2> HIDE DEF new
  <2>4. Apart(c, i, S)
    BY DEF Apart
  <2> HIDE DEF S
  <2>5. PICK e : e = PutLeaf(c, i, new)
    OBVIOUS
  <2>6. Becomes(e, d.leaf, Beside(c, d.leaf, i) \cup S)
    BY <1>2, <2>2, <2>3, <2>4, <2>5, PutWhole
  <2>7. LeavesIn(e, Keys)
    BY <1>2, <2>3, <2>5, ReplaceIn, CollectIn DEF PutLeaf
  <2> QED
    BY <1>6, <1>8, <2>1, <2>5, <2>6, <2>7 DEF S
<1> QED
  BY <1>3, <1>7, <1>8

\* Bptree::Delete: a key that is there is gone with the next save.
LEMMA DeleteExact ==
  ASSUME NEW t, TreeIn(t, Keys), NEW d, DiskIn(d, Keys), Agrees(t, d),
         NEW key \in Keys, NEW o \in DeleteOutcomes(t, d.leaf, key)
  PROVE  /\ o.st = C_OK
         /\ key \notin KeysOf(d) => Agrees(o.tree, d)
         /\ key \in KeysOf(d) => Carries(o.tree, d, KeysOf(d) \ {key})
<1> DEFINE c == t.children
<1>1. c \in Seq(LeafType) /\ Len(c) \in Nat /\ StoreOK(d.leaf)
  BY DEF TreeIn, LeavesIn, DiskIn, StoreIn
<1>2. PICK i \in FindChild(c, key) :
        o \in IF i > Len(c)
              THEN {Outcome(t, C_OK)}
              ELSE IF LoadStatus(c[i], d.leaf) # C_OK
                   THEN {Outcome(t, LoadStatus(c[i], d.leaf))}
                   ELSE DeleteFromLeaf(LoadChild(t, i, d.leaf), i, key)
  BY DEF DeleteOutcomes
<1>3. i \in 1 .. Len(c) + 1
  BY <1>1, <1>2, FindChildInRange
<1>4. /\ Ranged(c)
      /\ \A j \in 1 .. Len(c) :
           LET D == DOMAIN d.leaf[c[j].id]
           IN  Clean(c[j], d.leaf) /\ D \in SUBSET Keys /\ Bounded(c[j], D)
  BY <1>1, AgreedLeaves
<1>5. ASSUME key \in KeysOf(d) PROVE i \in 1 .. Len(c) /\ key \in DOMAIN d.leaf[c[i].id]
  <2>1. PICK j \in 1 .. Len(c) : key \in DOMAIN d.leaf[c[j].id]
    <3>1. PICK j \in 1 .. Len(c) : key \in Items(c[j], d.leaf)
      BY <1>1, <1>5, AgreedLeaves DEF Covered
    <3> QED
      BY <1>4, <3>1 DEF Clean, Items
  <2>2. c[j].min <= key /\ key <= c[j].max
    BY <1>4, <2>1 DEF Bounded, Spans
  <2> QED
    BY <1>1, <1>2, <1>4, <2>1, <2>2, RangeFound
<1>6. CASE i > Len(c)
  <2>1. o.tree = t /\ o.st = C_OK
    BY <1>2, <1>6 DEF Outcome
  <2>2. key \notin KeysOf(d)
    BY <1>1, <1>5, <1>6
  <2> QED
    BY <2>1, <2>2
<1>7. CASE ~ (i > Len(c))
  <2>1. i \in 1 .. Len(c)
    BY <1>1, <1>3, <1>7
  <2>2. LoadStatus(c[i], d.leaf) = C_OK
    BY <1>4, <2>1 DEF LoadStatus, Clean
  <2>3. PICK u : u = LoadChild(t, i, d.leaf)
    OBVIOUS
  <2>4. o \in DeleteFromLeaf(u, i, key)
    BY <1>2, <1>7, <2>2, <2>3
  <2>5. /\ TreeIn(u, Keys) /\ Len(u.children) = Len(c) /\ Agrees(u, d)
        /\ u.children[i].id = c[i].id
        /\ DOMAIN u.children[i].kvs = DOMAIN d.leaf[u.children[i].id]
    BY <2>1, <2>3, VisitAgrees
  <2>6. PICK K : K = DOMAIN d.leaf[u.children[i].id]
    OBVIOUS
  <2>7. /\ u.children \in Seq(LeafType) /\ i \in 1 .. Len(u.children)
        /\ StoreOK(d.leaf) /\ Agrees(u, d)
    BY <1>1, <2>1, <2>5 DEF TreeIn, LeavesIn
  <2>8. /\ Rest(u.children, d.leaf, i) /\ Apart(u.children, i, K)
        /\ KeysOf(d) = Beside(u.children, d.leaf, i) \cup K
        /\ \A k \in Beside(u.children, d.leaf, i) :
             ~ (u.children[i].min <= k /\ k <= u.children[i].max)
    BY <2>6, <2>7, AgreedLeaf
  <2>9. Bounded(u.children[i], K)
    BY <1>1, <2>5, <2>6, <2>7, AgreedLeaves
  <2>10. Has(u.children[i], K) /\ K # {}
    BY <2>5, <2>6, <2>9 DEF Has, Bounded
  <2>11. /\ key \notin K => o = Outcome(u, C_OK)
         /\ key \in K =>
              o.st = C_OK /\ Carries(o.tree, d, Beside(u.children, d.leaf, i) \cup (K \ {key}))
    BY <2>4, <2>5, <2>7, <2>8, <2>10, DeleteFromExact
  <2>12. Outcome(u, C_OK).tree = u /\ Outcome(u, C_OK).st = C_OK
    BY DEF Outcome
  <2>13. CASE key \notin K
    <3>1. key \notin KeysOf(d)
      BY <1>5, <2>5, <2>6, <2>13
    <3> QED
      BY <2>5, <2>11, <2>12, <2>13, <3>1
  <2>14. CASE key \in K
    <3>1. key \notin Beside(u.children, d.leaf, i)
      BY <2>8, <2>9, <2>14 DEF Bounded, Spans
    <3>2. Beside(u.children, d.leaf, i) \cup (K \ {key}) = KeysOf(d) \ {key}
      BY <2>8, <3>1
    <3> QED
      BY <2>8, <2>11, <2>14, <3>2
  <2> QED
    BY <2>13, <2>14
<1> QED
  BY <1>6, <1>7

-----------------------------------------------------------------------------
(* What a save stores and a new session finds *)

\* Leaves that are in their records, under a root record of theirs.
Recorded(c, e) ==
  /\ e.root = RefsOf(c)
  /\ Ascending(c)
  /\ \A i \in 1 .. Len(c) :
       /\ c[i].id \in DOMAIN e.leaf
       /\ DOMAIN c[i].kvs \subseteq DOMAIN e.leaf[c[i].id]
       /\ Bounded(c[i], DOMAIN e.leaf[c[i].id])

\* They are the whole index.
LEMMA StoredWhole ==
  ASSUME NEW c \in Seq(LeafType), NEW e, Recorded(c, e)
  PROVE  /\ Whole(e)
         /\ KeysOf(e) = UNION {DOMAIN e.leaf[c[i].id] : i \in 1 .. Len(c)}
<1>1. Len(c) \in Nat /\ Len(e.root) = Len(c)
  BY DEF Recorded, RefsOf
<1>2. \A i \in 1 .. Len(c) : e.root[i].id = c[i].id /\ e.root[i].min = c[i].min
                             /\ e.root[i].max = c[i].max
  BY DEF Recorded, RefsOf
<1>3. Ascending(e.root)
  BY <1>1, <1>2 DEF Recorded, Ascending
<1>4. ASSUME NEW i \in 1 .. Len(c)
      PROVE  e.root[i].id \in DOMAIN e.leaf
             /\ Bounded(e.root[i], DOMAIN e.leaf[e.root[i].id])
  BY <1>2 DEF Recorded, Bounded, Spans
<1>5. KeysOf(e) = UNION {DOMAIN e.leaf[c[i].id] : i \in 1 .. Len(c)}
  BY <1>1, <1>2 DEF KeysOf
<1> QED
  BY <1>1, <1>3, <1>4, <1>5 DEF Whole

\* With unsaved_nodes_ emptied, a session whose items are stored agrees.
LEMMA ClearAgrees ==
  ASSUME NEW t, TreeIn(t, Keys), NEW e, Recorded(t.children, e)
  PROVE  Agrees(ClearUnsaved(t), e)
<1> DEFINE c == t.children
           d == [i \in 1 .. Len(c) |-> [c[i] EXCEPT !.unsaved = FALSE]]
<1>1. t \in TreeType /\ c \in Seq(LeafType) /\ Len(c) \in Nat
  BY DEF TreeIn, LeavesIn
<1>2. PICK u : u = ClearUnsaved(t)
  OBVIOUS
<1>3. u.children = d /\ ~ u.unsaved
  BY <1>1, <1>2 DEF ClearUnsaved, TreeType
<1>4. ASSUME NEW i \in 1 .. Len(c)
      PROVE  /\ d[i].id = c[i].id /\ d[i].count = c[i].count /\ d[i].size = c[i].size
             /\ d[i].min = c[i].min /\ d[i].max = c[i].max /\ d[i].kvs = c[i].kvs
             /\ ~ d[i].unsaved
  <2>1. PICK leaf : leaf = c[i]
    OBVIOUS
  <2>2. leaf \in LeafType
    BY <1>1, <2>1
  <2>3. d[i] = [leaf EXCEPT !.unsaved = FALSE]
    BY <2>1
  <2> HIDE DEF d
  <2> QED
    BY <2>1, <2>2, <2>3 DEF LeafType
<1>5. Len(d) = Len(c)
  BY <1>1
<1>6. d \in Seq(LeafType)
  <2>1. TreeIn(u, Keys)
    BY <1>2, ClearIn
  <2> QED
    BY <1>3, <2>1 DEF TreeIn, LeavesIn
<1> HIDE DEF d
<1>7. RefsOf(d) = RefsOf(c)
  BY <1>1, <1>4, <1>5, <1>6, SameRefs
<1>8. \A i \in 1 .. Len(c) : Clean(d[i], e.leaf)
  BY <1>4 DEF Recorded, Clean, Bounded, Spans
<1>9. Ascending(d)
  BY <1>4, <1>5 DEF Recorded, Ascending
<1>10. Agrees(u, e)
  BY <1>3, <1>5, <1>7, <1>8, <1>9 DEF Agrees, Recorded
<1> QED
  BY <1>2, <1>10

\* A complete save writes the items of each leaf to the leaf's own record.
LEMMA DumpExact ==
  ASSUME NEW t, TreeIn(t, Keys), DifferentIds(t.children), NEW d,
         NEW e, e = DumpNodes(t, d, UnsavedNodes(t)), NEW i \in 1 .. Len(t.children)
  PROVE  /\ t.children[i].unsaved => /\ t.children[i].id \in DOMAIN e.leaf
                                     /\ e.leaf[t.children[i].id] = t.children[i].kvs
         /\ ~ t.children[i].unsaved /\ t.children[i].id \in DOMAIN d.leaf =>
              /\ t.children[i].id \in DOMAIN e.leaf
              /\ e.leaf[t.children[i].id] = d.leaf[t.children[i].id]
<1> DEFINE c == t.children
           leaves == UnsavedNodes(t) \ {0}
           ids == {c[j].id : j \in leaves}
           stored == [id \in DOMAIN d.leaf \cup ids |->
                        IF id \in ids THEN c[CHOOSE j \in leaves : c[j].id = id].kvs ELSE d.leaf[id]]
<1>1. Len(c) \in Nat
  BY DEF TreeIn, LeavesIn
<1>2. \A j : j \in leaves <=> j \in 1 .. Len(c) /\ c[j].unsaved
  BY <1>1 DEF UnsavedNodes
<1>3. e.leaf = stored
  BY DEF DumpNodes
<1> HIDE DEF leaves
<1>4. CASE c[i].unsaved
  <2>1. i \in leaves
    BY <1>2, <1>4
  <2>2. \A j \in leaves : c[j].id = c[i].id => j = i
    BY <1>2 DEF DifferentIds
  <2>3. (CHOOSE j \in leaves : c[j].id = c[i].id) = i
    BY <2>1, <2>2
  <2>4. c[i].id \in ids
    BY <2>1
  <2> QED
    BY <1>3, <1>4, <2>3, <2>4
<1>5. CASE ~ c[i].unsaved
  <2>1. c[i].id \notin ids
    BY <1>2, <1>5 DEF DifferentIds
  <2> QED
    BY <1>3, <1>5, <2>1
<1> QED
  BY <1>4, <1>5

\* A complete save of what a statement has changed makes it the index.
LEMMA SaveExact ==
  ASSUME NEW t, TreeIn(t, Keys), DifferentIds(t.children), NEW d, DiskIn(d, Keys),
         NEW K, Carries(t, d, K), NEW e, e = DumpNodes(t, d, UnsavedNodes(t))
  PROVE  Whole(e) /\ KeysOf(e) = K /\ Agrees(ClearUnsaved(t), e)
<1> DEFINE c == t.children
<1>1. /\ c \in Seq(LeafType) /\ Ascending(c) /\ Covered(c, d.leaf) = K
      /\ \A i \in 1 .. Len(c) : Clean(c[i], d.leaf) \/ Dirty(c[i])
  BY DEF TreeIn, LeavesIn, Carries, Becomes
<1>2. e.root = RefsOf(c)
  <2>1. 0 \in UnsavedNodes(t)
    BY DEF UnsavedNodes, Carries
  <2> QED
    BY <2>1 DEF DumpNodes
<1>3. ASSUME NEW i \in 1 .. Len(c)
      PROVE  /\ c[i].id \in DOMAIN e.leaf /\ DOMAIN e.leaf[c[i].id] = Items(c[i], d.leaf)
             /\ DOMAIN c[i].kvs \subseteq Items(c[i], d.leaf)
             /\ Bounded(c[i], Items(c[i], d.leaf))
  <2>1. /\ c[i].unsaved => c[i].id \in DOMAIN e.leaf /\ e.leaf[c[i].id] = c[i].kvs
        /\ ~ c[i].unsaved /\ c[i].id \in DOMAIN d.leaf =>
             c[i].id \in DOMAIN e.leaf /\ e.leaf[c[i].id] = d.leaf[c[i].id]
    BY DumpExact
  <2>2. PICK leaf : leaf = c[i]
    OBVIOUS
  <2>3. CASE Clean(leaf, d.leaf)
    BY <2>1, <2>2, <2>3 DEF Clean, Items
  <2>4. CASE Dirty(leaf)
    BY <2>1, <2>2, <2>4 DEF Dirty, Items
  <2> QED
    BY <1>1, <2>2, <2>3, <2>4
<1>4. Recorded(c, e)
  BY <1>1, <1>2, <1>3 DEF Recorded
<1>5. UNION {DOMAIN e.leaf[c[i].id] : i \in 1 .. Len(c)} = Covered(c, d.leaf)
  BY <1>3 DEF Covered
<1>6. Whole(e) /\ KeysOf(e) = UNION {DOMAIN e.leaf[c[i].id] : i \in 1 .. Len(c)}
  BY <1>1, <1>4, StoredWhole
<1>7. KeysOf(e) = K
  BY <1>1, <1>5, <1>6
<1>8. Agrees(ClearUnsaved(t), e)
  BY <1>4, ClearAgrees
<1> QED
  BY <1>6, <1>7, <1>8

\* A save with nothing to save.
LEMMA SaveNothing ==
  ASSUME NEW t, TreeIn(t, Keys), NEW d, DiskIn(d, Keys), Agrees(t, d),
         NEW e, e = DumpNodes(t, d, UnsavedNodes(t))
  PROVE  Whole(e) /\ KeysOf(e) = KeysOf(d) /\ Agrees(ClearUnsaved(t), e)
<1> DEFINE c == t.children
<1>1. c \in Seq(LeafType)
  BY DEF TreeIn, LeavesIn
<1>2. UnsavedNodes(t) = {}
  BY DEF UnsavedNodes, Agrees, Clean
<1>3. /\ e.root = d.root /\ DOMAIN e.leaf = DOMAIN d.leaf
      /\ \A id \in DOMAIN d.leaf : e.leaf[id] = d.leaf[id]
  BY <1>2 DEF DumpNodes
<1>4. d.root = RefsOf(c) /\ Ascending(c) /\ \A i \in 1 .. Len(c) : Clean(c[i], d.leaf)
  BY DEF Agrees
<1>5. Recorded(c, d) /\ Recorded(c, e)
  BY <1>3, <1>4 DEF Recorded, Clean
<1>6. \A i \in 1 .. Len(c) : DOMAIN e.leaf[c[i].id] = DOMAIN d.leaf[c[i].id]
  BY <1>3, <1>4 DEF Clean
<1>7. KeysOf(d) = UNION {DOMAIN d.leaf[c[i].id] : i \in 1 .. Len(c)}
  BY <1>1, <1>5, StoredWhole
<1>8. Whole(e) /\ KeysOf(e) = UNION {DOMAIN e.leaf[c[i].id] : i \in 1 .. Len(c)}
  BY <1>1, <1>5, StoredWhole
<1>9. KeysOf(e) = KeysOf(d)
  BY <1>6, <1>7, <1>8
<1> QED
  BY <1>5, <1>8, <1>9, ClearAgrees

\* A new session has nothing to save and has read nothing.
LEMMA OpenAgrees ==
  ASSUME NEW d, DiskIn(d, Keys), Whole(d)
  PROVE  Agrees(OpenIndex(d), d)
<1> DEFINE root == d.root
<1>1. root \in Seq(Refs) /\ Len(root) \in Nat
  BY DEF DiskIn
<1>2. PICK t : t = OpenIndex(d)
  OBVIOUS
<1>3. PICK c : c = OpenIndex(d).children
  OBVIOUS
<1>4. /\ c \in Seq(LeafType) /\ Len(c) = Len(root)
      /\ \A i \in 1 .. Len(root) :
           /\ c[i].id = root[i].id /\ c[i].min = root[i].min /\ c[i].max = root[i].max
           /\ DOMAIN c[i].kvs = {} /\ ~ c[i].unsaved
  <2>1. d.root \in Seq(Refs)
    BY <1>1
  <2>2. c \in Seq(LeafType) /\ Len(c) = Len(root)
    BY <1>3, <2>1, OpenParts, Zenon
  <2>3. ASSUME NEW i \in 1 .. Len(root)
        PROVE  /\ c[i].id = root[i].id /\ c[i].min = root[i].min /\ c[i].max = root[i].max
               /\ DOMAIN c[i].kvs = {} /\ ~ c[i].unsaved
    BY <1>3, <2>1, OpenParts, Zenon
  <2> QED
    BY <2>2, <2>3
<1>5. c = [i \in 1 .. Len(root) |-> LeafFromRef(root[i])] /\ ~ t.unsaved
  BY <1>2, <1>3 DEF OpenIndex, OpenTree
<1>6. ASSUME NEW i \in 1 .. Len(root)
      PROVE  c[i].count = root[i].count /\ c[i].size = root[i].size
  <2>1. PICK ref \in Refs : ref = root[i]
    BY <1>1
  <2>2. PICK new : new = NewLeaf(ref.id)
    OBVIOUS
  <2>3. ref.id \in Nat
    BY <2>1 DEF Refs
  <2>4. new \in LeafType
    BY <2>2, <2>3, NewLeafOK DEF LeafOK
  <2>5. PICK leaf : leaf = [new EXCEPT !.count = ref.count, !.size = ref.size,
                                       !.min = ref.min, !.max = ref.max]
    OBVIOUS
  <2>6. leaf.count = ref.count /\ leaf.size = ref.size
    BY <2>4, <2>5 DEF LeafType
  <2>7. c[i] = leaf
    BY <1>5, <2>1, <2>2, <2>5 DEF LeafFromRef
  <2> QED
    BY <2>1, <2>6, <2>7
<1>7. RefsOf(c) = root
  <2> DEFINE r == [i \in 1 .. Len(c) |->
                     [id |-> c[i].id, count |-> c[i].count, size |-> c[i].size,
                      min |-> c[i].min, max |-> c[i].max]]
  <2>1. ASSUME NEW i \in 1 .. Len(root) PROVE r[i] = root[i]
    <3>1. PICK ref \in Refs : ref = root[i]
      BY <1>1
    <3>2. ref = [id |-> ref.id, count |-> ref.count, size |-> ref.size,
                 min |-> ref.min, max |-> ref.max]
      BY <3>1 DEF Refs
    <3>3. r[i] = [id |-> c[i].id, count |-> c[i].count, size |-> c[i].size,
                  min |-> c[i].min, max |-> c[i].max]
      BY <1>4
    <3> QED
      BY <1>4, <1>6, <3>1, <3>2, <3>3
  <2>2. r = [i \in 1 .. Len(root) |-> r[i]] /\ root = [i \in 1 .. Len(root) |-> root[i]]
    BY <1>1, <1>4
  <2>3. RefsOf(c) = r
    BY DEF RefsOf
  <2> HIDE DEF r
  <2> QED
    BY <2>1, <2>2, <2>3
<1>8. \A i \in 1 .. Len(c) : Clean(c[i], d.leaf)
  BY <1>4 DEF Whole, Clean, Bounded, Spans
<1>9. Ascending(c)
  BY <1>4 DEF Whole, Ascending
<1>10. Agrees(t, d)
  BY <1>2, <1>3, <1>5, <1>7, <1>8, <1>9 DEF Agrees
<1> QED
  BY <1>2, <1>10

\* Bptree::GetItem finds the keys of the index and no others.
LEMMA GetItemExact ==
  ASSUME NEW t, TreeIn(t, Keys), NEW d, DiskIn(d, Keys), Agrees(t, d), NEW key \in Keys
  PROVE  /\ \A o \in GetItemOutcomes(t, d.leaf, key) : o.st = C_OK <=> key \in KeysOf(d)
         /\ GetItemOutcomes(t, d.leaf, key) # {}
<1> DEFINE c == t.children
           At(i) == IF i > Len(c)
                    THEN Outcome(t, C_STORAGE_KV_NOT_FOUND)
                    ELSE IF LoadStatus(c[i], d.leaf) # C_OK
                         THEN Outcome(t, LoadStatus(c[i], d.leaf))
                         ELSE LET u == LoadChild(t, i, d.leaf)
                              IN  Outcome(u, IF key \in DOMAIN u.children[i].kvs
                                             THEN C_OK ELSE C_BPTREE_ERROR)
<1>1. c \in Seq(LeafType) /\ Len(c) \in Nat /\ StoreOK(d.leaf)
  BY DEF TreeIn, LeavesIn, DiskIn, StoreIn
<1>2. /\ KeysOf(d) = Covered(c, d.leaf) /\ Ranged(c)
      /\ \A i \in 1 .. Len(c) : /\ Clean(c[i], d.leaf)
                                /\ Bounded(c[i], DOMAIN d.leaf[c[i].id])
  BY <1>1, AgreedLeaves
<1>3. GetItemOutcomes(t, d.leaf, key) = {At(i) : i \in FindChild(c, key)}
  BY DEF GetItemOutcomes
<1>4. FindChild(c, key) # {}
  BY <1>1, <1>2, LowerExists
<1>5. ASSUME key \in KeysOf(d)
      PROVE  \E j \in 1 .. Len(c) : /\ key \in DOMAIN d.leaf[c[j].id]
                                    /\ \A i \in FindChild(c, key) : i = j
  <2>1. PICK j \in 1 .. Len(c) : key \in Items(c[j], d.leaf)
    BY <1>2, <1>5 DEF Covered
  <2>2. key \in DOMAIN d.leaf[c[j].id]
    BY <1>2, <2>1 DEF Clean, Items
  <2>3. c[j].min <= key /\ key <= c[j].max
    BY <1>2, <2>2 DEF Bounded, Spans
  <2> QED
    BY <1>1, <1>2, <2>2, <2>3, RangeFound
<1>6. ASSUME NEW i \in FindChild(c, key)
      PROVE  At(i).st = C_OK <=> key \in KeysOf(d)
  <2>1. i \in 1 .. Len(c) + 1
    BY <1>1, <1>2, RangeMissed
  <2>2. CASE i > Len(c)
    <3>1. At(i) = Outcome(t, C_STORAGE_KV_NOT_FOUND)
      BY <2>2
    <3>2. key \notin KeysOf(d)
      BY <1>1, <1>5, <2>2
    <3> HIDE DEF At
    <3> QED
      BY <3>1, <3>2 DEF Outcome, C_OK, C_STORAGE_KV_NOT_FOUND
  <2>3. CASE ~ (i > Len(c))
    <3>1. i \in 1 .. Len(c)
      BY <1>1, <2>1, <2>3
    <3>2. LoadStatus(c[i], d.leaf) = C_OK
      BY <1>2, <3>1 DEF LoadStatus, Clean
    <3>3. PICK u : u = LoadChild(t, i, d.leaf)
      OBVIOUS
    <3>4. u.children[i].id = c[i].id /\ DOMAIN u.children[i].kvs = DOMAIN d.leaf[u.children[i].id]
      BY <3>1, <3>3, VisitAgrees
    <3>5. PICK D : D = DOMAIN d.leaf[c[i].id]
      OBVIOUS
    <3>6. key \in KeysOf(d) <=> key \in D
      <4>1. Items(c[i], d.leaf) = D
        BY <1>2, <3>1, <3>5 DEF Clean, Items
      <4>2. key \in D => key \in KeysOf(d)
        BY <1>2, <3>1, <4>1 DEF Covered
      <4> QED
        BY <1>5, <3>5, <4>2
    <3>7. At(i) = Outcome(u, IF key \in D THEN C_OK ELSE C_BPTREE_ERROR)
      BY <2>3, <3>2, <3>3, <3>4, <3>5
    <3> HIDE DEF At
    <3> QED
      BY <3>6, <3>7 DEF Outcome, C_OK, C_BPTREE_ERROR
  <2> QED
    BY <2>2, <2>3
<1> HIDE DEF At
<1> QED
  BY <1>3, <1>4, <1>6

\* What a new session finds is what is stored.
LEMMA WholeFound ==
  ASSUME DiskIn(disk, Keys), Whole(disk)
  PROVE  Stored = KeysOf(disk)
<1>1. PICK t : t = OpenIndex(disk)
  OBVIOUS
<1>2. TreeIn(t, Keys) /\ Agrees(t, disk)
  BY <1>1, OpenIn, OpenAgrees
<1>3. Stored = {key \in Keys : \A o \in GetItemOutcomes(t, disk.leaf, key) : o.st = C_OK}
  BY <1>1 DEF Stored
<1>4. \A key \in Keys :
        /\ \A o \in GetItemOutcomes(t, disk.leaf, key) : o.st = C_OK <=> key \in KeysOf(disk)
        /\ GetItemOutcomes(t, disk.leaf, key) # {}
  BY <1>2, GetItemExact
<1>5. KeysOf(disk) \subseteq Keys
  BY DEF KeysOf, Whole, DiskIn, StoreIn
<1> QED
  BY <1>3, <1>4, <1>5

-----------------------------------------------------------------------------
(* Statements of one row without failures *)

\* The keys of the index after a complete save of statement j.
SavedKeys(j, K) ==
  CASE j.op = "insert" -> K \cup ChunkKeys(j.chunk)
    [] j.op = "delete" -> K \ ChunkKeys(j.chunk)
    [] OTHER -> K

\* Before a statement has changed the index, and after it has saved it, the session
\* agrees with the store; in between, the next save stores exactly its effect, and
\* an INSERT has met none of its keys.
IndexInv ==
  /\ TableInv
  /\ RootSized(tree)
  /\ DifferentIds(tree.children)
  /\ Whole(disk)
  /\ job.op = "none" => job = Idle
  /\ job.phase \in {"idle", "index"} => Agrees(tree, disk)
  /\ job.phase = "index" => job.done = 0
  /\ job.phase \in {"data", "submit"} =>
       \/ Carries(tree, disk, SavedKeys(job, KeysOf(disk)))
       \/ Agrees(tree, disk) /\ SavedKeys(job, KeysOf(disk)) = KeysOf(disk)
  /\ job.op = "insert" /\ job.phase = "submit" => ChunkKeys(job.chunk) \cap KeysOf(disk) = {}
  /\ acked \subseteq KeysOf(disk)
  /\ job.op = "delete" => acked \cap ChunkKeys(job.chunk) = {}

\* A chunk of one row.
LEMMA OneRow ==
  ASSUME MaxChunk = 1, JobOK, job.phase = "index", job.done = 0
  PROVE  /\ job.done + 1 = Len(job.chunk)
         /\ ChunkKeys(job.chunk) = {job.chunk[job.done + 1].key}
         /\ job.chunk[job.done + 1].key \in Keys
<1>1. PICK chunk \in Chunks : chunk = job.chunk
  BY DEF JobOK
<1>2. chunk \in [1 .. 1 -> Row]
  BY DEF Chunks
<1>3. Len(chunk) = 1 /\ DOMAIN chunk = {1}
  BY <1>2
<1>4. ChunkKeys(chunk) = {chunk[1].key}
  BY <1>3 DEF ChunkKeys
<1>5. job.done + 1 = 1
  OBVIOUS
<1>6. chunk[1].key \in Keys
  BY <1>4, ChunkParts
<1> QED
  BY <1>1, <1>3, <1>4, <1>5, <1>6

\* What one row of an INSERT does.
LEMMA IndexInsertRow ==
  ASSUME MaxChunk = 1, IndexInv, TableInv', DifferentIds(tree'.children), InsertRow
  PROVE  /\ IndexInv'
         /\ disk' = disk
         /\ \/ job' = Idle /\ ChunkKeys(job.chunk) \cap KeysOf(disk) # {}
            \/ job'.op = job.op /\ job'.chunk = job.chunk
<1>1. /\ TreeIn(tree, Keys) /\ DiskIn(disk, Keys) /\ RootSized(tree) /\ Whole(disk)
      /\ JobOK /\ job \in JobType /\ job.op = "insert" /\ job.phase = "index" /\ job.done = 0
      /\ disk' = disk /\ acked' = acked /\ Agrees(tree, disk) /\ acked \subseteq KeysOf(disk)
  BY DEF IndexInv, TableInv, JobOK, InsertRow
<1>2. PICK key : key = job.chunk[job.done + 1].key
  OBVIOUS
<1>3. job.done + 1 = Len(job.chunk) /\ ChunkKeys(job.chunk) = {key} /\ key \in Keys
  BY <1>1, <1>2, OneRow
<1>4. NoValue \in Values
  BY TableAssumption
<1>5. PICK o \in InsertOutcomes(tree, disk.leaf, key, NoValue) :
        /\ tree' = o.tree
        /\ \/ o.st # C_OK /\ job' = Idle
           \/ o.st = C_OK /\ job' = [job EXCEPT !.phase = "submit", !.done = @ + 1]
  BY <1>2, <1>3 DEF InsertRow
<1>6. DifferentIds(o.tree.children)
  BY <1>5
<1>7. PICK K : K = KeysOf(disk)
  OBVIOUS
<1>8. /\ o.st = C_OK => key \notin K /\ Carries(o.tree, disk, K \cup {key})
      /\ o.st # C_OK => key \in K /\ Agrees(o.tree, disk)
  BY <1>1, <1>3, <1>4, <1>6, <1>7, InsertExact
<1>9. RootSized(tree')
  BY <1>1, <1>3, <1>4, <1>5, InsertSized DEF DiskIn
<1>10. CASE o.st # C_OK
  <2>1. job' = Idle /\ Agrees(tree', disk) /\ key \in K
    BY <1>5, <1>8, <1>10
  <2>2. IndexInv'
    BY <1>1, <1>9, <2>1 DEF IndexInv, Idle
  <2> QED
    BY <1>1, <1>3, <1>7, <2>1, <2>2
<1>11. CASE o.st = C_OK
  <2>1. job'.op = "insert" /\ job'.chunk = job.chunk /\ job'.phase = "submit"
    BY <1>1, <1>5, <1>11 DEF JobType
  <2>2. SavedKeys(job', K) = K \cup {key}
    BY <1>3, <2>1 DEF SavedKeys
  <2>3. Carries(tree', disk, SavedKeys(job', K)) /\ key \notin K
    BY <1>5, <1>8, <1>11, <2>2
  <2>4. ChunkKeys(job'.chunk) \cap K = {}
    BY <1>3, <2>1, <2>3
  <2>5. KeysOf(disk') = K
    BY <1>1, <1>7
  <2>6. IndexInv'
    BY <1>1, <1>7, <1>9, <2>1, <2>3, <2>4, <2>5 DEF IndexInv
  <2> QED
    BY <1>1, <2>1, <2>6
<1> QED
  BY <1>10, <1>11

\* What one row of a DELETE does.
LEMMA IndexDeleteRow ==
  ASSUME MaxChunk = 1, IndexInv, TableInv', DifferentIds(tree'.children), DeleteRow
  PROVE  /\ IndexInv'
         /\ disk' = disk /\ job'.op = job.op /\ job'.chunk = job.chunk
<1>1. /\ TreeIn(tree, Keys) /\ DiskIn(disk, Keys) /\ RootSized(tree) /\ Whole(disk)
      /\ JobOK /\ job \in JobType /\ job.op = "delete" /\ job.phase = "index" /\ job.done = 0
      /\ disk' = disk /\ acked' = acked /\ Agrees(tree, disk) /\ acked \subseteq KeysOf(disk)
      /\ acked \cap ChunkKeys(job.chunk) = {}
  BY DEF IndexInv, TableInv, JobOK, DeleteRow
<1>2. PICK key : key = job.chunk[job.done + 1].key
  OBVIOUS
<1>3. job.done + 1 = Len(job.chunk) /\ ChunkKeys(job.chunk) = {key} /\ key \in Keys
  BY <1>1, <1>2, OneRow
<1>4. PICK o \in DeleteOutcomes(tree, disk.leaf, key) :
        /\ tree' = o.tree
        /\ o.st = C_OK => job' = [job EXCEPT !.phase = "data", !.done = @ + 1]
  BY <1>2, <1>3 DEF DeleteRow
<1>5. PICK K : K = KeysOf(disk)
  OBVIOUS
<1>6. /\ o.st = C_OK
      /\ key \notin K => Agrees(o.tree, disk)
      /\ key \in K => Carries(o.tree, disk, K \ {key})
  BY <1>1, <1>3, <1>5, DeleteExact
<1>7. RootSized(tree')
  BY <1>1, <1>3, <1>4, DeleteSized DEF DiskIn
<1>8. job'.op = "delete" /\ job'.chunk = job.chunk /\ job'.phase = "data"
  BY <1>1, <1>4, <1>6 DEF JobType
<1>9. SavedKeys(job', K) = K \ {key}
  BY <1>3, <1>8 DEF SavedKeys
<1>10. \/ Carries(tree', disk, SavedKeys(job', K))
       \/ Agrees(tree', disk) /\ SavedKeys(job', K) = K
  BY <1>4, <1>6, <1>9
<1>11. KeysOf(disk') = K
  BY <1>1, <1>5
<1>12. IndexInv'
  BY <1>1, <1>5, <1>7, <1>8, <1>10, <1>11 DEF IndexInv
<1> QED
  BY <1>1, <1>8, <1>12

\* What Submit does.
LEMMA IndexSubmit ==
  ASSUME IndexInv, TableInv', DifferentIds(tree'.children), Submit
  PROVE  /\ IndexInv'
         /\ job' = Idle /\ job.op # "none"
         /\ KeysOf(disk') = SavedKeys(job, KeysOf(disk))
         /\ job.op = "insert" => ChunkKeys(job.chunk) \cap KeysOf(disk) = {}
<1>1. /\ TreeIn(tree, Keys) /\ DiskIn(disk, Keys) /\ RootSized(tree)
      /\ DifferentIds(tree.children) /\ Whole(disk)
      /\ job.phase = "submit" /\ job' = Idle
  BY DEF IndexInv, TableInv, Submit
<1>2. PICK e : e = DumpNodes(tree, disk, UnsavedNodes(tree))
  OBVIOUS
<1>3. disk' = e /\ tree' = ClearUnsaved(tree)
  BY <1>2 DEF Submit
<1>4. PICK K : K = SavedKeys(job, KeysOf(disk))
  OBVIOUS
<1>5. Whole(e) /\ KeysOf(e) = K /\ Agrees(ClearUnsaved(tree), e)
  <2>1. CASE Carries(tree, disk, K)
    BY <1>1, <1>2, <2>1, SaveExact
  <2>2. CASE Agrees(tree, disk) /\ K = KeysOf(disk)
    BY <1>1, <1>2, <2>2, SaveNothing
  <2> QED
    BY <1>1, <1>4, <2>1, <2>2 DEF IndexInv
<1>6. job.op # "none"
  BY <1>1 DEF IndexInv, Idle
<1>7. Whole(disk') /\ Agrees(tree', disk') /\ KeysOf(disk') = K
  BY <1>3, <1>5
<1>8. RootSized(tree')
  <2>1. tree \in TreeType
    BY <1>1 DEF TreeIn
  <2> QED
    BY <1>1, <1>3, <2>1, ClearSized, SameRootSized
<1>9. acked' \subseteq K
  <2>1. /\ acked \subseteq KeysOf(disk)
        /\ job.op = "delete" => acked \cap ChunkKeys(job.chunk) = {}
        /\ acked' = IF job.op = "insert" THEN acked \cup ChunkKeys(job.chunk) ELSE acked
    BY DEF IndexInv, Submit
  <2>2. CASE job.op = "insert"
    BY <1>4, <2>1, <2>2 DEF SavedKeys
  <2>3. CASE job.op = "delete"
    BY <1>4, <2>1, <2>3 DEF SavedKeys
  <2>4. CASE job.op \notin {"insert", "delete"}
    BY <1>4, <2>1, <2>4 DEF SavedKeys
  <2> QED
    BY <2>2, <2>3, <2>4
<1>10. IndexInv'
  BY <1>1, <1>7, <1>8, <1>9 DEF IndexInv, Idle
<1> QED
  BY <1>1, <1>3, <1>4, <1>5, <1>6, <1>10 DEF IndexInv

\* The steps that leave the store alone.
LEMMA IndexElse ==
  ASSUME IndexInv, TableInv', DifferentIds(tree'.children),
         \/ \E chunk \in Chunks : BeginInsert(chunk) \/ BeginDelete(chunk)
         \/ DeleteData \/ Update \/ Reopen \/ UNCHANGED tableVars
  PROVE  IndexInv' /\ disk' = disk
<1>1. /\ DiskIn(disk, Keys) /\ Whole(disk) /\ JobOK /\ job \in JobType /\ RootSized(tree)
      /\ acked \subseteq KeysOf(disk)
  BY DEF IndexInv, TableInv, JobOK
<1>2. disk' = disk
  BY DEF BeginInsert, BeginDelete, DeleteData, Update, Reopen, tableVars
<1>3. ASSUME NEW chunk \in Chunks, BeginInsert(chunk) \/ BeginDelete(chunk) PROVE IndexInv'
  <2>1. /\ tree' = tree /\ job = Idle /\ job'.op # "none" /\ job'.phase = "index"
        /\ job'.done = 0 /\ job'.chunk = chunk
    BY <1>3 DEF BeginInsert, BeginDelete
  <2>2. Agrees(tree', disk')
    BY <1>2, <2>1 DEF IndexInv, Idle
  <2>3. acked' \subseteq acked /\ (job'.op = "delete" => acked' \cap ChunkKeys(chunk) = {})
    BY <1>3 DEF BeginInsert, BeginDelete
  <2> QED
    BY <1>1, <1>2, <2>1, <2>2, <2>3 DEF IndexInv
<1>4. CASE DeleteData
  <2>1. /\ tree' = tree /\ job' = [job EXCEPT !.phase = "submit"] /\ job.op = "delete"
        /\ acked' = acked
    BY <1>1, <1>4 DEF DeleteData, JobOK
  <2>2. job'.op = "delete" /\ job'.chunk = job.chunk /\ job'.phase = "submit"
    BY <1>1, <2>1 DEF JobType
  <2>3. SavedKeys(job', KeysOf(disk)) = SavedKeys(job, KeysOf(disk))
    BY <2>1, <2>2 DEF SavedKeys
  <2>4. \/ Carries(tree, disk, SavedKeys(job', KeysOf(disk)))
        \/ Agrees(tree, disk) /\ SavedKeys(job', KeysOf(disk)) = KeysOf(disk)
    BY <1>4, <2>3 DEF IndexInv, DeleteData
  <2>5. acked \cap ChunkKeys(job'.chunk) = {}
    BY <2>1, <2>2 DEF IndexInv
  <2> QED
    BY <1>1, <1>2, <2>1, <2>2, <2>4, <2>5 DEF IndexInv
<1>5. CASE Update
  <2>1. /\ tree' = tree /\ job = Idle /\ job'.op = "update" /\ job'.phase = "submit"
        /\ acked' = acked
    BY <1>5 DEF Update
  <2>2. Agrees(tree, disk)
    BY <2>1 DEF IndexInv, Idle
  <2>3. SavedKeys(job', KeysOf(disk)) = KeysOf(disk)
    BY <2>1 DEF SavedKeys
  <2> QED
    BY <1>1, <1>2, <2>1, <2>2, <2>3 DEF IndexInv
<1>6. CASE Reopen
  <2>1. tree' = OpenIndex(disk) /\ job' = job /\ job = Idle /\ acked' = acked
    BY <1>6 DEF Reopen
  <2>2. Agrees(tree', disk') /\ RootSized(tree')
    BY <1>1, <1>2, <2>1, OpenAgrees, OpenSized
  <2> QED
    BY <1>1, <1>2, <2>1, <2>2 DEF IndexInv, Idle
<1>7. CASE UNCHANGED tableVars
  <2>1. tree' = tree /\ job' = job /\ acked' = acked
    BY <1>7 DEF tableVars
  <2> QED
    BY <1>1, <1>2, <2>1 DEF IndexInv
<1> QED
  BY <1>2, <1>3, <1>4, <1>5, <1>6, <1>7

LEMMA IndexInit == TableInit => IndexInv
<1> SUFFICES ASSUME TableInit PROVE IndexInv
  OBVIOUS
<1>1. TableInv
  BY TableInitOK
<1>2. /\ job = Idle /\ tree.children = <<>> /\ ~ tree.unsaved /\ disk.root = <<>>
      /\ acked = {}
  BY DEF TableInit, Init, OpenTree, EmptyDisk
<1>3. \A i : i \notin 1 .. Len(<<>>)
  OBVIOUS
<1>4. DifferentIds(<<>>) /\ Ascending(<<>>)
  BY <1>3 DEF DifferentIds, Ascending
<1>5. Whole(disk)
  BY <1>2, <1>3, <1>4 DEF Whole
<1>6. RefsOf(<<>>) = <<>>
  BY DEF RefsOf
<1>7. Agrees(tree, disk)
  BY <1>2, <1>3, <1>4, <1>6 DEF Agrees
<1>8. RootSized(tree)
  BY OpenSized DEF TableInit, Init, OpenIndex, PersistedTreeId
<1> QED
  BY <1>1, <1>2, <1>4, <1>5, <1>7, <1>8 DEF IndexInv, Idle

\* The step of the promise that a step of the table is.
LEMMA IndexNext ==
  ASSUME MaxChunk = 1, Environment \subseteq {"reopen"},
         IndexInv, NodeIdsUnique', [TableNext]_tableVars
  PROVE  IndexInv' /\ [Promise!SpecNext]_(Promise!specVars)
<1>1. TableInv' /\ DifferentIds(tree'.children)
  BY TableNextOK DEF IndexInv, NodeIdsUnique, DifferentIds
<1>2. /\ DiskIn(disk, Keys) /\ Whole(disk)
  BY DEF IndexInv, TableInv
<1>3. Stored = KeysOf(disk)
  BY <1>2, WholeFound
<1>4. disk' = disk => Stored' = Stored
  BY DEF Stored
<1>5. ChunkKeys(Idle.chunk) = {} /\ Idle.op = "none"
  BY DEF Idle, ChunkKeys
<1>6. ASSUME NEW op \in {"insert", "delete", "update"}, NEW K \in SUBSET Keys,
             job = Idle, job'.op = op, ChunkKeys(job'.chunk) = K, disk' = disk
      PROVE  Promise!SpecNext
  <2>1. Promise!Begin(op, K)
    BY <1>4, <1>5, <1>6 DEF Promise!Begin, Promise!NoReq
  <2> QED
    BY <2>1 DEF Promise!SpecNext
<1>7. CASE \E chunk \in Chunks : BeginInsert(chunk) \/ BeginDelete(chunk)
  <2>1. PICK chunk \in Chunks : BeginInsert(chunk) \/ BeginDelete(chunk)
    BY <1>7
  <2>2. /\ job = Idle /\ job'.op \in {"insert", "delete", "update"} /\ job'.chunk = chunk
        /\ disk' = disk
    BY <2>1 DEF BeginInsert, BeginDelete
  <2>3. ChunkKeys(job'.chunk) \in SUBSET Keys
    BY <2>2, ChunkParts
  <2> QED
    BY <1>1, <1>6, <1>7, <2>2, <2>3, IndexElse
<1>8. CASE Update
  <2>1. job = Idle /\ job'.op = "update" /\ job'.chunk = <<>> /\ disk' = disk
    BY <1>8 DEF Update
  <2>2. ChunkKeys(job'.chunk) \in SUBSET Keys
    BY <2>1 DEF ChunkKeys
  <2> QED
    BY <1>1, <1>6, <1>8, <2>1, <2>2, IndexElse
<1>9. CASE DeleteData \/ Reopen \/ UNCHANGED tableVars
  <2>1. IndexInv' /\ disk' = disk
    BY <1>1, <1>9, IndexElse
  <2>2. job'.op = job.op /\ job'.chunk = job.chunk
    BY <1>9 DEF DeleteData, Reopen, tableVars, IndexInv, TableInv, JobOK, JobType
  <2>3. UNCHANGED Promise!specVars
    BY <1>4, <2>1, <2>2 DEF Promise!specVars
  <2> QED
    BY <2>1, <2>3
<1>10. CASE InsertRow
  <2>1. /\ IndexInv' /\ disk' = disk
        /\ \/ job' = Idle /\ ChunkKeys(job.chunk) \cap KeysOf(disk) # {}
           \/ job'.op = job.op /\ job'.chunk = job.chunk
    BY <1>1, <1>10, IndexInsertRow
  <2>2. CASE job' = Idle /\ ChunkKeys(job.chunk) \cap KeysOf(disk) # {}
    <3>1. job.op = "insert"
      BY <1>10 DEF InsertRow
    <3>2. Promise!RejectInsert
      BY <1>3, <1>4, <1>5, <2>1, <2>2, <3>1 DEF Promise!RejectInsert, Promise!NoReq
    <3> QED
      BY <2>1, <3>2 DEF Promise!SpecNext, Promise!Finish
  <2>3. CASE job'.op = job.op /\ job'.chunk = job.chunk
    <3>1. UNCHANGED Promise!specVars
      BY <1>4, <2>1, <2>3 DEF Promise!specVars
    <3> QED
      BY <2>1, <3>1
  <2> QED
    BY <2>1, <2>2, <2>3
<1>11. CASE DeleteRow
  <2>1. IndexInv' /\ disk' = disk /\ job'.op = job.op /\ job'.chunk = job.chunk
    BY <1>1, <1>11, IndexDeleteRow
  <2>2. UNCHANGED Promise!specVars
    BY <1>4, <2>1 DEF Promise!specVars
  <2> QED
    BY <2>1, <2>2
<1>12. CASE Submit
  <2>1. /\ IndexInv' /\ job' = Idle /\ job.op # "none"
        /\ KeysOf(disk') = SavedKeys(job, KeysOf(disk))
        /\ job.op = "insert" => ChunkKeys(job.chunk) \cap KeysOf(disk) = {}
    BY <1>1, <1>12, IndexSubmit
  <2>2. Stored' = SavedKeys(job, Stored)
    <3>1. DiskIn(disk', Keys) /\ Whole(disk')
      BY <2>1 DEF IndexInv, TableInv
    <3>2. (DiskIn(disk, Keys) /\ Whole(disk) => Stored = KeysOf(disk))'
      BY WholeFound, PTL
    <3>3. Stored' = KeysOf(disk')
      BY <3>1, <3>2
    <3> QED
      BY <1>3, <2>1, <3>3
  <2>3. job.op \in {"insert", "delete", "update"}
    BY <2>1 DEF IndexInv, TableInv, JobOK, JobType
  <2>4. [op |-> job'.op, keys |-> ChunkKeys(job'.chunk)] = [op |-> "none", keys |-> {}]
    BY <1>5, <2>1
  <2>5. Promise!Finish
    <3>1. CASE job.op = "insert"
      <4>1. Stored' = Stored \cup ChunkKeys(job.chunk) /\ ChunkKeys(job.chunk) \cap Stored = {}
        BY <1>3, <2>1, <2>2, <3>1 DEF SavedKeys
      <4> QED
        BY <2>4, <3>1, <4>1 DEF Promise!Finish, Promise!CommitInsert, Promise!NoReq
    <3>2. CASE job.op = "delete"
      <4>1. Stored' = Stored \ ChunkKeys(job.chunk)
        BY <2>2, <3>2 DEF SavedKeys
      <4> QED
        BY <2>4, <3>2, <4>1 DEF Promise!Finish, Promise!CommitDelete, Promise!NoReq
    <3>3. CASE job.op = "update"
      <4>1. Stored' = Stored
        BY <2>2, <3>3 DEF SavedKeys
      <4> QED
        BY <2>4, <3>3, <4>1 DEF Promise!Finish, Promise!CommitUpdate, Promise!NoReq
    <3> QED
      BY <2>3, <3>1, <3>2, <3>3
  <2> QED
    BY <2>1, <2>5 DEF Promise!SpecNext
<1>13. ~ DeleteDataFails /\ ~ SubmitFails /\ ~ Crash
  BY DEF DeleteDataFails, SubmitFails, Crash
<1> QED
  BY <1>7, <1>8, <1>9, <1>10, <1>11, <1>12, <1>13 DEF TableNext

\* An INSERT, DELETE or UPDATE of one row takes effect on the keys a new session
\* finds as a whole, when its Submit ends, and an INSERT has no effect only when its
\* key is there already: however often leaves split and in whatever sessions the
\* statements are issued, as long as a split takes no id that a leaf of the index
\* has, no write fails and no process dies.
THEOREM StatementsAreAtomic ==
  ASSUME MaxChunk = 1, Environment \subseteq {"reopen"}
  PROVE  TableSpec /\ []NodeIdsUnique => ImplementsIndexSpec
<1>1. TableInit => IndexInv /\ Promise!SpecInit
  <2> SUFFICES ASSUME TableInit PROVE IndexInv /\ Promise!SpecInit
    OBVIOUS
  <2>1. IndexInv
    BY IndexInit
  <2>2. Stored = KeysOf(disk)
    BY <2>1, WholeFound DEF IndexInv, TableInv
  <2>3. KeysOf(disk) = {}
    <3>1. disk.root = <<>> /\ \A i : i \notin 1 .. Len(<<>>)
      BY DEF TableInit, Init, EmptyDisk
    <3> QED
      BY <3>1 DEF KeysOf
  <2>4. job.op = "none" /\ ChunkKeys(job.chunk) = {}
    BY DEF TableInit, Idle, ChunkKeys
  <2> QED
    BY <2>1, <2>2, <2>3, <2>4 DEF Promise!SpecInit, Promise!NoReq
<1>2. IndexInv /\ NodeIdsUnique' /\ [TableNext]_tableVars =>
        IndexInv' /\ [Promise!SpecNext]_(Promise!specVars)
  BY IndexNext
<1> QED
  BY <1>1, <1>2, PTL DEF TableSpec, ImplementsIndexSpec, Promise!IndexBehaviour

LEMMA IndexInvHolds ==
  ASSUME MaxChunk = 1, Environment \subseteq {"reopen"}
  PROVE  TableSpec /\ []NodeIdsUnique => []IndexInv
<1>1. TableInit => IndexInv
  BY IndexInit
<1>2. IndexInv /\ NodeIdsUnique' /\ [TableNext]_tableVars => IndexInv'
  BY IndexNext
<1> QED
  BY <1>1, <1>2, PTL DEF TableSpec

\* Under the same conditions the cached tree and the store agree between two
\* statements: the root record is that of the cached leaves, the ends of each range
\* are the first and the last key of the leaf's record, and the ranges ascend
\* without overlap.
THEOREM RangesStayExact ==
  ASSUME MaxChunk = 1, Environment \subseteq {"reopen"}
  PROVE  TableSpec /\ []NodeIdsUnique => []RangesPartitionKeys
<1>1. IndexInv => RangesPartitionKeys
  <2> SUFFICES ASSUME IndexInv, job = Idle
               PROVE  /\ RefsOf(tree.children) = disk.root
                      /\ \A i \in 1 .. Len(disk.root) :
                           /\ disk.root[i].id \in DOMAIN disk.leaf
                           /\ Bounded(disk.root[i], DOMAIN disk.leaf[disk.root[i].id])
                      /\ Ascending(disk.root)
    BY DEF RangesPartitionKeys, Bounded, Spans, Ascending
  <2>1. Agrees(tree, disk) /\ Whole(disk)
    BY DEF IndexInv, Idle
  <2> QED
    BY <2>1 DEF Agrees, Whole
<1> QED
  BY <1>1, IndexInvHolds, PTL

\* Under the same conditions a new session finds the key of every INSERT that ran
\* through Submit until a DELETE of it is started, whatever leaf a split has moved
\* it to.
THEOREM InsertsSurviveSplits ==
  ASSUME MaxChunk = 1, Environment \subseteq {"reopen"}
  PROVE  TableSpec /\ []NodeIdsUnique => [](acked \subseteq Stored) /\ InsertsAreDurable
<1>1. IndexInv => acked \subseteq Stored
  BY WholeFound DEF IndexInv, TableInv
<1>2. (acked \subseteq Stored)' =>
        [acked \subseteq Stored /\ NodeIdsUnique /\ RangesApart /\ ~SplitCutShort
           => acked' \subseteq Stored']_tableVars
  OBVIOUS
<1> QED
  BY <1>1, <1>2, IndexInvHolds, PTL DEF InsertsAreDurable

=============================================================================
