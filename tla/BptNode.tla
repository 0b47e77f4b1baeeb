------------------------------ MODULE BptNode ------------------------------
(***************************************************************************)
(* The nodes of the index tree of sql/storage/bplus_tree_node.cc, as pure  *)
(* operators on node records.                                              *)
(*                                                                         *)
(* A leaf object is a record                                               *)
(*   id       BptNode::id_                                                 *)
(*   kvs      BptNode::kvs_, the cached items of the leaf                  *)
(*   written  the keys of BptNode::write_kvs_                              *)
(*   count, size, min, max   NodeStatistics (size is node_size)            *)
(*   unsaved  TreeCtx::unsaved_nodes_[id] is this very object              *)
(*                                                                         *)
(* Keys are the positions of the encoded keys in the byte order of         *)
(* data_cmp.h, and NoKey is the empty string, which sorts before them all. *)
(* All keys have KeySize bytes and all values ValueSize: the sizes only    *)
(* decide when a node splits.  uint64_t arithmetic is modulo WordMod.      *)
(***************************************************************************)
EXTENDS Integers, Sequences, FiniteSets, FiniteSetsExt, SequencesExt, Functions

CONSTANTS
  MaxKey,       \* number of distinct keys
  Values,       \* the values an item may have
  KeySize,      \* bytes of a key
  ValueSize,    \* bytes of a value
  RefSize,      \* the fixed 20 bytes added for a reference to a leaf
  MaxNodeSize,  \* --bptree_max_node_size
  WordMod       \* 2^64 in the program

ASSUME NodeAssumption ==
  /\ MaxKey \in Nat \ {0}
  /\ KeySize \in Nat \ {0}
  /\ ValueSize \in Nat
  /\ RefSize \in Nat
  /\ MaxNodeSize \in Nat
  /\ WordMod \in Nat \ {0}

\* Two keys fit into a node: 16 KiB in the program, far above any encoded key.
ASSUME RootFits == 2 * KeySize <= MaxNodeSize /\ MaxNodeSize < WordMod

Keys == 1 .. MaxKey

NoKey == 0

Word(n) == n % WordMod

KeyLen(k) == IF k = NoKey THEN 0 ELSE KeySize

KVs == UNION {[S -> Values] : S \in SUBSET Keys}

EmptyKVs == [k \in {} |-> CHOOSE v \in Values : TRUE]

LeafType ==
  [id : Nat, kvs : KVs, written : SUBSET Keys,
   count : 0 .. WordMod - 1, size : 0 .. WordMod - 1,
   min : Keys \cup {NoKey}, max : Keys \cup {NoKey}, unsaved : BOOLEAN]

-----------------------------------------------------------------------------
(* Leaves *)

\* BptNode(ctx, parent, is_leaf): an empty leaf with default statistics.
NewLeaf(id) ==
  [id |-> id, kvs |-> EmptyKVs, written |-> {}, count |-> 0, size |-> 0,
   min |-> NoKey, max |-> NoKey, unsaved |-> FALSE]

\* BptNode(ctx, parent, BptNodeRefProto): a leaf known from the record of the
\* root, its items still on disk.
LeafFromRef(ref) ==
  [NewLeaf(ref.id) EXCEPT !.count = ref.count, !.size = ref.size,
                          !.min = ref.min, !.max = ref.max]

\* Deserialize of a leaf: kvs_.emplace keeps the item a cached key already has.
Deserialize(leaf, stored) ==
  [leaf EXCEPT !.kvs =
     [k \in DOMAIN leaf.kvs \cup DOMAIN stored |->
        IF k \in DOMAIN leaf.kvs THEN leaf.kvs[k] ELSE stored[k]]]

\* LoadNodeFromKVStorage asks the store on every visit, cached or not; without
\* a record (C_STORAGE_KV_NOT_FOUND) the leaf is left as it is.
Load(leaf, stored) ==
  IF leaf.id \in DOMAIN stored THEN Deserialize(leaf, stored[leaf.id]) ELSE leaf

\* BptNode::Insert and BptNode::Delete, after their checks.
PutItem(leaf, key, value) ==
  [leaf EXCEPT !.written = @ \cup {key},
               !.kvs = [k \in DOMAIN leaf.kvs \cup {key} |->
                          IF k = key THEN value ELSE leaf.kvs[k]]]

\* Mutant: write_kvs_ is not cleared.
DropItemKeepsWritten(leaf, key) ==
  [leaf EXCEPT !.kvs = Restrict(@, DOMAIN @ \ {key})]

DropItem(leaf, key) ==
  [leaf EXCEPT !.kvs = Restrict(@, DOMAIN @ \ {key}), !.written = @ \ {key}]

UpdateStatByAddKV(leaf, key) ==
  LET n     == Cardinality(DOMAIN leaf.kvs)
      first == n = 1
      newMax == first \/ key > leaf.max
      newMin == first \/ key < leaf.min
      grown  == IF first
                THEN 2 * KeySize + RefSize
                ELSE (IF newMax THEN KeySize - KeyLen(leaf.max) ELSE 0)
                     + (IF newMin THEN KeySize - KeyLen(leaf.min) ELSE 0)
  IN  [leaf EXCEPT !.count = Word(n),
                   !.size  = Word(@ + ValueSize + grown),
                   !.max   = IF newMax THEN key ELSE @,
                   !.min   = IF newMin THEN key ELSE @]

\* Mutant: only the count is updated.
DelKVKeepsRange(leaf, key) ==
  [leaf EXCEPT !.count = Word(Cardinality(DOMAIN leaf.kvs))]

\* The bytes of the value are never given back, those of the key only when it
\* was an end of the range.
UpdateStatByDelKV(leaf, key) ==
  LET counted == [leaf EXCEPT !.count = Word(Cardinality(DOMAIN leaf.kvs))]
  IN  CASE key = leaf.max ->
             [counted EXCEPT !.size = Word(@ - KeyLen(leaf.max)),
                             !.max = Max(DOMAIN leaf.kvs)]
        [] key # leaf.max /\ key = leaf.min ->
             [counted EXCEPT !.size = Word(@ - KeyLen(leaf.min)),
                             !.min = Min(DOMAIN leaf.kvs)]
        [] OTHER -> counted

LeafNeedSplit(leaf) ==
  /\ Cardinality(DOMAIN leaf.kvs) >= 3
  /\ leaf.size > MaxNodeSize

\* The items Split moves: all but the first half, the odd one staying left.
RightKeys(leaf) ==
  LET D == DOMAIN leaf.kvs
  IN  {k \in D : 2 * Cardinality({j \in D : j < k}) >= Cardinality(D)}

SplitRight(leaf, id) ==
  LET R == RightKeys(leaf)
  IN  [NewLeaf(id) EXCEPT !.kvs = Restrict(leaf.kvs, R), !.written = R,
                          !.size = Word(Cardinality(R) * (KeySize + ValueSize)),
                          !.min = Min(R), !.max = Max(R)]

\* Mutant: the left half keeps the old max_key.
SplitLeftKeepsMax(leaf) ==
  LET R == RightKeys(leaf)
  IN  [leaf EXCEPT !.kvs = Restrict(@, DOMAIN @ \ R), !.written = @ \ R]

SplitLeft(leaf) ==
  LET R == RightKeys(leaf)
      L == DOMAIN leaf.kvs \ R
  IN  [leaf EXCEPT !.kvs = Restrict(@, L), !.written = @ \ R,
                   !.count = Word(Cardinality(L)),
                   !.size = Word(@ - Word(Cardinality(R) * (KeySize + ValueSize))),
                   !.min = Min(L), !.max = Max(L)]

-----------------------------------------------------------------------------
(* The children of the root *)

SortedByMax(children) ==
  \A i, j \in 1 .. Len(children) : i < j => children[i].max <= children[j].max

\* std::lower_bound and std::upper_bound over the children, as the set of
\* positions they may return (Len + 1 is cend()).  They search a range sorted
\* by max_key; on any other range the standard leaves the result undefined.
MaxKeyLowerBound(children, key) ==
  IF SortedByMax(children)
  THEN {i \in 1 .. Len(children) + 1 :
          /\ \A j \in 1 .. i - 1 : children[j].max < key
          /\ i <= Len(children) => children[i].max >= key}
  ELSE 1 .. Len(children) + 1

MaxKeyUpperBound(children, key) ==
  IF SortedByMax(children)
  THEN {i \in 1 .. Len(children) + 1 :
          /\ \A j \in 1 .. i - 1 : children[j].max <= key
          /\ i <= Len(children) => children[i].max > key}
  ELSE 1 .. Len(children) + 1

\* Mutant: the child is searched with upper_bound.
FindChildUpper(children, key) == MaxKeyUpperBound(children, key)

\* FindChild(key): the child whose range holds the key, Len + 1 if none does.
FindChild(children, key) ==
  {IF i <= Len(children) /\ key >= children[i].min THEN i ELSE Len(children) + 1 :
     i \in MaxKeyLowerBound(children, key)}

AddChild(children, at, node) == InsertAt(children, at, node)

\* DelChild finds the position by the node's max_key and erases it only when
\* the node there is the one meant.
DelChild(children, at, found) ==
  IF found = at THEN RemoveAt(children, at) ELSE children

\* Mutant: the leaf is not collected.
CollectNothing(children, at) == children

\* TreeCtx::CollectUnsavedTreeNode and RemoveUnsavedTreeNode: unsaved_nodes_ is
\* keyed by node id, so a node displaces another one of the same id.
Collect(children, at) ==
  [i \in 1 .. Len(children) |->
     [children[i] EXCEPT !.unsaved =
        i = at \/ (@ /\ children[i].id # children[at].id)]]

RemoveUnsaved(children, id) ==
  [i \in 1 .. Len(children) |->
     [children[i] EXCEPT !.unsaved = @ /\ children[i].id # id]]

=============================================================================
