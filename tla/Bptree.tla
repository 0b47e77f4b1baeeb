------------------------------- MODULE Bptree -------------------------------
(***************************************************************************)
(* The index tree of sql/storage/bplus_tree.cc during one session, that is *)
(* the life of one TreeCtx: Insert, Delete and GetItem work on cached node *)
(* objects, PullUnsavedTreeNode writes the collected ones to the key-value *)
(* store, and every visit of a leaf merges its stored record back in.      *)
(*                                                                         *)
(* The root is never a leaf, and RootNeverSplits shows that it never       *)
(* splits, so a tree is a root and a sequence of leaves.                   *)
(*                                                                         *)
(* tree  the root object and TreeCtx:                                      *)
(*         children               BptNode::children_ of the root           *)
(*         count, size, min, max  statistics of the root                   *)
(*         unsaved                the root is in TreeCtx::unsaved_nodes_   *)
(*         lastId                 TreeCtx::id_                             *)
(* disk  the node records in the store: root, the references to the        *)
(*       leaves (<<>> without a record: both read as no children), and     *)
(*       leaf, the items by node id                                        *)
(* ret   the last call and the status it returned                          *)
(***************************************************************************)
EXTENDS BptNode

CONSTANT MaxNodeId     \* bound: ids a session may allocate

ASSUME MaxNodeIdAssumption == MaxNodeId \in Nat

VARIABLES tree, disk, ret

vars == <<tree, disk, ret>>

C_OK == "C_OK"
C_BPTREE_DUPLICATE_KEY == "C_BPTREE_DUPLICATE_KEY"
C_BPTREE_ERROR == "C_BPTREE_ERROR"
C_STORAGE_KV_NOT_FOUND == "C_STORAGE_KV_NOT_FOUND"
\* Not a status of the program: the call ran into undefined behaviour.
UNDEFINED == "UNDEFINED"

Statuses ==
  {C_OK, C_BPTREE_DUPLICATE_KEY, C_BPTREE_ERROR, C_STORAGE_KV_NOT_FOUND, UNDEFINED}

Refs ==
  [id : Nat, count : 0 .. WordMod - 1, size : 0 .. WordMod - 1,
   min : Keys \cup {NoKey}, max : Keys \cup {NoKey}]

TreeType ==
  [children : Seq(LeafType), count : 0 .. WordMod - 1, size : 0 .. WordMod - 1,
   min : Keys \cup {NoKey}, max : Keys \cup {NoKey}, unsaved : BOOLEAN, lastId : Nat]

-----------------------------------------------------------------------------
(* The root *)

\* Mutants: the count does not wrap; the old ends are not subtracted.
RangeChangeUnwrapped(t, delta) ==
  [t EXCEPT !.count = @ + delta,
            !.min = t.children[1].min, !.max = t.children[Len(t.children)].max]

RangeChangeAddsOnly(t, delta) ==
  [t EXCEPT !.count = Word(@ + delta), !.size = Word(@ + KeySize),
            !.min = t.children[1].min, !.max = t.children[Len(t.children)].max]

UpdateStatByRangeChange(t, delta) ==
  LET lo == t.children[1].min
      hi == t.children[Len(t.children)].max
  IN  [t EXCEPT !.min = lo, !.max = hi, !.count = Word(@ + delta),
                !.size = Word(@ - KeyLen(t.min) + KeyLen(lo) - KeyLen(t.max) + KeyLen(hi))]

ResetStat(t) ==
  [t EXCEPT !.count = 0, !.size = 0, !.min = NoKey, !.max = NoKey]

RootNeedSplit(t) == Len(t.children) >= 3 /\ t.size > MaxNodeSize

\* Mutant: the id is not advanced.
SameNodeID(t) == t.lastId

\* TreeCtx::AllocateNodeID, the id of the next node.
AllocateNodeID(t) == t.lastId + 1

\* Index::Index: a root with empty statistics that reads its children from the
\* stored record; ids restart from the persisted max_tree_node_id.
OpenTree(d, treeId) ==
  [children |-> [i \in 1 .. Len(d.root) |-> LeafFromRef(d.root[i])],
   count |-> 0, size |-> 0, min |-> NoKey, max |-> NoKey,
   unsaved |-> FALSE, lastId |-> treeId]

\* The status a visit of a leaf gets from the store.
LoadStatus(leaf, stored) ==
  IF leaf.id \in DOMAIN stored THEN C_OK ELSE C_STORAGE_KV_NOT_FOUND

LoadChild(t, i, stored) == [t EXCEPT !.children[i] = Load(@, stored)]

-----------------------------------------------------------------------------
(* Bptree::Insert, Delete and GetItem, as the set of possible outcomes: the  *)
(* tree left behind and the status returned.                                 *)

Outcome(t, st) == [tree |-> t, st |-> st]

\* Mutant: the root is not collected.
InsertForgetsRoot(t) == Outcome(UpdateStatByRangeChange(t, 1), C_OK)

\* The last turn of Insert's bottom-up loop.  Splitting the root moves all its
\* children away and then reads the ends of an empty vector.
InsertAtRoot(t) ==
  LET r == UpdateStatByRangeChange(t, 1)
  IN  IF RootNeedSplit(r)
      THEN Outcome(r, UNDEFINED)
      ELSE Outcome([r EXCEPT !.unsaved = TRUE], C_OK)

\* The first turn, for the leaf at position i that has just got the key.
InsertAtLeaf(t, i, leaf) ==
  IF ~LeafNeedSplit(leaf)
  THEN {InsertAtRoot([t EXCEPT !.children = Collect(ReplaceAt(@, i, leaf), i)])}
  ELSE LET id    == AllocateNodeID(t)
           right == SplitRight(leaf, id)
           kept  == ReplaceAt(t.children, i, SplitLeft(leaf))
       IN  {LET left  == IF at <= i THEN i + 1 ELSE i
                grown == AddChild(kept, at, right)
            IN  InsertAtRoot([t EXCEPT !.lastId = id,
                                       !.children = Collect(Collect(grown, at), left)])
            : at \in MaxKeyUpperBound(kept, right.max)}

\* BptNode::Insert at the leaf the key is routed to.
InsertIntoLeaf(t, i, key, value) ==
  LET leaf == t.children[i]
  IN  CASE key \in DOMAIN leaf.kvs -> {Outcome(t, C_BPTREE_DUPLICATE_KEY)}
        [] key \notin DOMAIN leaf.kvs /\ key \in leaf.written -> {Outcome(t, C_BPTREE_ERROR)}
        [] OTHER -> InsertAtLeaf(t, i, UpdateStatByAddKV(PutItem(leaf, key, value), key))

InsertOutcomes(t, stored, key, value) ==
  LET n == Len(t.children)
  IN  IF n = 0
      THEN InsertIntoLeaf([t EXCEPT !.children = <<NewLeaf(AllocateNodeID(t))>>,
                                    !.lastId = AllocateNodeID(t)],
                          1, key, value)
      ELSE UNION {LET i == IF at > n THEN n ELSE at
                  IN  InsertIntoLeaf(LoadChild(t, i, stored), i, key, value)
                  : at \in MaxKeyLowerBound(t.children, key)}

\* Mutant: the root is not collected.
DeleteForgetsRoot(t) ==
  Outcome(IF t.children = <<>> THEN ResetStat(t) ELSE UpdateStatByRangeChange(t, -1), C_OK)

DeleteAtRoot(t) ==
  LET r == IF t.children = <<>> THEN ResetStat(t) ELSE UpdateStatByRangeChange(t, -1)
  IN  Outcome([r EXCEPT !.unsaved = TRUE], C_OK)

DeleteFromLeaf(t, i, key) ==
  LET leaf == DropItem(t.children[i], key)
      left == ReplaceAt(t.children, i, leaf)
  IN  CASE key \notin DOMAIN t.children[i].kvs -> {Outcome(t, C_OK)}
        [] key \in DOMAIN t.children[i].kvs /\ DOMAIN leaf.kvs = {} ->
             {DeleteAtRoot([t EXCEPT !.children =
                              DelChild(RemoveUnsaved(left, leaf.id), i, found)])
              : found \in MaxKeyLowerBound(left, leaf.max)}
        [] OTHER ->
             {DeleteAtRoot([t EXCEPT !.children =
                              Collect(ReplaceAt(@, i, UpdateStatByDelKV(leaf, key)), i)])}

DeleteOutcomes(t, stored, key) ==
  UNION {IF i > Len(t.children)
         THEN {Outcome(t, C_OK)}
         ELSE IF LoadStatus(t.children[i], stored) # C_OK
              THEN {Outcome(t, LoadStatus(t.children[i], stored))}
              ELSE DeleteFromLeaf(LoadChild(t, i, stored), i, key)
         : i \in FindChild(t.children, key)}

GetItemOutcomes(t, stored, key) ==
  {IF i > Len(t.children)
   THEN Outcome(t, C_STORAGE_KV_NOT_FOUND)
   ELSE IF LoadStatus(t.children[i], stored) # C_OK
        THEN Outcome(t, LoadStatus(t.children[i], stored))
        ELSE LET u == LoadChild(t, i, stored)
             IN  Outcome(u, IF key \in DOMAIN u.children[i].kvs THEN C_OK ELSE C_BPTREE_ERROR)
   : i \in FindChild(t.children, key)}

-----------------------------------------------------------------------------
(* TreeCtx::PullUnsavedTreeNode *)

\* What Serialize writes for the root: the references to the leaves.
RefsOf(children) ==
  [i \in 1 .. Len(children) |->
     [id |-> children[i].id, count |-> children[i].count, size |-> children[i].size,
      min |-> children[i].min, max |-> children[i].max]]

\* The unsaved nodes: positions of leaves, 0 for the root.
UnsavedNodes(t) ==
  {i \in 1 .. Len(t.children) : t.children[i].unsaved} \cup (IF t.unsaved THEN {0} ELSE {})

\* The store after the nodes N have been dumped; unsaved nodes have different
\* ids, so the order of unsaved_nodes_ does not matter.
DumpNodes(t, d, N) ==
  LET leaves == N \ {0}
      ids    == {t.children[i].id : i \in leaves}
  IN  [root |-> IF 0 \in N THEN RefsOf(t.children) ELSE d.root,
       leaf |-> [id \in DOMAIN d.leaf \cup ids |->
                   IF id \in ids
                   THEN t.children[CHOOSE i \in leaves : t.children[i].id = id].kvs
                   ELSE d.leaf[id]]]

ClearUnsaved(t) ==
  [t EXCEPT !.unsaved = FALSE,
            !.children = [i \in 1 .. Len(@) |-> [@[i] EXCEPT !.unsaved = FALSE]]]

-----------------------------------------------------------------------------
(* One session *)

EmptyDisk == [root |-> <<>>, leaf |-> [id \in {} |-> EmptyKVs]]

Init ==
  /\ disk = EmptyDisk
  /\ tree = OpenTree(EmptyDisk, 0)
  /\ ret = [op |-> "Open", key |-> NoKey, st |-> C_OK]

Running == ret.st # UNDEFINED

Insert(key, value) ==
  /\ Running
  /\ tree.lastId < MaxNodeId
  /\ \E o \in InsertOutcomes(tree, disk.leaf, key, value) :
       /\ tree' = o.tree
       /\ ret' = [op |-> "Insert", key |-> key, st |-> o.st]
  /\ UNCHANGED disk

Delete(key) ==
  /\ Running
  /\ \E o \in DeleteOutcomes(tree, disk.leaf, key) :
       /\ tree' = o.tree
       /\ ret' = [op |-> "Delete", key |-> key, st |-> o.st]
  /\ UNCHANGED disk

GetItem(key) ==
  /\ Running
  /\ \E o \in GetItemOutcomes(tree, disk.leaf, key) :
       /\ tree' = o.tree
       /\ ret' = [op |-> "GetItem", key |-> key, st |-> o.st]
  /\ UNCHANGED disk

\* PullUnsavedTreeNode when every write succeeds.
Save ==
  /\ Running
  /\ disk' = DumpNodes(tree, disk, UnsavedNodes(tree))
  /\ tree' = ClearUnsaved(tree)
  /\ ret' = [op |-> "Save", key |-> NoKey, st |-> C_OK]

\* A write fails after the nodes N have been dumped: the nodes stay collected,
\* and Index::Save returns C_OK all the same.
SaveFails ==
  /\ Running
  /\ \E N \in (SUBSET UnsavedNodes(tree)) \ {UnsavedNodes(tree)} :
       disk' = DumpNodes(tree, disk, N)
  /\ ret' = [op |-> "Save", key |-> NoKey, st |-> C_OK]
  /\ UNCHANGED tree

Next ==
  \/ \E key \in Keys, value \in Values : Insert(key, value)
  \/ \E key \in Keys : Delete(key)
  \/ \E key \in Keys : GetItem(key)
  \/ Save
  \/ SaveFails

Spec == Init /\ [][Next]_vars

-----------------------------------------------------------------------------
(* Properties *)

\* Every variable keeps its type: all sizes and counts are machine words and
\* the children are well-formed leaves.
TypeOK ==
  /\ tree \in TreeType
  /\ disk.root \in Seq(Refs)
  /\ DOMAIN disk.leaf \subseteq Nat
  /\ \A id \in DOMAIN disk.leaf : disk.leaf[id] \in KVs
  /\ ret \in [op : {"Open", "Insert", "Delete", "GetItem", "Save"},
              key : Keys \cup {NoKey}, st : Statuses]

\* No sequence of calls makes the root split, the one case in which BptNode::Split
\* empties children_ and then reads its front() and back().
RootNeverSplits == ret.st # UNDEFINED

\* Within a session no two leaves of the tree have the same id, whatever was
\* split, emptied or left unsaved: unsaved_nodes_ and the store are keyed by id.
NodeIdsUnique ==
  \A i, j \in 1 .. Len(tree.children) :
    i # j => tree.children[i].id # tree.children[j].id

\* write_kvs_ never holds a key that kvs_ has lost, across merges, splits and
\* deletes, so the second check of BptNode::Insert never fails an insert.
InsertNeverErrs == ret.op = "Insert" => ret.st # C_BPTREE_ERROR

\* No cached item is forgotten: each one is in the stored record of its leaf, or
\* its leaf will be dumped by the next PullUnsavedTreeNode.
NothingUnsavedForgotten ==
  \A i \in 1 .. Len(tree.children) :
    LET leaf == tree.children[i]
    IN  \/ leaf.unsaved
        \/ \A k \in DOMAIN leaf.kvs :
             /\ leaf.id \in DOMAIN disk.leaf
             /\ k \in DOMAIN disk.leaf[leaf.id]
             /\ disk.leaf[leaf.id][k] = leaf.kvs[k]

=============================================================================
