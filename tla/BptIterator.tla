---------------------------- MODULE BptIterator ----------------------------
(***************************************************************************)
(* A scan over an index: sql/storage/iterator.cc (BaseIterator) pages      *)
(* through a list of key ranges with one bplus_tree_iterator.cc            *)
(* (BptIterator) per range, on a tree a new session has opened from the    *)
(* store.                                                                  *)
(*                                                                         *)
(* ranges, rangeIdx  BaseIterator::it_ops_ and current_op_idx_             *)
(* it    the BptIterator: leaf is the position of cur_node_ among the      *)
(*       children (0 for nullptr), cur is the key at cur_kv_ (NoKey for    *)
(*       kvs_.end()), kvEnd and nodeEnd are its two flags                  *)
(* code  BaseIterator::code_, or Aborted when an assertion has failed      *)
(* page  data_segment_                                                     *)
(* busy  BaseIterator::Next is running                                     *)
(* got   history: the keys returned so far, over all pages                 *)
(***************************************************************************)
EXTENDS Bptree

CONSTANTS
  PageSize,      \* rows a page holds (1024 in TableScanExecutor)
  MaxRanges,     \* bound: ranges of a scan
  RangeTypes,    \* the pairs <<lower_open, upper_open>> a scan may ask for
  OldRecords     \* whether a crash may have left leaves their older records

ASSUME IteratorAssumption ==
  /\ Values # {}
  /\ PageSize \in Nat \ {0}
  /\ MaxRanges \in Nat
  /\ RangeTypes \subseteq BOOLEAN \X BOOLEAN
  /\ OldRecords \in BOOLEAN

VARIABLES ranges, rangeIdx, it, code, page, busy, got

iterVars == <<tree, disk, ret, ranges, rangeIdx, it, code, page, busy, got>>

C_BPTREE_ITERATOR_END == "C_BPTREE_ITERATOR_END"
Aborted == "Aborted"

\* Range ends may lie below and above all keys.
Bounds == 0 .. MaxKey + 1

IndexRange ==
  {r \in [lower : Bounds, upper : Bounds, lowerOpen : BOOLEAN, upperOpen : BOOLEAN] :
     r.lower <= r.upper /\ <<r.lowerOpen, r.upperOpen>> \in RangeTypes}

NoIt == [leaf |-> 0, cur |-> NoKey, kvEnd |-> FALSE, nodeEnd |-> FALSE]

-----------------------------------------------------------------------------
(* The stored trees a scan may meet: leaves that split the keys into runs.   *)

LeafKeys(S, cuts, i) ==
  {k \in S : Cardinality({c \in cuts : c <= k}) = i}

\* The store for the keys S, a leaf beginning at each of the keys in cuts.  The
\* root has been dumped for all of S; the records of the leaves have the keys in
\* stored, and a leaf with none of them has no record.
StoreOf(S, cuts, stored) ==
  LET n == Cardinality(cuts)
  IN  [root |-> [i \in 1 .. n |->
                   [id |-> i, count |-> 0, size |-> 0,
                    min |-> Min(LeafKeys(S, cuts, i)), max |-> Max(LeafKeys(S, cuts, i))]],
       leaf |-> [i \in {j \in 1 .. n : LeafKeys(stored, cuts, j) # {}} |->
                   [k \in LeafKeys(stored, cuts, i) |-> CHOOSE v \in Values : TRUE]]]

IterInit ==
  /\ \E S \in SUBSET Keys, cuts \in SUBSET Keys :
       /\ cuts \subseteq S
       /\ S # {} => Min(S) \in cuts
       /\ \E stored \in IF OldRecords THEN SUBSET S ELSE {S} : disk = StoreOf(S, cuts, stored)
  /\ tree = OpenTree(disk, 0)
  /\ ret = [op |-> "Open", key |-> NoKey, st |-> C_OK]
  /\ ranges \in UNION {[1 .. n -> IndexRange] : n \in 0 .. MaxRanges}
  /\ rangeIdx = 0
  /\ it = NoIt
  /\ code = C_OK
  /\ page = <<>>
  /\ busy = FALSE
  /\ got = <<>>

-----------------------------------------------------------------------------
(* BptIterator *)

\* The children Open may descend to; Len + 1 when there is none.
OpenChild(r) ==
  IF r.lowerOpen THEN MaxKeyUpperBound(tree.children, r.lower)
  ELSE MaxKeyLowerBound(tree.children, r.lower)

OpenStatus(r, i) ==
  IF i > Len(tree.children) THEN C_BPTREE_ITERATOR_END
  ELSE LoadStatus(tree.children[i], disk.leaf)

\* Mutant: always kvs_.upper_bound.
FirstKeyUpper(leaf, r) ==
  LET D == {k \in DOMAIN leaf.kvs : k > r.lower}
  IN  IF D = {} THEN NoKey ELSE Min(D)

\* kvs_.upper_bound or lower_bound of the range's lower end.
FirstKey(leaf, r) ==
  LET D == {k \in DOMAIN leaf.kvs : IF r.lowerOpen THEN k > r.lower ELSE k >= r.lower}
  IN  IF D = {} THEN NoKey ELSE Min(D)

\* Mutant: the upper end is included.
ReachRangeBoundLate(r) == it.cur > r.upper

\* BptIterator::reachRangeBound: it looks at lower_open for the upper end.
ReachRangeBound(r) ==
  IF r.lowerOpen THEN it.cur > r.upper ELSE it.cur >= r.upper

\* BptIterator::nextKV.
NextKV(leaf) ==
  LET D == {k \in DOMAIN leaf.kvs : k > it.cur}
  IN  [it EXCEPT !.cur = IF D = {} THEN NoKey ELSE Min(D), !.kvEnd = (D = {})]

\* BptIterator::nextLeafNode, past its assertion: the right sibling, unless it
\* begins beyond the range.
PastRange(leaf, r) == IF r.upperOpen THEN leaf.min >= r.upper ELSE leaf.min > r.upper

-----------------------------------------------------------------------------
(* BaseIterator *)

\* BaseIterator::Open: the next range that is not empty at once.  Its status is
\* returned to the caller, and becomes code_ when the caller is Next.
OpenNextRange ==
  LET n    == Len(ranges)
      At(j) == CHOOSE i \in OpenChild(ranges[j]) : TRUE
      open == {j \in rangeIdx + 1 .. n : OpenStatus(ranges[j], At(j)) # C_BPTREE_ITERATOR_END}
  IN  IF open = {}
      THEN /\ rangeIdx' = n
           /\ code' = C_BPTREE_ITERATOR_END
           /\ UNCHANGED <<tree, it>>
      ELSE LET j  == Min(open)
               i  == At(j)
               st == OpenStatus(ranges[j], i)
               u  == LoadChild(tree, i, disk.leaf)
           IN  /\ rangeIdx' = j
               /\ code' = st
               /\ tree' = u
               /\ it' = IF st # C_OK THEN NoIt
                        ELSE [NoIt EXCEPT !.leaf = i, !.cur = FirstKey(u.children[i], ranges[j])]

\* The client opens the iterator; on an error it does not go on.
Open ==
  /\ rangeIdx = 0 /\ code = C_OK /\ ~busy /\ it = NoIt
  /\ OpenNextRange
  /\ UNCHANGED <<disk, ret, ranges, page, busy, got>>

\* The client asks for the next page.
BeginNext ==
  /\ rangeIdx > 0 /\ code = C_OK /\ ~busy
  /\ busy' = TRUE
  /\ page' = <<>>
  /\ UNCHANGED <<tree, disk, ret, ranges, rangeIdx, it, code, got>>

\* Mutant: one row too many.
InLoopLate == busy /\ code = C_OK /\ Len(page) <= PageSize

InLoop == busy /\ code = C_OK /\ Len(page) < PageSize

\* Mutant: the loop does not end with code_.
EndNextOnFullPage ==
  /\ busy
  /\ Len(page) = PageSize
  /\ busy' = FALSE
  /\ UNCHANGED <<tree, disk, ret, ranges, rangeIdx, it, code, page, got>>

EndNext ==
  /\ busy
  /\ code # C_OK \/ Len(page) = PageSize
  /\ busy' = FALSE
  /\ UNCHANGED <<tree, disk, ret, ranges, rangeIdx, it, code, page, got>>

\* The turn of the loop at an item: reachRangeBound asserts that there is one.
Emit ==
  /\ InLoop /\ ~it.kvEnd
  /\ IF it.cur = NoKey
     THEN code' = Aborted /\ UNCHANGED <<it, page, got>>
     ELSE /\ ~ReachRangeBound(ranges[rangeIdx])
          /\ page' = Append(page, it.cur)
          /\ got' = Append(got, it.cur)
          /\ it' = NextKV(tree.children[it.leaf])
          /\ UNCHANGED code
  /\ UNCHANGED <<tree, disk, ret, ranges, rangeIdx, busy>>

\* HashNext is false: the range is done.
NextRange ==
  /\ InLoop
  /\ \/ ~it.kvEnd /\ it.cur # NoKey /\ ReachRangeBound(ranges[rangeIdx])
     \/ it.kvEnd /\ it.nodeEnd
  /\ OpenNextRange
  /\ UNCHANGED <<disk, ret, ranges, page, busy, got>>

\* nextLeafNode.  FindChild(cur_node_) must give the current leaf; a leaf that
\* does not load is passed over, as BaseIterator ignores the status of Next.
NextLeaf ==
  /\ InLoop /\ it.kvEnd /\ ~it.nodeEnd
  /\ \E found \in MaxKeyLowerBound(tree.children, tree.children[it.leaf].max) :
       LET i == it.leaf + 1
           u == LoadChild(tree, i, disk.leaf)
       IN  CASE found # it.leaf ->
                  code' = Aborted /\ UNCHANGED <<tree, it>>
             [] found = it.leaf /\ (i > Len(tree.children) \/ PastRange(tree.children[i], ranges[rangeIdx])) ->
                  it' = [it EXCEPT !.leaf = 0, !.nodeEnd = TRUE] /\ UNCHANGED <<tree, code>>
             [] OTHER ->
                  /\ tree' = u
                  /\ it' = IF LoadStatus(tree.children[i], disk.leaf) # C_OK
                           THEN [it EXCEPT !.leaf = i]
                           ELSE [it EXCEPT !.leaf = i, !.kvEnd = FALSE,
                                   !.cur = IF DOMAIN u.children[i].kvs = {} THEN NoKey
                                           ELSE Min(DOMAIN u.children[i].kvs)]
                  /\ UNCHANGED code
  /\ UNCHANGED <<disk, ret, ranges, rangeIdx, page, busy, got>>

IterNext ==
  \/ Open
  \/ BeginNext
  \/ EndNext
  \/ Emit
  \/ NextRange
  \/ NextLeaf

Turn == EndNext \/ Emit \/ NextRange \/ NextLeaf

IterSpec == IterInit /\ [][IterNext]_iterVars /\ WF_iterVars(Turn)

-----------------------------------------------------------------------------
(* Properties *)

IterTypeOK ==
  /\ TypeOK
  /\ rangeIdx \in 0 .. Len(ranges)
  /\ it \in [leaf : 0 .. Len(tree.children), cur : Keys \cup {NoKey},
             kvEnd : BOOLEAN, nodeEnd : BOOLEAN]
  /\ code \in {C_OK, C_BPTREE_ITERATOR_END, C_STORAGE_KV_NOT_FOUND, Aborted}
  /\ Len(page) <= PageSize

\* The stored keys, those of lost leaves left out.
StoredKeys == UNION {DOMAIN disk.leaf[id] : id \in DOMAIN disk.leaf}

InRange(k, r) ==
  /\ IF r.lowerOpen THEN k > r.lower ELSE k >= r.lower
  /\ IF r.upperOpen THEN k < r.upper ELSE k <= r.upper

\* The elements of a set of keys in their order.
Ascending(S) ==
  CHOOSE s \in [1 .. Cardinality(S) -> S] :
    Range(s) = S /\ \A i, j \in DOMAIN s : i < j => s[i] < s[j]

Expected(r) == Ascending({k \in StoredKeys : InRange(k, r)})

ExpectedUpTo(n) ==
  LET upTo[j \in 0 .. Len(ranges)] ==
        IF j = 0 THEN <<>> ELSE upTo[j - 1] \o Expected(ranges[j])
  IN  upTo[n]

\* Whatever the leaves, the ranges and the page size, the pages of a scan are the
\* keys of its ranges, range by range, ascending, none twice and none missing.
ScanIsExact ==
  /\ IsPrefix(got, ExpectedUpTo(rangeIdx))
  /\ code = C_BPTREE_ITERATOR_END => got = ExpectedUpTo(Len(ranges))

\* The record of the leaf the cursor is in is older than its reference, which
\* promises a key in the range, and ends below the range.
OpenedInAGap ==
  LET leaf == tree.children[it.leaf]
      r    == ranges[rangeIdx]
      Below(k) == IF r.lowerOpen THEN k <= r.lower ELSE k < r.lower
  IN  ~Below(leaf.max) /\ \A k \in DOMAIN leaf.kvs : Below(k)

\* The assertions of the iterator, that cur_kv_ is an item and that the current
\* leaf is found again among its parent's children, fail in one case only: a crash
\* has kept the keys a leaf ends with out of its record, and a range begins among
\* them.  No turn after Open ever leaves the items of a leaf.
AssertionsFailInGaps == code = Aborted => OpenedInAGap

\* BaseIterator::Next returns: its loop has no turn that makes no progress.
NextReturns == busy ~> ~busy

=============================================================================
