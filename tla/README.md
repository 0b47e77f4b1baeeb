# am-db in TLA+

am-db is a small SQL database: statements are parsed, analysed against a catalog,
optimised with a Cascades search, turned into executors and run against a key-value
store (LevelDB), in which rows, index trees and catalog records live side by side.
This project models the storage layer, where a wrong order of steps loses data, the
bytes that keys, rows and statistics become, and the path of a statement through
analyzer, optimizer and scheduler, checks them with TLC on small
instances and proves what it can for all instances with TLAPS.

## The system and its parts

| part (under `src/amdb/sql`) | state | operations | what is hard | what makes it correct |
|---|---|---|---|---|
| index tree `storage/bplus_tree*.cc` | cached nodes, collected (unsaved) nodes, node records in the store, id counter of the session | Insert, Delete, GetItem, PullUnsavedTreeNode | every visit of a leaf merges its stored record into the cached one; unsigned size bookkeeping decides about splits; lower_bound on a vector that must be sorted | no root split, unique node ids, nothing cached is forgotten, ranges of leaves partition the keys |
| table and index `storage/table.cc`, `index.cc` | rows in the store, the index tree | Insert, Delete, Update, Submit, loadMeta | three groups of writes without a transaction; errors return early or are swallowed; every statement opens its own session | what ran through Submit is found, but for three kinds of steps; only a DELETE leaves index items without rows; refinement of an abstract index |
| scan `storage/iterator.cc`, `bplus_tree_iterator.cc` | ranges, cursor, page | Open, Next, HashNext | ends of pages, leaves and ranges; leaves that do not load; flags for open and closed ends | exactly the stored keys of the ranges, in order; an assertion fails only in the gap a crash has left; Next returns |
| rows `chunk/row.cc`, `chunk_util.cc`, `analyzer/insert_analyzer.cc`, `select_analyzer.cc`, `storage/table_iterator.cc` | tuples, records, index items | SetColValue, GetColValue, EncodeRow, EncodeIndex, DecodeIndex, DecodeRow, GetItem | types of columns are lost on the way to the store; cells may stay unset; strings are addresses; one missing row fails the page | a SELECT prints what INSERTs gave, in the order of the key; all indexes hold the same rows |
| id allocator `storage/id_allocator.cc` | stored counters per bucket | AllocateID, BatchAllocateID | buckets share no state; crash after the counter is stored | no id twice |
| catalog `storage/metadata.cc`, `analyzer/create_analyzer.cc`, `executor/create_executor.cc` | four kinds of records | CREATE DATABASE, CREATE TABLE | one statement is two to four writes; one record is deleted and put back | names resolve, ids are unique and final, a statement can be repeated |
| key-value client `storage/leveldb_client.cc` | LevelDB | PutKV, MPutKV, GetKV, MGetKV, DelKV, MDelKV, Incrby | batches are atomic, sequences of calls are not | part of the modules that call it |
| scheduler `scheduler/*.cc` | executors, ports, chunks | ToExecutor, Prepare, Work, Run | a port's chunk is unset until Push; one post-order pass | each executor runs after its inputs, a SELECT prints its page or nothing |
| optimizer `optimizer/cascades/*.cc` | memo, task stack, rule masks | optimise and explore groups and expressions, apply rules | tasks push tasks; a rule must fire once per expression | the search ends, the best plan exists and is complete |
| codec `codec/*.cc`, values `expression/expr_value*.cc` | none | encode and decode integers, strings, typed values and keys | byte order must be key order; all records share one key space with overlapping tags | records of different kinds never meet; ids decode to what was encoded |
| statistics `statistics/*.cc` | histogram, stored messages | BuildHistogram, dump and load of statistics | the sum of rows is an int; one value of look-ahead; doubles in integer fields | buckets partition the values and end at the nearest value; statistics come back |
| parser, arena, logging | per statement | | | not modelled |

Everything runs in one thread: `main.cc` executes one statement after the other. The
hard behaviours are therefore the orders of writes, crashes and failed writes between
them, stale caches, and long sequences of legal calls, not interleavings of threads.

Interaction: a statement is analysed against the catalog (`Metadata` reads records),
CREATE writes the catalog with ids from `IdAllocator`; INSERT hands a chunk to
`Table::Insert`, which writes rows with `MPutKV`, the cached tree through
`Index::Insert`, and the node records through `Submit`; SELECT pages through
`BaseIterator`, which drives `BptIterator` over the same tree, and fetches the row of
each item with `MGetKV` by a key decoded from the item.

## Modules

| module | models | correspondence |
|---|---|---|
| `BptNode` | nodes, pure operators | a leaf is a record of `id_`, `kvs_`, keys of `write_kvs_`, the four statistics and whether `unsaved_nodes_` points to it; `UpdateStatBy...`, `Split`, `MaxKeyLowerBound`, ... have the names of the code |
| `Bptree` | one session of a tree | `tree` is the root object with `TreeCtx`, `disk` the node records, `ret` the last call; one action per call. Calls are sets of outcomes, since `std::lower_bound` on an unsorted vector may return anything |
| `Table` | statements on a table with a primary index | `EXTENDS Bptree`; `rows`, the statement `job` with its phase, `acked` as history; the rows of a chunk go one by one through the index |
| `IndexSpec` | what the index promises | a set of keys; a statement takes effect as a whole, or not at all when it inserts a key that is there |
| `BptIterator` | a scan | `EXTENDS Bptree`; one action per turn of the loops of `BaseIterator::Next` and `BptIterator::Next` |
| `IdAllocator` | ids | the counters per type and bucket, with the ids handed out so far as history |
| `Catalog` | CREATE statements | `EXTENDS IdAllocator`; four functions for the four kinds of records, one action per write |
| `Scheduler` | one planned statement in `Scheduler::Run` | `EXTENDS BptIterator`: the scan of a SELECT is the iterator itself, step by step; ports and chunks are pointers by number, 0 being a pointer that is not set; chunks hold keys for rows |
| `Cascades` | the search for the plan of a SELECT | the memo, `fired_rules_`, `explored_group_` and the stack of tasks; one action per kind of task, `OptimizeInputsTask` being three (first call, next input, winner) |
| `Codec` | values and keys as bytes | pure operators with the names of the code; a word of 32 (64) bits has `W32` (`W64`) bytes, the most significant one first |
| `CatalogStore` | the one LevelDB under `Catalog` | `EXTENDS Catalog, Codec`: each action of `Catalog` also does its write to `kv`, a function of byte strings, next to the counters of the allocator and the rows, nodes and statistics of the tables |
| `Rows` | the way of a value from a literal to a printed line | `EXTENDS Codec`; a statement is a step; memory the code does not initialise is any word of `Junk`, a `std::string` read as its bytes any byte of `JunkByte`, and a null pointer or an exception the outcome `Died`. The table of the storage tests' fixture, whose columns keep their types, is there too |
| `Histogram` | `BuildHistogram` | one action per turn of its loop that goes on with a bucket, and per turn that closes it; doubles are exact fractions over a common divisor, and a tie of two distances may go either way |
| `Statistics` | stored statistics | `EXTENDS Histogram, Codec`: dump and load of column and table statistics as messages |
| `BptreeProofs`, `SchedulerProofs`, `TableProofs`, `CodecProofs`, `CatalogProofs`, `RowsProofs`, `CascadesProofs`, `HistogramProofs` | theorems | each extends the module it is named after. `SchedulerProofs` is about `BptIterator` and `Scheduler`; it and `TableProofs` use the lemmas of `BptreeProofs` about nodes and calls. `CatalogProofs` is about `IdAllocator`, `Catalog` and `CatalogStore`, `HistogramProofs` about `Histogram` and `Statistics`; they and `RowsProofs` use the lemmas of `CodecProofs` about bytes and keys |
| `MC...` | instances for TLC | constants and counters that bound the number of calls or statements |

Data is abstracted to what the properties tell apart. Keys are positions in the byte
order of `DataCmp`, 0 standing for the empty string; all keys have the same length and
all values too, since sizes only decide about splits. `uint64_t` sizes and counts are
taken modulo `WordMod`, so that they wrap as in the code. Names and ids of columns,
timestamps and messages are left out. `Rows` and `CatalogStore` work with real bytes:
they check what the other modules take for granted, that different keys are different
byte strings and that items are in the order of their keys.

What `Rows` shows about the code, as the models of its functions say it. The type of a
column is not part of the stored message, so every column of a table that was created
with SQL is a 64-bit integer afterwards; a literal from 2^63 on becomes a negative
word, a string or a function a null cell, on which the program ends. A cell of another
type than its column leaves the tuple's memory as it was, and that is stored and
printed. An INSERT that an index rejects has overwritten the row already, and reports
C_OK. Items of a key of two columns decode to the first column twice, so that another
row is fetched, or none, and then the whole SELECT fails. A table without a primary key
ends the program at its first INSERT. The properties of the run say what holds in spite
of this, and nothing in the repository's documents contradicts it.

`Bptree` has two levels of nodes. The code could in principle grow a third one by
splitting the root, but `BptNode::Split` would then read the ends of an emptied vector;
the model gives such a call the status UNDEFINED, and `RootNeverSplits` shows that it
does not occur, because the root's `node_size` only counts its two end keys.

A comment beginning with "Mutant" marks a wrong variant of the definition after it;
nothing uses it. Each is a plausible slip, and with it in place TLC finds the property
named in `PROJECT.json` violated.

## Runs

All runs end in a state without successors when their bound is reached, so deadlock is
not checked.

* **bptree_session** (`MCBptree.cfg`): any sequence of 9 calls on one tree with 4 keys,
  a node size at which three items split a leaf, and 3-bit sizes that wrap. Saves may
  fail after any subset of the dumps. Checks `TypeOK`, `RootNeverSplits`,
  `NodeIdsUnique`, `InsertNeverErrs`, `NothingUnsavedForgotten`. Nine calls suffice for
  two splits, a save between them, and a delete with a visit of the stale leaf.
* **table_session** (`MCTableSession.cfg`): single-row INSERT and DELETE and Update,
  eight statements over four keys, each on the Table object of the last one or in a new
  session, leaves that split and sizes that wrap, as long as no new leaf takes the id of
  another one (`MCUniqueIdsNext`, see "Bounds" below). `ImplementsIndexSpec` is the
  refinement of `IndexSpec`: the keys a new session would find change only at the end of
  a statement and by exactly its keys; `RangesPartitionKeys` says why.
  `IndexedKeysHaveRows`: without failures a DELETE leaves no item without its row.
* **table_crash** (`MCTableCrash.cfg`): three INSERTs and DELETEs of one or two rows and
  Updates over four keys, in leaves that split; an Update stores what a rejected INSERT
  left in the cached tree. Crashes at every step and after any subset of the dumps of a
  Submit, failed writes, new sessions, whose splits take the ids of older leaves. Nothing
  is left out of the step relation (`MCNext`). Two properties:
  - `InsertsAreDurable`: the keys of INSERTs that ran through a complete Submit stay
    found, except for three kinds of steps, each of which TLC finds to lose keys in this
    very instance when it is not excepted. One stores half of a split (`SplitCutShort`: a
    Submit with a new leaf next to older ones stops when it has dumped some of its nodes
    and not all; if it stops between the shrunken old leaf and the new one, the keys that
    moved are nowhere). One is taken with two leaves of one id (`NodeIdsUnique` does not
    hold): a later session gave a new leaf the id of an older one, and the dump of one
    overwrites the other. And one is taken with two leaves over one range (`RangesApart`
    does not hold), which the second split of a range before a save leaves without any
    failure, as in `bptree_lost_key`. A cut Submit of leaves that have not split loses
    nothing, whichever of leaf and root was dumped. An INSERT whose dump failed reports
    C_OK too, as `Index::Save` ignores the failure; its keys are only in the cached tree
    and not among those the property is about (`acked`).
  - `OnlyDeletesStrandItems`: an item of a stored leaf without row data makes the MGetKV
    of every later scan fail. A DELETE that dies between the rows and the index leaves
    such items, and the property says that it leaves them for its own keys only, whatever
    else is cut or overwritten.
* **scan** (`MCBptIterator.cfg`): all stored trees over three keys, each leaf record
  possibly missing or without some of the keys its reference in the root promises (the
  root is dumped and the leaf is not), up to two ranges `[lower, upper)` or
  `(lower, upper]`, pages of two rows. `ScanIsExact` is about the keys of the records.
  `AssertionsFailInGaps`: an assertion fails only when a range begins among the keys that
  a record lacks at its end. `Open` then stands at `kvs_.end()`, and the assertion at
  `bplus_tree_iterator.cc:153` ends the program. The range of a SELECT begins at the least
  key of its column, below the keys of every record, so that no statement meets it.
  `NextReturns` is checked under weak fairness of the turns of the loop: the loop is
  ordinary sequential code that keeps running until it returns.
* **ids** (`MCIdAllocator.cfg`): three names in two buckets, two id types, batches up to
  one more than the capacity, crashes after the counter is stored.
* **catalog** (`MCCatalogStore.cfg`): two databases and two table names, every statement
  with and without IF NOT EXISTS, interrupted before any write; up to two tables get
  rows, nodes and statistics. `NamedTablesResolve`, `IdsAreNotShared`,
  `NamesKeepTheirIds`, and `OneStoreIsEnough`: the shared store holds exactly what one
  store for each kind of record would hold. The names are chosen to come close to a
  collision: the key of one is as long as that of a counter, one is a prefix of another,
  one is empty. The VIEW leaves out the answers of the last call, which no step and no
  checked property reads.
* **rows** (`MCRows.cfg`): five CREATE TABLE statements and the fixture, INSERTs with up
  to two records, three in all, SELECT at any time, a database record lost at any time.
  Words have two bytes instead of eight (one instead of four), and the literals include
  9 and 10 (ordered differently as text), the greatest signed word and the greatest
  word. `SelectShowsInserts`, `LinesWereInserted`, `IndexesHoldTheSameKeys`. Three rows
  are enough for a repeated key, a rejected second record of a chunk and a swap of two
  columns.
* **statistics** (`MCStatistics.cfg`): all maps of up to four values and seventeen rows,
  one to three buckets, an int of four bits, so that the sum becomes negative, zero and
  small. `BucketsPartitionValues`, `BoundariesAreNearest`, `StatisticsComeBack`.
* **statement** (`MCScheduler.cfg`): one statement over all stored trees with four keys,
  each leaf record possibly missing or older than its reference and each row record
  possibly missing, pages of two rows (1024 in the
  code), one key at and none above the end of the range. `SelectPrintsItsPage`,
  `PrintedRowsExist`, `NoUnsetPortIsRead`, and `RunReturns` under weak fairness of the
  whole step relation: Run is one call in one thread. A SELECT prints one page only, and
  only keys below the largest value of their type (negative ones are encoded above it);
  the property states exactly that.
* **optimizer** (`MCCascades.cfg`): every logical plan of two to six nodes with a
  ResultSet at the root, TableScans at the leaves and Filters between, of any arity.
  `SelectAnalyzer` builds only the chain of three nodes; the search is written for trees,
  and its order of tasks matters only when a node has several inputs.
  `WinnersAreComplete`, `BestPlanIsTheQuery`, and `SearchEnds` under weak fairness, for
  the same reason.

Two runs end in a counterexample, each against a line of the repository:

* **bptree_lost_key** (`MCBptreeInserts.cfg`): with no failure at all an inserted and
  saved key is not found. Insert 1 and 4, save, insert 3 and 2, save: the first split
  moves 4 to a new leaf, but the record of the old leaf still has it when the insert of 2
  visits that leaf again, and merges it back in. The second split of the leaf moves 3 and
  4 to a second sibling, which comes to stand behind the first with the same greatest key;
  `FindChild` searches 3 in the first one, over 4 alone, and ends. `bplus_tree_test.cc:48-58`
  asserts that an inserted and saved key is found; its tree never splits.
* **catalog_lost**: a CREATE TABLE interrupted between the delete and the put of
  `ModifyDatabaseMeta` makes the database unusable, and `main.cc` asserts that CREATE
  DATABASE IF NOT EXISTS returns C_OK.

Bounds a reader should know. The keys of a table run have one length and its items the
empty value `EncodeIndex` gives them. `table_crash` has the proportions of the program, a
reference of 20 next to integer keys of 9 bytes, and a node size at which two keys fit into
a leaf. In `table_session` a reference is as large as a key, so that between two saves a
leaf splits at most once. Three statements of two rows are enough for each of the three
ways to lose a key; with four statements over three keys TLC finds nothing more.
At the default node size of 16 KiB (`bplus_tree_node.cc:8`) a leaf of integer keys does not
split, however many it has: its size counts only the two keys at its ends, 20 bytes and
the values, and an index item has an empty value. It splits when its size is inflated: by
repeated crashes (the first insert into a leaf whose record is missing counts its ends
again) or by a delete of an end, which can make the size wrap. `table_session` uses one row per statement: a DELETE of
several rows visits a leaf again before it is saved, and the deleted key comes back from
its record (hazard at `bplus_tree.cc:76`; `bplus_tree_test.cc:64-65` looks only for the
greatest key). `table_session` also excludes one step: a new
leaf never takes the id of a leaf of the tree. The node id counter is not persisted, so
that a later session gives a new leaf the id of an existing one and overwrites its
record (hazard at `index.cc:76`); `table_crash` does not exclude it.
`IndexedKeysHaveRows` is checked without crashes: a crash between the deletion of rows and
the save of the index leaves items without rows (hazard at `table.cc:102`). With crashes
two more ways lead to items of deleted rows, both of which `OnlyDeletesStrandItems`
covers: the record of a leaf that lost its last key stays in the store, and a half-dumped
split of a later session, which takes its id, can attach it again; and a DELETE of a key
that lies outside the range its leaf is recorded with finds no leaf, removes the row and
reports C_OK. `scan` leaves out one kind of stored tree a crash can leave: records ahead of
their reference (the leaf is dumped, the root is not). Their keys may lie in the range of
the next leaf, or the scan may meet them out of order or twice, so that `ScanIsExact` is
not a property of them. `scan` has half-open ranges only: closed and
open ones do not scan what `bplus_tree_iterator.h:11-14` says, since `reachRangeBound`
looks at `lower_open` for the upper end, and no caller builds them. In `catalog` a counter
that is missing is stored with its first value at once, where `leveldb_client.cc:105` puts
"0" before, which is what a missing counter is read as anyway.

## Proofs

TLC checks each property on the instance of its run; the theorems below hold for every
value of the constants that satisfies the named assumptions. What they have in common:
a property is not inductive by itself, and the strengthened invariant is written down at
the head of the proof (`...Inv`) and is preserved by one lemma or step per action.

| module | theorem | property | inductive invariant |
|---|---|---|---|
| `CatalogProofs` | `AllocTyped`, `IssuedBelow`, `RequestsFilled`, `IdsIssuedOnce` | `AllocTypeOK`, `IssuedBelowCounter`, `RequestsAreFilled`, `NoIdIssuedTwice` | `AllocInv` |
| | `CatalogTyped`, `NamedTablesHaveRecords`, `NamesHaveOwnIds`, `IdsOfNamesStay` | `CatalogTypeOK`, `NamedTablesResolve`, `IdsAreNotShared`, `NamesKeepTheirIds` | `CatalogInv` |
| | `OneStoreSuffices` | `OneStoreIsEnough` | `StoreInv` |
| `BptreeProofs` | `TreeTyped`, `RootStaysWhole`, `LeavesKeepTheirIds`, `InsertsSucceed` | `TypeOK`, `RootNeverSplits`, `NodeIdsUnique`, `InsertNeverErrs` | `BptreeInv` |
| | `NothingIsForgotten` | `NothingUnsavedForgotten` | `BptreeInv` and `AllBacked` |
| `SchedulerProofs` | `ScanIsTyped`, `AssertionsFailOnlyInGaps` | `IterTypeOK`, `AssertionsFailInGaps` | `IterInv` |
| | `ScanReturnsItsRanges` (half-open ranges) | `ScanIsExact` | `IterInv` and `ScanInv` |
| | `RunIsTyped`, `PortsAreSetFirst`, `PrintedRowsAreStored`, `SelectIsItsPage` | `RunTypeOK`, `NoUnsetPortIsRead`, `PrintedRowsExist`, `SelectPrintsItsPage` | `RunInv` |
| `TableProofs` | `TableIsTyped` | `TableTypeOK` | `TableInv` |
| | `StoredItemsHaveRows` (no DELETE) | `IndexedKeysHaveRows` | `RowsInv` |
| | `InsertsStayFound` (one leaf) | `InsertsAreDurable` | `DurableInv` |
| | `RootStaysWholeAcrossSessions`, `RowsSucceedAcrossSessions` | `RootNeverSplits`, `InsertNeverErrs` | `RootInv` |
| | `StatementsAreAtomic`, `RangesStayExact`, `InsertsSurviveSplits` (one row per statement, no failures, no two leaves of one id) | `ImplementsIndexSpec`, `RangesPartitionKeys`, `InsertsAreDurable` | `IndexInv` |
| `RowsProofs` | `RowsTypeCorrect`, `LinesAreRows`, `SelectsShowInserts`, `IndexesStayTogether` | `RowsTypeOK`, `LinesWereInserted`, `SelectShowsInserts`, `IndexesHoldTheSameKeys` | `StatementInv` |
| `CascadesProofs` | `SearchIsTyped`, `WinnersComeAfterTheirInputs`, `SearchKeepsTheQuery` | `CascadesTypeOK`, `WinnersAreComplete`, `BestPlanIsTheQuery` | `CascadesInv` |
| `HistogramProofs` | `BucketsArePartition`, `BoundariesNearest` | `BucketsPartitionValues`, `BoundariesAreNearest` | `HInv` |
| | `StatisticsReturn` | `StatisticsComeBack` | `StatsInv` |
| | `StatisticsBuildHistograms` | `StatisticsSpec => HistogramSpec` | |

`CatalogProofs`, on ids. `NoIdIssuedTwice` is not inductive. The inductive invariant is
`AllocTypeOK /\ IssuedBelowCounter`: counters are multiples of the capacity, and an
issued id is a multiple that its bucket's counter has passed plus the bucket plus one.
A new id is a multiple at or above the counter; that numbers have one quotient and one
offset (`UniqueOffset` of `CodecProofs`) separates it from all issued ones, in the
same bucket by the quotient, in another by the offset. `RequestsFilled` counts the ids
of a request with a bijection. The only assumption is `AllocatorAssumption`: a positive
capacity and buckets below it.

`BptreeProofs`. The inductive invariant `BptreeInv` strengthens the four properties it
yields:

- the root does not split because its size is always `KeyLen(min) + KeyLen(max)`
  (`TreeOK`): `UpdateStatByRangeChange` exchanges the lengths of the two ends, and the
  word arithmetic is exact as long as two keys fit into a node (`RootFits`);
- ids stay different because all live ids are at most `lastId` (`ChildrenOK`), and a
  split or the first insert uses `lastId + 1`;
- an insert meets no stale entry because `written` is a subset of the cached keys of
  every leaf (`LeafOK`), also after a merge with the store, a split and a delete. The
  split needs that both halves get items (`SplitParts`: the least key stays left, the
  greatest goes right), since the ends of an empty half are undefined.

`NothingUnsavedForgotten` speaks of keys; what is inductive is `AllBacked`, which speaks
of items: a leaf that the next save will not dump has a record, under its id, with each
of its items and their values. A merge keeps it because the store's items win no
conflict that matters (`Deserialize` keeps the cached ones, which are the stored ones in such
a leaf); a save keeps it because a failed dump leaves its leaf marked, and, as no two
leaves have the same id (`BptreeInv`), a dump overwrites no other leaf's record.

There is one lemma per operator of `BptNode` and `Bptree` and one step per action in
`NextOK`. Nothing is assumed about the order of the children: the binary searches may
return any position of an unsorted range. The assumptions are `NodeAssumption`,
`RootFits` and `MaxNodeIdAssumption`.

`SchedulerProofs`, on the scan. `IterInv` says where a scan can be: not opened, at an item of a leaf
that is loaded, at the end of a leaf, past the last one (`Positioned`), or opened in a gap
(`GapAt`: the range begins above the keys of the record and not above the reference), over
a store in which leaves are apart and their records hold keys of their ranges
(`StoreShape`, `TreeShape`), any keys or records possibly lost. The gap is only met by
`Open`; the first turn after it fails the assertion (`GapTurn`), and from the other
places no assertion fails, for ranges of any kind. For `ScanIsExact`,
`ScanInv` says what has been returned: the ranges before the current one, and of the
current one the keys the cursor has passed (`DoneKeys`). Each turn of the loop adds one
key above all of them, or passes keys that are lost or outside the range.
`Ascending` is the unique order of a finite set by rank; the lemmas under "Ranks" say
what a new greatest element does to it. `ScanReturnsItsRanges` has the hypothesis that a
range is open at exactly one end: `reachRangeBound` decides about the upper end by
`lower_open`, so that open and closed ranges are not what their flags say, and the
callers build only half-open ones. The assumption is `IteratorAssumption`; the size of
the tree, the lost leaves, the number of ranges and the page size are arbitrary.

`SchedulerProofs`, on the statement. `RunInv` names the stages of a run (`Waiting`, `Selecting`, `Writing`)
and says for each what is queued, which ports are set and in which chunk the page is:
`Queued(m)` is what makes a port be set before it is read, since the queue counts down
from the leaves of the plan to its root. It contains `IterInv` and `ScanInv`, so that
the scan of a SELECT needs no new argument: `SelectIsItsPage` combines that the page is
what has been returned so far (`got`), that this is the ascending keys the cursor has
passed, and that the scan stops when the page is full or the range ends. The range
`SelectAnalyzer` builds is half-open, so the hypothesis of the scan is met, and begins
below all keys, so that it opens in no gap (`SelectHitsNoGap`). The
assumption `MaxIntAssumption` says where the greatest integer lies among the keys.

`TableProofs`. The theorems are about `TableSpec`, in which a new session may give a
leaf the id of an older one: two leaves of a tree may then share a record, so nothing
in `TableInv` relies on ids. (`IndexInv`, at the end, does.) `TableIsTyped` shows that the types, the word sizes included,
survive that. For `IndexedKeysHaveRows`, `RowsInv` says that the cached tree, the keys at
the ends of its leaves, the stored leaves and the keys the statement still has to insert
are all among the rows (`TreeIn`, `DiskIn`, which are generic in the set of keys:
`TableInv` uses them with all keys). A step brings no other key into the index than the
one it inserts (`IndexStep`), and rows are only added (`RowsOnlyGrow`). The hypothesis is
that no DELETE is issued. With one, a crash between the deletion of rows and the save of
the index leaves items without rows (hazard at `table.cc:102`), and TLC finds
`IndexedKeysHaveRows` violated for `Statements` with "delete" and `Environment` with
"crash". Sessions with DELETE and without crashes are checked by `table_session`, and what remains
true with both (`OnlyDeletesStrandItems`) by `table_crash`.

`RootStaysWholeAcrossSessions` and `RowsSucceedAcrossSessions` carry two results about one
tree over to any number of sessions, DELETEs, crashes and failed writes. `RootInv` adds to
`TableInv` that the size of the root is always that of the keys at its ends (`RootSized`):
what `OpenIndex` computes from the root record has it again, whichever dumps the last
session came to. A row of an INSERT is stored or meets its key; `Insert` never fails in
between.

`InsertsStayFound` is about durability: as long as the index is one leaf, every key in
`acked` is in `Stored` at every moment, for all statements (DELETE included) and all
failures, so that `InsertsAreDurable` holds even without its exceptions. `DurableInv` says
what the cached leaf, its record and the root record know of those keys. The leaf of the
session spans and has them (`Held`): they are cached, or in the record, and then the leaf
is not dumped before a visit has read them (a dump of an unread leaf would overwrite its
record with nothing). A session opened now would have them too (`Opens`), in a leaf of the
same id, so that a dump of the leaf alone, or of the root alone, falls on the right record
and a range that still covers them: this is what makes any order and any subset of the
dumps of a Submit harmless (`DumpHeld`). The keys of the INSERT under way are in a leaf and
under a root that are both marked (`Awaits`), which is what a complete Submit needs to
store them (`SaveStores`). A DELETE under way is for none of the keys. TLC confirmed
`DurableInv` to be an invariant of an instance with every statement and failure before it
was proved. The hypothesis `[]OneLeaf` cannot be dropped: with two leaves, half a split
loses keys (`SplitCutShort`), an id is used twice, or a leaf splits twice between saves.
It is no constraint on failures or statements, and what it leaves is the usual table: at
the default node size a leaf of integer keys splits only when its size is inflated (Bounds
above).

`StatementsAreAtomic` is the refinement of `IndexSpec`, under the mapping of `Table`, for
an index of any number of leaves: the keys are those a session opened now would find
(`Stored`), the request is the statement under way. `IndexInv` says how tree and store are
related in each phase. Before a statement has changed the index and after its Submit the
session `Agrees` with the store: the root record is that of the cached leaves, nothing is
marked, and what is cached is in the records of the leaves (`Clean`). After the row has
been through the index, either nothing has changed or the session `Carries` the
statement's effect: every leaf is `Clean` or `Dirty`, and the items of the marked leaves
together with the records of the others are exactly the keys the index is to have
(`SavedKeys`, `Becomes`). The next complete save then stores them all (`SaveExact`), leaf by
leaf: a dump makes its leaf `Clean` and, as no other leaf has its id, leaves the records of
the others alone (`DumpExact`); no deleted key comes back.

A statement gets there in three steps. It begins with a visit that makes the cached items
exactly those of the record (`VisitExact`). The ends of the range of every leaf are keys
of it (`Bounded`) and the ranges ascend without overlap (`Ascending`), so `FindChild` finds
the one leaf whose range has a key or shows that none has (`Whole`). An insert then puts
the key into a leaf between whose neighbours it fits (`Apart`, `InsertIntoExact`); when the
leaf splits, each half is bounded by its own keys and goes next to the other (`PutHalves`),
so the ranges still ascend. A delete of an end finds the new end, and a delete of the last
key takes the leaf away (`TakenLeaf`). The steps map as follows: BeginInsert, BeginDelete
and Update to `Begin`, a Submit to the commit of its statement, an InsertRow that meets
the key to `RejectInsert`, and the others to stutters (`IndexNext`). `RangesStayExact`
reads `RangesPartitionKeys` off the same invariant, and `InsertsSurviveSplits` the
durability of INSERTs: unlike `InsertsStayFound` it allows any number of leaves, and in
turn no crash.

The hypotheses are those of the run `table_session`: one row per statement, `Environment`
at most "reopen", and no two leaves of one id (`NodeIdsUnique`, which the calls of
one session keep: `LeavesKeepTheirIds`); sessions, statements, keys and sizes are
arbitrary. None of the hypotheses can be dropped. With chunks of two rows TLC finds
`RangesPartitionKeys` violated: an INSERT whose second key is there already leaves the
first one cached and unsaved. With a crash the promise is broken by an INSERT that neither
takes effect nor meets its key. When a split in a later session takes the id of another
leaf, that leaf's record is overwritten.

`CatalogProofs`, on statements. `CatalogInv` adds to the allocator's invariant what the records say of
each other (`DatabasesOK`, `TablesOK`) and what a statement under way still relies on
(`JobOK`): the id its plan carries stands for its name and for no other, and the records
it has written so far are there. That is what an interruption at any write leaves
behind, and what makes a second CREATE of the same name find the first one's id. New ids
are fresh by the lemmas on ids. `NamesKeepTheirIds` is an action property
and follows step by step from the same invariant. The assumption is
`CatalogAssumption`.

`CatalogProofs`, on the store, with `CodecProofs`. `OneStoreSuffices` says that all kinds
of records can share one LevelDB. `CodecProofs` shows what the bytes of keys give away: a
word comes back from its bytes (`WordComesBack`, by taking digits off one by one), so that
words, and texts behind their length, can be equal only when their parts are
(`PartsEqual`, `Texts`), ids come back from the keys kept under names (`IdsComeBack`), and
a key that begins with the ids of a table is no catalog key, since these begin with a zero
word and ids begin at one (`OwnIsNotTagged`). Three pairs of kinds have the same tag or
overlapping keys, and each is apart for a reason of its own. A counter of databases has
the tag of the names of databases, but a bucket is less than 2^32, so that its key would be
that of an empty name with something behind it; a counter of tables has the tag of the
descriptions of tables, whose keys are longer (`CountersApart`). Rows, nodes and
statistics of one table may share keys as far as the property goes, which asks only that
they are not those of anything else.

`StoreInv` adds to `CatalogInv` that counters are at most `MaxCounter`, that only tables
with a description have been written, and that the store is what `StoreHolds` says. The
last is preserved by one lemma for all writes (`WriteOfKind`): as keys of different kinds
differ (`KeysApart`), a write that replaces what its kind holds under some keys replaces
nothing else; what remains per action is that its kind changes as the action says, which
needs that keys of different records of one kind differ (`IdKeysDiffer`,
`DatabaseNameKeysDiffer`, ...). That the ids in keys are words follows from the ids issued
being at most the counters. The assumptions are `CodecAssumption`,
`CatalogStoreAssumption` and `WordsAssumption`, which say that ids fit into a `uint64_t`,
that the number of buckets fits into a `uint32_t`, and that different names are different
byte strings; texts of rows and names have any length.

`RowsProofs`. The four theorems are about any CREATE TABLE and INSERT statements, any words
in their literals, any bytes of uninitialised memory and any interleaving of statements
with the loss of the database's record. `SelectsShowInserts` is the end-to-end one: the
integers a SELECT prints are those of the last INSERT for the key, and no accepted key in
the range is missing, printed twice or out of order. It is about four conversions that
have to agree:

- a value comes back from its bytes behind its type (`ValueIsRead`, `PlaceIsRead`), and so
  does a row column by column, each starting where the one before it ended (`RowIsRead`);
- the key of a record is decimal text, while an index item is words of the key's columns.
  Numbers have different texts (`DecimalsDiffer`, over the digits taken off one by one), so
  that keys of one column have different records (`KeysDiffer`). For keys of several
  columns that is not claimed: a line is then the row of some INSERT (`LinesAreRows`), which
  is why `SelectShowsInserts` asks for one column;
- items are compared as bytes, keys as numbers: for the non-negative integers a range can
  cover both orders are the same (`ItemsInOrder`), and the items between the ends of a
  range are those of the keys it covers;
- a finite set has one enumeration in an order (`EnumerationIsUnique`), so the scan of the
  items is the ascending sequence of the visible keys (`ScanFindsVisible`).

`StatementInv` says that every record is the row of a key some INSERT gave, with the
integers it gave (`RowsStored`); that each index has one item per item of the primary index,
ending in it, and the primary index of a key of one column exactly the items of the accepted
keys (`ItemsOK`, from which `IndexesStayTogether` follows); that all columns of a table which CREATE TABLE made come
back as `Int64` (`CreatedInfo`), only the fixture having others; and that nothing is stored
before there is a table. INSERT, the generator of the fixture and SELECT each have a lemma
for one chunk (`ChunkStored`, `ChunkIndexed`) and one for the step. The assumptions are
`RowsAssumption` (literals are 64-bit words, `MaxRows` is below 2^32, ids are positive) and
`CodecAssumption`.

`CascadesProofs`. `MemoOK` ties expressions and groups to the nodes of the plan and rule
masks to the physical expressions that exist. The hard part is the stack: after
`OptimizeGroupTask` for an input was pushed above it, a `ContinueInputs` task takes for
granted that the input has a winner when it is on top again. `StackOK` says so without
reference to the order of single tasks: for a task that waits for a group, the group has
a winner or is `Owed` one by a task further up (`Promises`), and the root's group is owed
one by the stack as a whole. Each task that is popped either keeps its promise or pushes
a task with the same promise. An empty stack owes nothing, so every group on the way from
the root has a winner when the search ends; that the plan read off the winners is the
query's goes by induction along the post-order of its nodes. `PlansAssumption` says no
more than that a plan is a non-empty tree in post-order.

`HistogramProofs`. `BucketsPartitionValues` (`BucketsArePartition`) and
`BoundariesAreNearest` (`BoundariesNearest`) hold for every value map, number of buckets
and width of int. The inductive invariant `HInv` adds to the two properties the types
(`HTypeOK`), what the counters of the loop mean at its head (`LoopInv`: `sum` and `ndv`
count from `lowest`, `cum` from the first value) and, for the bucket under way, that no
value it has taken would end it nearer to the threshold than the value of the turn, and
that there is room for it (`NearInv`). The last is why one value of look-ahead is enough: as rows are added, the
distance to the threshold falls until the sum exceeds it and only rises afterwards
(`FittingIsNearer`, `OverIsFarther`). The assumption is `HistogramAssumption`.

`StatisticsReturn` is about the stored messages. `StatsInv` adds to `HInv` that a histogram
is dumped only when it is finished, so that no turn changes it afterwards, that the message
under a column's key is that histogram's (`DumpedOK`), and that every message belongs to a
dumped column or to a table (`StoredOK`). Keys of columns and tables are apart by the
lemmas of `CodecProofs`: after the ids of the table there are nine bytes or one
(`StatisticKeysDiffer`). What comes back of a bucket is `ColumnComesBack`: a text is read
back from its bytes (`TextComesBack`), and as the rows up to a value grow strictly, only
the last bucket's are all rows, so that its frequency stays 1 and the others become 0
(`FrequencyOfBucket`). The assumption `StatisticsAssumption` says that ids are `uint64_t`.
`StatisticsBuildHistograms` carries the two properties of the histogram over to the
specification the run checks.

Induction. The provers cannot instantiate an induction theorem that takes an operator.
Where a proof needs induction (the value of a recursive function such as `ExpectedUpTo`
or `PhysicalPlan` at an argument, or that `Ascending`, a CHOOSE, has a value and only
one), it takes the set of counterexamples
and its least member, which exists because `<` is well-founded on the naturals
(`LeastNumber`, from `WFMin`), and shows that this one is none. The modules proved about
define such functions on a set (`f[n \in Nat] == ...`) for that reason.

Only model-checked:

- `NextReturns`, `RunReturns`, `SearchEnds`: liveness under fairness, which the provers
  do not handle;
- `InsertsAreDurable` for an index of several leaves under crashes, failed writes and
  statements of several rows, and `OnlyDeletesStrandItems` (`table_crash`).

## Not modelled

* The parser: a grammar and node classes, without state between statements. What its
  results can be is an input of `Rows` and `Catalog`.
* Arena, logging, flags, assertions and start-up. The ownership of strings by values
  (`ExprValue` copies them when it is copied) is that of a value; what is read through
  the address of one that is gone is a byte of `JunkByte`.
* Column-wise chunks (`chunk/column.cc`) and `IndexIterator`, which no executor uses;
  the random generator of the test suite; `mergeGroup` of the memo, an unused stub.
* Floating-point values: no column has such a type and no codec encodes them.
* Failures inside LevelDB other than a failed write or a missing key. A batch is atomic.
  That `MPutKV` of an INSERT fails is left out: the statement ends before anything changed.

## Plan

1. Done: the modules above, their runs, and the proofs above, of every safety property
   of `IdAllocator`, `Bptree`, `BptIterator`, `Scheduler`, `Catalog`, `CatalogStore`,
   `Cascades`, `Histogram` and `Statistics`, of the refinement of `IndexSpec`, and of the durability of INSERTs with
   crashes in an index of one leaf and without crashes in one of many.
2. Next proofs: durability under crashes with several leaves.
3. What SELECT returns after crashes: `Scheduler` over the stores `Table` reaches,
   instead of all small stores.
