------------------------------- MODULE Table -------------------------------
(***************************************************************************)
(* sql/storage/table.cc and index.cc: statements on a table with its       *)
(* primary index.  A statement writes the row data and the index in steps, *)
(* each leaving its own records in the key-value store, and nothing makes  *)
(* them one transaction: an error of the index returns early, a failed     *)
(* write is swallowed, a crash keeps what has been written.                *)
(*                                                                         *)
(* tree, disk  the primary index (module Bptree); its items carry no value *)
(* rows        the row data in the store, by primary key                   *)
(* job         the statement being executed: op, its chunk of rows, the    *)
(*             phase it is in, and the number of rows the index has done   *)
(* acked       history: keys whose INSERT ran to the end of Submit, every  *)
(*             node stored, and that no DELETE has been started for since  *)
(***************************************************************************)
EXTENDS Bptree

CONSTANTS
  RowValues,     \* the contents a row may have
  NoValue,       \* the empty value EncodeIndex gives an index item
  MaxChunk,      \* bound: rows of a chunk
  Statements,    \* which of "insert", "delete", "update" clients issue
  Environment    \* which of "reopen", "crash", "put_fails" may happen

ASSUME TableAssumption ==
  /\ NoValue \in Values
  /\ MaxChunk \in Nat \ {0}
  /\ Statements \subseteq {"insert", "delete", "update"}
  /\ Environment \subseteq {"reopen", "crash", "put_fails"}

VARIABLES rows, job, acked

tableVars == <<tree, disk, ret, rows, job, acked>>

Row == [key : Keys, val : RowValues]

Chunks == UNION {[1 .. n -> Row] : n \in 1 .. MaxChunk}

Phases == {"idle", "index", "data", "submit"}

Idle == [op |-> "none", chunk |-> <<>>, phase |-> "idle", done |-> 0]

ChunkKeys(chunk) == {chunk[i].key : i \in DOMAIN chunk}

\* Mutant: only the first row of the chunk is stored.
PutFirstRow(chunk) ==
  [k \in DOMAIN rows \cup {chunk[1].key} |-> IF k = chunk[1].key THEN chunk[1].val ELSE rows[k]]

\* The row data after MPutKV of a chunk: one batch, the last row of a key wins.
PutRows(chunk) ==
  [k \in DOMAIN rows \cup ChunkKeys(chunk) |->
     IF k \in ChunkKeys(chunk)
     THEN LET last == CHOOSE i \in DOMAIN chunk :
                        /\ chunk[i].key = k
                        /\ \A j \in DOMAIN chunk : chunk[j].key = k => j <= i
          IN  chunk[last].val
     ELSE rows[k]]

\* The row data after MDelKV of keys.
DelRows(keys) == [k \in DOMAIN rows \ keys |-> rows[k]]

\* The persisted max_tree_node_id: CREATE TABLE stores 0 and nothing rewrites it.
PersistedTreeId == 0

\* Index::Index over what is stored.
OpenIndex(d) == OpenTree(d, PersistedTreeId)

TableInit ==
  /\ Init
  /\ rows = [k \in {} |-> 0]
  /\ job = Idle
  /\ acked = {}

-----------------------------------------------------------------------------
(* Table::Insert *)

\* Table::insertCore up to MPutKV.
BeginInsert(chunk) ==
  /\ job = Idle
  /\ "insert" \in Statements
  /\ tree.lastId + Len(chunk) <= MaxNodeId
  /\ rows' = PutRows(chunk)
  /\ job' = [op |-> "insert", chunk |-> chunk, phase |-> "index", done |-> 0]
  /\ UNCHANGED <<tree, disk, ret, acked>>

\* The next row of Index::Insert; an error returns from all callers at once,
\* InsertExecutor::Consume included, without Submit.
InsertRow ==
  /\ job.op = "insert" /\ job.phase = "index"
  /\ LET key == job.chunk[job.done + 1].key
     IN  \E o \in InsertOutcomes(tree, disk.leaf, key, NoValue) :
           /\ tree' = o.tree
           /\ ret' = [op |-> "Insert", key |-> key, st |-> o.st]
           /\ job' = CASE o.st # C_OK -> Idle
                       [] o.st = C_OK /\ job.done + 1 = Len(job.chunk) ->
                            [job EXCEPT !.phase = "submit", !.done = @ + 1]
                       [] OTHER -> [job EXCEPT !.done = @ + 1]
  /\ UNCHANGED <<disk, rows, acked>>

-----------------------------------------------------------------------------
(* Table::Delete *)

BeginDelete(chunk) ==
  /\ job = Idle
  /\ "delete" \in Statements
  /\ job' = [op |-> "delete", chunk |-> chunk, phase |-> "index", done |-> 0]
  /\ acked' = acked \ ChunkKeys(chunk)
  /\ UNCHANGED <<tree, disk, ret, rows>>

DeleteRow ==
  /\ job.op = "delete" /\ job.phase = "index"
  /\ LET key == job.chunk[job.done + 1].key
     IN  \E o \in DeleteOutcomes(tree, disk.leaf, key) :
           /\ tree' = o.tree
           /\ ret' = [op |-> "Delete", key |-> key, st |-> o.st]
           /\ job' = CASE o.st # C_OK -> Idle
                       [] o.st = C_OK /\ job.done + 1 = Len(job.chunk) ->
                            [job EXCEPT !.phase = "data", !.done = @ + 1]
                       [] OTHER -> [job EXCEPT !.done = @ + 1]
  /\ UNCHANGED <<disk, rows, acked>>

\* Table::deleteCore's MDelKV.
DeleteData ==
  /\ job.phase = "data"
  /\ rows' = DelRows(ChunkKeys(job.chunk))
  /\ job' = [job EXCEPT !.phase = "submit"]
  /\ UNCHANGED <<tree, disk, ret, acked>>

\* MDelKV fails: deleteCore returns, without Submit.  The rows stay, and the keys are
\* gone from the cached tree only.
DeleteDataFails ==
  /\ "put_fails" \in Environment
  /\ job.phase = "data"
  /\ job' = Idle
  /\ UNCHANGED <<tree, disk, ret, rows, acked>>

-----------------------------------------------------------------------------
(* Table::Update *)

\* updateCore is empty, but Submit stores what earlier statements on the same
\* Table have left unsaved.
Update ==
  /\ job = Idle
  /\ "update" \in Statements
  /\ job' = [op |-> "update", chunk |-> <<>>, phase |-> "submit", done |-> 0]
  /\ UNCHANGED <<tree, disk, ret, rows, acked>>

-----------------------------------------------------------------------------
(* Table::Submit *)

Submit ==
  /\ job.phase = "submit"
  /\ disk' = DumpNodes(tree, disk, UnsavedNodes(tree))
  /\ tree' = ClearUnsaved(tree)
  /\ acked' = IF job.op = "insert" THEN acked \cup ChunkKeys(job.chunk) ELSE acked
  /\ job' = Idle
  /\ ret' = [op |-> "Save", key |-> NoKey, st |-> C_OK]
  /\ UNCHANGED rows

\* A write fails: PullUnsavedTreeNode stops there, Index::Save reports C_OK.
SubmitFails ==
  /\ "put_fails" \in Environment
  /\ job.phase = "submit"
  /\ \E N \in (SUBSET UnsavedNodes(tree)) \ {UnsavedNodes(tree)} :
       disk' = DumpNodes(tree, disk, N)
  /\ job' = Idle
  /\ ret' = [op |-> "Save", key |-> NoKey, st |-> C_OK]
  /\ UNCHANGED <<tree, rows, acked>>

-----------------------------------------------------------------------------
(* Sessions *)

\* The next statement comes with its own arena, TableInfo and Table, and opens
\* the index from the store.
Reopen ==
  /\ "reopen" \in Environment
  /\ job = Idle
  /\ tree' = OpenIndex(disk)
  /\ ret' = [op |-> "Open", key |-> NoKey, st |-> C_OK]
  /\ UNCHANGED <<disk, rows, job, acked>>

\* The process dies in the middle of a statement, possibly after some of the
\* dumps of its Submit, and the database is opened again.
Crash ==
  /\ "crash" \in Environment
  /\ job # Idle
  /\ \E N \in (IF job.phase = "submit" THEN SUBSET UnsavedNodes(tree) ELSE {{}}) :
       /\ disk' = DumpNodes(tree, disk, N)
       /\ tree' = OpenIndex(disk')
  /\ job' = Idle
  /\ ret' = [op |-> "Open", key |-> NoKey, st |-> C_OK]
  /\ UNCHANGED <<rows, acked>>

TableNext ==
  \/ \E chunk \in Chunks : BeginInsert(chunk)
  \/ InsertRow
  \/ \E chunk \in Chunks : BeginDelete(chunk)
  \/ DeleteRow
  \/ DeleteData
  \/ DeleteDataFails
  \/ Update
  \/ Submit
  \/ SubmitFails
  \/ Reopen
  \/ Crash

TableSpec == TableInit /\ [][TableNext]_tableVars

-----------------------------------------------------------------------------
(* Properties *)

TableTypeOK ==
  /\ TypeOK
  /\ DOMAIN rows \subseteq Keys
  /\ \A k \in DOMAIN rows : rows[k] \in RowValues
  /\ job.op \in {"none", "insert", "delete", "update"}
  /\ job.phase \in Phases
  /\ job.chunk \in Chunks \cup {<<>>}
  /\ job.done \in 0 .. Len(job.chunk)
  /\ acked \subseteq Keys

\* The keys Bptree::GetItem finds in a session opened from the store now.
Stored ==
  {key \in Keys :
     \A o \in GetItemOutcomes(OpenIndex(disk), disk.leaf, key) : o.st = C_OK}

\* The keys a full walk over the stored leaves meets, in order.
StoredWalk == [i \in 1 .. Len(disk.root) |->
                 IF disk.root[i].id \in DOMAIN disk.leaf
                 THEN DOMAIN disk.leaf[disk.root[i].id] ELSE {}]

\* A Submit that has a new leaf to store next to older ones stops, by a failed
\* write or a crash, when it has dumped some of its nodes and not all.
SplitCutShort ==
  /\ job.phase = "submit"
  /\ disk.root # <<>> /\ Len(tree.children) # Len(disk.root)
  /\ disk' \notin {disk, DumpNodes(tree, disk, UnsavedNodes(tree))}

\* No two cached leaves cover one key.
RangesApart ==
  \A i, j \in 1 .. Len(tree.children) : i < j => tree.children[i].max < tree.children[j].min

\* A new session goes on finding each key of an INSERT whose nodes were all stored,
\* whatever statements, failures, crashes and new sessions follow.  Three kinds of steps
\* are excepted, and each of them loses such keys: a split stored by halves, a leaf that
\* took the id of another one, as ids start anew in every session, and the second split
\* of a range before a save.
InsertsAreDurable ==
  [][acked \subseteq Stored /\ NodeIdsUnique /\ RangesApart /\ ~SplitCutShort
       => acked' \subseteq Stored']_tableVars

\* Unless a DELETE is under way, every key a stored leaf holds has its row data:
\* insertCore writes the rows before the index and deleteCore the index before the
\* rows, so that a scan's MGetKV, which fails as a whole on one missing row, finds a
\* row for each index item.
\* With DELETEs and crashes it does not hold: a DELETE that dies between its two writes
\* has removed the rows of keys that stay in the stored leaves.
IndexedKeysHaveRows ==
  job.op # "delete" =>
    \A i \in DOMAIN StoredWalk : StoredWalk[i] \subseteq DOMAIN rows

\* Between statements the cached tree and the store agree: every leaf of the
\* root record is a cached leaf with the same range, no key lies outside the
\* range of its leaf, and the ranges ascend without overlap.
RangesPartitionKeys ==
  job = Idle =>
    /\ RefsOf(tree.children) = disk.root
    /\ \A i \in 1 .. Len(disk.root) :
         /\ disk.root[i].id \in DOMAIN disk.leaf
         /\ LET D == DOMAIN disk.leaf[disk.root[i].id]
            IN  /\ disk.root[i].min \in D /\ disk.root[i].max \in D
                /\ \A k \in D : disk.root[i].min <= k /\ k <= disk.root[i].max
    /\ \A i, j \in 1 .. Len(disk.root) : i < j => disk.root[i].max < disk.root[j].min

\* The index of a table is what IndexSpec promises: the keys a new session would
\* find change only when a statement ends, by exactly its own keys, and a
\* statement ends without effect only when it inserts a key that is there.
Promise == INSTANCE IndexSpec
           WITH keys <- Stored, req <- [op |-> job.op, keys |-> ChunkKeys(job.chunk)]

ImplementsIndexSpec == Promise!IndexBehaviour

=============================================================================
