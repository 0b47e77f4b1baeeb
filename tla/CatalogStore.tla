---------------------------- MODULE CatalogStore ----------------------------
(***************************************************************************)
(* The catalog in its key-value store.  Catalog keeps its records in       *)
(* functions of their own; the code keeps all of them, the counters of the *)
(* id allocator, and the rows, tree nodes and statistics of all tables in  *)
(* one LevelDB, told apart by nothing but the bytes schema_codec.cc and    *)
(* statistic_codec.cc make of ids, names and tags.                         *)
(*                                                                         *)
(* kv       the store: keys are byte sequences, a value is its content     *)
(*          behind the name of the message it is                           *)
(* written  history: the tables that have rows, as <<db id, table id>>     *)
(***************************************************************************)
EXTENDS Catalog, Codec

CONSTANTS
  NameBytes,   \* the bytes of the names
  RowTexts,    \* the texts of the primary keys of rows
  IndexIds,    \* ids of indexes
  NodeIds,     \* ids of tree nodes
  ColumnIds,   \* ids of columns
  MaxWritten   \* bound: tables that get rows

ASSUME CatalogStoreAssumption ==
  /\ NameBytes \in [Names -> Seq(Byte)]
  /\ \A m, n \in Names : NameBytes[m] = NameBytes[n] => m = n
  /\ RowTexts \subseteq Seq(Byte)
  /\ IndexIds \subseteq Nat /\ NodeIds \subseteq Nat /\ ColumnIds \subseteq Nat

\* Ids are uint64_t, the number of buckets is a uint32_t (id_allocator.h), so that
\* a bucket, written with W64 bytes, begins with W32 zeros.  The last line is
\* 4 < 2^32 in the code.
ASSUME WordsAssumption ==
  /\ MaxCounter < Pow256[W64]
  /\ Capacity <= Pow256[W64 - W32]
  /\ W64 - W32 < Pow256[W32]

VARIABLES kv, written

storeVars == <<catalogVars, kv, written>>

\* DatabaseInfo::Serialize and TableInfo::Serialize: the message with its kind.
DatabaseRecord(info) == <<"dbMeta", info>>

TableRecord(info) == <<"tblMeta", info>>

PutKV(key, value) == kv' = Put(kv, key, value)

\* MPutKV and the PutKVs of a table, all of one kind of value.
PutAllKV(keys, value) ==
  kv' = [k \in DOMAIN kv \cup keys |-> IF k \in keys THEN value ELSE kv[k]]

GenIncKey(type, bucket) ==
  IF type = "Database" THEN EncodeDatabaseAllocID(bucket) ELSE EncodeTableAllocID(bucket)

\* LevelDbClient::Incrby keeps a counter as decimal text.  The "0" it first puts for a
\* counter that is missing is what a missing counter is read as anyway; that write and
\* the batch with the new value are one step here.
IncrbyKV ==
  \/ counter' = counter /\ UNCHANGED kv
  \/ \E type \in IDType, b \in Buckets :
       /\ counter'[type][b] # counter[type][b]
       /\ PutKV(GenIncKey(type, b), <<"counter", Decimal[counter'[type][b]]>>)

\* The keys a table writes once it is there: rows (Table::insertCore), nodes
\* (Metadata::DumpTreeNode), statistics.
RowKeys(p) == {EncodeDataKey(p[1], p[2], text) : text \in RowTexts}

NodeKeys(p) == {EncodeIndexTreeNodeID(p[1], p[2], i, n) : i \in IndexIds, n \in NodeIds}

StatisticKeys(p) ==
  {EncodeMetaStatistic(p[1], p[2])} \cup {EncodeColumnStatistic(p[1], p[2], c) : c \in ColumnIds}

TableKeys(p) == RowKeys(p) \cup NodeKeys(p) \cup StatisticKeys(p)

\* Writers of a table take its ids from the stored TableInfo.
WriteTable ==
  /\ job = NoJob
  /\ Cardinality(written) < MaxWritten
  /\ \E p \in DOMAIN tblMeta \ written :
       /\ PutAllKV(TableKeys(p), <<"table", p>>)
       /\ written' = written \cup {p}
  /\ UNCHANGED catalogVars

StoreInit == CatalogInit /\ kv = <<>> /\ written = {}

StoreNext ==
  \/ /\ \/ \E name \in DbNames, ine \in BOOLEAN : CreateDatabase(name, ine)
        \/ \E db \in DbNames, name \in TableNames, ine \in BOOLEAN : CreateTable(db, name, ine)
     /\ IncrbyKV
     /\ UNCHANGED written
  \/ /\ DumpDatabaseMeta
     /\ PutKV(EncodeDatabaseID(job.info.id), DatabaseRecord(job.info))
     /\ UNCHANGED written
  \/ /\ DumpDatabaseIdByName
     /\ PutKV(EncodeDatabaseName(NameBytes[job.info.name]), <<"dbName", EncodeDatabaseID(job.info.id)>>)
     /\ UNCHANGED written
  \/ /\ ModifyDatabaseMetaDel
     /\ kv' = Del(kv, EncodeDatabaseID(dbId[job.info.dbName]))
     /\ UNCHANGED written
  \/ /\ ModifyDatabaseMetaPut
     /\ PutKV(EncodeDatabaseID(job.info.db), DatabaseRecord(job.modified))
     /\ UNCHANGED written
  \/ /\ DumpTableMeta
     /\ PutKV(EncodeTableID(job.info.db, job.info.id), TableRecord(job.info))
     /\ UNCHANGED written
  \/ /\ DumpTableIdByName
     /\ PutKV(EncodeTableName(job.info.db, NameBytes[job.info.name]),
              <<"tblName", EncodeTableID(job.info.db, job.info.id)>>)
     /\ UNCHANGED written
  \/ Interrupt /\ UNCHANGED <<kv, written>>
  \/ WriteTable

StoreSpec == StoreInit /\ [][StoreNext]_storeVars

-----------------------------------------------------------------------------
(* Properties *)

\* The pairs of key and value the store would hold if every kind of record had
\* a store of its own.
StoreHolds ==
  LET counters == {c \in IDType \X Buckets : counter[c[1]][c[2]] # 0}
  IN  {<<GenIncKey(c[1], c[2]), <<"counter", Decimal[counter[c[1]][c[2]]]>>>> : c \in counters}
        \cup {<<EncodeDatabaseID(d), DatabaseRecord(dbMeta[d])>> : d \in DOMAIN dbMeta}
        \cup {<<EncodeDatabaseName(NameBytes[n]), <<"dbName", EncodeDatabaseID(dbId[n])>>>> : n \in DOMAIN dbId}
        \cup {<<EncodeTableID(p[1], p[2]), TableRecord(tblMeta[p])>> : p \in DOMAIN tblMeta}
        \cup {<<EncodeTableName(p[1], NameBytes[p[2]]), <<"tblName", EncodeTableID(p[1], tblId[p])>>>> :
                p \in DOMAIN tblId}
        \cup UNION {{<<k, <<"table", p>>>> : k \in TableKeys(p)} : p \in written}

\* LoadDatabaseIdByName and LoadTableIdByName of what is stored for a name.
LoadedDatabaseId(name) == DecodeDatabaseID(kv[EncodeDatabaseName(NameBytes[name])][2])

LoadedTableId(db, name) == DecodeTableID(kv[EncodeTableName(db, NameBytes[name])][2])

\* All kinds of records share one store and never meet: the store holds exactly
\* what separate stores would hold, no counter, name, description, row, node or
\* statistic is overwritten by one of another kind, table or database, and the
\* ids kept under names decode to the ids that were given, of the same database.
OneStoreIsEnough ==
  /\ {<<k, kv[k]>> : k \in DOMAIN kv} = StoreHolds
  /\ \A n \in DOMAIN dbId : LoadedDatabaseId(n) = dbId[n]
  /\ \A p \in DOMAIN tblId :
       LoadedTableId(p[1], p[2]) = [db |-> p[1], table |-> tblId[p]]

=============================================================================
