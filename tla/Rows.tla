-------------------------------- MODULE Rows --------------------------------
(***************************************************************************)
(* What becomes of the values of an INSERT: create_analyzer.cc and         *)
(* schema.cc store the description of the table, insert_analyzer.cc,       *)
(* insert_executor.cc and row.cc put literals into tuples, table.cc and    *)
(* rc_codec.cc turn tuples into records and index items, select_analyzer.cc*)
(* and table_iterator.cc find them again, resultset_executor.cc prints.    *)
(* Each statement is one step: what failures between its writes do is the  *)
(* subject of Table, and an index is the set of its items, which Table     *)
(* shows its tree to implement.                                            *)
(*                                                                         *)
(* known   the catalog records that are stored for the table               *)
(* meta    the stored TableProto                                           *)
(* data    row records, by key;  items  the items of each index            *)
(* seq     cur_ of the generator that fills the tables of the test suite   *)
(* out     the last statement, its status, and the lines a SELECT printed  *)
(* told    history: for a primary key, the values the last INSERT gave for *)
(*         it (NotTold for the columns without an integer value)           *)
(* kept    history: the primary keys whose INSERT all indexes accepted     *)
(***************************************************************************)
EXTENDS Codec

CONSTANTS
  CreateStmts,    \* CREATE TABLE statements: columns (types), indexes (type, cols)
  InsertStmts,    \* INSERT statements: the records of literals of their VALUES list
  MaxRecords,     \* bound: records of a test's chunk
  MaxRows,        \* bound: records given to all INSERTs
  Junk,           \* the words uninitialised memory may hold
  JunkByte,       \* the bytes of a std::string object
  DbId, TableId

\* An integer literal is a word; of the others only the kind matters.
Literals == [kind : {"int"}, u : 0 .. Pow256[W64] - 1] \cup [kind : STRING \ {"int"}]

ASSUME RowsAssumption ==
  /\ CreateStmts \subseteq [columns : Seq(STRING),
                            indexes : Seq([type : STRING, cols : Seq(Nat \ {0})])]
  /\ InsertStmts \subseteq Seq(Seq(Literals))
  /\ MaxRecords \in Nat /\ MaxRows \in 0 .. Pow256[W32] - 1
  /\ Junk \subseteq 0 .. Pow256[W64] - 1
  /\ JunkByte \subseteq Byte
  /\ DbId \in Nat \ {0} /\ TableId \in Nat \ {0}

VARIABLES known, meta, data, items, seq, out, told, kept

rowsVars == <<known, meta, data, items, seq, out, told, kept>>

Nil == NewValue("nil", 0)   \* a null pointer to a cell

NoTuple == <<>>             \* a null pointer to a tuple

NotTold == NewValue("not told", 0)

\* Not a status of the program: it dies of a null pointer or an exception.
Died == "died"

Records == {"dbName", "dbMeta", "tblName", "tblMeta"}

-----------------------------------------------------------------------------
(* Schema *)

\* The TableInfo CreateTableAnalyzer builds: ids are positions.
NewTableInfo(stmt) == [columns |-> stmt.columns, indexes |-> stmt.indexes]

\* The fixture of the storage tests: id(long), name(string), age(short).
GenTableInfo ==
  [columns |-> <<"LONGLONG", "STRING", "SHORT">>,
   indexes |-> <<[type |-> "PRIMARY", cols |-> <<1>>], [type |-> "INDEX", cols |-> <<2>>],
                 [type |-> "INDEX", cols |-> <<3>>]>>,
   primary |-> 1]

\* ColumnProto has a field for the type, which Serialize does not set.
Serialize(info) == [columns |-> Len(info.columns), indexes |-> info.indexes]

\* primary_index of Deserialize: the last PRIMARY, 0 for a null pointer.
PrimaryIndex(indexes) ==
  LET P == {i \in DOMAIN indexes : indexes[i].type = "PRIMARY"}
  IN  IF P = {} THEN 0 ELSE CHOOSE i \in P : \A j \in P : j <= i

\* The columns come back with the type of value 0.
Deserialize(proto) ==
  [columns |-> [i \in 1 .. proto.columns |-> "DECIMAL"],
   indexes |-> proto.indexes,
   primary |-> PrimaryIndex(proto.indexes)]

ColType(info, c) == ToExprType(info.columns[c])

PrimaryCols(info) == info.indexes[info.primary].cols

-----------------------------------------------------------------------------
(* Rows *)

\* toLiteralNode: what an expression of a VALUES list becomes.
ToLiteralNode(lit) ==
  CASE lit.kind = "int" -> NewValue("Int64", lit.u)
    [] lit.kind = "double" -> NewValue("Double", 0)
    [] lit.kind = "bool" -> NewValue("Bool", 1)
    [] lit.kind = "null" -> NewValue("Null", 0)
    [] OTHER -> Nil

\* A string in a tuple is the address of a std::string; what is read back are
\* as many bytes of the object itself.
ToData(v, byte) == IF v.type = "String" THEN [i \in 1 .. Len(v.u) |-> byte] ELSE v.u

\* The columns a record leaves as they are.
Unset(info, cells) ==
  {c \in DOMAIN info.columns : ~(c <= Len(cells) /\ cells[c].type = ColType(info, c))}

\* Row::SetColValue for the cells of a record: the first call allocates the
\* tuple, a cell whose type is not the column's leaves the memory as it was.
SetColValues(info, cells, mem, byte) ==
  IF cells = <<>> THEN NoTuple
  ELSE [c \in DOMAIN info.columns |->
          IF c \in Unset(info, cells) THEN mem[c] ELSE ToData(cells[c], byte)]

GetColValue(info, row, c) ==
  IF row = NoTuple THEN NewValue("Null", 0) ELSE NewValue(ColType(info, c), row[c])

TypedCols(info, row, cols) ==
  FlattenSeq([i \in DOMAIN cols |-> TypedBytes(GetColValue(info, row, cols[i]))])

\* The key of a row: a data key for each column of the primary key.
RowKey(info, row) ==
  LET cols == PrimaryCols(info)
  IN  FlattenSeq([i \in DOMAIN cols |->
                    EncodeDataKey(DbId, TableId, ToText(GetColValue(info, row, cols[i])))])

\* The value of a row: all columns with their types.
RowValue(info, row) == TypedCols(info, row, [c \in DOMAIN info.columns |-> c])

\* Mutant: an index other than the primary one has its own columns only.
EncodeOwnColumns(info, i, row) == TypedCols(info, row, info.indexes[i].cols)

\* The item of a row: the columns of the index, then the primary key.
EncodeIndex(info, i, row) ==
  (IF info.indexes[i].type # info.indexes[info.primary].type
   THEN TypedCols(info, row, info.indexes[i].cols) ELSE <<>>)
  \o TypedCols(info, row, PrimaryCols(info))

\* DecodeIndex of the primary index, as far as the key of a row needs it: each
\* column is read from the start of the item again.  The ranges of a SELECT hold
\* items of the column's type only, so that an item of a Null is never decoded.
DecodeIndex(info, item) ==
  LET type == TypeOfCode(item[1])
      v == DecodeExprValue(SubSeq(item, 2, 1 + TypeSize(type)), type).val
  IN  [c \in DOMAIN info.columns |-> v.u]

\* The value whose type is at a place of the value of a row, and its size.
DecodeAt(value, at) ==
  DecodeExprValue(SubSeq(value, at + 1, Len(value)), TypeOfCode(value[at]))

\* Mutant: the type in front of a value is not counted.
DecodeRowAtValue(info, value, byte) ==
  LET at[c \in DOMAIN info.columns] ==
        IF c = 1 THEN 1 ELSE at[c - 1] + DecodeAt(value, at[c - 1]).size
  IN  [c \in DOMAIN info.columns |-> ToData(DecodeAt(value, at[c]).val, byte)]

\* DecodeRow: from value to value, each one as long as its type says.
DecodeRow(info, value, byte) ==
  LET at[c \in DOMAIN info.columns] ==
        IF c = 1 THEN 1 ELSE at[c - 1] + 1 + DecodeAt(value, at[c - 1]).size
  IN  [c \in DOMAIN info.columns |-> ToData(DecodeAt(value, at[c]).val, byte)]

-----------------------------------------------------------------------------
(* Statements *)

NoLines == <<>>

RowsInit ==
  /\ known = {} /\ meta = <<>>
  /\ data = <<>> /\ items = <<>>
  /\ seq = 0
  /\ out = [stmt |-> "none", st |-> "C_OK", lines |-> NoLines]
  /\ told = <<>> /\ kept = {}

Answer(stmt, st, lines) == out' = [stmt |-> stmt, st |-> st, lines |-> lines]

\* A statement that stores nothing.
Leave(stmt, st) ==
  /\ Answer(stmt, st, NoLines)
  /\ UNCHANGED <<known, meta, data, items, seq, told, kept>>

\* CREATE TABLE runs to its end, unless a constraint names an unknown column.
CreateTable(stmt) ==
  /\ known = {}
  /\ IF \E i \in DOMAIN stmt.indexes : ~(Range(stmt.indexes[i].cols) \subseteq DOMAIN stmt.columns)
     THEN Leave("create", Died)
     ELSE /\ known' = Records
          /\ meta' = Serialize(NewTableInfo(stmt))
          /\ items' = [i \in DOMAIN stmt.indexes |-> {}]
          /\ Answer("create", "C_OK", NoLines)
          /\ UNCHANGED <<data, seq, told, kept>>

\* SchemaGen::DumpMata; the tests keep the TableInfo with its types.
DumpMata ==
  /\ known = {}
  /\ known' = {"fixture"}
  /\ meta' = <<>>
  /\ items' = [i \in DOMAIN GenTableInfo.indexes |-> {}]
  /\ Answer("create", "C_OK", NoLines)
  /\ UNCHANGED <<data, seq, told, kept>>

\* A CREATE TABLE for another table of the database dies in ModifyDatabaseMeta.
LoseDatabaseMeta ==
  /\ "dbMeta" \in known
  /\ known' = known \ {"dbMeta"}
  /\ UNCHANGED <<meta, data, items, seq, out, told, kept>>

\* The TableInfo a statement works with.
Info == IF known = {"fixture"} THEN GenTableInfo ELSE Deserialize(meta)

\* GetKV of a record of the catalog.
IsNotFound(lookup) == lookup.record \notin known

\* The status of the first of the named look-ups that fails, or C_OK.
FirstFailure(lookups) ==
  LET failed == {i \in DOMAIN lookups : IsNotFound(lookups[i])}
  IN  IF failed = {} THEN "C_OK" ELSE lookups[Min(failed)].st

Lookup(record, st) == [record |-> record, st |-> st]

InsertAnalysis ==
  FirstFailure(<<Lookup("dbName", "C_DATABASE_NOT_FOUND"),
                 Lookup("tblName", "C_TABLE_NOT_FOUND"),
                 Lookup("dbMeta", "C_STORAGE_KV_NOT_FOUND"),
                 Lookup("tblMeta", "C_TABLE_NOT_FOUND")>>)

SelectAnalysis ==
  FirstFailure(<<Lookup("dbName", "C_DATABASE_NOT_FOUND"),
                 Lookup("dbMeta", "C_STORAGE_KV_NOT_FOUND"),
                 Lookup("tblName", "C_TABLE_NOT_FOUND"),
                 Lookup("tblMeta", "C_TABLE_NOT_FOUND")>>)

\* The indexes accept the items of a chunk when none is there or comes twice.
Accepted(info, chunk) ==
  \A i \in DOMAIN info.indexes :
    /\ \A r \in DOMAIN chunk : EncodeIndex(info, i, chunk[r]) \notin items[i]
    /\ \A q, r \in DOMAIN chunk :
         EncodeIndex(info, i, chunk[q]) = EncodeIndex(info, i, chunk[r]) => q = r

\* Mutant: the rows of a rejected INSERT are stored in its indexes as well.
StoreAllItems(info, chunk) ==
  items' = [i \in DOMAIN items |->
              items[i] \cup {EncodeIndex(info, i, chunk[r]) : r \in DOMAIN chunk}]

\* The first index that rejects an item ends the INSERT without Submit, and what
\* the cached trees hold by then is gone with the statement.
StoreItems(info, chunk) ==
  items' = IF Accepted(info, chunk)
           THEN [i \in DOMAIN items |->
                   items[i] \cup {EncodeIndex(info, i, chunk[r]) : r \in DOMAIN chunk}]
           ELSE items

\* Keys and values one after the other into a map: the last value of a key stays.
PutAll(map, keys, values) ==
  [k \in DOMAIN map \cup Range(keys) |->
     IF k \in Range(keys) THEN values[Max({r \in DOMAIN keys : keys[r] = k})] ELSE map[k]]

\* MPutKV of a chunk.
StoreRows(info, chunk) ==
  data' = PutAll(data, [r \in DOMAIN chunk |-> RowKey(info, chunk[r])],
                       [r \in DOMAIN chunk |-> RowValue(info, chunk[r])])

\* What the primary key of a row is, and what an INSERT said of the columns.
KeyOf(info, row) ==
  [i \in DOMAIN PrimaryCols(info) |-> GetColValue(info, row, PrimaryCols(info)[i])]

Told(info, cells) ==
  [c \in DOMAIN info.columns |->
     IF c \notin Unset(info, cells) /\ IsInt(cells[c].type) THEN cells[c] ELSE NotTold]

\* Table::Insert, with the histories.
InsertChunk(info, cells, chunk) ==
  /\ StoreRows(info, chunk)
  /\ StoreItems(info, chunk)
  /\ told' = PutAll(told, [r \in DOMAIN chunk |-> KeyOf(info, chunk[r])],
                          [r \in DOMAIN chunk |-> Told(info, cells[r])])
  /\ kept' = IF Accepted(info, chunk)
             THEN kept \cup {KeyOf(info, chunk[r]) : r \in DOMAIN chunk} ELSE kept

\* InsertExecutor::Consume: the statement succeeds whatever Table::Insert says.
\* The column list of the statement plays no part.
Insert(records) ==
  /\ known # {"fixture"}
  /\ seq + Len(records) <= MaxRows
  /\ \/ InsertAnalysis # "C_OK" /\ Leave("insert", InsertAnalysis)
     \/ /\ InsertAnalysis = "C_OK"
        /\ LET info  == Info
               cells == [r \in DOMAIN records |->
                           [c \in DOMAIN records[r] |-> ToLiteralNode(records[r][c])]]
               dies  == \/ info.primary = 0
                        \/ \E r \in DOMAIN cells :
                             Nil \in Range(cells[r]) \/ Len(cells[r]) > Len(info.columns)
           IN  \/ dies /\ Leave("insert", Died)
               \/ /\ ~dies
                  /\ \E mem \in [{p \in (DOMAIN cells) \X (DOMAIN info.columns) :
                                  p[2] \in Unset(info, cells[p[1]])} -> Junk] :
                       InsertChunk(info, cells,
                                   [r \in DOMAIN cells |->
                                      SetColValues(info, cells[r],
                                                   [c \in Unset(info, cells[r]) |-> mem[<<r, c>>]], 0)])
                  /\ seq' = seq + Len(records)
                  /\ Answer("insert", "C_OK", NoLines)
                  /\ UNCHANGED <<known, meta>>

\* A record of TableGen::GenRows, all of it made of one number of SeqDataGen; the
\* constant prefix of its string is left out.
GenRecord(n) ==
  <<NewValue("Int64", n), NewValue("String", Decimal[n]), NewValue("Int32", n)>>

\* TableGen::GenRows and Table::Insert: the tests give all columns, and every
\* record has a number of its own.
GenRows(n) ==
  /\ known = {"fixture"}
  /\ seq + n <= MaxRows
  /\ \E byte \in [1 .. n -> JunkByte] :
       LET cells == [r \in 1 .. n |-> GenRecord(seq + r)]
       IN  InsertChunk(GenTableInfo, cells,
                       [r \in 1 .. n |->
                          SetColValues(GenTableInfo, cells[r], <<>>, byte[r])])
  /\ seq' = seq + n
  /\ Answer("insert", "C_OK", NoLines)
  /\ UNCHANGED <<known, meta>>

\* The range of a column, open at its upper end, as AddRange encodes it.
IndexRange(info, col) ==
  [lower |-> TypedBytes(NewMin(ColType(info, col))),
   upper |-> TypedBytes(NewMax(ColType(info, col)))]

\* A finite set in ascending order.
Ascending(S, less(_, _)) ==
  CHOOSE s \in [1 .. Cardinality(S) -> S] : \A i, j \in DOMAIN s : i < j => less(s[i], s[j])

\* The items of a range, in the order of the tree; they fit into one page.
ScanRange(info, range) ==
  Ascending({k \in items[info.primary] : ~LexLess(k, range.lower) /\ LexLess(k, range.upper)},
            LexLess)

\* One range for each column of the primary key, one after the other.
Scan(info) ==
  LET cols == PrimaryCols(info)
  IN  FlattenSeq([i \in DOMAIN cols |-> ScanRange(info, IndexRange(info, cols[i]))])

Line(info, row) == [c \in DOMAIN info.columns |-> ToText(GetColValue(info, row, c))]

\* MGetKV fails as a whole: no keys are left.
GetRecords(keys) == IF Range(keys) \subseteq DOMAIN data THEN keys ELSE NoLines

\* The rows of the records that were found.
PullData(info, found, byte) == [i \in DOMAIN found |-> DecodeRow(info, data[found[i]], byte)]

\* A SELECT without WHERE; the tests scan with the same range.
Select ==
  /\ known # {}
  /\ \/ known # {"fixture"} /\ SelectAnalysis # "C_OK" /\ Leave("select", SelectAnalysis)
     \/ /\ known = {"fixture"} \/ SelectAnalysis = "C_OK"
        /\ LET info == Info
           IN  \/ info.primary = 0 /\ Leave("select", Died)
               \/ /\ info.primary # 0
                  /\ LET segment == Scan(info)
                         keys == [i \in DOMAIN segment |-> RowKey(info, DecodeIndex(info, segment[i]))]
                         found == GetRecords(keys)
                     IN  \E byte \in JunkByte :
                           Answer("select",
                                  IF Len(found) = Len(keys) THEN "C_OK" ELSE "C_STORAGE_KV_NOT_FOUND",
                                  [i \in DOMAIN found |->
                                     Line(info, PullData(info, found, byte)[i])])
                  /\ UNCHANGED <<known, meta, data, items, seq, told, kept>>

\* AnalyzeAst has these three statements, and CREATE DATABASE.
RowsNext ==
  \/ \E stmt \in CreateStmts : CreateTable(stmt)
  \/ DumpMata
  \/ LoseDatabaseMeta
  \/ \E records \in InsertStmts : Insert(records)
  \/ \E n \in 1 .. MaxRecords : GenRows(n)
  \/ Select

RowsSpec == RowsInit /\ [][RowsNext]_rowsVars

-----------------------------------------------------------------------------
(* Properties *)

RowsTypeOK ==
  /\ known \in {{}, {"fixture"}, Records, Records \ {"dbMeta"}}
  /\ \A k \in DOMAIN data : k \in Seq(Byte) /\ data[k] \in Seq(Byte)
  /\ \A i \in DOMAIN items : \A k \in items[i] : k \in Seq(Byte)
  /\ seq \in 0 .. MaxRows
  /\ out.lines \in Seq(Seq(Seq(Byte)))
  /\ kept \subseteq DOMAIN told

\* A printed line shows what an INSERT told of a key.
Shows(line, key) ==
  \A c \in DOMAIN told[key] :
    told[key][c] # NotTold =>
      line[c] = Decimal[Signed(told[key][c].u, IntWidth[told[key][c].type])]

\* The primary keys the range of a SELECT covers, least first.
VisibleKeys ==
  Ascending({k \in kept : k[1].type = "Int64" /\ k[1].u < Pow256[W64] \div 2 - 1},
            LAMBDA j, k : j[1].u < k[1].u)

\* With a primary key of one column a SELECT succeeds and prints one line for each
\* accepted key from 0 up to, not including, the largest one, in ascending order,
\* with the integers of the last INSERT for that key, rejected ones included:
\* through tuples, two codecs, the order of bytes and of decimal text, cells that
\* were never set and strings that are not read back.
SelectShowsInserts ==
  /\ out.stmt = "select" /\ known \in {Records, {"fixture"}}
  /\ Info.primary # 0 /\ Len(PrimaryCols(Info)) = 1
  => /\ out.st = "C_OK"
     /\ Len(out.lines) = Len(VisibleKeys)
     /\ \A i \in DOMAIN out.lines : Shows(out.lines[i], VisibleKeys[i])

\* Whatever the primary key is, every printed line is a row some INSERT stored;
\* also when items of a key of two columns are decoded to the key of another row,
\* and each range of a SELECT finds the same items.
LinesWereInserted ==
  out.stmt = "select" =>
    \A i \in DOMAIN out.lines : \E k \in DOMAIN told : Shows(out.lines[i], k)

\* All indexes of a table hold the same rows: each has one item for every item of
\* the primary index, ending in its key, also after INSERTs that one index rejects.
IndexesHoldTheSameKeys ==
  known # {} /\ Info.primary # 0 =>
    \A i \in DOMAIN items :
      /\ Cardinality(items[i]) = Cardinality(items[Info.primary])
      /\ \A p \in items[Info.primary] : \E k \in items[i] : IsSuffix(p, k)

=============================================================================
