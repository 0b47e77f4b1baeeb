------------------------------ MODULE Catalog ------------------------------
(***************************************************************************)
(* CREATE DATABASE and CREATE TABLE: create_analyzer.cc decides against    *)
(* the stored catalog, create_executor.cc then writes it record by record  *)
(* through storage/metadata.cc.  Every write is one step; a statement ends *)
(* early when a write fails or the process dies, with the records written  *)
(* so far in the store.                                                    *)
(*                                                                         *)
(* dbId, dbMeta    database ids by name; DatabaseInfo by id                *)
(* tblId, tblMeta  table ids by <<db id, name>>; TableInfo by              *)
(*                 <<db id, table id>>                                     *)
(* job             the statement executed: op, the write it is at, and     *)
(*                 the info of the plan                                    *)
(* done            the last finished statement and its status              *)
(***************************************************************************)
EXTENDS IdAllocator

CONSTANTS
  DbNames,      \* names of databases
  TableNames,   \* names of tables
  Interrupts    \* the statements a failure may interrupt

ASSUME CatalogAssumption ==
  /\ IDType = {"Database", "Table"}
  /\ DbNames \cup TableNames \subseteq Names
  /\ MaxBatch >= 1
  /\ Interrupts \subseteq {"createDatabase", "createTable"}

VARIABLES dbId, dbMeta, tblId, tblMeta, job, done

store == <<dbId, dbMeta, tblId, tblMeta>>

catalogVars == <<counter, issued, last, dbId, dbMeta, tblId, tblMeta, job, done>>

C_OK == "C_OK"
C_DATABASE_EXISTED == "C_DATABASE_EXISTED"
C_DATABASE_NOT_FOUND == "C_DATABASE_NOT_FOUND"
C_TABLE_EXISTE == "C_TABLE_EXISTE"
C_TABLE_NOT_FOUND == "C_TABLE_NOT_FOUND"
C_STORAGE_KV_NOT_FOUND == "C_STORAGE_KV_NOT_FOUND"

\* Not a status of the program: the statement was cut short by a failure.
Interrupted == "Interrupted"

NoJob == [op |-> "none"]

\* PutKV of one record.
Put(f, k, v) == [x \in DOMAIN f \cup {k} |-> IF x = k THEN v ELSE f[x]]

Del(f, k) == [x \in DOMAIN f \ {k} |-> f[x]]

CatalogInit ==
  /\ AllocInit
  /\ dbId = <<>> /\ dbMeta = <<>> /\ tblId = <<>> /\ tblMeta = <<>>
  /\ job = NoJob
  /\ done = [op |-> "none", ifNotExist |-> FALSE, st |-> C_OK]

-----------------------------------------------------------------------------
(* The analyzer *)

\* Mutant: a database without DatabaseInfo counts as unknown.
HasDatabaseMeta(name) == name \in DOMAIN dbId /\ dbId[name] \in DOMAIN dbMeta

\* LoadDatabaseIdByName finds the name.
HasDatabaseName(name) == name \in DOMAIN dbId

\* A statement that ends in its analysis.
Reject(op, ine, st) ==
  /\ done' = [op |-> op, ifNotExist |-> ine, st |-> st]
  /\ UNCHANGED <<allocVars, job>>

\* A statement whose plan goes to the executor, at its first write.
Plan(op, ine, at, info) ==
  /\ job' = [op |-> op, ifNotExist |-> ine, at |-> at, info |-> info]
  /\ UNCHANGED done

AllocateID(type, name) == BatchAllocateID(type, name, 1)

NewId == CHOOSE id \in last'.ids : TRUE

CreateDatabase(name, ine) ==
  /\ job = NoJob
  /\ \/ /\ HasDatabaseName(name) /\ ~ine
        /\ Reject("createDatabase", ine, C_DATABASE_EXISTED)
     \/ /\ HasDatabaseName(name) /\ ine
        /\ dbId[name] \notin DOMAIN dbMeta
        /\ Reject("createDatabase", ine, C_STORAGE_KV_NOT_FOUND)
     \/ /\ HasDatabaseName(name) /\ ine
        /\ dbId[name] \in DOMAIN dbMeta
        /\ Plan("createDatabase", ine, "dbMeta", dbMeta[dbId[name]])
        /\ UNCHANGED allocVars
     \/ /\ ~HasDatabaseName(name)
        /\ AllocateID("Database", name)
        /\ Plan("createDatabase", ine, "dbMeta", [id |-> NewId, name |-> name, tables |-> {}])
  /\ UNCHANGED store

CreateTable(db, name, ine) ==
  /\ job = NoJob
  /\ \/ /\ ~HasDatabaseName(db)
        /\ Reject("createTable", ine, C_DATABASE_NOT_FOUND)
     \/ /\ HasDatabaseName(db)
        /\ dbId[db] \notin DOMAIN dbMeta
        /\ Reject("createTable", ine, C_STORAGE_KV_NOT_FOUND)
     \/ /\ HasDatabaseName(db)
        /\ dbId[db] \in DOMAIN dbMeta
        /\ LET d == dbId[db]
           IN  \/ /\ <<d, name>> \in DOMAIN tblId /\ ~ine
                  /\ Reject("createTable", ine, C_TABLE_EXISTE)
               \/ /\ <<d, name>> \in DOMAIN tblId /\ ine
                  /\ IF <<d, tblId[<<d, name>>]>> \in DOMAIN tblMeta
                     THEN /\ Plan("createTable", ine, "delDbMeta", tblMeta[<<d, tblId[<<d, name>>]>>])
                          /\ UNCHANGED allocVars
                     ELSE Reject("createTable", ine, C_TABLE_NOT_FOUND)
               \/ /\ <<d, name>> \notin DOMAIN tblId
                  /\ AllocateID("Table", name)
                  /\ Plan("createTable", ine, "delDbMeta",
                          [id |-> NewId, name |-> name, db |-> d, dbName |-> db])
  /\ UNCHANGED store

-----------------------------------------------------------------------------
(* The executor *)

At(write) == job.op # "none" /\ job.at = write

Goto(write) == job' = [job EXCEPT !.at = write] /\ UNCHANGED <<allocVars, done>>

Finish(st) ==
  /\ job' = NoJob
  /\ done' = [op |-> job.op, ifNotExist |-> job.ifNotExist, st |-> st]
  /\ UNCHANGED allocVars

DumpDatabaseMeta ==
  /\ At("dbMeta")
  /\ dbMeta' = Put(dbMeta, job.info.id, job.info)
  /\ Goto("dbName")
  /\ UNCHANGED <<dbId, tblId, tblMeta>>

DumpDatabaseIdByName ==
  /\ At("dbName")
  /\ dbId' = Put(dbId, job.info.name, job.info.id)
  /\ Finish(C_OK)
  /\ UNCHANGED <<dbMeta, tblId, tblMeta>>

\* ModifyDatabaseMeta: the record is read, deleted, and put back with the table.
ModifyDatabaseMetaDel ==
  /\ At("delDbMeta")
  /\ LET d == dbId[job.info.dbName]
     IN  /\ job' = [op |-> job.op, ifNotExist |-> job.ifNotExist, at |-> "putDbMeta",
                    info |-> [job.info EXCEPT !.db = d],
                    modified |-> [dbMeta[d] EXCEPT !.tables = @ \cup {job.info.id}]]
         /\ dbMeta' = Del(dbMeta, d)
  /\ UNCHANGED <<allocVars, dbId, tblId, tblMeta, done>>

\* Mutants: the record is filed under the id of the table; the table is named
\* without its TableInfo.
PutDatabaseAtTable ==
  /\ At("putDbMeta")
  /\ dbMeta' = Put(dbMeta, job.info.id, job.modified)
  /\ Goto("tblMeta")
  /\ UNCHANGED <<dbId, tblId, tblMeta>>

NameBeforeTableMeta ==
  /\ At("putDbMeta")
  /\ dbMeta' = Put(dbMeta, job.info.db, job.modified)
  /\ Goto("tblName")
  /\ UNCHANGED <<dbId, tblId, tblMeta>>

ModifyDatabaseMetaPut ==
  /\ At("putDbMeta")
  /\ dbMeta' = Put(dbMeta, job.info.db, job.modified)
  /\ Goto("tblMeta")
  /\ UNCHANGED <<dbId, tblId, tblMeta>>

DumpTableMeta ==
  /\ At("tblMeta")
  /\ tblMeta' = Put(tblMeta, <<job.info.db, job.info.id>>, job.info)
  /\ Goto("tblName")
  /\ UNCHANGED <<dbId, dbMeta, tblId>>

DumpTableIdByName ==
  /\ At("tblName")
  /\ tblId' = Put(tblId, <<job.info.db, job.info.name>>, job.info.id)
  /\ Finish(C_OK)
  /\ UNCHANGED <<dbId, dbMeta, tblMeta>>

\* The next write fails, or the process dies before it.
Interrupt ==
  /\ job.op \in Interrupts
  /\ Finish(Interrupted)
  /\ UNCHANGED store

CatalogNext ==
  \/ \E name \in DbNames, ine \in BOOLEAN : CreateDatabase(name, ine)
  \/ \E db \in DbNames, name \in TableNames, ine \in BOOLEAN : CreateTable(db, name, ine)
  \/ DumpDatabaseMeta
  \/ DumpDatabaseIdByName
  \/ ModifyDatabaseMetaDel
  \/ ModifyDatabaseMetaPut
  \/ DumpTableMeta
  \/ DumpTableIdByName
  \/ Interrupt

CatalogSpec == CatalogInit /\ [][CatalogNext]_catalogVars

-----------------------------------------------------------------------------
(* Properties *)

\* The records have the types of DatabaseInfo and TableInfo, and the analysis of
\* a statement and its writes only meet ids the allocator has handed out.
CatalogTypeOK ==
  /\ AllocTypeOK
  /\ DOMAIN dbId \subseteq DbNames
  /\ \A id \in DOMAIN dbMeta : id \in issued["Database"] /\ dbMeta[id].id = id
  /\ \A p \in DOMAIN tblId : p[1] \in issued["Database"] /\ p[2] \in TableNames
  /\ \A p \in DOMAIN tblMeta : p[2] \in issued["Table"] /\ tblMeta[p].id = p[2]

\* The writes of DoWork are ordered so that a name is never visible before what
\* it stands for: a named table has its TableInfo, filed under the same database
\* and name, and is listed by its database whenever the DatabaseInfo is there.
NamedTablesResolve ==
  \A p \in DOMAIN tblId :
    LET id == tblId[p]
    IN  /\ <<p[1], id>> \in DOMAIN tblMeta
        /\ tblMeta[<<p[1], id>>].name = p[2]
        /\ tblMeta[<<p[1], id>>].db = p[1]
        /\ p[1] \in DOMAIN dbMeta => id \in dbMeta[p[1]].tables

\* No two databases and no two tables, of one database or of different ones,
\* share an id, although interrupted statements leave records and used-up ids.
IdsAreNotShared ==
  /\ \A m, n \in DOMAIN dbId : dbId[m] = dbId[n] => m = n
  /\ \A p, q \in DOMAIN tblId : tblId[p] = tblId[q] => p = q

\* A name stands for the same id for ever: a repeated CREATE, with or without
\* IF NOT EXISTS, before or after an interrupted one, never gives it a new id.
NamesKeepTheirIds ==
  [][/\ \A n \in DOMAIN dbId : n \in DOMAIN dbId' /\ dbId'[n] = dbId[n]
     /\ \A p \in DOMAIN tblId : p \in DOMAIN tblId' /\ tblId'[p] = tblId[p]]_catalogVars

\* main.cc asserts that CREATE DATABASE IF NOT EXISTS returns C_OK.
CreateIfNotExistsSucceeds ==
  done.op = "createDatabase" /\ done.ifNotExist /\ done.st # Interrupted => done.st = C_OK

=============================================================================
