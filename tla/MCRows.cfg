\* Statements on one table, three rows in all.
SPECIFICATION RowsSpec
CONSTANTS
  W32 = 1
  W64 = 2
  CreateStmts <- MCCreateStmts
  InsertStmts <- MCInsertStmts
  MaxRecords = 2
  MaxRows = 3
  Junk = {0, 10}
  JunkByte = {0, 49}
  DbId = 1
  TableId = 1
INVARIANTS
  RowsTypeOK
  SelectShowsInserts
  LinesWereInserted
  IndexesHoldTheSameKeys
CHECK_DEADLOCK FALSE
