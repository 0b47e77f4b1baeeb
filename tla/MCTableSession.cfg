\* One row per statement, inserts, deletes and updates, leaves split, a new session for
\* any statement, as long as no leaf takes the id of another one.
SPECIFICATION MCUniqueIdsSpec
CONSTANTS
  MaxKey = 4
  Values = {empty}
  NoValue = empty
  RowValues = {0}
  KeySize = 2
  ValueSize = 0
  RefSize = 2
  MaxNodeSize = 5
  WordMod = 8
  MaxNodeId = 4
  MaxChunk = 1
  Statements = {"insert", "delete", "update"}
  Environment = {"reopen"}
  MaxStatements = 8
INVARIANTS
  TableTypeOK
  RangesPartitionKeys
  IndexedKeysHaveRows
PROPERTY
  ImplementsIndexSpec
CHECK_DEADLOCK FALSE
