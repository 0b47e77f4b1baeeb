\* INSERTs and DELETEs of several rows and updates, a new session for any statement,
\* crashes and failed writes; leaves split, ids of leaves are taken again, and a
\* reference costs twice a key, as in the program.
SPECIFICATION MCSpec
CONSTANTS
  MaxKey = 4
  Values = {empty}
  NoValue = empty
  RowValues = {0}
  KeySize = 9
  ValueSize = 0
  RefSize = 20
  MaxNodeSize = 25
  WordMod = 256
  MaxNodeId = 3
  MaxChunk = 2
  Statements = {"insert", "delete", "update"}
  Environment = {"reopen", "crash", "put_fails"}
  MaxStatements = 3
INVARIANT
  OnlyDeletesStrandItems
PROPERTY
  InsertsAreDurable
CHECK_DEADLOCK FALSE
