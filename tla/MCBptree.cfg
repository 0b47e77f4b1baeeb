SPECIFICATION MCSpec
CONSTANTS
  MaxKey = 4
  Values = {v}
  KeySize = 1
  ValueSize = 1
  RefSize = 1
  MaxNodeSize = 4
  WordMod = 8
  MaxNodeId = 4
  MaxCalls = 9
INVARIANTS
  TypeOK
  RootNeverSplits
  NodeIdsUnique
  InsertNeverErrs
  NothingUnsavedForgotten
CHECK_DEADLOCK FALSE
