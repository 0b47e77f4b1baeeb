\* A leaf that is saved with two keys and splits twice before the next save.
SPECIFICATION MCSpec
CONSTANTS
  MaxKey = 4
  Values = {v}
  KeySize = 1
  ValueSize = 1
  RefSize = 1
  MaxNodeSize = 4
  WordMod = 64
  MaxNodeId = 4
  MaxCalls = 7
PROPERTY
  InsertedKeyFound
CHECK_DEADLOCK FALSE
