\* Up to two half-open ranges over trees that may miss leaf records or have older ones.
SPECIFICATION IterSpec
CONSTANTS
  MaxKey = 3
  Values = {v}
  KeySize = 1
  ValueSize = 1
  RefSize = 1
  MaxNodeSize = 4
  WordMod = 8
  MaxNodeId = 4
  PageSize = 2
  MaxRanges = 2
  RangeTypes <- HalfOpen
  OldRecords = TRUE
INVARIANTS
  IterTypeOK
  ScanIsExact
  
PROPERTY
  NextReturns
CHECK_DEADLOCK FALSE
