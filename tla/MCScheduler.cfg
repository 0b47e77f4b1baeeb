\* One statement over stored trees that may miss leaf records or have older ones.
SPECIFICATION RunSpec
CONSTANTS
  MaxKey = 4
  Values = {v}
  KeySize = 1
  ValueSize = 1
  RefSize = 1
  MaxNodeSize = 4
  WordMod = 8
  MaxNodeId = 5
  PageSize = 2
  MaxRanges = 1
  RangeTypes <- CloseOpen
  OldRecords = TRUE
  MaxInt = 4
INVARIANTS
  RunTypeOK
  NoUnsetPortIsRead
  SelectPrintsItsPage
  PrintedRowsExist
PROPERTY
  RunReturns
CHECK_DEADLOCK FALSE
