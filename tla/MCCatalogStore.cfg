\* Any statement may be interrupted before any of its writes.
SPECIFICATION StoreSpec
CONSTANTS
  d1 = d1
  d2 = d2
  t1 = t1
  t2 = t2
  IDType = {"Database", "Table"}
  Names <- MCNames
  DbNames <- MCDbNames
  TableNames <- MCTableNames
  Capacity = 2
  BucketOf <- MCBucketOf
  MaxBatch = 1
  MaxCounter = 4
  Interrupts = {"createDatabase", "createTable"}
  W32 = 1
  W64 = 2
  NameBytes <- MCNameBytes
  RowTexts <- MCRowTexts
  IndexIds = {1}
  NodeIds = {0, 1}
  ColumnIds = {1}
  MaxWritten = 2
INVARIANTS
  CatalogTypeOK
  NamedTablesResolve
  IdsAreNotShared
  OneStoreIsEnough
PROPERTY
  NamesKeepTheirIds
CHECK_DEADLOCK FALSE
VIEW MCView
