\* Any statement may be interrupted before any of its writes.
SPECIFICATION CatalogSpec
CONSTANTS
  d1 = d1
  d2 = d2
  t1 = t1
  t2 = t2
  IDType = {"Database", "Table"}
  Names <- MCNames
  DbNames <- MCDbNames
  TableNames <- MCTableNames
  Capacity = 2
  BucketOf <- MCBucketOf
  MaxBatch = 1
  MaxCounter = 6
  Interrupts = {"createDatabase", "createTable"}
INVARIANTS
  CreateIfNotExistsSucceeds
CHECK_DEADLOCK FALSE
