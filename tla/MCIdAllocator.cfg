SPECIFICATION AllocSpec
CONSTANTS
  n1 = n1
  n2 = n2
  n3 = n3
  IDType = {"Database", "Table"}
  Names <- MCNames
  Capacity = 2
  BucketOf <- MCBucketOf
  MaxBatch = 3
  MaxCounter = 6
INVARIANTS
  AllocTypeOK
  RequestsAreFilled
  IssuedBelowCounter
PROPERTY
  NoIdIssuedTwice
CHECK_DEADLOCK FALSE
