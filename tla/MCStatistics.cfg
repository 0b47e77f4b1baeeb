\* All value maps of up to four values and seventeen rows.
SPECIFICATION StatisticsSpec
CONSTANTS
  MaxValues = 4
  MaxRows = 17
  Sizes = {1, 2, 3}
  IntSpan = 16
  SizeSpan = 256
  W32 = 1
  W64 = 2
  ColumnTypes = {"String", "Int64"}
  TableIds <- MCTableIds
  ColumnIds = {1}
INVARIANTS
  BucketsPartitionValues
  BoundariesAreNearest
  StatisticsComeBack
CHECK_DEADLOCK FALSE
