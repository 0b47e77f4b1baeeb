----------------------------- MODULE Histogram -----------------------------
(***************************************************************************)
(* sql/statistics/histogram.cc: BuildHistogram puts the distinct values of *)
(* a column, in ascending order, into buckets of about the same number of  *)
(* rows.  A turn of its loop either goes on with the bucket or closes it.  *)
(*                                                                         *)
(* n, upto  value_map: n distinct values; upto[p] rows have one of the p   *)
(*          smallest                                                       *)
(* size     bucket_size                                                    *)
(* total    total_count                                                    *)
(* pos      the value of the next turn, 0 before BuildHistogram is called  *)
(* lowest   *lowest_value                                                  *)
(* sum, ndv, cum   sum, ndv and cumulative_sum                             *)
(* buckets  buckets_ of the Histogram; start and end are positions, cf is  *)
(*          the cumulative frequency without its divisor total             *)
(***************************************************************************)
EXTENDS Integers, Sequences

CONSTANTS
  MaxValues,   \* bound: distinct values
  MaxRows,     \* bound: rows
  Sizes,       \* bucket sizes
  IntSpan,     \* 2^32, the number of values of an int
  SizeSpan     \* 2^64, that of a size_t

ASSUME HistogramAssumption ==
  /\ MaxValues \in Nat /\ MaxRows \in Nat
  /\ Sizes \subseteq Nat \ {0}
  /\ IntSpan \in Nat \ {0}
  /\ SizeSpan \in Nat /\ IntSpan <= SizeSpan

VARIABLES n, upto, size, total, pos, lowest, sum, ndv, cum, buckets

histogramVars == <<n, upto, size, total, pos, lowest, sum, ndv, cum, buckets>>

\* Every value of a map is that of a row.
ValueMap(k) ==
  {f \in [1 .. k -> 1 .. MaxRows] : \A p, q \in 1 .. k : p < q => f[p] < f[q]}

\* The rows of the first p values.
RowsOf(map, p) == IF p = 0 THEN 0 ELSE map[p]

Upto(p) == RowsOf(upto, p)

\* std::accumulate from 0, which is an int: each sum is cut to an int, and the
\* result taken for a size_t.
Accumulate(rows) ==
  LET word == rows % IntSpan
  IN  IF 2 * word >= IntSpan THEN SizeSpan - (IntSpan - word) ELSE word

HistogramInit ==
  /\ n = 0 /\ upto = <<>>
  /\ size = 0 /\ total = 0
  /\ pos = 0 /\ lowest = 0
  /\ sum = 0 /\ ndv = 0 /\ cum = 0
  /\ buckets = <<>>

\* BuildHistogram up to its loop.
StartBuild(k, map, b) ==
  /\ n' = k /\ upto' = map
  /\ size' = b
  /\ total' = Accumulate(RowsOf(map, k))
  /\ pos' = 1 /\ lowest' = 1
  /\ sum' = 0 /\ ndv' = 0 /\ cum' = 0
  /\ buckets' = <<>>

InBuild == 0 < pos /\ pos <= n

Built == pos = n + 1

RowsAt(p) == Upto(p) - Upto(p - 1)

\* How far a number of rows is from current_threshold of the k-th bucket, which
\* is total * k / size; all distances are multiplied by size.
Distance(k, rows) ==
  IF size * rows <= total * k THEN total * k - size * rows ELSE size * rows - total * k

\* The bucket being filled is not over its threshold with the next value.
Fits(k, rows) == size * rows <= total * k

\* avg_bucket_size is not a binary fraction: the double is not exact, and either
\* of two equal distances may come out as the shorter one.
Rounded == \A e \in 0 .. size : (total * 2 ^ e) % size # 0

GoesOn(k, rows, next) == Fits(k, next) \/ Distance(k, rows) >= Distance(k, next)

\* Mutant: a bucket ends where it would be over its threshold.
ClosesWhenFull(k, rows, next) == ~Fits(k, next)

Closes(k, rows, next) ==
  /\ ~Fits(k, next)
  /\ \/ Distance(k, rows) < Distance(k, next)
     \/ Distance(k, rows) = Distance(k, next) /\ Rounded

Continue ==
  /\ InBuild /\ pos < n
  /\ LET rows == cum + RowsAt(pos)
     IN  GoesOn(Len(buckets) + 1, rows, rows + RowsAt(pos + 1))
  /\ pos' = pos + 1
  /\ ndv' = ndv + 1
  /\ sum' = sum + RowsAt(pos)
  /\ cum' = cum + RowsAt(pos)
  /\ UNCHANGED <<n, upto, size, total, lowest, buckets>>

\* Mutant: sum is not reset.
ResetNdv == sum' = sum + RowsAt(pos) /\ ndv' = 0

ResetCounts == sum' = 0 /\ ndv' = 0

\* AddBucket; the last value always closes its bucket.
CloseBucket ==
  /\ InBuild
  /\ LET rows == cum + RowsAt(pos)
     IN  pos < n => Closes(Len(buckets) + 1, rows, rows + RowsAt(pos + 1))
  /\ buckets' = Append(buckets, [start |-> lowest, end |-> pos, count |-> sum + RowsAt(pos),
                                 ndv |-> ndv + 1, cf |-> cum + RowsAt(pos)])
  /\ pos' = pos + 1
  /\ lowest' = IF pos < n THEN pos + 1 ELSE lowest
  /\ ResetCounts
  /\ cum' = cum + RowsAt(pos)
  /\ UNCHANGED <<n, upto, size, total>>

HistogramNext ==
  \/ /\ pos = 0
     /\ \E k \in 0 .. MaxValues : \E map \in ValueMap(k), b \in Sizes : StartBuild(k, map, b)
  \/ Continue
  \/ CloseBucket

HistogramSpec == HistogramInit /\ [][HistogramNext]_histogramVars

-----------------------------------------------------------------------------
(* Properties *)

\* The buckets follow on one another, from the smallest value on, without gap or
\* overlap; each has the number of its distinct values, of its rows, and of all
\* rows up to its end, though four counters are kept over turns that go on, turns
\* that close and resets; and in the end every value is in a bucket.
BucketsPartitionValues ==
  /\ \A j \in 1 .. Len(buckets) :
       LET b == buckets[j]
       IN  /\ b.start = (IF j = 1 THEN 1 ELSE buckets[j - 1].end + 1)
           /\ b.start <= b.end /\ b.end <= n
           /\ b.ndv = b.end - b.start + 1
           /\ b.count = Upto(b.end) - Upto(b.start - 1)
           /\ b.cf = Upto(b.end)
  /\ Built => IF n = 0 THEN buckets = <<>> ELSE buckets[Len(buckets)].end = n

\* What makes the histogram equi-height: every bucket but the last ends where the
\* rows up to its end are as near to its threshold as they can be from its start
\* on, although a turn looks one value ahead only, and unless the sum of the rows
\* has wrapped there are no more than bucket_size buckets.
BoundariesAreNearest ==
  /\ \A j \in 1 .. Len(buckets) :
       buckets[j].end < n =>
         \A p \in buckets[j].start .. n :
           Distance(j, Upto(buckets[j].end)) <= Distance(j, Upto(p))
  /\ pos > 0 /\ total = Upto(n) => Len(buckets) <= size

=============================================================================
