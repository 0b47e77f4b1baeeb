-------------------------- MODULE HistogramProofs --------------------------
(***************************************************************************)
(* Proofs about Histogram and Statistics: for every value map and bucket   *)
(* size the buckets partition the values, and their boundaries are the     *)
(* nearest possible; a statistic that is stored and loaded comes back.     *)
(***************************************************************************)
EXTENDS Statistics, CodecProofs

Bucket == [start : Nat, end : Nat, count : Int, ndv : Int, cf : Int]

\* The state is well typed, and value_map is one.
HTypeOK ==
  /\ n \in Nat
  /\ upto \in [1 .. n -> Nat \ {0}]
  /\ \A p, q \in 1 .. n : p < q => upto[p] < upto[q]
  /\ size \in Nat /\ total \in Nat
  /\ pos \in 0 .. n + 1
  /\ lowest \in Nat /\ sum \in Int /\ ndv \in Int /\ cum \in Int
  /\ buckets \in Seq(Bucket)
  /\ pos = 0 => n = 0 /\ buckets = <<>>

\* What the counters of the loop stand for before a turn.
LoopInv ==
  InBuild =>
    /\ lowest \in 1 .. pos
    /\ lowest = (IF Len(buckets) = 0 THEN 1 ELSE buckets[Len(buckets)].end + 1)
    /\ ndv = pos - lowest
    /\ sum = Upto(pos - 1) - Upto(lowest - 1)
    /\ cum = Upto(pos - 1)

\* No value of the bucket being filled ends it nearer to its threshold than the
\* value of this turn does, and there is room for the bucket.
NearInv ==
  InBuild =>
    /\ \A p \in lowest .. pos - 1 :
         Distance(Len(buckets) + 1, Upto(pos)) <= Distance(Len(buckets) + 1, Upto(p))
    /\ total = Upto(n) => Len(buckets) < size

HInv ==
  /\ HTypeOK
  /\ LoopInv
  /\ NearInv
  /\ BucketsPartitionValues
  /\ BoundariesAreNearest

-----------------------------------------------------------------------------
(* Arithmetic *)

\* Multiplication by a natural number keeps the order.
LEMMA ProductOrder ==
  ASSUME NEW a \in Nat, NEW b \in Nat, NEW c \in Nat, a <= b
  PROVE  c * a \in Nat /\ c * b \in Nat /\ c * a <= c * b
<1>1. c * a \in Nat /\ c * (b - a) \in Nat
  BY SMT
<1>2. c * b = c * a + c * (b - a)
  BY SMT
<1> QED
  BY <1>1, <1>2, SMT

\* The total is a size_t, also when the int it passes through is negative.
LEMMA AccumulateNat ==
  ASSUME NEW rows \in Nat
  PROVE  Accumulate(rows) \in Nat
<1>1. rows % IntSpan \in 0 .. IntSpan - 1
  BY HistogramAssumption, SMT
<1> QED
  BY <1>1, HistogramAssumption, SMT DEF Accumulate

-----------------------------------------------------------------------------
(* The value map *)

\* The number of rows of the first values grows with their number.
LEMMA UptoGrows ==
  ASSUME HTypeOK, NEW p \in 0 .. n, NEW q \in 0 .. n, p <= q
  PROVE  Upto(p) \in Nat /\ Upto(q) \in Nat /\ Upto(p) <= Upto(q)
<1>1. Upto(p) \in Nat /\ Upto(q) \in Nat
  BY SMT DEF HTypeOK, Upto, RowsOf
<1>2. CASE p = q
  BY <1>1, <1>2, SMT
<1>3. CASE p = 0
  BY <1>1, <1>3, SMT DEF Upto, RowsOf
<1>4. CASE p # 0 /\ p # q
  BY <1>1, <1>4, SMT DEF HTypeOK, Upto, RowsOf
<1> QED
  BY <1>2, <1>3, <1>4

\* Distances are natural numbers, and exact differences.
LEMMA DistanceNat ==
  ASSUME HTypeOK, NEW k \in Nat, NEW rows \in Nat
  PROVE  Distance(k, rows) \in Nat
<1>1. size * rows \in Nat /\ total * k \in Nat
  BY SMT DEF HTypeOK
<1> QED
  BY <1>1, SMT DEF Distance

\* As long as the rows fit, more of them are nearer to the threshold.
LEMMA FittingIsNearer ==
  ASSUME HTypeOK, NEW k \in Nat, NEW x \in Nat, NEW y \in Nat, x <= y, Fits(k, y)
  PROVE  Distance(k, y) <= Distance(k, x)
<1>1. size * x \in Nat /\ size * y \in Nat /\ size * x <= size * y
  BY ProductOrder DEF HTypeOK
<1>2. total * k \in Nat
  BY SMT DEF HTypeOK
<1>3. size * y <= total * k
  BY DEF Fits
<1> QED
  BY <1>1, <1>2, <1>3, SMT DEF Distance

\* Once they do not fit, more of them are farther from it.
LEMMA OverIsFarther ==
  ASSUME HTypeOK, NEW k \in Nat, NEW y \in Nat, NEW z \in Nat, y <= z, ~Fits(k, y)
  PROVE  Distance(k, y) <= Distance(k, z)
<1>1. size * y \in Nat /\ size * z \in Nat /\ size * y <= size * z
  BY ProductOrder DEF HTypeOK
<1>2. total * k \in Nat
  BY SMT DEF HTypeOK
<1>3. ~(size * y <= total * k)
  BY DEF Fits
<1> QED
  BY <1>1, <1>2, <1>3, SMT DEF Distance

-----------------------------------------------------------------------------
(* The steps *)

\* The rows a turn compares are those up to its value and up to the next one.
LEMMA TurnRows ==
  ASSUME HTypeOK, LoopInv, InBuild
  PROVE  /\ pos \in 1 .. n
         /\ Upto(pos) \in Nat /\ Upto(pos - 1) \in Nat
         /\ cum + RowsAt(pos) = Upto(pos)
         /\ pos < n => /\ Upto(pos + 1) \in Nat
                      /\ Upto(pos) <= Upto(pos + 1)
                      /\ Upto(pos) + RowsAt(pos + 1) = Upto(pos + 1)
<1>1. pos \in 1 .. n
  BY SMT DEF HTypeOK, InBuild
<1>2. Upto(pos) \in Nat /\ Upto(pos - 1) \in Nat
  BY <1>1, UptoGrows, SMT DEF HTypeOK
<1>3. cum + RowsAt(pos) = Upto(pos)
  BY <1>2, SMT DEF LoopInv, RowsAt
<1>4. ASSUME pos < n
      PROVE  /\ Upto(pos + 1) \in Nat
             /\ Upto(pos) <= Upto(pos + 1)
             /\ Upto(pos) + RowsAt(pos + 1) = Upto(pos + 1)
  <2>1. pos \in 0 .. n /\ pos + 1 \in 0 .. n /\ pos <= pos + 1
    BY <1>1, <1>4, SMT DEF HTypeOK
  <2>2. Upto(pos + 1) \in Nat /\ Upto(pos) <= Upto(pos + 1)
    BY <2>1, UptoGrows
  <2>3. RowsAt(pos + 1) = Upto(pos + 1) - Upto(pos)
    BY <1>1, SMT DEF RowsAt
  <2> QED
    BY <1>2, <2>2, <2>3, SMT
<1> QED
  BY <1>1, <1>2, <1>3, <1>4

\* Neither the value map nor the thresholds change during a build.
LEMMA BuildFixed ==
  ASSUME UNCHANGED <<n, upto, size, total>>
  PROVE  /\ \A p \in Int : Upto(p)' = Upto(p)
         /\ \A k, rows : Distance(k, rows)' = Distance(k, rows)
  BY DEF Upto, RowsOf, Distance

\* A turn that goes on.
LEMMA ContinueStep ==
  ASSUME HInv, Continue
  PROVE  HInv'
<1> USE DEF HInv
<1>1. InBuild /\ pos < n
  BY DEF Continue
<1>2. n \in Nat /\ pos \in Nat /\ pos \in 1 .. n /\ pos + 1 \in 1 .. n
  BY <1>1, TurnRows, SMT DEF HTypeOK
<1>3. /\ Upto(pos) \in Nat /\ Upto(pos - 1) \in Nat /\ Upto(pos + 1) \in Nat
      /\ cum + RowsAt(pos) = Upto(pos)
      /\ Upto(pos) <= Upto(pos + 1)
      /\ Upto(pos) + RowsAt(pos + 1) = Upto(pos + 1)
  BY <1>1, TurnRows
<1>4. /\ UNCHANGED <<n, upto, size, total>>
      /\ UNCHANGED <<lowest, buckets>>
      /\ pos' = pos + 1 /\ ndv' = ndv + 1
      /\ sum' = sum + RowsAt(pos) /\ cum' = Upto(pos)
  BY <1>3 DEF Continue
<1>5. /\ \A p \in Int : Upto(p)' = Upto(p)
      /\ \A k, rows : Distance(k, rows)' = Distance(k, rows)
  BY <1>4, BuildFixed
<1>6. HTypeOK'
  <2>1. sum' \in Int /\ cum' \in Int /\ ndv' \in Int
    BY <1>3, <1>4, SMT DEF HTypeOK, RowsAt
  <2>2. pos' \in 0 .. n + 1 /\ pos' # 0
    BY <1>2, <1>4, SMT DEF HTypeOK
  <2> QED
    BY <1>4, <2>1, <2>2 DEF HTypeOK
<1>7. LoopInv'
  <2>1. /\ lowest \in 1 .. pos
        /\ ndv = pos - lowest
        /\ sum = Upto(pos - 1) - Upto(lowest - 1)
    BY <1>1 DEF LoopInv
  <2>2. pos' - 1 = pos /\ (Upto(pos - 1))' = Upto(pos)
    BY <1>2, <1>4, SMT DEF Upto
  <2>3. Upto(lowest - 1) \in Nat /\ (Upto(lowest - 1))' = Upto(lowest - 1)
    <3>1. lowest - 1 \in 0 .. n /\ lowest - 1 \in Int
      BY <1>2, <2>1, SMT DEF HTypeOK
    <3> QED
      BY <1>4, <3>1, UptoGrows, SMT DEF Upto
  <2>4. sum' = Upto(pos) - Upto(lowest - 1)
    BY <1>3, <1>4, <2>1, <2>3, SMT DEF RowsAt
  <2>5. lowest' \in 1 .. pos' /\ ndv' = pos' - lowest'
    BY <1>2, <1>4, <2>1, SMT
  <2>6. lowest' = (IF Len(buckets') = 0 THEN 1 ELSE buckets'[Len(buckets')].end + 1)
    BY <1>1, <1>4 DEF LoopInv
  <2>7. sum' = (Upto(pos - 1))' - (Upto(lowest - 1))'
    BY <1>4, <2>2, <2>3, <2>4
  <2>8. cum' = (Upto(pos - 1))'
    BY <1>4, <2>2
  <2> QED
    BY <2>5, <2>6, <2>7, <2>8 DEF LoopInv
<1>8. NearInv'
  <2> DEFINE k == Len(buckets) + 1
  <2>1. k \in Nat
    BY SMT DEF HTypeOK
  <2>2. /\ \A p \in lowest .. pos - 1 : Distance(k, Upto(pos)) <= Distance(k, Upto(p))
        /\ total = Upto(n) => Len(buckets) < size
    BY <1>1 DEF NearInv
  <2>3. Fits(k, Upto(pos + 1)) \/ Distance(k, Upto(pos)) >= Distance(k, Upto(pos + 1))
    BY <1>3 DEF Continue, GoesOn
  <2>4. /\ Distance(k, Upto(pos)) \in Nat
        /\ Distance(k, Upto(pos + 1)) \in Nat
    BY <1>3, <2>1, DistanceNat
  <2>5. Distance(k, Upto(pos + 1)) <= Distance(k, Upto(pos))
    BY <1>3, <2>1, <2>3, <2>4, FittingIsNearer, SMT
  <2>6. ASSUME NEW p \in lowest .. pos
        PROVE  Distance(k, Upto(pos + 1)) <= Distance(k, Upto(p))
    <3>1. lowest \in 1 .. pos
      BY <1>1 DEF LoopInv
    <3>2. p \in 0 .. n
      BY <1>2, <3>1, SMT DEF HTypeOK
    <3>3. Upto(p) \in Nat
      BY <3>2, UptoGrows, SMT
    <3>4. Distance(k, Upto(p)) \in Nat
      BY <2>1, <3>3, DistanceNat
    <3>5. CASE p = pos
      BY <2>5, <3>5
    <3>6. CASE p # pos
      <4>1. p \in lowest .. pos - 1
        BY <1>2, <3>1, <3>6, SMT
      <4> QED
        BY <2>2, <2>4, <2>5, <3>4, <4>1, SMT
    <3> QED
      BY <3>5, <3>6
  <2>7. lowest' = lowest /\ pos' - 1 = pos /\ Len(buckets') + 1 = k /\ lowest \in Int /\ pos \in Int
    BY <1>2, <1>4, SMT DEF HTypeOK
  <2>8. ASSUME NEW p \in lowest' .. pos' - 1
        PROVE  (Distance(Len(buckets) + 1, Upto(pos)) <= Distance(Len(buckets) + 1, Upto(p)))'
    <3>1. p \in lowest .. pos /\ p \in Int
      BY <2>7, SMT
    <3>2. Upto(p)' = Upto(p) /\ (Upto(pos))' = Upto(pos + 1)
      BY <1>4 DEF Upto
    <3>3. /\ (Distance(Len(buckets) + 1, Upto(p)))' = Distance(k, Upto(p))
          /\ (Distance(Len(buckets) + 1, Upto(pos)))' = Distance(k, Upto(pos + 1))
      BY <1>4, <3>2 DEF Distance
    <3> QED
      BY <2>6, <3>1, <3>3
  <2>9. (Upto(n))' = Upto(n)
    BY <1>4 DEF Upto
  <2> QED
    BY <1>4, <2>2, <2>8, <2>9 DEF NearInv
<1>9. BucketsPartitionValues'
  BY <1>2, <1>4, <1>5, SMT DEF BucketsPartitionValues, Built, HTypeOK, Upto, RowsOf
<1>10. BoundariesAreNearest'
  BY <1>2, <1>4, <1>5, SMT DEF BoundariesAreNearest, HTypeOK, Upto, RowsOf, Distance
<1> QED
  BY <1>6, <1>7, <1>8, <1>9, <1>10

\* A turn that closes its bucket.
LEMMA CloseStep ==
  ASSUME HInv, CloseBucket
  PROVE  HInv'
<1> USE DEF HInv
<1> DEFINE L == Len(buckets)
           B == [start |-> lowest, end |-> pos, count |-> sum + RowsAt(pos),
                 ndv |-> ndv + 1, cf |-> cum + RowsAt(pos)]
<1>1. InBuild
  BY DEF CloseBucket
<1>2. n \in Nat /\ pos \in Nat /\ pos \in 1 .. n /\ L \in Nat
  BY <1>1, TurnRows, SMT DEF HTypeOK
<1>3. /\ Upto(pos) \in Nat /\ Upto(pos - 1) \in Nat
      /\ cum + RowsAt(pos) = Upto(pos)
  BY <1>1, TurnRows
<1>4. lowest \in Nat /\ lowest \in 1 .. pos /\ ndv = pos - lowest
  BY <1>1 DEF LoopInv, HTypeOK
<1>5. Upto(lowest - 1) \in Nat /\ sum = Upto(pos - 1) - Upto(lowest - 1)
  <2>1. lowest - 1 \in 0 .. n
    BY <1>2, <1>4, SMT
  <2> QED
    BY <1>1, <2>1, UptoGrows, SMT DEF LoopInv
<1>6. /\ B.start = lowest /\ B.end = pos
      /\ B.count = Upto(pos) - Upto(lowest - 1)
      /\ B.ndv = pos - lowest + 1
      /\ B.cf = Upto(pos)
  <2>1. sum + RowsAt(pos) = Upto(pos) - Upto(lowest - 1)
    BY <1>3, <1>5, SMT DEF RowsAt
  <2>2. ndv + 1 = pos - lowest + 1
    BY <1>2, <1>4, SMT
  <2> QED
    BY <1>3, <2>1, <2>2
<1>7. B \in Bucket
  <2>1. sum + RowsAt(pos) \in Int /\ ndv + 1 \in Int /\ cum + RowsAt(pos) \in Int
    BY <1>2, <1>3, <1>4, <1>5, SMT DEF RowsAt
  <2> QED
    BY <1>2, <1>4, <2>1 DEF Bucket
<1>8. /\ UNCHANGED <<n, upto, size, total>>
      /\ pos' = pos + 1 /\ cum' = Upto(pos) /\ sum' = 0 /\ ndv' = 0
      /\ lowest' = IF pos < n THEN pos + 1 ELSE lowest
      /\ buckets' = Append(buckets, B)
  BY <1>3 DEF CloseBucket, ResetCounts
<1>9. /\ buckets' \in Seq(Bucket)
      /\ Len(buckets') = L + 1
      /\ buckets'[L + 1] = B
      /\ \A j \in 1 .. L : buckets'[j] = buckets[j]
  <2>1. buckets \in Seq(Bucket)
    BY DEF HTypeOK
  <2> HIDE DEF B
  <2> QED
    BY <1>7, <1>8, <2>1, SMT
<1> HIDE DEF B
<1>10. ASSUME pos < n
       PROVE  /\ Upto(pos + 1) \in Nat
              /\ Upto(pos) <= Upto(pos + 1)
              /\ ~Fits(L + 1, Upto(pos + 1))
              /\ Distance(L + 1, Upto(pos)) <= Distance(L + 1, Upto(pos + 1))
  <2>1. /\ Upto(pos + 1) \in Nat
        /\ Upto(pos) <= Upto(pos + 1)
        /\ Upto(pos) + RowsAt(pos + 1) = Upto(pos + 1)
    BY <1>1, <1>10, TurnRows
  <2>2. Closes(L + 1, Upto(pos), Upto(pos + 1))
    BY <1>3, <1>10, <2>1 DEF CloseBucket
  <2>3. L + 1 \in Nat
    BY <1>2, SMT
  <2>4. Distance(L + 1, Upto(pos)) \in Nat /\ Distance(L + 1, Upto(pos + 1)) \in Nat
    BY <1>3, <2>1, <2>3, DistanceNat
  <2> QED
    BY <2>1, <2>2, <2>4, SMT DEF Closes
<1>11. HTypeOK'
  <2>1. pos' \in 0 .. n + 1 /\ pos' # 0
    BY <1>2, <1>8, SMT
  <2>2. lowest' \in Nat /\ sum' \in Int /\ ndv' \in Int /\ cum' \in Int
    BY <1>2, <1>3, <1>4, <1>8, SMT
  <2> QED
    BY <1>8, <1>9, <2>1, <2>2 DEF HTypeOK
<1>11a. n' = n /\ pos' = pos + 1 /\ ndv' = 0 /\ (pos < n => lowest' = pos + 1)
  BY <1>8
<1>12. ASSUME InBuild'
       PROVE  pos < n /\ lowest' = pos + 1
  BY <1>2, <1>11a, <1>12, SMT DEF InBuild
<1>13. LoopInv'
  <2> SUFFICES ASSUME InBuild'
               PROVE  /\ lowest' \in 1 .. pos'
                      /\ lowest' = (IF Len(buckets') = 0 THEN 1 ELSE buckets'[Len(buckets')].end + 1)
                      /\ ndv' = pos' - lowest'
                      /\ sum' = (Upto(pos - 1))' - (Upto(lowest - 1))'
                      /\ cum' = (Upto(pos - 1))'
    BY DEF LoopInv
  <2>1. lowest' = pos + 1 /\ pos' = pos + 1
    BY <1>8, <1>12
  <2>2. lowest' \in 1 .. pos' /\ ndv' = pos' - lowest'
    BY <1>2, <1>11a, <2>1, SMT
  <2>3. (Upto(pos - 1))' = Upto(pos) /\ (Upto(lowest - 1))' = Upto(pos)
    <3>1. pos' - 1 = pos /\ lowest' - 1 = pos
      BY <1>2, <2>1, SMT
    <3> QED
      BY <1>8, <3>1 DEF Upto
  <2>4. sum' = (Upto(pos - 1))' - (Upto(lowest - 1))'
    BY <1>3, <1>8, <2>3, SMT
  <2>5. Len(buckets') # 0 /\ buckets'[Len(buckets')].end + 1 = lowest'
    BY <1>2, <1>6, <1>9, <2>1, SMT
  <2> QED
    BY <1>8, <2>2, <2>3, <2>4, <2>5
<1>14. ASSUME pos < n, total = Upto(n)
       PROVE  L + 1 < size
  <2>1. L < size /\ size \in Nat /\ total \in Nat
    BY <1>1, <1>14 DEF NearInv, HTypeOK
  <2>2. Upto(pos + 1) <= total
    <3>1. pos + 1 \in 0 .. n /\ n \in 0 .. n /\ pos + 1 <= n
      BY <1>2, <1>14, SMT
    <3> QED
      BY <1>14, <3>1, UptoGrows
  <2>3. size * Upto(pos + 1) <= size * total
    BY <1>10, <1>14, <2>1, <2>2, ProductOrder
  <2>4. L + 1 # size
    <3> SUFFICES ASSUME L + 1 = size PROVE FALSE
      OBVIOUS
    <3>1. ~(size * Upto(pos + 1) <= total * size)
      BY <1>10, <1>14 DEF Fits
    <3>2. total * size = size * total
      BY <2>1, SMT
    <3> QED
      BY <2>3, <3>1, <3>2
  <2> QED
    BY <1>2, <2>1, <2>4, SMT
<1>15. NearInv'
  <2> SUFFICES ASSUME InBuild'
               PROVE  /\ lowest' .. pos' - 1 = {}
                      /\ total' = (Upto(n))' => Len(buckets') < size'
    BY DEF NearInv
  <2>1. pos < n /\ lowest' = pos + 1
    BY <1>12
  <2>2. lowest' .. pos' - 1 = {}
    BY <1>2, <1>8, <2>1, SMT
  <2>3. (Upto(n))' = Upto(n)
    BY <1>8 DEF Upto
  <2> QED
    BY <1>8, <1>9, <1>14, <2>1, <2>2, <2>3
<1>16. BucketsPartitionValues'
  <2>1. ASSUME NEW j \in 1 .. Len(buckets')
        PROVE  LET b == buckets'[j]
               IN  /\ b.start = (IF j = 1 THEN 1 ELSE buckets'[j - 1].end + 1)
                   /\ b.start <= b.end /\ b.end <= n'
                   /\ b.ndv = b.end - b.start + 1
                   /\ b.count = RowsOf(upto', b.end) - RowsOf(upto', b.start - 1)
                   /\ b.cf = RowsOf(upto', b.end)
    <3>1. CASE j \in 1 .. L
      <4>1. buckets'[j] = buckets[j] /\ (j # 1 => buckets'[j - 1] = buckets[j - 1])
        BY <1>2, <1>9, <3>1, SMT
      <4>2. LET b == buckets[j]
            IN  /\ b.start = (IF j = 1 THEN 1 ELSE buckets[j - 1].end + 1)
                /\ b.start <= b.end /\ b.end <= n
                /\ b.ndv = b.end - b.start + 1
                /\ b.count = RowsOf(upto, b.end) - RowsOf(upto, b.start - 1)
                /\ b.cf = RowsOf(upto, b.end)
        BY <3>1 DEF BucketsPartitionValues, Upto
      <4> QED
        BY <1>8, <4>1, <4>2
    <3>2. CASE j = L + 1
      <4>1. buckets'[j] = B
        BY <1>9, <3>2
      <4>2. lowest = (IF j = 1 THEN 1 ELSE buckets'[j - 1].end + 1)
        <5>1. lowest = (IF L = 0 THEN 1 ELSE buckets[L].end + 1)
          BY <1>1 DEF LoopInv
        <5>2. j - 1 = L /\ (j = 1 <=> L = 0) /\ (L # 0 => buckets'[L] = buckets[L])
          BY <1>2, <1>9, <3>2, SMT
        <5> QED
          BY <5>1, <5>2
      <4>3. lowest <= pos /\ pos <= n
        BY <1>2, <1>4, SMT
      <4> QED
        BY <1>6, <1>8, <4>1, <4>2, <4>3 DEF Upto
    <3>3. j \in 1 .. L \/ j = L + 1
      BY <1>2, <1>9, SMT
    <3> QED
      BY <3>1, <3>2, <3>3
  <2>2. ASSUME Built'
        PROVE  n' # 0 /\ buckets'[Len(buckets')].end = n'
    BY <1>2, <1>6, <1>8, <1>9, <2>2, SMT DEF Built
  <2> QED
    BY <2>1, <2>2 DEF BucketsPartitionValues, Upto
<1>17. BoundariesAreNearest'
  <2>1. ASSUME NEW j \in 1 .. Len(buckets'), buckets'[j].end < n',
               NEW p \in buckets'[j].start .. n'
        PROVE  Distance(j, Upto(buckets'[j].end)) <= Distance(j, Upto(p))
    <3>1. CASE j \in 1 .. L
      BY <1>8, <1>9, <2>1, <3>1 DEF BoundariesAreNearest
    <3>2. CASE j = L + 1
      <4>1. buckets'[j].end = pos /\ buckets'[j].start = lowest /\ pos < n
        BY <1>6, <1>8, <1>9, <2>1, <3>2
      <4>2. p \in lowest .. n /\ p \in 0 .. n /\ j \in Nat
        BY <1>2, <1>4, <1>8, <2>1, <3>2, <4>1, SMT
      <4>3. Upto(p) \in Nat
        BY <4>2, UptoGrows, SMT
      <4>4. CASE p < pos
        <5>1. p \in lowest .. pos - 1
          BY <1>2, <1>4, <4>2, <4>4, SMT
        <5> QED
          BY <1>1, <3>2, <4>1, <5>1 DEF NearInv
      <4>5. CASE p = pos
        <5>1. Distance(j, Upto(p)) \in Nat
          BY <4>2, <4>3, DistanceNat
        <5> QED
          BY <4>1, <4>5, <5>1, SMT
      <4>6. CASE pos < p
        <5>1. pos + 1 \in 0 .. n /\ pos + 1 <= p
          BY <1>2, <4>1, <4>2, <4>6, SMT
        <5>2. Upto(pos + 1) \in Nat /\ Upto(pos + 1) <= Upto(p)
          BY <4>2, <5>1, UptoGrows
        <5>3. Distance(j, Upto(pos + 1)) <= Distance(j, Upto(p))
          BY <1>10, <3>2, <4>1, <4>2, <4>3, <5>2, OverIsFarther
        <5>4. Distance(j, Upto(pos)) <= Distance(j, Upto(pos + 1))
          BY <1>10, <3>2, <4>1
        <5>5. /\ Distance(j, Upto(pos)) \in Nat
              /\ Distance(j, Upto(pos + 1)) \in Nat
              /\ Distance(j, Upto(p)) \in Nat
          BY <1>3, <4>2, <4>3, <5>2, DistanceNat
        <5> QED
          BY <4>1, <5>3, <5>4, <5>5, SMT
      <4> QED
        BY <1>2, <4>2, <4>4, <4>5, <4>6, SMT
    <3>3. j \in 1 .. L \/ j = L + 1
      BY <1>2, <1>9, SMT
    <3> QED
      BY <3>1, <3>2, <3>3
  <2>2. ASSUME total' = (Upto(n))'
        PROVE  Len(buckets') <= size'
    <3>1. total = Upto(n)
      BY <1>8, <2>2 DEF Upto
    <3>2. L < size /\ size \in Nat
      BY <1>1, <3>1 DEF NearInv, HTypeOK
    <3> QED
      BY <1>2, <1>8, <1>9, <3>2, SMT
  <2>3. \A k, p : Distance(k, Upto(p))' = Distance(k, Upto(p))
    BY <1>8 DEF Distance, Upto
  <2>4. ASSUME NEW j \in 1 .. Len(buckets'), buckets'[j].end < n',
               NEW p \in buckets'[j].start .. n'
        PROVE  (Distance(j, Upto(buckets[j].end)) <= Distance(j, Upto(p)))'
    <3>1. (Distance(j, Upto(buckets[j].end)))' = Distance(j, Upto(buckets'[j].end))
      BY <1>8 DEF Distance, Upto
    <3> QED
      BY <2>1, <2>3, <2>4, <3>1
  <2> QED
    BY <2>2, <2>4 DEF BoundariesAreNearest
<1> QED
  BY <1>11, <1>13, <1>15, <1>16, <1>17

\* BuildHistogram is called with a value map.
LEMMA StartStep ==
  ASSUME HInv, pos = 0,
         NEW k \in 0 .. MaxValues, NEW map \in ValueMap(k), NEW b \in Sizes,
         StartBuild(k, map, b)
  PROVE  HInv'
<1>1. /\ n' = k /\ upto' = map /\ size' = b
      /\ total' = Accumulate(RowsOf(map, k))
      /\ pos' = 1 /\ lowest' = 1 /\ sum' = 0 /\ ndv' = 0 /\ cum' = 0
      /\ buckets' = <<>>
  BY DEF StartBuild
<1>2. k \in Nat /\ b \in Nat \ {0}
  BY HistogramAssumption, SMT
<1>3. /\ map \in [1 .. k -> 1 .. MaxRows]
      /\ \A p, q \in 1 .. k : p < q => map[p] < map[q]
  BY DEF ValueMap
<1>4. map \in [1 .. k -> Nat]
  BY <1>3, HistogramAssumption, SMT
<1>5. total' \in Nat
  <2>1. RowsOf(map, k) \in Nat
    BY <1>2, <1>4, SMT DEF RowsOf
  <2> QED
    BY <1>1, <2>1, AccumulateNat
<1>6. HTypeOK'
  <2>1. pos' \in 0 .. n' + 1 /\ pos' # 0
    BY <1>1, <1>2, SMT
  <2>2. buckets' \in Seq(Bucket)
    BY <1>1, SMT
  <2> QED
    BY <1>1, <1>2, <1>3, <1>4, <1>5, <2>1, <2>2, SMT DEF HTypeOK
<1>7. Len(buckets') = 0
  BY <1>1, SMT
<1>8. LoopInv'
  BY <1>1, <1>7, SMT DEF LoopInv, Upto, RowsOf
<1>9. NearInv'
  BY <1>1, <1>2, <1>7, SMT DEF NearInv
<1>10. BucketsPartitionValues'
  BY <1>1, <1>2, <1>7, SMT DEF BucketsPartitionValues, Built
<1>11. BoundariesAreNearest'
  BY <1>1, <1>2, <1>7, SMT DEF BoundariesAreNearest
<1> QED
  BY <1>6, <1>8, <1>9, <1>10, <1>11 DEF HInv

-----------------------------------------------------------------------------
(* The theorems *)

\* The invariant holds before the first call.
LEMMA InitInv == HistogramInit => HInv
<1> SUFFICES ASSUME HistogramInit PROVE HInv
  OBVIOUS
<1>1. /\ n = 0 /\ upto = <<>> /\ size = 0 /\ total = 0 /\ pos = 0 /\ lowest = 0
      /\ sum = 0 /\ ndv = 0 /\ cum = 0 /\ buckets = <<>>
  BY DEF HistogramInit
<1>2. HTypeOK
  BY <1>1, SMT DEF HTypeOK
<1>3. Len(buckets) = 0 /\ ~InBuild /\ ~Built
  BY <1>1, SMT DEF InBuild, Built
<1>4. BucketsPartitionValues /\ BoundariesAreNearest
  BY <1>1, <1>3, SMT DEF BucketsPartitionValues, BoundariesAreNearest
<1> QED
  BY <1>2, <1>3, <1>4 DEF HInv, LoopInv, NearInv

\* Every step of BuildHistogram keeps it.
LEMMA NextInv == HInv /\ [HistogramNext]_histogramVars => HInv'
<1> SUFFICES ASSUME HInv, [HistogramNext]_histogramVars PROVE HInv'
  OBVIOUS
<1>1. ASSUME pos = 0,
             NEW k \in 0 .. MaxValues, NEW map \in ValueMap(k), NEW b \in Sizes,
             StartBuild(k, map, b)
      PROVE  HInv'
  BY <1>1, StartStep
<1>2. CASE Continue
  BY <1>2, ContinueStep
<1>3. CASE CloseBucket
  BY <1>3, CloseStep
<1>4. CASE UNCHANGED histogramVars
  BY <1>4 DEF histogramVars, HInv, HTypeOK, LoopInv, NearInv, InBuild, Built, Upto, Distance,
              BucketsPartitionValues, BoundariesAreNearest
<1> QED
  BY <1>1, <1>2, <1>3, <1>4 DEF HistogramNext

\* The inductive invariant of BuildHistogram.
THEOREM HistogramInvariant == HistogramSpec => []HInv
<1> QED
  BY InitInv, NextInv, PTL DEF HistogramSpec

\* For every value map and bucket size, and however an inexact threshold decides
\* a tie, the buckets BuildHistogram makes partition the values and count them.
THEOREM BucketsArePartition == HistogramSpec => []BucketsPartitionValues
<1>1. HInv => BucketsPartitionValues
  BY DEF HInv
<1> QED
  BY <1>1, HistogramInvariant, PTL

\* And each bucket ends at the nearest possible distance from its threshold, with
\* no more than bucket_size of them unless the sum of the rows has wrapped.
THEOREM BoundariesNearest == HistogramSpec => []BoundariesAreNearest
<1>1. HInv => BoundariesAreNearest
  BY DEF HInv
<1> QED
  BY <1>1, HistogramInvariant, PTL

-----------------------------------------------------------------------------
(* Stored statistics *)

\* The parts of a key of a column and of a table.
LEMMA StatisticIds ==
  /\ \A t \in TableIds : t = <<t[1], t[2]>> /\ t[1] \in Word /\ t[2] \in Word
  /\ ColumnIds \subseteq Word
  /\ Word \subseteq Nat
BY StatisticsAssumption, WordsAreNat DEF Word

\* What follows the ids of a table in the key of a column.
Column(c) == U64(c) \o << 6 >>

LEMMA ColumnParts ==
  ASSUME NEW c \in Word
  PROVE  /\ Column(c) \in Bytes
         /\ Column(c) # << 5 >>
         /\ \A d \in Word : Column(c) = Column(d) => c = d
<1>1. \A d \in Word : U64(d) \in Bytes /\ Len(U64(d)) = W64
  BY WordsAreNat, Words
<1>2. 6 \in Byte /\ 5 \in Byte /\ W64 \in Nat \ {0}
  BY WordsAreNat DEF Byte
<1>3. << 6 >> \in Bytes /\ Len(<< 6 >>) = 1 /\ Len(<< 5 >>) = 1
  BY <1>2, OneByte
<1>4. PICK six \in Bytes : six = << 6 >>
  BY <1>3
<1>5. Column(c) \in Bytes /\ Len(Column(c)) = W64 + 1
  BY <1>1, <1>3, Concatenation DEF Column
<1>6. ASSUME NEW d \in Word, Column(c) = Column(d) PROVE c = d
  <2>1. PICK x \in Bytes, y \in Bytes : x = U64(c) /\ y = U64(d) /\ Len(x) = W64 /\ Len(y) = W64
    BY <1>1
  <2>2. x \o six = y \o six
    BY <1>4, <1>6, <2>1 DEF Column
  <2>3. x = y
    BY <2>1, <2>2, PartsEqual
  <2> QED
    BY <2>1, <2>3, WordsEqual
<1>7. ASSUME Column(c) = << 5 >> PROVE FALSE
  <2>1. Len(Column(c)) = 1
    BY <1>3, <1>7, Zenon
  <2> QED
    BY <1>2, <1>5, <2>1
<1> QED
  BY <1>5, <1>6, <1>7

\* Different columns have different keys, and no column has that of a table.
LEMMA StatisticKeysDiffer ==
  ASSUME NEW t \in TableIds, NEW c \in ColumnIds, NEW u \in TableIds
  PROVE  /\ \A d \in ColumnIds :
              EncodeColumnStatistic(t[1], t[2], c) = EncodeColumnStatistic(u[1], u[2], d) => t = u /\ c = d
         /\ EncodeColumnStatistic(t[1], t[2], c) # EncodeMetaStatistic(u[1], u[2])
<1>1. /\ t = <<t[1], t[2]>> /\ t[1] \in Word /\ t[2] \in Word /\ t[1] \in Nat /\ t[2] \in Nat
      /\ u = <<u[1], u[2]>> /\ u[1] \in Word /\ u[2] \in Word /\ u[1] \in Nat /\ u[2] \in Nat
      /\ \A d \in ColumnIds : d \in Word /\ d \in Nat
  BY StatisticIds
<1>2. \A d \in ColumnIds :
        /\ EncodeColumnStatistic(t[1], t[2], d) = Own(t[1], t[2], Column(d))
        /\ EncodeColumnStatistic(u[1], u[2], d) = Own(u[1], u[2], Column(d))
        /\ Column(d) \in Bytes
  BY <1>1, ColumnStatisticKeyParts DEF Column
<1>3. EncodeMetaStatistic(u[1], u[2]) = Own(u[1], u[2], << 5 >>) /\ << 5 >> \in Bytes
  BY <1>1, TableStatisticKeyParts
<1>4. ASSUME NEW d \in ColumnIds,
             EncodeColumnStatistic(t[1], t[2], c) = EncodeColumnStatistic(u[1], u[2], d)
      PROVE  t = u /\ c = d
  <2>1. Own(t[1], t[2], Column(c)) = Own(u[1], u[2], Column(d))
    BY <1>2, <1>4
  <2>2. t[1] = u[1] /\ t[2] = u[2] /\ Column(c) = Column(d)
    BY <1>1, <1>2, <2>1, OwnEqual
  <2> QED
    BY <1>1, <2>2, ColumnParts
<1>5. ASSUME EncodeColumnStatistic(t[1], t[2], c) = EncodeMetaStatistic(u[1], u[2]) PROVE FALSE
  <2>1. Own(t[1], t[2], Column(c)) = Own(u[1], u[2], << 5 >>)
    BY <1>2, <1>3, <1>5
  <2>2. Column(c) = << 5 >>
    BY <1>1, <1>2, <1>3, <2>1, OwnEqual
  <2> QED
    BY <1>1, <2>2, ColumnParts
<1> QED
  BY <1>4, <1>5

LEMMA MetaKeysDiffer ==
  ASSUME NEW t \in TableIds, NEW u \in TableIds,
         EncodeMetaStatistic(t[1], t[2]) = EncodeMetaStatistic(u[1], u[2])
  PROVE  t = u
<1>1. /\ t = <<t[1], t[2]>> /\ t[1] \in Word /\ t[2] \in Word /\ t[1] \in Nat /\ t[2] \in Nat
      /\ u = <<u[1], u[2]>> /\ u[1] \in Word /\ u[2] \in Word /\ u[1] \in Nat /\ u[2] \in Nat
  BY StatisticIds
<1>2. Own(t[1], t[2], << 5 >>) = Own(u[1], u[2], << 5 >>) /\ << 5 >> \in Bytes
  BY <1>1, TableStatisticKeyParts
<1>3. t[1] = u[1] /\ t[2] = u[2]
  BY <1>1, <1>2, OwnEqual
<1> QED
  BY <1>1, <1>3

\* A text that is not longer than its length says is read back.
LEMMA TextComesBack ==
  ASSUME NEW a \in Seq(Nat), Len(a) \in 0 .. Pow256[W32] - 1
  PROVE  DecodeBytes(EncodeBytes(a)).u = a
<1> DEFINE head == EncodeUInt(Len(a), W32)
           in == EncodeBytes(a)
<1>0. W32 \in Nat /\ W32 \in 0 .. W64 /\ Len(a) \in Nat
  BY CodecAssumption, LenProperties
<1>1. head \in Seq(Byte) /\ Len(head) = W32
  BY <1>0, WordBytes
<1>2. head \in Seq(Nat)
  <2>1. Byte \subseteq Nat
    BY DEF Byte
  <2> QED
    BY <1>1, <2>1, SeqMonotonic
<1> HIDE DEF head
<1>3. /\ in = head \o a
      /\ in \in Seq(Nat) /\ Len(in) = W32 + Len(a)
      /\ \A i \in 1 .. W32 : in[i] = head[i]
      /\ \A i \in 1 .. Len(a) : in[W32 + i] = a[i]
  <2>1. in = head \o a
    BY DEF EncodeBytes, head
  <2>2. head \o a \in Seq(Nat) /\ Len(head \o a) = Len(head) + Len(a)
    BY <1>2, ConcatProperties
  <2>3. \A i \in 1 .. W32 : (head \o a)[i] = head[i]
    <3> TAKE i \in 1 .. W32
    <3>1. i \in 1 .. Len(head) + Len(a) /\ i <= Len(head)
      BY <1>0, <1>1
    <3>2. (head \o a)[i] = IF i <= Len(head) THEN head[i] ELSE a[i - Len(head)]
      BY <1>2, <3>1, ConcatProperties, Zenon
    <3> QED
      BY <3>1, <3>2
  <2>4. \A i \in 1 .. Len(a) : (head \o a)[W32 + i] = a[i]
    <3> TAKE i \in 1 .. Len(a)
    <3>1. PICK k : k = W32 + i
      OBVIOUS
    <3>2. k \in 1 .. Len(head) + Len(a) /\ ~(k <= Len(head)) /\ k - Len(head) = i
      BY <1>0, <1>1, <3>1
    <3>3. (head \o a)[k] = IF k <= Len(head) THEN head[k] ELSE a[k - Len(head)]
      BY <1>2, <3>2, ConcatProperties, Zenon
    <3> QED
      BY <3>1, <3>2, <3>3
  <2> QED
    BY <1>1, <2>1, <2>2, <2>3, <2>4
<1> HIDE DEF in
<1>4. DecodeUInt(in, W32) = Len(a)
  <2>1. \A i \in 1 .. W32 : in[i] = EncodeUInt(Len(a), W32)[i]
    BY <1>3 DEF head
  <2> QED
    BY <1>0, <2>1, WordComesBack
<1>5. DecodeBytes(in).u = SubSeq(in, W32 + 1, W32 + Len(a))
  <2>1. W32 + Len(a) <= Len(in)
    BY <1>0, <1>3
  <2> QED
    BY <1>4, <2>1 DEF DecodeBytes
<1>6. SubSeq(in, W32 + 1, W32 + Len(a)) = a
  <2>1. PICK b, k, m : b = SubSeq(in, k, m) /\ k = W32 + 1 /\ m = W32 + Len(a)
    OBVIOUS
  <2>2. k \in Int /\ m \in Int /\ k - 1 = W32 /\ m - k + 1 = Len(a)
    BY <1>0, <2>1
  <2>3. \A i \in k .. m : in[i] \in Nat
    <3> TAKE i \in k .. m
    <3>1. i \in 1 .. Len(in)
      BY <1>0, <1>3, <2>1
    <3> QED
      BY <1>3, <3>1, ElementOfSeq
  <2>4. /\ b \in Seq(Nat) /\ Len(b) = (IF k <= m THEN m - k + 1 ELSE 0)
        /\ \A i \in 1 .. m - k + 1 : b[i] = in[k + i - 1]
    <3>1. SubSeq(in, k, m) \in Seq(Nat)
      BY <2>2, <2>3, SubSeqProperties
    <3>2. Len(SubSeq(in, k, m)) = IF k <= m THEN m - k + 1 ELSE 0
      BY <2>2, <2>3, SubSeqProperties
    <3>3. \A i \in 1 .. m - k + 1 : SubSeq(in, k, m)[i] = in[k + i - 1]
      BY <2>2, <2>3, SubSeqProperties
    <3> QED
      BY <2>1, <3>1, <3>2, <3>3, Zenon
  <2>5. Len(b) = Len(a)
    BY <1>0, <2>1, <2>2, <2>4
  <2>6. \A i \in 1 .. Len(b) : b[i] = a[i]
    <3> TAKE i \in 1 .. Len(b)
    <3>1. i \in 1 .. Len(a) /\ k + i - 1 = W32 + i /\ m - k + 1 = Len(a)
      BY <1>0, <2>1, <2>2, <2>5
    <3> QED
      BY <1>3, <2>4, <3>1
  <2> QED
    BY <2>1, <2>4, <2>5, <2>6, SeqEqual
<1> QED
  BY <1>5, <1>6 DEF in

\* An end of a bucket of strings survives the message, which has no types.
LEMMA EndComesBack ==
  ASSUME NEW p \in Nat
  PROVE  DecodeExprValue(EncodeExprValue(ValueAt("String", p)), "String").val = ValueAt("String", p)
<1> DEFINE text == <<96 + p>>
<1>1. text \in Seq(Nat) /\ Len(text) = 1
  OBVIOUS
<1>2. Len(text) \in 0 .. Pow256[W32] - 1
  <2>1. W32 \in 1 .. W64 /\ W32 - 1 \in 0 .. W64
    BY CodecAssumption
  <2>2. Pow256[W32] = 256 * Pow256[W32 - 1] /\ Pow256[W32 - 1] \in Nat \ {0}
    BY <2>1, Powers
  <2> QED
    BY <1>1, <2>2
<1> HIDE DEF text
<1>3. DecodeBytes(EncodeBytes(text)).u = text
  BY <1>1, <1>2, TextComesBack
<1>4. ~IsInt("String")
  BY DEF IsInt, IntWidth
<1>5. ValueAt("String", p) = [type |-> "String", u |-> text]
  BY DEF ValueAt, NewValue, text
<1>6. EncodeExprValue(ValueAt("String", p)) = EncodeBytes(text)
  BY <1>4, <1>5 DEF EncodeExprValue
<1>7. DecodeExprValue(EncodeBytes(text), "String").val = NewValue("String", DecodeBytes(EncodeBytes(text)).u)
  BY <1>4 DEF DecodeExprValue
<1> QED
  BY <1>3, <1>5, <1>6, <1>7 DEF NewValue

\* Only the last bucket ends with all rows, so that the fraction of the message is
\* lost everywhere else.
LEMMA FrequencyOfBucket ==
  ASSUME HInv, Built, total = Upto(n), NEW j \in 1 .. Len(buckets), NEW infinity
  PROVE  StoredCf(buckets[j].cf, infinity) = IF j = Len(buckets) THEN 1 ELSE 0
<1>1. /\ n \in Nat /\ upto \in [1 .. n -> Nat \ {0}] /\ buckets \in Seq(Bucket) /\ Len(buckets) \in Nat
      /\ \A p, q \in 1 .. n : p < q => upto[p] < upto[q]
  BY LenProperties DEF HInv, HTypeOK
<1>2. /\ \A i \in 1 .. Len(buckets) :
           /\ buckets[i] \in Bucket /\ buckets[i].end \in Nat /\ buckets[i].start \in Nat
           /\ buckets[i].start <= buckets[i].end /\ buckets[i].end <= n
           /\ buckets[i].cf = Upto(buckets[i].end)
           /\ buckets[i].start = (IF i = 1 THEN 1 ELSE buckets[i - 1].end + 1)
      /\ buckets # <<>> => buckets[Len(buckets)].end = n
  <2>1. \A i \in 1 .. Len(buckets) : buckets[i] \in Bucket
    BY <1>1, ElementOfSeq
  <2>2. \A i \in 1 .. Len(buckets) : buckets[i].end \in Nat /\ buckets[i].start \in Nat
    BY <2>1 DEF Bucket
  <2>3. BucketsPartitionValues
    BY DEF HInv
  <2>4. \A i \in 1 .. Len(buckets) :
           /\ buckets[i].start <= buckets[i].end /\ buckets[i].end <= n
           /\ buckets[i].cf = Upto(buckets[i].end)
           /\ buckets[i].start = (IF i = 1 THEN 1 ELSE buckets[i - 1].end + 1)
    BY <2>3 DEF BucketsPartitionValues
  <2>5. buckets # <<>> => buckets[Len(buckets)].end = n
    BY <2>3 DEF BucketsPartitionValues
  <2> QED
    BY <2>1, <2>2, <2>4, <2>5
<1>3. buckets[j].end \in 1 .. n
  <2>1. CASE j = 1
    BY <1>1, <1>2, <2>1
  <2>2. CASE j # 1
    <3>1. j - 1 \in 1 .. Len(buckets)
      BY <1>1, <2>2
    <3>2. buckets[j].start = buckets[j - 1].end + 1 /\ buckets[j - 1].end \in Nat
      BY <1>2, <2>2, <3>1
    <3>3. buckets[j].end \in Nat /\ buckets[j].start <= buckets[j].end /\ buckets[j].end <= n
      BY <1>2
    <3> QED
      BY <1>1, <3>2, <3>3
  <2> QED
    BY <2>1, <2>2
<1>4. n \in 1 .. n
  BY <1>1, <1>3
<1>5. total = upto[n] /\ total \in Nat \ {0}
  BY <1>1, <1>4 DEF Upto, RowsOf
<1>6. buckets[j].cf = upto[buckets[j].end] /\ buckets[j].cf \in Nat
  BY <1>1, <1>2, <1>3 DEF Upto, RowsOf
<1>7. CASE j = Len(buckets)
  <2>1. buckets[j].cf = total
    BY <1>2, <1>5, <1>6, <1>7
  <2>2. total = 1 * total + 0 /\ 0 \in 0 .. total - 1
    BY <1>5
  <2>3. total \div total = 1
    BY <1>5, <2>2, Quotient
  <2> QED
    BY <1>5, <1>7, <2>1, <2>3 DEF StoredCf
<1>8. CASE j # Len(buckets)
  <2>1. j + 1 \in 1 .. Len(buckets) /\ j + 1 # 1 /\ j + 1 - 1 = j
    BY <1>1, <1>8
  <2>2. buckets[j].end < n
    <3>1. buckets[j + 1].start = buckets[j].end + 1
      BY <1>2, <2>1
    <3>2. /\ buckets[j + 1].start <= buckets[j + 1].end /\ buckets[j + 1].end <= n
          /\ buckets[j + 1].end \in Nat /\ buckets[j + 1].start \in Nat
      BY <1>2, <2>1
    <3> QED
      BY <1>1, <1>3, <3>1, <3>2
  <2>3. buckets[j].cf < total
    BY <1>1, <1>3, <1>4, <1>5, <1>6, <2>2
  <2>4. buckets[j].cf = 0 * total + buckets[j].cf /\ buckets[j].cf \in 0 .. total - 1
    BY <1>5, <1>6, <2>3
  <2>5. buckets[j].cf \div total = 0
    BY <1>5, <1>6, <2>4, Quotient
  <2> QED
    BY <1>5, <1>8, <2>5 DEF StoredCf
<1> QED
  BY <1>7, <1>8

\* What is stored and what was loaded: a histogram that was dumped is finished and
\* will not change, its message is under the key of its column, and no other kind
\* of message is under such a key.
DumpedOK ==
  \A k \in DOMAIN dumped :
    \E t \in TableIds, c \in ColumnIds, type \in ColumnTypes :
      /\ k = <<t, c>>
      /\ Built
      /\ dumped[k] = [type |-> type, buckets |-> buckets]
      /\ EncodeColumnStatistic(t[1], t[2], c) \in DOMAIN stats
      /\ \E infinity :
           stats[EncodeColumnStatistic(t[1], t[2], c)] = SerializeColumn(t, c, type, infinity)

StoredOK ==
  \A key \in DOMAIN stats :
    \/ \E t \in TableIds, c \in ColumnIds :
         key = EncodeColumnStatistic(t[1], t[2], c) /\ <<t, c>> \in DOMAIN dumped
    \/ \E t \in TableIds : key = EncodeMetaStatistic(t[1], t[2]) /\ stats[key] = SerializeMeta(t)

StatsInv == HInv /\ DumpedOK /\ StoredOK /\ StatisticsComeBack

\* The message of a column, read again.
ColumnOf(t, c, type, infinity) == DeserializeColumn(SerializeColumn(t, c, type, infinity))

LEMMA ColumnComesBack ==
  ASSUME HInv, Built, NEW t, NEW c, NEW type, NEW infinity
  PROVE  LET is == ColumnOf(t, c, type, infinity).histogram
         IN  /\ ColumnOf(t, c, type, infinity).ids = <<t, c>>
             /\ Len(is) = Len(buckets)
             /\ \A j \in 1 .. Len(buckets) :
                  /\ is[j].count = buckets[j].count /\ is[j].ndv = buckets[j].ndv
                  /\ type = "String" =>
                       /\ is[j].start = ValueAt(type, buckets[j].start)
                       /\ is[j].end = ValueAt(type, buckets[j].end)
                  /\ total = Upto(n) => is[j].cf = (IF j = Len(buckets) THEN 1 ELSE 0)
<1> DEFINE is == ColumnOf(t, c, type, infinity).histogram
           sent(j) == SerializeBucket(type, buckets[j], infinity)
<1>0. Len(buckets) \in Nat /\ buckets \in Seq(Bucket)
  BY LenProperties DEF HInv, HTypeOK
<1>1. /\ ColumnOf(t, c, type, infinity).ids = <<t, c>>
      /\ is = [j \in 1 .. Len(buckets) |-> DeserializeBucket(sent(j))]
  BY DEF ColumnOf, DeserializeColumn, SerializeColumn
<1>2. Len(is) = Len(buckets)
  BY <1>0, <1>1
<1>3. \A j \in 1 .. Len(buckets) : is[j] = DeserializeBucket(sent(j))
  BY <1>1
<1>4. ASSUME NEW j \in 1 .. Len(buckets)
      PROVE  /\ is[j].count = buckets[j].count /\ is[j].ndv = buckets[j].ndv
             /\ type = "String" =>
                  /\ is[j].start = ValueAt(type, buckets[j].start)
                  /\ is[j].end = ValueAt(type, buckets[j].end)
             /\ total = Upto(n) => is[j].cf = (IF j = Len(buckets) THEN 1 ELSE 0)
  <2>1. /\ sent(j).count = buckets[j].count /\ sent(j).ndv = buckets[j].ndv
        /\ sent(j).cf = StoredCf(buckets[j].cf, infinity)
        /\ sent(j).start = EncodeExprValue(ValueAt(type, buckets[j].start))
        /\ sent(j).end = EncodeExprValue(ValueAt(type, buckets[j].end))
    BY DEF SerializeBucket
  <2> HIDE DEF sent, is
  <2>2. /\ is[j].count = sent(j).count /\ is[j].ndv = sent(j).ndv /\ is[j].cf = sent(j).cf
        /\ is[j].start = DecodeExprValue(sent(j).start, "String").val
        /\ is[j].end = DecodeExprValue(sent(j).end, "String").val
    <3>1. is[j] = DeserializeBucket(sent(j))
      BY <1>3
    <3> QED
      BY <3>1 DEF DeserializeBucket
  <2>3. buckets[j].start \in Nat /\ buckets[j].end \in Nat
    <3>1. buckets[j] \in Bucket
      BY <1>0, ElementOfSeq
    <3> QED
      BY <3>1 DEF Bucket
  <2>4. ASSUME type = "String"
        PROVE  is[j].start = ValueAt(type, buckets[j].start) /\ is[j].end = ValueAt(type, buckets[j].end)
    BY <2>1, <2>2, <2>3, <2>4, EndComesBack
  <2>5. total = Upto(n) => is[j].cf = (IF j = Len(buckets) THEN 1 ELSE 0)
    BY <2>1, <2>2, FrequencyOfBucket
  <2> QED
    BY <2>1, <2>2, <2>4, <2>5
<1> QED
  BY <1>1, <1>2, <1>4

\* Every other step leaves the histogram alone.
LEMMA BuildUnchanged ==
  ASSUME HInv, UNCHANGED histogramVars
  PROVE  HInv' /\ (Built' <=> Built) /\ total' = total /\ buckets' = buckets /\ n' = n /\ upto' = upto
<1>1. HInv'
  BY NextInv
<1> QED
  BY <1>1 DEF histogramVars, Built

LEMMA MessageUnchanged ==
  ASSUME UNCHANGED histogramVars, NEW t, NEW c, NEW type, NEW infinity
  PROVE  SerializeColumn(t, c, type, infinity)' = SerializeColumn(t, c, type, infinity)
BY DEF histogramVars, SerializeColumn, SerializeBucket, StoredCf

\* No histogram is dumped while it is built.
LEMMA BuildKeepsStatistics ==
  ASSUME StatsInv, BuildStep
  PROVE  StatsInv'
<1>1. HInv'
  BY NextInv DEF StatsInv, BuildStep
<1>2. ~Built
  <2>1. n \in Nat /\ pos \in 0 .. n + 1
    BY DEF StatsInv, HInv, HTypeOK
  <2>2. pos = 0 \/ InBuild
    BY DEF BuildStep, HistogramNext, Continue, CloseBucket
  <2> QED
    BY <2>1, <2>2 DEF Built, InBuild
<1>3. DOMAIN dumped = {}
  BY <1>2 DEF StatsInv, DumpedOK
<1>4. UNCHANGED <<stats, loaded, dumped>>
  BY DEF BuildStep
<1>5. DumpedOK'
  BY <1>3, <1>4 DEF DumpedOK
<1>6. StoredOK'
  BY <1>4 DEF StatsInv, StoredOK
<1>7. StatisticsComeBack'
  <2>1. loaded.call # "column" /\ (loaded.call = "meta" => loaded.is.ids = loaded.asked)
    BY <1>3 DEF StatsInv, StatisticsComeBack
  <2>2. loaded' = loaded
    BY <1>4
  <2> QED
    BY <2>1, <2>2 DEF StatisticsComeBack
<1> QED
  BY <1>1, <1>5, <1>6, <1>7 DEF StatsInv

LEMMA NothingLoaded ==
  ASSUME loaded' = Nothing \/ loaded' = Aborted
  PROVE  StatisticsComeBack'
BY DEF StatisticsComeBack, Nothing, Aborted

\* A dump replaces the message of its column only.
LEMMA DumpColumnKeepsStatistics ==
  ASSUME StatsInv, NEW t \in TableIds, NEW c \in ColumnIds, NEW type \in ColumnTypes,
         DumpColumnStatistic(t, c, type)
  PROVE  StatsInv'
<1> DEFINE key == EncodeColumnStatistic(t[1], t[2], c)
<1>1. Built /\ UNCHANGED histogramVars /\ loaded' = Nothing
  BY DEF DumpColumnStatistic
<1>2. PICK infinity : Store(key, SerializeColumn(t, c, type, infinity))
  BY DEF DumpColumnStatistic
<1>3. /\ DOMAIN dumped' = DOMAIN dumped \cup {<<t, c>>}
      /\ dumped'[<<t, c>>] = [type |-> type, buckets |-> buckets]
      /\ \A k \in DOMAIN dumped : k # <<t, c>> => dumped'[k] = dumped[k]
  BY DEF DumpColumnStatistic
<1>4. /\ DOMAIN stats' = DOMAIN stats \cup {key}
      /\ stats'[key] = SerializeColumn(t, c, type, infinity)
      /\ \A k \in DOMAIN stats : k # key => stats'[k] = stats[k]
  BY <1>2 DEF Store
<1>5. HInv' /\ Built' /\ buckets' = buckets
  BY <1>1, BuildUnchanged DEF StatsInv
<1> HIDE DEF key
<1>6. DumpedOK'
  <2> SUFFICES ASSUME NEW k \in DOMAIN dumped'
               PROVE  \E u \in TableIds, d \in ColumnIds, ty \in ColumnTypes :
                        /\ k = <<u, d>>
                        /\ Built'
                        /\ dumped'[k] = [type |-> ty, buckets |-> buckets']
                        /\ EncodeColumnStatistic(u[1], u[2], d) \in DOMAIN stats'
                        /\ \E i : stats'[EncodeColumnStatistic(u[1], u[2], d)]
                                    = SerializeColumn(u, d, ty, i)'
    BY DEF DumpedOK
  <2>1. CASE k = <<t, c>>
    <3>1. stats'[key] = SerializeColumn(t, c, type, infinity)'
      BY <1>1, <1>4, MessageUnchanged
    <3> QED
      BY <1>3, <1>4, <1>5, <2>1, <3>1 DEF key
  <2>2. CASE k # <<t, c>>
    <3>1. k \in DOMAIN dumped /\ dumped'[k] = dumped[k]
      BY <1>3, <2>2
    <3>2. PICK u \in TableIds, d \in ColumnIds, ty \in ColumnTypes :
            /\ k = <<u, d>>
            /\ dumped[k] = [type |-> ty, buckets |-> buckets]
            /\ EncodeColumnStatistic(u[1], u[2], d) \in DOMAIN stats
            /\ \E i : stats[EncodeColumnStatistic(u[1], u[2], d)] = SerializeColumn(u, d, ty, i)
      BY <3>1 DEF StatsInv, DumpedOK
    <3>3. PICK i : stats[EncodeColumnStatistic(u[1], u[2], d)] = SerializeColumn(u, d, ty, i)
      BY <3>2
    <3>4. EncodeColumnStatistic(u[1], u[2], d) # key
      BY <2>2, <3>2, StatisticKeysDiffer DEF key
    <3>5. SerializeColumn(u, d, ty, i)' = SerializeColumn(u, d, ty, i)
      BY <1>1, MessageUnchanged
    <3>6. /\ EncodeColumnStatistic(u[1], u[2], d) \in DOMAIN stats'
          /\ stats'[EncodeColumnStatistic(u[1], u[2], d)] = SerializeColumn(u, d, ty, i)'
      BY <1>4, <3>2, <3>3, <3>4, <3>5
    <3> QED
      BY <1>5, <3>1, <3>2, <3>6
  <2> QED
    BY <2>1, <2>2
<1>7. StoredOK'
  <2> SUFFICES ASSUME NEW k \in DOMAIN stats'
               PROVE  \/ \E u \in TableIds, d \in ColumnIds :
                            k = EncodeColumnStatistic(u[1], u[2], d) /\ <<u, d>> \in DOMAIN dumped'
                      \/ \E u \in TableIds :
                            k = EncodeMetaStatistic(u[1], u[2]) /\ stats'[k] = SerializeMeta(u)
    BY DEF StoredOK
  <2>1. CASE k = key
    BY <1>3, <2>1 DEF key
  <2>2. CASE k # key
    <3>1. k \in DOMAIN stats /\ stats'[k] = stats[k]
      BY <1>4, <2>2
    <3>2. \/ \E u \in TableIds, d \in ColumnIds :
               k = EncodeColumnStatistic(u[1], u[2], d) /\ <<u, d>> \in DOMAIN dumped
          \/ \E u \in TableIds :
               k = EncodeMetaStatistic(u[1], u[2]) /\ stats[k] = SerializeMeta(u)
      BY <3>1 DEF StatsInv, StoredOK
    <3> QED
      BY <1>3, <3>1, <3>2
  <2> QED
    BY <2>1, <2>2
<1>8. StatisticsComeBack'
  BY <1>1, NothingLoaded
<1> QED
  BY <1>5, <1>6, <1>7, <1>8 DEF StatsInv

\* A dump of a table leaves the messages of columns alone.
LEMMA DumpMetaKeepsStatistics ==
  ASSUME StatsInv, NEW t \in TableIds, DumpMetaStatistic(t)
  PROVE  StatsInv'
<1> DEFINE key == EncodeMetaStatistic(t[1], t[2])
<1>1. UNCHANGED histogramVars /\ loaded' = Nothing /\ dumped' = dumped
  BY DEF DumpMetaStatistic
<1>2. Store(key, SerializeMeta(t))
  BY DEF DumpMetaStatistic
<1>3. /\ DOMAIN stats' = DOMAIN stats \cup {key}
      /\ stats'[key] = SerializeMeta(t)
      /\ \A k \in DOMAIN stats : k # key => stats'[k] = stats[k]
  BY <1>2 DEF Store
<1>4. HInv' /\ (Built' <=> Built) /\ buckets' = buckets
  BY <1>1, BuildUnchanged DEF StatsInv
<1> HIDE DEF key
<1>5. DumpedOK'
  <2> SUFFICES ASSUME NEW k \in DOMAIN dumped
               PROVE  \E u \in TableIds, d \in ColumnIds, ty \in ColumnTypes :
                        /\ k = <<u, d>>
                        /\ Built'
                        /\ dumped[k] = [type |-> ty, buckets |-> buckets']
                        /\ EncodeColumnStatistic(u[1], u[2], d) \in DOMAIN stats'
                        /\ \E i : stats'[EncodeColumnStatistic(u[1], u[2], d)]
                                    = SerializeColumn(u, d, ty, i)'
    BY <1>1 DEF DumpedOK
  <2>1. PICK u \in TableIds, d \in ColumnIds, ty \in ColumnTypes :
          /\ k = <<u, d>>
          /\ Built
          /\ dumped[k] = [type |-> ty, buckets |-> buckets]
          /\ EncodeColumnStatistic(u[1], u[2], d) \in DOMAIN stats
          /\ \E i : stats[EncodeColumnStatistic(u[1], u[2], d)] = SerializeColumn(u, d, ty, i)
    BY DEF StatsInv, DumpedOK
  <2>2. PICK i : stats[EncodeColumnStatistic(u[1], u[2], d)] = SerializeColumn(u, d, ty, i)
    BY <2>1
  <2>3. EncodeColumnStatistic(u[1], u[2], d) # key
    BY StatisticKeysDiffer DEF key
  <2>4. SerializeColumn(u, d, ty, i)' = SerializeColumn(u, d, ty, i)
    BY <1>1, MessageUnchanged
  <2>5. /\ EncodeColumnStatistic(u[1], u[2], d) \in DOMAIN stats'
        /\ stats'[EncodeColumnStatistic(u[1], u[2], d)] = SerializeColumn(u, d, ty, i)'
    BY <1>3, <2>1, <2>2, <2>3, <2>4
  <2> QED
    BY <1>4, <2>1, <2>5
<1>6. StoredOK'
  <2> SUFFICES ASSUME NEW k \in DOMAIN stats'
               PROVE  \/ \E u \in TableIds, d \in ColumnIds :
                            k = EncodeColumnStatistic(u[1], u[2], d) /\ <<u, d>> \in DOMAIN dumped
                      \/ \E u \in TableIds :
                            k = EncodeMetaStatistic(u[1], u[2]) /\ stats'[k] = SerializeMeta(u)
    BY <1>1 DEF StoredOK
  <2>1. CASE k = key
    BY <1>3, <2>1 DEF key
  <2>2. CASE k # key
    BY <1>3, <2>2 DEF StatsInv, StoredOK
  <2> QED
    BY <2>1, <2>2
<1>7. StatisticsComeBack'
  BY <1>1, NothingLoaded
<1> QED
  BY <1>4, <1>5, <1>6, <1>7 DEF StatsInv

\* A step that only answers.
LEMMA AnswerKeepsStatistics ==
  ASSUME StatsInv, UNCHANGED <<histogramVars, stats, dumped>>
  PROVE  HInv' /\ DumpedOK' /\ StoredOK'
<1>1. UNCHANGED histogramVars /\ stats' = stats /\ dumped' = dumped
  OBVIOUS
<1>2. HInv' /\ (Built' <=> Built) /\ buckets' = buckets
  BY <1>1, BuildUnchanged DEF StatsInv
<1>3. \A t, c, type, infinity :
        SerializeColumn(t, c, type, infinity)' = SerializeColumn(t, c, type, infinity)
  BY <1>1, MessageUnchanged
<1>4. DumpedOK'
  BY <1>1, <1>2, <1>3 DEF StatsInv, DumpedOK
<1>5. StoredOK'
  BY <1>1 DEF StatsInv, StoredOK
<1> QED
  BY <1>2, <1>4, <1>5

\* A message that is found under the key of a column is that column's.
LEMMA LoadColumnKeepsStatistics ==
  ASSUME StatsInv, NEW t \in TableIds, NEW c \in ColumnIds, LoadColumnStatistic(t, c)
  PROVE  StatsInv'
<1> DEFINE key == EncodeColumnStatistic(t[1], t[2], c)
<1>1. UNCHANGED <<histogramVars, stats, dumped>>
  BY DEF LoadColumnStatistic
<1>2. loaded' = IF key \in DOMAIN stats
                THEN [call |-> "column", asked |-> <<t, c>>, is |-> DeserializeColumn(stats[key])]
                ELSE Aborted
  BY DEF LoadColumnStatistic
<1>3. CASE key \in DOMAIN stats
  <2>1. <<t, c>> \in DOMAIN dumped
    <3>1. \A u \in TableIds : key # EncodeMetaStatistic(u[1], u[2])
      BY StatisticKeysDiffer
    <3>2. PICK u \in TableIds, d \in ColumnIds :
            key = EncodeColumnStatistic(u[1], u[2], d) /\ <<u, d>> \in DOMAIN dumped
      BY <1>3, <3>1 DEF StatsInv, StoredOK
    <3>3. t = u /\ c = d
      BY <3>2, StatisticKeysDiffer
    <3> QED
      BY <3>2, <3>3
  <2>2. PICK u \in TableIds, d \in ColumnIds, type \in ColumnTypes :
          /\ <<t, c>> = <<u, d>>
          /\ Built
          /\ dumped[<<t, c>>] = [type |-> type, buckets |-> buckets]
          /\ \E i : stats[EncodeColumnStatistic(u[1], u[2], d)] = SerializeColumn(u, d, type, i)
    BY <2>1 DEF StatsInv, DumpedOK
  <2>3. PICK infinity : stats[key] = SerializeColumn(t, c, type, infinity)
    BY <2>2
  <2>4. loaded' = [call |-> "column", asked |-> <<t, c>>, is |-> ColumnOf(t, c, type, infinity)]
    BY <1>2, <1>3, <2>3 DEF ColumnOf
  <2>5. LET is == ColumnOf(t, c, type, infinity).histogram
        IN  /\ ColumnOf(t, c, type, infinity).ids = <<t, c>>
            /\ Len(is) = Len(buckets)
            /\ \A j \in 1 .. Len(buckets) :
                 /\ is[j].count = buckets[j].count /\ is[j].ndv = buckets[j].ndv
                 /\ type = "String" =>
                      /\ is[j].start = ValueAt(type, buckets[j].start)
                      /\ is[j].end = ValueAt(type, buckets[j].end)
                 /\ total = Upto(n) => is[j].cf = (IF j = Len(buckets) THEN 1 ELSE 0)
    BY <2>2, ColumnComesBack DEF StatsInv
  <2>6. PICK column : column = ColumnOf(t, c, type, infinity)
    OBVIOUS
  <2>7. /\ loaded'.call = "column" /\ loaded'.asked = <<t, c>> /\ loaded'.is = column
        /\ column.ids = <<t, c>>
    BY <2>4, <2>5, <2>6
  <2>8. /\ Len(column.histogram) = Len(buckets)
        /\ \A j \in 1 .. Len(buckets) :
             /\ column.histogram[j].count = buckets[j].count
             /\ column.histogram[j].ndv = buckets[j].ndv
             /\ type = "String" =>
                  /\ column.histogram[j].start = ValueAt(type, buckets[j].start)
                  /\ column.histogram[j].end = ValueAt(type, buckets[j].end)
             /\ total = Upto(n) => column.histogram[j].cf = (IF j = Len(buckets) THEN 1 ELSE 0)
    BY <2>5, <2>6
  <2>9. /\ dumped' = dumped /\ total' = total /\ n' = n /\ upto' = upto /\ buckets' = buckets
        /\ dumped[<<t, c>>].type = type /\ dumped[<<t, c>>].buckets = buckets
    BY <1>1, <2>2 DEF histogramVars
  <2>10. Upto(n)' = Upto(n)
    BY <2>9 DEF Upto, RowsOf
  <2>11. StatisticsComeBack'
    BY <2>1, <2>7, <2>8, <2>9, <2>10 DEF StatisticsComeBack
  <2> QED
    BY <1>1, <2>11, AnswerKeepsStatistics DEF StatsInv
<1>4. CASE key \notin DOMAIN stats
  <2>1. StatisticsComeBack'
    BY <1>2, <1>4, NothingLoaded
  <2> QED
    BY <1>1, <2>1, AnswerKeepsStatistics DEF StatsInv
<1> QED
  BY <1>3, <1>4

LEMMA LoadMetaKeepsStatistics ==
  ASSUME StatsInv, NEW t \in TableIds, LoadMetaStatistic(t)
  PROVE  StatsInv'
<1> DEFINE key == EncodeMetaStatistic(t[1], t[2])
<1>1. UNCHANGED <<histogramVars, stats, dumped>>
  BY DEF LoadMetaStatistic
<1>2. loaded' = IF key \in DOMAIN stats
                THEN [call |-> "meta", asked |-> t, is |-> DeserializeMeta(stats[key])] ELSE Aborted
  BY DEF LoadMetaStatistic
<1>3. CASE key \in DOMAIN stats
  <2>1. \A u \in TableIds, d \in ColumnIds : key # EncodeColumnStatistic(u[1], u[2], d)
    BY StatisticKeysDiffer
  <2>2. PICK u \in TableIds : key = EncodeMetaStatistic(u[1], u[2]) /\ stats[key] = SerializeMeta(u)
    BY <1>3, <2>1 DEF StatsInv, StoredOK
  <2>4. t = u
    BY <2>2, MetaKeysDiffer
  <2>5. loaded' = [call |-> "meta", asked |-> t, is |-> [ids |-> t]]
    BY <1>2, <1>3, <2>2, <2>4 DEF SerializeMeta, DeserializeMeta
  <2>6. StatisticsComeBack'
    BY <2>5 DEF StatisticsComeBack
  <2> QED
    BY <1>1, <2>6, AnswerKeepsStatistics DEF StatsInv
<1>4. CASE key \notin DOMAIN stats
  <2>1. StatisticsComeBack'
    BY <1>2, <1>4, NothingLoaded
  <2> QED
    BY <1>1, <2>1, AnswerKeepsStatistics DEF StatsInv
<1> QED
  BY <1>3, <1>4

LEMMA StatisticsInitInv == StatisticsInit => StatsInv
<1> SUFFICES ASSUME StatisticsInit PROVE StatsInv
  OBVIOUS
<1>1. HistogramInit /\ stats = <<>> /\ dumped = <<>> /\ loaded = Nothing
  BY DEF StatisticsInit
<1>2. HInv
  BY <1>1, InitInv
<1>3. DOMAIN dumped = {} /\ DOMAIN stats = {}
  BY <1>1
<1>4. StatisticsComeBack
  BY <1>1 DEF StatisticsComeBack, Nothing
<1> QED
  BY <1>2, <1>3, <1>4 DEF StatsInv, DumpedOK, StoredOK

LEMMA StatisticsNextInv == StatsInv /\ [StatisticsNext]_statisticsVars => StatsInv'
<1> SUFFICES ASSUME StatsInv, [StatisticsNext]_statisticsVars PROVE StatsInv'
  OBVIOUS
<1>1. ASSUME NEW t \in TableIds, NEW c \in ColumnIds, NEW type \in ColumnTypes,
             DumpColumnStatistic(t, c, type)
      PROVE  StatsInv'
  BY <1>1, DumpColumnKeepsStatistics
<1>2. ASSUME NEW t \in TableIds, NEW c \in ColumnIds, LoadColumnStatistic(t, c) PROVE StatsInv'
  BY <1>2, LoadColumnKeepsStatistics
<1>3. ASSUME NEW t \in TableIds, DumpMetaStatistic(t) PROVE StatsInv'
  BY <1>3, DumpMetaKeepsStatistics
<1>4. ASSUME NEW t \in TableIds, LoadMetaStatistic(t) PROVE StatsInv'
  BY <1>4, LoadMetaKeepsStatistics
<1>5. CASE UNCHANGED statisticsVars
  <2>1. UNCHANGED <<histogramVars, stats, dumped>> /\ loaded' = loaded
    BY <1>5 DEF statisticsVars
  <2>2. dumped' = dumped /\ total' = total /\ n' = n /\ upto' = upto
    BY <2>1 DEF histogramVars
  <2>3. StatisticsComeBack'
    BY <2>1, <2>2 DEF StatsInv, StatisticsComeBack, Upto, RowsOf
  <2> QED
    BY <2>1, <2>3, AnswerKeepsStatistics DEF StatsInv
<1> QED
  BY <1>1, <1>2, <1>3, <1>4, <1>5, BuildKeepsStatistics DEF StatisticsNext

\* A statistic that is loaded is the one that was dumped for its ids: for any ids
\* that are uint64_t, any value map and bucket size, and any dumps and loads of
\* columns and tables in between.
THEOREM StatisticsReturn == StatisticsSpec => []StatisticsComeBack
<1>1. StatsInv => StatisticsComeBack
  BY DEF StatsInv
<1> QED
  BY <1>1, StatisticsInitInv, StatisticsNextInv, PTL DEF StatisticsSpec

\* Dumps and loads do not disturb a histogram, so that what is proved of
\* BuildHistogram holds next to them.
THEOREM StatisticsBuildHistograms == StatisticsSpec => HistogramSpec
<1>1. StatisticsInit => HistogramInit
  BY DEF StatisticsInit
<1>2. [StatisticsNext]_statisticsVars => [HistogramNext]_histogramVars
  BY DEF StatisticsNext, statisticsVars, BuildStep, DumpColumnStatistic, LoadColumnStatistic,
         DumpMetaStatistic, LoadMetaStatistic
<1> QED
  BY <1>1, <1>2, PTL DEF StatisticsSpec, HistogramSpec

=============================================================================
