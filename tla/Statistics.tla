----------------------------- MODULE Statistics -----------------------------
(***************************************************************************)
(* sql/statistics: a histogram becomes part of a ColumnStatistic, which    *)
(* statistics.cc stores as a protobuf message and loads again, as it does  *)
(* the MetaStatistic of a table.                                           *)
(*                                                                         *)
(* stats   the stored messages, by key                                     *)
(* loaded  the answer to the last call, if it loads                        *)
(* dumped  history: the histogram dumped for a column and the type of its  *)
(*         values, by its ids                                              *)
(***************************************************************************)
EXTENDS Histogram, Codec

CONSTANTS
  ColumnTypes,   \* types of columns
  TableIds,      \* tables, as <<db id, table id>>
  ColumnIds      \* ids of columns

\* Ids are uint64_t.
ASSUME StatisticsAssumption ==
  LET Id == 0 .. Pow256[W64] - 1
  IN  TableIds \subseteq Id \X Id /\ ColumnIds \subseteq Id

VARIABLES stats, loaded, dumped

statisticsVars == <<histogramVars, stats, loaded, dumped>>

\* The value at a position of the map.
ValueAt(type, p) ==
  IF type = "String" THEN NewValue("String", <<96 + p>>) ELSE NewValue(type, p)

\* cf is a double in a bucket and a uint64 in the message: its fraction is lost.
\* A total that wrapped to 0 makes it infinite, and infinity some uint64.
StoredCf(cf, infinity) == IF total = 0 THEN infinity ELSE cf \div total

\* Mutant: both ends are set to the start.
SerializeStartTwice(type, b, infinity) ==
  [start |-> EncodeExprValue(ValueAt(type, b.start)), end |-> EncodeExprValue(ValueAt(type, b.start)),
   count |-> b.count, ndv |-> b.ndv, cf |-> StoredCf(b.cf, infinity)]

SerializeBucket(type, b, infinity) ==
  [start |-> EncodeExprValue(ValueAt(type, b.start)), end |-> EncodeExprValue(ValueAt(type, b.end)),
   count |-> b.count, ndv |-> b.ndv, cf |-> StoredCf(b.cf, infinity)]

\* Both ends are read as strings, whatever they were.
DeserializeBucket(proto) ==
  [start |-> DecodeExprValue(proto.start, "String").val, end |-> DecodeExprValue(proto.end, "String").val,
   count |-> proto.count, ndv |-> proto.ndv, cf |-> proto.cf]

\* ColumnStatistic::Serialize and Deserialize; the other scalars of the message
\* travel like the ids.
SerializeColumn(t, c, type, infinity) ==
  [ids |-> <<t, c>>,
   histogram |-> [j \in 1 .. Len(buckets) |-> SerializeBucket(type, buckets[j], infinity)]]

DeserializeColumn(proto) ==
  [ids |-> proto.ids,
   histogram |-> [j \in DOMAIN proto.histogram |-> DeserializeBucket(proto.histogram[j])]]

\* MetaStatistic::Serialize and Deserialize; a comment has no field in the message.
SerializeMeta(t) == [ids |-> t]

DeserializeMeta(proto) == [ids |-> proto.ids]

Store(key, proto) ==
  stats' = [k \in DOMAIN stats \cup {key} |-> IF k = key THEN proto ELSE stats[k]]

Nothing == [call |-> "none"]

Aborted == [call |-> "aborted"]

StatisticsInit ==
  /\ HistogramInit
  /\ stats = <<>> /\ dumped = <<>>
  /\ loaded = Nothing

BuildStep == HistogramNext /\ UNCHANGED <<stats, loaded, dumped>>

DumpColumnStatistic(t, c, type) ==
  /\ Built /\ pos > 0
  /\ \E infinity \in IF total = 0 THEN {0, SizeSpan \div 2} ELSE {0} :
       Store(EncodeColumnStatistic(t[1], t[2], c), SerializeColumn(t, c, type, infinity))
  /\ dumped' = [k \in DOMAIN dumped \cup {<<t, c>>} |->
                  IF k = <<t, c>> THEN [type |-> type, buckets |-> buckets] ELSE dumped[k]]
  /\ loaded' = Nothing
  /\ UNCHANGED histogramVars

\* An assertion ends the program when there is no record.
LoadColumnStatistic(t, c) ==
  LET key == EncodeColumnStatistic(t[1], t[2], c)
  IN  /\ loaded' = IF key \in DOMAIN stats
                   THEN [call |-> "column", asked |-> <<t, c>>, is |-> DeserializeColumn(stats[key])]
                   ELSE Aborted
      /\ UNCHANGED <<histogramVars, stats, dumped>>

DumpMetaStatistic(t) ==
  /\ Store(EncodeMetaStatistic(t[1], t[2]), SerializeMeta(t))
  /\ loaded' = Nothing
  /\ UNCHANGED <<histogramVars, dumped>>

LoadMetaStatistic(t) ==
  LET key == EncodeMetaStatistic(t[1], t[2])
  IN  /\ loaded' = IF key \in DOMAIN stats
                   THEN [call |-> "meta", asked |-> t, is |-> DeserializeMeta(stats[key])] ELSE Aborted
      /\ UNCHANGED <<histogramVars, stats, dumped>>

StatisticsNext ==
  /\ loaded # Aborted
  /\ \/ BuildStep
     \/ \E t \in TableIds :
          \/ DumpMetaStatistic(t)
          \/ LoadMetaStatistic(t)
          \/ \E c \in ColumnIds, type \in ColumnTypes : DumpColumnStatistic(t, c, type)
          \/ \E c \in ColumnIds : LoadColumnStatistic(t, c)

StatisticsSpec == StatisticsInit /\ [][StatisticsNext]_statisticsVars

-----------------------------------------------------------------------------
(* Properties *)

\* A statistic that is loaded is the one dumped for these ids, the counts of its
\* buckets and the ends of buckets of strings included, though the message gives
\* ends no type and a frequency no fraction: that comes back as 0, and as 1 for
\* the last bucket.
StatisticsComeBack ==
  loaded.call \in {"column", "meta"} =>
    /\ loaded.is.ids = loaded.asked
    /\ loaded.call = "column" =>
         /\ loaded.asked \in DOMAIN dumped
         /\ LET was == dumped[loaded.asked].buckets
                type == dumped[loaded.asked].type
                is  == loaded.is.histogram
            IN  /\ Len(is) = Len(was)
                /\ \A j \in 1 .. Len(was) :
                     /\ is[j].count = was[j].count /\ is[j].ndv = was[j].ndv
                     /\ type = "String" =>
                          is[j].start = ValueAt(type, was[j].start) /\ is[j].end = ValueAt(type, was[j].end)
                     /\ total = Upto(n) => is[j].cf = (IF j = Len(was) THEN 1 ELSE 0)

=============================================================================
