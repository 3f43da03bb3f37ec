------------------------------- MODULE Trends -------------------------------
(***************************************************************************)
(* The chart of a tag of a unit, read while ingestion writes: the query a  *)
(* page sends for a window, what the contract admits of it, the answer of  *)
(* TrendsService over the readings committed at that moment, and the point *)
(* the page calls the latest.  A read changes nothing, so everything here  *)
(* is a function of the tables of Ingest.  Values are left to the readings *)
(* they are computed from: a bucket is the set of readings it aggregates.  *)
(***************************************************************************)
EXTENDS Ingest, FiniteSets

CONSTANTS
  Charts,        \* windows read: <<from, middle, to>>, whole or in two halves
  RawUpTo,       \* widest window asked for reading by reading
  BucketLadder,  \* wider windows: records of the widest one and its bucket
  CoarseBucket,  \* bucket of windows wider than those
  BucketsMax,    \* TRENDS_BUCKETS_MAX
  RowLimit       \* TRENDS_LIMIT_DEFAULT

ASSUME ChartsAssumption ==
  \A c \in Charts : /\ c \in Int \X Int \X Int
                    /\ c[1] < c[2] /\ c[2] < c[3]
ASSUME BucketsAssumption ==
  /\ RawUpTo \in Nat /\ BucketsMax \in Nat /\ RowLimit \in Nat \ {0}
  /\ CoarseBucket \in Nat \ {0}
  /\ \A step \in BucketLadder : step.upTo \in Nat /\ step.bucket \in Nat \ {0}

----------------------------------------------------------------------------
\* The query

Raw == 0

\* The bucket of the first rung that reaches the width.
PolicyForWidth(width) ==
  IF width <= RawUpTo THEN Raw
  ELSE IF \E step \in BucketLadder : width <= step.upTo
       THEN (CHOOSE step \in BucketLadder :
               /\ width <= step.upTo
               /\ \A other \in BucketLadder :
                    width <= other.upTo => step.upTo <= other.upTo).bucket
       ELSE CoarseBucket

Query(from, to, bucket) == [from |-> from, to |-> to, bucket |-> bucket]

\* The refines of the schema: a window the right way round, of not too many
\* buckets.
Admitted(q) ==
  /\ q.from < q.to
  /\ q.bucket # Raw => q.to - q.from <= BucketsMax * q.bucket

----------------------------------------------------------------------------
\* The answer

\* A chart is drawn for a unit and a tag, whatever sensor a reading is from.
Line(channel) == <<channel[1], channel[3]>>

\* Buckets aggregate good readings only; a raw answer has every quality.
Selected(c, q) ==
  {r \in readings : /\ Line(Key(r)) = Line(c)
                    /\ q.from <= r.timestamp /\ r.timestamp < q.to
                    /\ q.bucket # Raw => r.quality = "good"}

DateBin(width, t) == t - (t % width)

\* Variant: the series starts where the window does.
GridFromWindow(q) == {b \in q.from .. q.to - 1 : DateBin(q.bucket, b) = b}

\* generate_series, from the bin of the first instant to before the last.
Grid(q) == {b \in DateBin(q.bucket, q.from) .. q.to - 1 : DateBin(q.bucket, b) = b}

\* The readings joined to one bucket of the grid; an empty bucket has no value.
Bucket(c, q, b) == {r \in Selected(c, q) : DateBin(q.bucket, r.timestamp) = b}

\* A raw answer: the first rows in order of time, ties in any order, RowLimit
\* of them or all.
Pages(c, q) ==
  LET rows == Selected(c, q)
  IN  {page \in SUBSET rows :
         /\ \/ Cardinality(page) = RowLimit
            \/ page = rows /\ Cardinality(rows) < RowLimit
         /\ \A r \in page, s \in rows \ page : r.timestamp <= s.timestamp}

Filled(c, q) == {b \in Grid(q) : Bucket(c, q, b) # {}}

\* Variant: the first bucket with a value.
FirstPoint(c, q) == LET filled == Filled(c, q) IN {b \in filled : \A d \in filled : b <= d}

\* trendsLatestPoint of a bucketed answer: the last bucket with a value, in a
\* set, or {}.
LatestPoint(c, q) == LET filled == Filled(c, q) IN {b \in filled : \A d \in filled : d <= b}

----------------------------------------------------------------------------
\* Two charts that meet, asked with the buckets of the whole window.
Halves(w) ==
  LET bucket == PolicyForWidth(w[3] - w[1])
  IN  {Query(w[1], w[2], bucket), Query(w[2], w[3], bucket)}

Whole(w) == Query(w[1], w[3], PolicyForWidth(w[3] - w[1]))

\* Every reading of a window is counted by one bucket of one of two charts that
\* meet within it, also when their seam cuts a bucket in two: no bucket of the
\* grid is missing, and none counts what another does.
TrendsComplete ==
  \A c \in Channels, w \in Charts :
    Whole(w).bucket # Raw =>
      \A r \in Selected(c, Whole(w)) :
        \E q \in Halves(w) : \E b \in Grid(q) :
          \A p \in Halves(w) : \A d \in Grid(p) : r \in Bucket(c, p, d) <=> p = q /\ d = b

\* A chart over the live reading of a channel ends at that reading, and runs
\* past it only with readings of the channel that the projection skipped or, in
\* a raw answer, that are not good, and with other sensors of the same tag.  The
\* one exception is a raw answer cut off at the row limit: it holds the oldest
\* readings, and its end may be older than the live value.
ChartEndsAtLive ==
  \A c \in Channels, w \in Charts :
    LET q == Whole(w)
    IN  \A l \in live[c] :
          Admitted(q) /\ q.from <= l.timestamp /\ l.timestamp < q.to =>
            IF q.bucket # Raw
            THEN \E b \in LatestPoint(c, q) :
                   \/ l \in Bucket(c, q, b)
                   \/ /\ b > DateBin(q.bucket, l.timestamp)
                      /\ \A r \in Bucket(c, q, b) : Key(r) = c => r \in skipped
            ELSE \A page \in Pages(c, q) :
                   \/ Cardinality(page) = RowLimit
                   \/ /\ l \in page
                      /\ \A r \in page : Key(r) = c /\ r.timestamp > l.timestamp =>
                                           r \in skipped \/ r.quality # "good"
=============================================================================
