------------------------------ MODULE TrendsMC ------------------------------
(***************************************************************************)
(* Charts over the instance of IngestMC: a narrow window asked for reading *)
(* by reading and wide ones in buckets of two or three, that start and     *)
(* meet inside a bucket.                                                   *)
(***************************************************************************)
EXTENDS Trends, IngestMC

SomeCharts == {<<2, 3, 5>>, <<1, 3, 5>>, <<1, 2, 6>>}
Ladder == {[upTo |-> 4, bucket |-> 2]}
=============================================================================
