------------------------------ MODULE IngestMC ------------------------------
(***************************************************************************)
(* Instances of Ingest for TLC: one gateway feeding one channel with a     *)
(* high alarm rule, and samples chosen so that they collide: same identity *)
(* and different values, newer and older, resent, rejected.                *)
(***************************************************************************)
EXTENDS Ingest, TLC

OneSource ==
  [x \in {"gateway"} |-> [tenant |-> "acme", status |-> "active", kind |-> "edge_gateway"]]

\* The channel's sensor is found through its binding.
OneMapping ==
  [x \in {<<"gateway", "pt101">>} |->
     [enabled |-> TRUE, tenant |-> "acme", unit |-> "unit1", sensor |-> Null,
      tag |-> "pressure", unitOverride |-> Null]]

OneBinding == {[sensor |-> "sensor1", unit |-> "unit1", tag |-> "pressure"]}
OneTag == [x \in {"pressure"} |-> "psi"]

HighRule ==
  [id |-> "high", unit |-> "unit1", tag |-> "pressure",
   highHigh |-> {}, high |-> {6}, lowLow |-> {}, low |-> {}]

Sample(timestamp, value) ==
  [source |-> "gateway", identifier |-> "pt101", timestamp |-> timestamp,
   sequence |-> NoSequence, value |-> value, finite |-> TRUE, plain |-> TRUE,
   engineeringUnit |-> "psi", quality |-> "good"]

Calm == Sample(2, 5)
Hot == Sample(3, 7)
LateHot == Sample(1, 9)
BadAgain == [Hot EXCEPT !.value = 8, !.quality = "bad"]
WasHot == [Calm EXCEPT !.value = 9]
Padded == [Calm EXCEPT !.plain = FALSE, !.sequence = 1]
Unmapped == [Calm EXCEPT !.identifier = "pt999"]

\* A reading above the alarm threshold; a second one for its time, which is not
\* good, ahead of an older one; and one that no mapping knows ahead of a
\* sequenced one below the threshold, written unplainly, at the time of the
\* older one.
CollidingSamples == {Hot, BadAgain, WasHot, Padded, Unmapped}
CollidingBatches == {<<Hot>>, <<BadAgain, WasHot>>, <<Unmapped, Padded>>}

RaceSamples == {Calm, Hot, LateHot}
RaceBatches == {<<Calm>>, <<Hot>>, <<LateHot>>}

Rules1 == {HighRule}
=============================================================================
