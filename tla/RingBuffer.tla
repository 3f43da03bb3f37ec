------------------------------ MODULE RingBuffer ------------------------------
(***************************************************************************)
(* lib/realtime/ringBuffer.ts: the buffer that keeps the last Capacity     *)
(* readings of a tag in a fixed array.  Slots count from 0, as there.      *)
(***************************************************************************)
EXTENDS Integers, Sequences

CONSTANTS
  Capacity,
  Undefined   \* an array slot that was never written

\* The constructor throws on any other capacity.
ASSUME CapacityAssumption == Capacity \in Nat \ {0}

Slots == 0 .. Capacity - 1

Rings(Values) ==
  [data : [Slots -> Values \cup {Undefined}], head : Slots, size : 0 .. Capacity]

EmptyRing == [data |-> [i \in Slots |-> Undefined], head |-> 0, size |-> 0]

\* Variant: the size keeps growing once the buffer is full.
PushGrowing(ring, value) ==
  [data |-> [ring.data EXCEPT ![ring.head] = value],
   head |-> (ring.head + 1) % Capacity,
   size |-> ring.size + 1]

Push(ring, value) ==
  [data |-> [ring.data EXCEPT ![ring.head] = value],
   head |-> (ring.head + 1) % Capacity,
   size |-> IF ring.size < Capacity THEN ring.size + 1 ELSE ring.size]

Latest(ring) ==
  IF ring.size = 0
  THEN Undefined
  ELSE ring.data[(ring.head - 1 + Capacity) % Capacity]

Oldest(ring) == (ring.head - ring.size + Capacity) % Capacity

\* Variant: the array as it lies, from slot 0.
ToArrayUnrotated(ring) == [i \in 1 .. ring.size |-> ring.data[i - 1]]

\* The retained values, the oldest first.
ToArray(ring) ==
  [i \in 1 .. ring.size |-> ring.data[(Oldest(ring) + i - 1) % Capacity]]
=============================================================================
