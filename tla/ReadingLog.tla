------------------------------ MODULE ReadingLog ------------------------------
(***************************************************************************)
(* What the browser's telemetry store promises the views that read it: of  *)
(* every tag it remembers the last Capacity readings that arrived, in the  *)
(* order they arrived, and each is later than the one before.              *)
(***************************************************************************)
EXTENDS Integers, Sequences

CONSTANTS Keys, Times, Values, Capacity

VARIABLE log

Newest(k) == log[k][Len(log[k])]

Remember(k, reading) ==
  /\ log[k] # <<>> => reading.ts > Newest(k).ts
  /\ LET longer == Append(log[k], reading)
     IN  log' = [log EXCEPT ![k] = IF Len(longer) > Capacity THEN Tail(longer) ELSE longer]

Init == log = [k \in Keys |-> <<>>]

Next ==
  \E k \in Keys :
    /\ log'[k] # log[k]
    /\ \E t \in Times, v \in Values : Remember(k, [ts |-> t, value |-> v])

Spec == Init /\ [][Next]_log
=============================================================================
