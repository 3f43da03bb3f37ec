------------------------------ MODULE ConsoleMC ------------------------------
(***************************************************************************)
(* Two units: one with a sensor that emits and one that is disabled, one   *)
(* with a sensor that emits and a tile without a sensor.                   *)
(***************************************************************************)
EXTENDS Console

CONSTANTS a, b, disabled, bare, unit1, unit2, null

MCKeys == {a, b, disabled, bare}
MCMapped == {a, b, disabled}
MCEnabled == {a, b}
MCJobOf == [k \in MCKeys |-> IF k \in {a, disabled} THEN unit1 ELSE unit2]
MCValues == {1, 3}
MCDefaults == [delayedAfter |-> 1, staleAfter |-> 2, offlineAfter |-> 3]
MCOverrides == [k \in {b} |-> [staleAfter |-> 4, offlineAfter |-> 2]]
MCThresholds ==
  [k \in {a, b} |->
     IF k = a THEN [alarmHigh |-> 3, warningLow |-> 0] ELSE [warningHigh |-> 3]]
MCProfile == <<a, b>>
MCEmits == [k \in {a, b} |-> IF k = a THEN {1, 3} ELSE {3}]
=============================================================================
