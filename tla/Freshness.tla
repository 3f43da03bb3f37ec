------------------------------ MODULE Freshness ------------------------------
(***************************************************************************)
(* What the console says of a sensor: how fresh its last reading is        *)
(* (quality/stale.ts), which threshold it crosses (alarms/evaluator.ts),   *)
(* and the four views built from the two: a tile, the entry of a unit's    *)
(* snapshot and the badge over it, the header's counts, and the finding of *)
(* the alarm center.  Each view asks the two in its own code.              *)
(***************************************************************************)
EXTENDS Integers, FiniteSets

CONSTANTS
  Keys,        \* the (job, tag) pairs with a tile on the screen
  Mapped,      \* those the job's commissioning snapshot has a sensor for
  Enabled,     \* those whose sensor is enabled
  Values,
  NoValue,     \* the value of a reading of bad quality
  NoReading,
  Defaults,    \* DEFAULT_STALE_TIMINGS
  Overrides,   \* [subset of Keys -> part of Defaults]
  Thresholds   \* [subset of Keys -> [subset of Bounds -> value]]

Fields == {"delayedAfter", "staleAfter", "offlineAfter"}
Bounds == {"alarmHigh", "alarmLow", "warningHigh", "warningLow"}

ASSUME SensorsAssumption ==
  /\ Enabled \subseteq Mapped /\ Mapped \subseteq Keys
  /\ Values \subseteq Int /\ NoValue \notin Values
ASSUME TimingsAssumption ==
  /\ Defaults \in [Fields -> Nat \ {0}]
  /\ DOMAIN Overrides \subseteq Keys
  /\ \A k \in DOMAIN Overrides :
       /\ DOMAIN Overrides[k] \subseteq Fields
       /\ \A f \in DOMAIN Overrides[k] : Overrides[k][f] \in Nat \ {0}

Alarms == {"alarm_high", "alarm_low"}
Warnings == {"warning_high", "warning_low"}
Silences == {"stale", "offline"}
AlarmStates == Alarms \cup Warnings \cup {"no_data", "normal", "disabled"}
Statuses == Silences \cup {"live", "delayed"}

----------------------------------------------------------------------------
\* Freshness

\* resolveTimings
Timing(k, field) ==
  IF k \in DOMAIN Overrides
  THEN IF field \in DOMAIN Overrides[k] THEN Overrides[k][field] ELSE Defaults[field]
  ELSE Defaults[field]

\* A clock behind the reading makes no negative age.
Age(reading, now) == IF now > reading.ts THEN now - reading.ts ELSE 0

\* The first bound reached in this order counts, whatever their order in time.
AgeStatus(k, age) ==
  IF age >= Timing(k, "offlineAfter") THEN "offline"
  ELSE IF age >= Timing(k, "staleAfter") THEN "stale"
  ELSE IF age >= Timing(k, "delayedAfter") THEN "delayed" ELSE "live"

\* computeStaleState: a sensor never heard of is offline.
Status(k, reading, now) ==
  IF reading = NoReading THEN "offline" ELSE AgeStatus(k, Age(reading, now))

----------------------------------------------------------------------------
\* Thresholds

Above(k, bound, value) ==
  bound \in DOMAIN Thresholds[k] /\ value >= Thresholds[k][bound]
Below(k, bound, value) ==
  bound \in DOMAIN Thresholds[k] /\ value <= Thresholds[k][bound]

\* evaluateReading: a sensor without thresholds is not evaluated.
Evaluate(k, reading) ==
  IF k \notin Enabled THEN "disabled"
  ELSE IF reading.value = NoValue THEN "no_data"
  ELSE IF k \notin DOMAIN Thresholds THEN "disabled"
  ELSE IF Above(k, "alarmHigh", reading.value) THEN "alarm_high"
  ELSE IF Below(k, "alarmLow", reading.value) THEN "alarm_low"
  ELSE IF Above(k, "warningHigh", reading.value) THEN "warning_high"
  ELSE IF Below(k, "warningLow", reading.value) THEN "warning_low" ELSE "normal"

----------------------------------------------------------------------------
\* The views

\* selectAlarmState, and what the tile shows without a result.
TileState(k, reading, now) ==
  IF reading = NoReading \/ Status(k, reading, now) \in Silences
  THEN "no_data"
  ELSE Evaluate(k, reading)

\* selectLiveValue: a tile without a reading is offline.
TileStatus(k, reading, now) == Status(k, reading, now)

\* selectUnitTelemetrySnapshot, for one mapped sensor
UnitAlarm(k, reading, now) ==
  IF k \notin Enabled THEN "disabled"
  ELSE IF reading = NoReading \/ Status(k, reading, now) \in Silences
       THEN "no_data"
       ELSE Evaluate(k, reading)

\* rollUpUnitStatus over the tiles shown: a tile without a sensor has no entry
\* and counts as silent, a disabled sensor does not count at all.
Considered(shown, entry) ==
  {k \in shown : k \in Mapped => entry[k].alarm # "disabled"}
Reporting(shown, entry) ==
  {k \in Considered(shown, entry) \cap Mapped :
     entry[k].stale \notin Silences /\ entry[k].alarm # "no_data"}
\* Variant: no entry, no tile.
BadgeOfEntries(shown, entry) ==
  IF \E k \in Considered(shown, entry) \cap Mapped : entry[k].alarm \in Alarms THEN "ALARM"
  ELSE IF Reporting(shown, entry) = {} THEN "OFFLINE"
  ELSE IF Reporting(shown, entry) # Considered(shown, entry) \cap Mapped
       THEN "DEGRADED" ELSE "TESTING"
Badge(shown, entry) ==
  IF \E k \in Considered(shown, entry) \cap Mapped : entry[k].alarm \in Alarms THEN "ALARM"
  ELSE IF Reporting(shown, entry) = {} THEN "OFFLINE"
  ELSE IF Reporting(shown, entry) # Considered(shown, entry) THEN "DEGRADED" ELSE "TESTING"

\* summarizeAlarms: the sensors behind each of the header's three counts.
Counted(k, reading, now) ==
  IF k \notin Enabled THEN "none"
  ELSE IF Status(k, reading, now) \in Silences THEN "stale"
  ELSE IF reading = NoReading THEN "none"
  ELSE IF Evaluate(k, reading) \in Alarms THEN "alarm"
  ELSE IF Evaluate(k, reading) \in Warnings THEN "warning" ELSE "none"

\* evaluateOne: what there is to raise an event about, "none" if nothing.
Finding(k, reading, now) ==
  IF k \notin Enabled THEN "none"
  ELSE IF Status(k, reading, now) \in Silences THEN Status(k, reading, now)
  ELSE IF reading = NoReading THEN "none"
  ELSE IF Evaluate(k, reading) \in {"normal", "disabled"} THEN "none"
  ELSE Evaluate(k, reading)
=============================================================================
