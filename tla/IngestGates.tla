---------------------------- MODULE IngestGates ----------------------------
(***************************************************************************)
(* What TelemetryIngestionService decides about a sample before it writes  *)
(* anything: the reading's key, or the first reason to quarantine it; and  *)
(* what it compares when the reading turns out to be stored already.  The  *)
(* tables it reads here (sources, mappings, bindings, tags, rules) have no *)
(* writer in this program.                                                 *)
(***************************************************************************)
EXTENDS Integers, FiniteSets

CONSTANTS
  Sources,        \* integration_sources: id -> [tenant, status, kind]
  Mappings,       \* integration_mappings: <<source, identifier>> -> record
  Bindings,       \* active sensor_tag_bindings: a set of [sensor, unit, tag]
  CanonicalUnit,  \* canonical_tags: tag -> canonical unit
  MaxFutureSkew,  \* INGESTION_MAX_FUTURE_SKEW_MS, in clock ticks
  MaxLateWindow,  \* INGESTION_MAX_LATE_WINDOW_MS, in clock ticks
  Rules           \* alarm_rules that are current and enabled

ASSUME RulesAssumption == IsFiniteSet(Rules)

Null == "null"

----------------------------------------------------------------------------
\* The gates in the order they are applied; "" lets the sample through.

SourceReason(s) ==
  IF s.source \notin DOMAIN Sources THEN "unknown_source"
  ELSE IF Sources[s.source].status # "active" THEN "inactive_context"
  ELSE ""

MappingOf(s) == Mappings[<<s.source, s.identifier>>]

MappingReason(s) ==
  IF <<s.source, s.identifier>> \notin DOMAIN Mappings THEN "unknown_mapping"
  ELSE IF ~MappingOf(s).enabled THEN "disabled_mapping"
  ELSE IF MappingOf(s).tenant # Sources[s.source].tenant THEN "tenant_mismatch"
  ELSE ""

\* Sensors of the mapping's unit bound to its tag, and the binding of its sensor.
Candidates(m) == {b.sensor : b \in {b \in Bindings : b.unit = m.unit /\ b.tag = m.tag}}
BindingsOf(sensor) == {b \in Bindings : b.sensor = sensor}

\* resolveSensorAndTag: what the mapping leaves open comes from the bindings.
ResolutionReason(m) ==
  IF m.sensor # Null /\ m.tag # Null THEN ""
  ELSE IF m.tag # Null THEN
         IF Candidates(m) = {} THEN "unresolved_sensor"
         ELSE IF Cardinality(Candidates(m)) > 1 THEN "mapping_engine_failure"
         ELSE ""
  ELSE IF m.sensor # Null THEN
         IF BindingsOf(m.sensor) = {} THEN "unresolved_tag" ELSE ""
  ELSE "unresolved_sensor"

SensorOf(m) == IF m.sensor # Null THEN m.sensor ELSE CHOOSE x \in Candidates(m) : TRUE
TagOf(m) == IF m.tag # Null THEN m.tag ELSE (CHOOSE b \in BindingsOf(m.sensor) : TRUE).tag

ExpectedUnit(m) == IF m.unitOverride # Null THEN m.unitOverride ELSE CanonicalUnit[TagOf(m)]

ReadingReason(s, now) ==
  LET m == MappingOf(s)
  IN  IF TagOf(m) \notin DOMAIN CanonicalUnit THEN "mapping_engine_failure"
      ELSE IF s.engineeringUnit # ExpectedUnit(m) THEN "unit_mismatch"
      ELSE IF s.timestamp - now > MaxFutureSkew THEN "future_timestamp"
      ELSE IF now - s.timestamp > MaxLateWindow THEN "late_outside_window"
      ELSE IF ~s.finite THEN "invalid_value"
      ELSE ""

GateReason(s, now) ==
  IF SourceReason(s) # "" THEN SourceReason(s)
  ELSE IF MappingReason(s) # "" THEN MappingReason(s)
  ELSE IF ResolutionReason(MappingOf(s)) # "" THEN ResolutionReason(MappingOf(s))
  ELSE ReadingReason(s, now)

\* The unique key of live_readings, and of alarm rules but for the sensor.
Key(s) == <<MappingOf(s).unit, SensorOf(MappingOf(s)), TagOf(MappingOf(s))>>

----------------------------------------------------------------------------
\* Deduplication

NoSequence == -1

\* The two partial unique indexes: source-local sequences, else timestamps.
DedupKey(s) ==
  LET m == MappingOf(s)
  IN  IF s.sequence # NoSequence
      THEN <<"sequence", s.source, SensorOf(m), TagOf(m), s.sequence>>
      ELSE <<"timestamp", SensorOf(m), TagOf(m), s.timestamp>>

\* Variant: the stored kind compared with the source's id.
IdenticalBySourceId(r, s) ==
  /\ r.engineeringUnit = s.engineeringUnit
  /\ r.quality = s.quality
  /\ Sources[r.source].kind = s.source
  /\ r.value = s.value /\ s.plain

\* The stored value comes back as a Decimal, whose text is the incoming text
\* only if that is written plainly: no trailing zero, no leading one.
Identical(r, s) ==
  /\ r.engineeringUnit = s.engineeringUnit
  /\ r.quality = s.quality
  /\ Sources[r.source].kind = Sources[s.source].kind
  /\ r.value = s.value /\ s.plain

----------------------------------------------------------------------------
\* Alarm rules: a band is a set with its threshold, or empty when not configured

Exceeds(value, band) == \E threshold \in band : value > threshold
Undercuts(value, band) == \E threshold \in band : value < threshold

\* pickViolatedBand: the most severe band the value crosses, strictly.
ViolatedBand(value, rule) ==
  IF Exceeds(value, rule.highHigh) THEN "high_high"
  ELSE IF Exceeds(value, rule.high) THEN "high"
  ELSE IF Undercuts(value, rule.lowLow) THEN "low_low"
  ELSE IF Undercuts(value, rule.low) THEN "low"
  ELSE Null

\* Rules of the reading's unit and tag that its value violates.
Violations(s) ==
  {r \in Rules : /\ r.unit = Key(s)[1] /\ r.tag = Key(s)[3]
                 /\ ViolatedBand(s.value, r) # Null}
=============================================================================
