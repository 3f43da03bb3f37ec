------------------------------- MODULE Ingest -------------------------------
(***************************************************************************)
(* TelemetryIngestionService with the collaborators it calls inside one    *)
(* transaction per sample: the live_readings projection and the alarm      *)
(* evaluator.  Requests are handled concurrently; within a request samples *)
(* are handled one after another, and every awaited statement is a step at *)
(* which other requests may get in between.  PostgreSQL runs at read       *)
(* committed: a statement sees what is committed when it starts, waits for *)
(* an open transaction that holds the row or the unique key it needs, and  *)
(* a failing statement spoils its transaction.                             *)
(***************************************************************************)
EXTENDS IngestGates, Sequences

CONSTANTS
  Requests,          \* request handlers that may be busy at once
  Samples,           \* samples callers may send
  Batches,           \* request bodies: non-empty sequences of samples of one source
  Clock,             \* readings of the server clock, taken once per request
  ConflictOutcomes,  \* what a P2002 inside a transaction leaves: see LoseCreate
  MaxSends,          \* requests sent, resends included
  MaxFaults          \* failed statements, lost connections and crashes

ASSUME BatchesAssumption == Batches \subseteq Seq(Samples) /\ <<>> \notin Batches
ASSUME RequestsAssumption == IsFiniteSet(Requests) /\ Requests # {}
ASSUME SamplesAssumption == \A s \in Samples : s.timestamp \in Int
ASSUME BoundsAssumption == MaxSends \in Nat /\ MaxFaults \in Nat /\ Clock \subseteq Int
ASSUME ConflictAssumption ==
  ConflictOutcomes \subseteq {"aborts", "survives"} /\ ConflictOutcomes # {}

VARIABLES
  readings,    \* telemetry_readings, each row named by the sample it stores
  live,        \* live_readings: key -> the row's sample, in a set, or {}
  alarms,      \* alarm_events, all active
  quarantine,  \* telemetry_ingestion_errors
  emitted,     \* events handed to the gateway
  answered,    \* results delivered to callers
  req,         \* what each request handler is doing
  sends, faults,
  skipped,     \* history: readings the projection skipped though they were newer
  overlapped   \* history: rules raised twice by transactions open together

tables == <<readings, live, alarms, quarantine>>
history == <<skipped, overlapped>>
vars == <<tables, emitted, answered, req, sends, faults, history>>

----------------------------------------------------------------------------
NoRule == [id |-> Null]

Reasons ==
  {"unknown_source", "inactive_context", "unknown_mapping", "disabled_mapping",
   "tenant_mismatch", "unresolved_sensor", "unresolved_tag", "mapping_engine_failure",
   "unit_mismatch", "future_timestamp", "late_outside_window", "invalid_value",
   "conflict_dedup"}

Outcomes == {"accepted", "duplicate", "conflict_quarantined", "rejected_quarantined"}

Passing == {s \in Samples : \E now \in Clock : GateReason(s, now) = ""}
Channels == {Key(s) : s \in Passing}

\* A handler between two awaits.  pc names the statement it sends next.
InTransaction == {"project", "find", "create", "retry", "alarm"}
Pcs == {"idle", "gate", "insert", "emit", "classify", "quarantine", "reply"} \cup InTransaction

Handlers ==
  [pc: Pcs,
   todo: Seq(Samples),                         \* samples left, the current one first
   now: Clock \cup {0},
   results: SUBSET [sample: Samples, outcome: Outcomes],
   wrote: {"none", "created", "updated"},      \* what the transaction did to live
   due: SUBSET Rules,                          \* violated rules still to be looked at
   raised: SUBSET Rules,                       \* events the transaction has written
   reason: Reasons \cup {""},
   lastResort: BOOLEAN]                        \* quarantining outside the try block

Idle ==
  [pc |-> "idle", todo |-> <<>>, now |-> 0, results |-> {}, wrote |-> "none",
   due |-> {}, raised |-> {}, reason |-> "", lastResort |-> FALSE]

Busy(q, pc) == req[q].pc = pc
Current(q) == Head(req[q].todo)

\* The row and key locks an open transaction holds.
HoldsIdentity(q, s) == req[q].pc \in InTransaction /\ DedupKey(Current(q)) = DedupKey(s)
HoldsLive(q, c) == req[q].pc \in InTransaction /\ req[q].wrote # "none" /\ Key(Current(q)) = c
LiveLocked(q, c) == \E p \in Requests \ {q} : HoldsLive(p, c)

Stored(s) == {r \in readings : DedupKey(r) = DedupKey(s)}

\* Variant: the watermark lets an equal timestamp through.
NotNewer(c, s) == \E r \in live[c] : r.timestamp <= s.timestamp

\* The watermark of the projection's updateMany.
Older(c, s) == \E r \in live[c] : r.timestamp < s.timestamp

----------------------------------------------------------------------------
\* Moves of one handler

Goto(q, pc) == req' = [req EXCEPT ![q].pc = pc]

\* The sample is done: the loop takes the next one, or the answer is ready.
Finished(h, outcome) ==
  LET rest == Tail(h.todo)
  IN  [Idle EXCEPT !.pc = IF rest = <<>> THEN "reply" ELSE "gate",
                   !.todo = rest, !.now = h.now,
                   !.results = h.results \cup {[sample |-> Head(h.todo), outcome |-> outcome]}]

\* The transaction, if one is open, is rolled back and its pending events dropped.
Quarantining(h, reason, lastResort) ==
  [h EXCEPT !.pc = "quarantine", !.wrote = "none", !.due = {}, !.raised = {},
            !.reason = reason, !.lastResort = lastResort]

\* The catch block of ingestBatch.
Unexpected(q) ==
  req' = [req EXCEPT ![q] = Quarantining(req[q], "mapping_engine_failure", TRUE)]

\* The projection is done with the current sample; the alarm rules are loaded.
Projected(q, wrote) ==
  req' = [req EXCEPT ![q] = [req[q] EXCEPT !.pc = "alarm", !.wrote = wrote,
                                           !.due = Violations(Current(q))]]

Fault == faults < MaxFaults /\ faults' = faults + 1
NoFault == UNCHANGED faults

----------------------------------------------------------------------------
Init ==
  /\ readings = {}
  /\ live = [c \in Channels |-> {}]
  /\ alarms = {}
  /\ quarantine = {}
  /\ emitted = {}
  /\ answered = {}
  /\ req = [q \in Requests |-> Idle]
  /\ sends = 0
  /\ faults = 0
  /\ skipped = {}
  /\ overlapped = {}

Receive(q, b, now) ==
  /\ Busy(q, "idle")
  /\ sends < MaxSends
  /\ sends' = sends + 1
  /\ req' = [req EXCEPT ![q] = [Idle EXCEPT !.pc = "gate", !.todo = b, !.now = now]]
  /\ UNCHANGED <<tables, emitted, answered, faults, history>>

\* The reads before the transaction: the source's, once for the batch, and those
\* of the sample.  A sample of an unusable source is quarantined outside the try
\* block.
Gate(q) ==
  /\ Busy(q, "gate")
  /\ LET s == Current(q)
         reason == GateReason(s, req[q].now)
     IN  IF reason = "" THEN Goto(q, "insert")
         ELSE req' = [req EXCEPT ![q] = Quarantining(req[q], reason, SourceReason(s) # "")]
  /\ UNCHANGED <<tables, emitted, answered, sends, faults, history>>

\* telemetryReading.create: waits for an open insert of the same identity.
InsertReading(q) ==
  /\ Busy(q, "insert")
  /\ Stored(Current(q)) = {}
  /\ ~ \E p \in Requests \ {q} : HoldsIdentity(p, Current(q))
  /\ Goto(q, IF Current(q).quality = "good" THEN "project" ELSE "alarm")
  /\ UNCHANGED <<tables, emitted, answered, sends, faults, history>>

\* Variant: only the sequence index is there to violate.
DuplicateSequence(q) ==
  /\ Busy(q, "insert")
  /\ Stored(Current(q)) # {} /\ Current(q).sequence # NoSequence
  /\ Goto(q, "classify")
  /\ UNCHANGED <<tables, emitted, answered, sends, faults, history>>

\* P2002 from the insert: a reading of the same identity is committed.
DuplicateReading(q) ==
  /\ Busy(q, "insert")
  /\ Stored(Current(q)) # {}
  /\ Goto(q, "classify")
  /\ UNCHANGED <<tables, emitted, answered, sends, faults, history>>

\* updateMany where the stored timestamp is older: it waits for a transaction
\* that holds the row it would update, and counts no row otherwise.
ProjectUpdate(q) ==
  /\ Busy(q, "project")
  /\ LET s == Current(q)
     IN  IF Older(Key(s), s)
         THEN ~LiveLocked(q, Key(s)) /\ Projected(q, "updated")
         ELSE Goto(q, "find")
  /\ UNCHANGED <<tables, emitted, answered, sends, faults, history>>

\* Variant: whatever the update did not touch is taken to be missing.
FindNothing(q) ==
  /\ Busy(q, "find")
  /\ Goto(q, "create")
  /\ UNCHANGED <<tables, emitted, answered, sends, faults, history>>

\* findUnique, to tell a stale sample from a missing row.  By now the row may
\* be an older one that another transaction has just created.
ProjectFind(q) ==
  /\ Busy(q, "find")
  /\ LET s == Current(q)
     IN  IF live[Key(s)] = {} THEN Goto(q, "create") /\ UNCHANGED skipped
         ELSE /\ Projected(q, "none")
              /\ skipped' = IF Older(Key(s), s) THEN skipped \cup {s} ELSE skipped
  /\ UNCHANGED <<tables, emitted, answered, sends, faults, overlapped>>

\* liveReading.create: waits for an open insert of the same key.
ProjectCreate(q) ==
  /\ Busy(q, "create")
  /\ live[Key(Current(q))] = {}
  /\ ~LiveLocked(q, Key(Current(q)))
  /\ Projected(q, "created")
  /\ UNCHANGED <<tables, emitted, answered, sends, faults, history>>

\* The create meets a row committed meanwhile.  PostgreSQL has then aborted the
\* transaction and the retry's own statement fails; the retry was written for
\* an engine that undoes only the failed statement.
LoseCreate(q) ==
  /\ Busy(q, "create")
  /\ live[Key(Current(q))] # {}
  /\ \/ "aborts" \in ConflictOutcomes /\ Unexpected(q)
     \/ "survives" \in ConflictOutcomes /\ Goto(q, "retry")
  /\ UNCHANGED <<tables, emitted, answered, sends, faults, history>>

\* Variant: losing the race is taken to mean that the sample is stale.
RetrySkips(q) ==
  /\ Busy(q, "retry")
  /\ Projected(q, "none")
  /\ UNCHANGED <<tables, emitted, answered, sends, faults, history>>

\* The second updateMany; the read after it only names the skip.
ProjectRetry(q) ==
  /\ Busy(q, "retry")
  /\ LET s == Current(q)
     IN  IF Older(Key(s), s)
         THEN ~LiveLocked(q, Key(s)) /\ Projected(q, "updated")
         ELSE Projected(q, "none")
  /\ UNCHANGED <<tables, emitted, answered, sends, faults, history>>

\* Variant: no look for an active event of the rule.
AlwaysRaise(q, r) ==
  /\ Busy(q, "alarm")
  /\ r \in req[q].due
  /\ req' = [req EXCEPT ![q].due = @ \ {r}, ![q].raised = @ \cup {r}]
  /\ UNCHANGED <<tables, emitted, answered, sends, faults, history>>

\* One round of the evaluator's loop: no event while one of the rule is active.
\* The read and the create are one step, since nobody sees the new event before
\* the commit; rules of equal severity come in any order.
EvaluateRule(q, r) ==
  /\ Busy(q, "alarm")
  /\ r \in req[q].due
  /\ req' = [req EXCEPT ![q].due = @ \ {r},
                        ![q].raised = IF \E a \in alarms : a.rule = r THEN @ ELSE @ \cup {r}]
  /\ UNCHANGED <<tables, emitted, answered, sends, faults, history>>

\* What the transaction makes visible.
Applied(q) ==
  LET s == Current(q)
      h == req[q]
  IN  /\ readings' = readings \cup {s}
      /\ live' = IF h.wrote = "none" THEN live ELSE [live EXCEPT ![Key(s)] = {s}]
      /\ alarms' = alarms \cup {[rule |-> r, reading |-> s] : r \in h.raised}
      /\ overlapped' =
           overlapped \cup {r \in h.raised : \E p \in Requests \ {q} :
                           req[p].pc \in InTransaction /\ r \in req[p].raised}
      /\ UNCHANGED <<quarantine, skipped>>

Commit(q) ==
  /\ Busy(q, "alarm")
  /\ req[q].due = {}
  /\ Applied(q)
  /\ Goto(q, "emit")
  /\ UNCHANGED <<emitted, answered, sends, faults>>

\* The commit takes effect and its acknowledgement is lost.
CommitUnacknowledged(q) ==
  /\ Busy(q, "alarm")
  /\ req[q].due = {}
  /\ Applied(q)
  /\ Unexpected(q)
  /\ Fault
  /\ UNCHANGED <<emitted, answered, sends>>

Event(kind, s, r) == [kind |-> kind, reading |-> s, rule |-> r]

PendingEvents(q) ==
  LET s == Current(q)
  IN  {Event("telemetry.reading.accepted", s, NoRule)}
      \cup {Event("live_reading.updated", s, NoRule) : w \in {req[q].wrote} \ {"none"}}
      \cup {Event("alarm.event.created", s, r) : r \in req[q].raised}

\* After the commit: an event the gateway fails on is logged and dropped.
Emit(q) ==
  /\ Busy(q, "emit")
  /\ \/ emitted' = emitted \cup PendingEvents(q) /\ NoFault
     \/ \E e \in PendingEvents(q) :
          emitted' = emitted \cup (PendingEvents(q) \ {e}) /\ Fault
  /\ req' = [req EXCEPT ![q] = Finished(req[q], "accepted")]
  /\ UNCHANGED <<tables, answered, sends, history>>

\* classifyDedup, reading outside the transaction that failed.
Classify(q) ==
  /\ Busy(q, "classify")
  /\ LET s == Current(q)
     IN  req' = [req EXCEPT ![q] =
                   IF \E r \in Stored(s) : Identical(r, s) THEN Finished(req[q], "duplicate")
                   ELSE Quarantining(req[q], "conflict_dedup", FALSE)]
  /\ UNCHANGED <<tables, emitted, answered, sends, faults, history>>

\* Variant: the reason answered as the outcome.
OutcomeIsReason(reason) == reason

QuarantineOutcome(reason) ==
  IF reason = "conflict_dedup" THEN "conflict_quarantined" ELSE "rejected_quarantined"

Quarantine(q) ==
  /\ Busy(q, "quarantine")
  /\ quarantine' = quarantine \cup {[sample |-> Current(q), reason |-> req[q].reason]}
  /\ req' = [req EXCEPT ![q] = Finished(req[q], QuarantineOutcome(req[q].reason))]
  /\ UNCHANGED <<readings, live, alarms, emitted, answered, sends, faults, history>>

\* Inside the try block the failure is quarantined in its turn; outside it the
\* whole request fails, and with it the answers to the samples before.
QuarantineFails(q) ==
  /\ Busy(q, "quarantine")
  /\ IF req[q].lastResort THEN req' = [req EXCEPT ![q] = Idle] ELSE Unexpected(q)
  /\ Fault
  /\ UNCHANGED <<tables, emitted, answered, sends, history>>

\* The source is looked up once for the batch, outside the try block: when that
\* fails the request ends, with no sample answered or quarantined.
LookupFails(q) ==
  /\ Busy(q, "gate") /\ req[q].results = {}
  /\ req' = [req EXCEPT ![q] = Idle]
  /\ Fault
  /\ UNCHANGED <<tables, emitted, answered, sends, history>>

\* The statements of one sample inside the try block.  There are none before the
\* transaction when the source is unusable.
Trying(q) ==
  \/ Busy(q, "gate") /\ SourceReason(Current(q)) = ""
  \/ req[q].pc \in {"insert", "classify"} \cup InTransaction

\* Variant: the pending events are sent in a finally block.
FailEmitting(q) ==
  /\ Trying(q)
  /\ Unexpected(q)
  /\ emitted' = IF req[q].pc \in InTransaction THEN emitted \cup PendingEvents(q) ELSE emitted
  /\ Fault
  /\ UNCHANGED <<tables, answered, sends, history>>

\* A statement fails, times out while it waits, or the transaction expires.
StatementFails(q) ==
  /\ Trying(q)
  /\ Unexpected(q)
  /\ Fault
  /\ UNCHANGED <<tables, emitted, answered, sends, history>>

\* The answer reaches the caller, or the connection is gone.
Reply(q) ==
  /\ Busy(q, "reply")
  /\ \/ answered' = answered \cup req[q].results /\ NoFault
     \/ UNCHANGED answered /\ Fault
  /\ req' = [req EXCEPT ![q] = Idle]
  /\ UNCHANGED <<tables, emitted, sends, history>>

\* The process stops: open transactions are rolled back, requests forgotten.
Crash ==
  /\ \E q \in Requests : ~Busy(q, "idle")
  /\ req' = [q \in Requests |-> Idle]
  /\ Fault
  /\ UNCHANGED <<tables, emitted, answered, sends, history>>

Work(q) ==
  \/ Gate(q) \/ InsertReading(q) \/ DuplicateReading(q)
  \/ ProjectUpdate(q) \/ ProjectFind(q) \/ ProjectCreate(q) \/ LoseCreate(q) \/ ProjectRetry(q)
  \/ \E r \in Rules : EvaluateRule(q, r)
  \/ Commit(q) \/ Emit(q) \/ Classify(q) \/ Quarantine(q) \/ Reply(q)

Breaks(q) ==
  \/ CommitUnacknowledged(q) \/ QuarantineFails(q) \/ LookupFails(q) \/ StatementFails(q)

Next ==
  \/ \E q \in Requests, b \in Batches, now \in Clock : Receive(q, b, now)
  \/ \E q \in Requests : Work(q)
  \/ \E q \in Requests : Breaks(q)
  \/ Crash

Spec == Init /\ [][Next]_vars

\* The event loop resumes every handler whose statement has returned.
FairSpec == Spec /\ \A q \in Requests : WF_vars(Work(q))

----------------------------------------------------------------------------
TypeOK ==
  /\ readings \subseteq Samples
  /\ live \in [Channels -> SUBSET Samples]
  /\ alarms \subseteq [rule: Rules, reading: Samples]
  /\ quarantine \subseteq [sample: Samples, reason: Reasons]
  /\ answered \subseteq [sample: Samples, outcome: Outcomes]
  /\ req \in [Requests -> Handlers]
  /\ sends \in 0 .. MaxSends
  /\ faults \in 0 .. MaxFaults

\* The rules a reading is to raise, unless they are active already.
Alerting(s) == IF s.quality = "good" THEN Violations(s) ELSE {}

\* The tables and the answers, seen as the ledger ingestion promises: readings
\* recorded once, with all that follows from them, the projection never moving
\* back, answers about what is on record.  Crashes and lost answers included.
Ledger == INSTANCE ReadingLedger
  WITH ledger <- readings, latest <- live, refused <- quarantine, told <- answered,
       Recordable <- Passing, Identity <- DedupKey, Channel <- Key, SameReport <- Identical,
       Alerts <- Alerting

ImplementsLedger == Ledger!LedgerSpec

\* The latest reading of every channel is the newest good one on record...
LatestIsNewest ==
  \A s \in readings :
    s.quality = "good" => \E r \in live[Key(s)] : r.timestamp >= s.timestamp

\* ...or a newer one was skipped between the projection's update and its read.
LatestUnlessRaced ==
  \A s \in readings \ skipped :
    s.quality = "good" => \E r \in live[Key(s)] : r.timestamp >= s.timestamp

\* A rule has one active event at most (the duplicate-active guard)...
OneActiveAlarm == \A a1, a2 \in alarms : a1.rule = a2.rule => a1 = a2

\* ...or two transactions open together passed the guard before either wrote.
OneAlarmUnlessOverlap ==
  \A a1, a2 \in alarms : a1.rule = a2.rule => a1 = a2 \/ a1.rule \in overlapped

\* No event is published of anything that was not committed.
NoGhostEvents ==
  \A e \in emitted :
    /\ e.reading \in readings
    /\ e.kind = "alarm.event.created" => [rule |-> e.rule, reading |-> e.reading] \in alarms
    /\ e.kind = "live_reading.updated" =>
         \E r \in live[Key(e.reading)] : r.timestamp >= e.reading.timestamp

\* What the retry cannot save is bounded: of the readings of a channel only those
\* that were on their way while its first row was written are refused, one for
\* each other request, and otherwise one for each fault.
Unprojected(c) ==
  {s \in Passing : Key(s) = c /\ [sample |-> s, reason |-> "mapping_engine_failure"] \in quarantine}

CreateRaceCostsFew ==
  \A c \in Channels : Cardinality(Unprojected(c)) <= Cardinality(Requests) - 1 + faults

\* A caller that repeats a recorded sample, its value written plainly, is never
\* told of a conflict.
ResendsNeverConflict ==
  \A s \in readings : s.plain => [sample |-> s, reason |-> "conflict_dedup"] \notin quarantine

\* Every request ends, whatever the transactions wait for.
RequestsEnd == \A q \in Requests : ~Busy(q, "idle") ~> Busy(q, "idle")
=============================================================================
