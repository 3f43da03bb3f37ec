---------------------------- MODULE IngestProofs ----------------------------
(***************************************************************************)
(* Proofs about Ingest for any tables of sources, mappings and rules, any  *)
(* batches, any number of requests, sends and faults.                      *)
(***************************************************************************)
EXTENDS Ingest, TLAPS

\* Statements of the live_readings projection.
Projecting == {"project", "find", "create", "retry"}

\* Where a handler can be: it has a current sample while it works, that sample
\* passed the gates once it is past them, only a good one is projected, and what
\* its transaction wrote and still owes is remembered only as long as needed.
Placed(h) ==
  /\ h.pc # "idle" => h.now \in Clock
  /\ h.pc \notin {"idle", "reply"} => h.todo # <<>>
  /\ h.pc \in {"insert", "emit", "classify"} \cup InTransaction => Head(h.todo) \in Passing
  /\ h.pc \notin {"alarm", "emit"} => h.wrote = "none" /\ h.raised = {}
  /\ h.pc = "quarantine" => h.reason # ""
  /\ h.pc \in Projecting => Head(h.todo).quality = "good"
  /\ h.pc # "alarm" => h.due = {}

AllPlaced == \A q \in Requests : Placed(req[q])

Open(h) == h.pc \in InTransaction
Sample(h) == Head(h.todo)

\* What the unique indexes and the row locks give two open transactions...
Apart(h1, h2) ==
  Open(h1) /\ Open(h2) =>
    /\ DedupKey(Sample(h1)) # DedupKey(Sample(h2))
    /\ h1.wrote # "none" /\ h2.wrote # "none" => Key(Sample(h1)) # Key(Sample(h2))

\* ...and one of them against the tables: no reading of its identity, and no
\* newer row under the one it is about to replace.
Fresh(h, stored, shown) ==
  Open(h) =>
    /\ \A r \in stored : DedupKey(r) # DedupKey(Sample(h))
    /\ h.wrote # "none" => \A r \in shown[Key(Sample(h))] : r.timestamp < Sample(h).timestamp
    /\ h.pc = "retry" => shown[Key(Sample(h))] # {}

\* A reading has an identity of its own, and a channel shows one of its readings.
Rows ==
  /\ readings \subseteq Passing
  /\ \A r1, r2 \in readings : DedupKey(r1) = DedupKey(r2) => r1 = r2
  /\ \A c \in Channels : live[c] = {} \/ \E r \in readings : Key(r) = c /\ live[c] = {r}

Locks ==
  \A q \in Requests : /\ Fresh(req[q], readings, live)
                      /\ \A p \in Requests \ {q} : Apart(req[p], req[q])

\* The channel shows this reading or one at least as recent.
Shown(s, rows) == \E r \in rows[Key(s)] : r.timestamp >= s.timestamp

\* A transaction that leaves a good reading unshown has seen it shown, or is
\* recorded as having skipped it.
Seen(h) ==
  h.pc = "alarm" /\ Sample(h).quality = "good" /\ h.wrote = "none" =>
    Sample(h) \in skipped \/ Shown(Sample(h), live)

\* A rule about to be raised has no event, unless another transaction raised it.
Guarded(h) ==
  Open(h) => \A a \in alarms : a.rule \in h.raised => a.rule \in overlapped

\* A transaction raises nothing but what its reading alerts to, and what it has
\* looked at it raises or has found active.
Evaluated(h) ==
  h.pc = "alarm" =>
    /\ h.due \cup h.raised \subseteq Alerting(Sample(h))
    /\ \A r \in Alerting(Sample(h)) \ h.due :
         r \in h.raised \/ \E a \in alarms : a.rule = r

\* Every reading on record has left an alarm of each rule it alerts to, and
\* every alarm is the doing of such a reading.
NoMissedAlarm ==
  /\ \A s \in readings : \A r \in Alerting(s) : \E a \in alarms : a.rule = r
  /\ \A a \in alarms : a.reading \in readings /\ a.rule \in Alerting(a.reading)

Latest == LatestUnlessRaced /\ \A q \in Requests : Seen(req[q])
Alarms ==
  /\ OneAlarmUnlessOverlap /\ NoMissedAlarm
  /\ \A q \in Requests : Guarded(req[q]) /\ Evaluated(req[q])

\* Events are owed only for what is committed.
Owed(h) ==
  h.pc = "emit" =>
    /\ Sample(h) \in readings
    /\ h.wrote # "none" => Shown(Sample(h), live)
    /\ \A r \in h.raised : [rule |-> r, reading |-> Sample(h)] \in alarms

Events == NoGhostEvents /\ \A q \in Requests : Owed(req[q])

IInv == TypeOK /\ AllPlaced /\ Rows /\ Locks /\ Latest /\ Alarms /\ Events

----------------------------------------------------------------------------
LEMMA GateReasonType ==
  ASSUME NEW s, NEW now
  PROVE  GateReason(s, now) \in Reasons \cup {""}
BY DEF GateReason, SourceReason, MappingReason, ResolutionReason, ReadingReason, Reasons

LEMMA IdleType == Idle \in Handlers
BY DEF Idle, Handlers, Pcs, InTransaction, Reasons

LEMMA FinishedFacts ==
  ASSUME NEW h \in Handlers, h.todo # <<>>, NEW outcome \in Outcomes
  PROVE  /\ Finished(h, outcome) \in Handlers
         /\ Finished(h, outcome).now = h.now
         /\ Finished(h, outcome).todo = Tail(h.todo)
         /\ Finished(h, outcome).pc = IF Tail(h.todo) = <<>> THEN "reply" ELSE "gate"
         /\ Finished(h, outcome).results =
              h.results \cup {[sample |-> Head(h.todo), outcome |-> outcome]}
         /\ Finished(h, outcome).wrote = "none"
         /\ Finished(h, outcome).raised = {}
         /\ Finished(h, outcome).due = {}
<1>1. h.todo \in Seq(Samples) /\ h.now \in Clock \cup {0}
      /\ h.results \in SUBSET [sample: Samples, outcome: Outcomes]
  BY DEF Handlers
<1>2. Tail(h.todo) \in Seq(Samples) /\ Head(h.todo) \in Samples
  BY <1>1
<1> DEFINE pc == IF Tail(h.todo) = <<>> THEN "reply" ELSE "gate"
           results == h.results \cup {[sample |-> Head(h.todo), outcome |-> outcome]}
           todo == Tail(h.todo)
           now == h.now
<1>3. pc \in Pcs /\ results \in SUBSET [sample: Samples, outcome: Outcomes]
  BY <1>1, <1>2 DEF Pcs
<1>4. Finished(h, outcome) =
        [Idle EXCEPT !.pc = pc, !.todo = todo, !.now = now, !.results = results]
  BY DEF Finished
<1>5. todo \in Seq(Samples) /\ now \in Clock \cup {0}
  BY <1>1, <1>2
<1> HIDE DEF pc, results, todo, now
<1>6. Finished(h, outcome) \in Handlers
  BY <1>3, <1>4, <1>5 DEF Idle, Handlers, Reasons
<1>7. /\ Finished(h, outcome).now = now
      /\ Finished(h, outcome).todo = todo
      /\ Finished(h, outcome).pc = pc
      /\ Finished(h, outcome).results = results
      /\ Finished(h, outcome).wrote = "none"
      /\ Finished(h, outcome).raised = {}
      /\ Finished(h, outcome).due = {}
  BY <1>4 DEF Idle
<1>8. QED
  BY <1>6, <1>7 DEF pc, results, todo, now

LEMMA QuarantiningFacts ==
  ASSUME NEW h \in Handlers, NEW reason \in Reasons, NEW lastResort \in BOOLEAN
  PROVE  /\ Quarantining(h, reason, lastResort) \in Handlers
         /\ Quarantining(h, reason, lastResort).now = h.now
         /\ Quarantining(h, reason, lastResort).todo = h.todo
         /\ Quarantining(h, reason, lastResort).pc = "quarantine"
         /\ Quarantining(h, reason, lastResort).reason = reason
         /\ Quarantining(h, reason, lastResort).results = h.results
         /\ Quarantining(h, reason, lastResort).wrote = "none"
         /\ Quarantining(h, reason, lastResort).raised = {}
         /\ Quarantining(h, reason, lastResort).due = {}
         /\ Quarantining(h, reason, lastResort).lastResort = lastResort
BY DEF Quarantining, Handlers, Pcs, InTransaction

LEMMA GotoFacts ==
  ASSUME NEW h \in Handlers, NEW pc \in Pcs
  PROVE  /\ [h EXCEPT !.pc = pc] \in Handlers
         /\ [h EXCEPT !.pc = pc].pc = pc
         /\ [h EXCEPT !.pc = pc].now = h.now
         /\ [h EXCEPT !.pc = pc].todo = h.todo
         /\ [h EXCEPT !.pc = pc].results = h.results
         /\ [h EXCEPT !.pc = pc].wrote = h.wrote
         /\ [h EXCEPT !.pc = pc].due = h.due
         /\ [h EXCEPT !.pc = pc].raised = h.raised
BY DEF Handlers

\* What Projected leaves in the handler.
Entered(h, wrote) ==
  [h EXCEPT !.pc = "alarm", !.wrote = wrote, !.due = Violations(Head(h.todo))]

LEMMA EnteredFacts ==
  ASSUME NEW h \in Handlers, NEW wrote \in {"none", "created", "updated"}
  PROVE  /\ Entered(h, wrote) \in Handlers
         /\ Entered(h, wrote).pc = "alarm"
         /\ Entered(h, wrote).now = h.now
         /\ Entered(h, wrote).todo = h.todo
         /\ Entered(h, wrote).results = h.results
         /\ Entered(h, wrote).wrote = wrote
         /\ Entered(h, wrote).raised = h.raised
         /\ Entered(h, wrote).due = Violations(Head(h.todo))
<1>1. Violations(Head(h.todo)) \subseteq Rules
  BY DEF Violations
<1>2. QED
  BY <1>1 DEF Entered, Handlers, Pcs, InTransaction

\* A sample that has passed the gates has a row in live_readings or may get one.
LEMMA PassingFacts ==
  ASSUME NEW s \in Passing
  PROVE  s \in Samples /\ Key(s) \in Channels
BY DEF Passing, Channels

----------------------------------------------------------------------------
\* The handler an action leaves behind, action by action.

LEMMA MoveFacts ==
  ASSUME TypeOK, NEW q \in Requests, NEW h \in Handlers, req' = [req EXCEPT ![q] = h]
  PROVE  /\ req' \in [Requests -> Handlers]
         /\ req'[q] = h
         /\ \A p \in Requests \ {q} : req'[p] = req[p]
BY DEF TypeOK

LEMMA GotoMoves ==
  ASSUME TypeOK, NEW q \in Requests, NEW pc \in Pcs, Goto(q, pc)
  PROVE  req' = [req EXCEPT ![q] = [req[q] EXCEPT !.pc = pc]]
BY DEF Goto, TypeOK

LEMMA ProjectedMoves ==
  ASSUME NEW q \in Requests, NEW wrote, Projected(q, wrote)
  PROVE  req' = [req EXCEPT ![q] = Entered(req[q], wrote)]
BY DEF Projected, Entered, Current

LEMMA CurrentType ==
  ASSUME TypeOK, AllPlaced, NEW q \in Requests, req[q].pc \notin {"idle", "reply"}
  PROVE  /\ req[q] \in Handlers
         /\ req[q].now \in Clock
         /\ req[q].todo # <<>>
         /\ req[q].todo \in Seq(Samples)
         /\ Current(q) = Head(req[q].todo)
         /\ Current(q) \in Samples
         /\ req[q].pc \in {"insert", "emit", "classify"} \cup InTransaction => Current(q) \in Passing
<1>1. req[q] \in Handlers /\ req[q].todo # <<>> /\ req[q].now \in Clock
  BY DEF TypeOK, AllPlaced, Placed
<1>2. req[q].todo \in Seq(Samples)
  BY <1>1 DEF Handlers
<1>3. Head(req[q].todo) \in Samples
  BY <1>1, <1>2
<1>4. QED
  BY <1>1, <1>2, <1>3 DEF Current, AllPlaced, Placed

\* The steps that end in a handler outside any transaction, with no event owed.
Leaves(q) ==
  /\ \E h \in Handlers : /\ Placed(h)
                         /\ h.pc \notin InTransaction \cup {"emit"}
                         /\ req' = [req EXCEPT ![q] = h]
  /\ UNCHANGED <<readings, live, alarms, history>>

LEMMA ReceiveLeaves ==
  ASSUME NEW q \in Requests, NEW b \in Batches, NEW now \in Clock, Receive(q, b, now)
  PROVE  Leaves(q)
<1> DEFINE h == [Idle EXCEPT !.pc = "gate", !.todo = b, !.now = now]
<1>1. b \in Seq(Samples) /\ b # <<>>
  BY BatchesAssumption
<1>2. h \in Handlers
  BY <1>1 DEF Idle, Handlers, Pcs, Reasons
<1>3. /\ h.pc = "gate" /\ h.now = now /\ h.todo = b
      /\ h.wrote = "none" /\ h.raised = {} /\ h.due = {}
  BY DEF Idle
<1>4. req' = [req EXCEPT ![q] = h] /\ UNCHANGED <<readings, live, alarms, history>>
  BY DEF Receive, tables
<1> HIDE DEF h
<1>5. QED
  BY <1>1, <1>2, <1>3, <1>4 DEF Leaves, Placed, InTransaction, Projecting

LEMMA QuarantiningLeaves ==
  ASSUME TypeOK, AllPlaced, NEW q \in Requests, req[q].pc \notin {"idle", "reply"},
         NEW reason \in Reasons, NEW lastResort \in BOOLEAN,
         req' = [req EXCEPT ![q] = Quarantining(req[q], reason, lastResort)],
         UNCHANGED <<readings, live, alarms, history>>
  PROVE  Leaves(q)
<1> DEFINE h == Quarantining(req[q], reason, lastResort)
<1>1. req[q] \in Handlers /\ req[q].todo # <<>> /\ req[q].now \in Clock
  BY CurrentType
<1>2. /\ h \in Handlers /\ h.now = req[q].now /\ h.todo = req[q].todo /\ h.pc = "quarantine" /\ h.reason = reason
      /\ h.wrote = "none" /\ h.raised = {} /\ h.due = {}
  BY <1>1, QuarantiningFacts
<1>3. reason # ""
  BY DEF Reasons
<1> HIDE DEF h
<1>4. Placed(h) /\ h.pc \notin InTransaction \cup {"emit"}
  BY <1>1, <1>2, <1>3 DEF Placed, InTransaction, Projecting
<1>5. req' = [req EXCEPT ![q] = h]
  BY DEF h
<1>6. QED
  BY <1>2, <1>4, <1>5 DEF Leaves

LEMMA UnexpectedLeaves ==
  ASSUME TypeOK, AllPlaced, NEW q \in Requests, req[q].pc \notin {"idle", "reply"},
         Unexpected(q), UNCHANGED <<readings, live, alarms, history>>
  PROVE  Leaves(q)
BY QuarantiningLeaves DEF Unexpected, Reasons

LEMMA FinishedLeaves ==
  ASSUME TypeOK, AllPlaced, NEW q \in Requests, req[q].pc \notin {"idle", "reply"},
         NEW outcome \in Outcomes,
         req' = [req EXCEPT ![q] = Finished(req[q], outcome)],
         UNCHANGED <<readings, live, alarms, history>>
  PROVE  Leaves(q)
<1> DEFINE h == Finished(req[q], outcome)
<1>1. req[q] \in Handlers /\ req[q].todo # <<>> /\ req[q].now \in Clock
  BY CurrentType
<1>2. /\ h \in Handlers /\ h.now = req[q].now /\ h.todo = Tail(req[q].todo)
      /\ h.pc = IF Tail(req[q].todo) = <<>> THEN "reply" ELSE "gate"
      /\ h.wrote = "none" /\ h.raised = {} /\ h.due = {}
  BY <1>1, FinishedFacts
<1> HIDE DEF h
<1>3. Placed(h) /\ h.pc \notin InTransaction \cup {"emit"}
  BY <1>1, <1>2 DEF Placed, InTransaction, Projecting
<1>4. req' = [req EXCEPT ![q] = h]
  BY DEF h
<1>5. QED
  BY <1>2, <1>3, <1>4 DEF Leaves

LEMMA IdleLeaves ==
  ASSUME NEW q \in Requests, req' = [req EXCEPT ![q] = Idle],
         UNCHANGED <<readings, live, alarms, history>>
  PROVE  Leaves(q)
<1>1. Placed(Idle) /\ Idle.pc \notin InTransaction \cup {"emit"}
  BY DEF Idle, Placed, InTransaction, Projecting
<1>2. QED
  BY <1>1, IdleType DEF Leaves

LEMMA GateStep ==
  ASSUME TypeOK, AllPlaced, NEW q \in Requests, Gate(q)
  PROVE  Leaves(q)
<1>1. req[q].pc = "gate" /\ UNCHANGED <<readings, live, alarms, history>>
  BY DEF Gate, Busy, tables
<1> DEFINE reason == GateReason(Current(q), req[q].now)
<1>2. CASE reason = ""
  <2> DEFINE h == [req[q] EXCEPT !.pc = "insert"]
  <2>1. Goto(q, "insert")
    BY <1>2 DEF Gate
  <2>2. req' = [req EXCEPT ![q] = h]
    BY <2>1, GotoMoves DEF Pcs
  <2>3. /\ req[q] \in Handlers /\ req[q].now \in Clock /\ req[q].todo # <<>>
        /\ Current(q) = Head(req[q].todo) /\ Current(q) \in Samples
    BY <1>1, CurrentType
  <2>4. /\ h \in Handlers /\ h.pc = "insert" /\ h.now = req[q].now /\ h.todo = req[q].todo
        /\ h.wrote = req[q].wrote /\ h.raised = req[q].raised /\ h.due = req[q].due
    BY <2>3, GotoFacts DEF Pcs
  <2>5. req[q].wrote = "none" /\ req[q].raised = {} /\ req[q].due = {}
    BY <1>1 DEF AllPlaced, Placed
  <2>6. Current(q) \in Passing
    BY <1>2, <2>3 DEF Passing
  <2> HIDE DEF h
  <2>7. Placed(h) /\ h.pc \notin InTransaction \cup {"emit"}
    BY <2>3, <2>4, <2>5, <2>6 DEF Placed, InTransaction, Projecting
  <2>8. QED
    BY <1>1, <2>2, <2>4, <2>7 DEF Leaves
<1>3. CASE reason # ""
  <2>1. reason \in Reasons
    BY <1>3, GateReasonType
  <2>2. req' = [req EXCEPT ![q] = Quarantining(req[q], reason, SourceReason(Current(q)) # "")]
    BY <1>3 DEF Gate
  <2>3. QED
    BY <1>1, <2>1, <2>2, QuarantiningLeaves
<1>4. QED
  BY <1>2, <1>3

\* The other actions that leave, each by one of the lemmas above.
LEMMA DuplicateReadingStep ==
  ASSUME TypeOK, AllPlaced, NEW q \in Requests, DuplicateReading(q)
  PROVE  Leaves(q)
<1> DEFINE h == [req[q] EXCEPT !.pc = "classify"]
<1>1. req[q].pc = "insert" /\ UNCHANGED <<readings, live, alarms, history>>
  BY DEF DuplicateReading, Busy, tables
<1>2. req' = [req EXCEPT ![q] = h]
  BY GotoMoves DEF DuplicateReading, Pcs
<1>3. /\ req[q] \in Handlers /\ req[q].now \in Clock /\ req[q].todo # <<>>
      /\ Head(req[q].todo) \in Passing
  BY <1>1, CurrentType
<1>4. /\ h \in Handlers /\ h.pc = "classify" /\ h.now = req[q].now /\ h.todo = req[q].todo
      /\ h.wrote = req[q].wrote /\ h.raised = req[q].raised /\ h.due = req[q].due
  BY <1>3, GotoFacts DEF Pcs
<1>5. req[q].wrote = "none" /\ req[q].raised = {} /\ req[q].due = {}
  BY <1>1 DEF AllPlaced, Placed
<1> HIDE DEF h
<1>6. Placed(h) /\ h.pc \notin InTransaction \cup {"emit"}
  BY <1>3, <1>4, <1>5 DEF Placed, InTransaction, Projecting
<1>7. QED
  BY <1>1, <1>2, <1>4, <1>6 DEF Leaves

LEMMA ClassifyStep ==
  ASSUME TypeOK, AllPlaced, NEW q \in Requests, Classify(q)
  PROVE  Leaves(q)
<1>1. req[q].pc = "classify" /\ UNCHANGED <<readings, live, alarms, history>>
  BY DEF Classify, Busy, tables
<1>2. CASE \E r \in Stored(Current(q)) : Identical(r, Current(q))
  <2>1. req' = [req EXCEPT ![q] = Finished(req[q], "duplicate")]
    BY <1>2 DEF Classify
  <2>2. QED
    BY <1>1, <2>1, FinishedLeaves DEF Outcomes
<1>3. CASE ~ \E r \in Stored(Current(q)) : Identical(r, Current(q))
  <2>1. req' = [req EXCEPT ![q] = Quarantining(req[q], "conflict_dedup", FALSE)]
    BY <1>3 DEF Classify
  <2>2. QED
    BY <1>1, <2>1, QuarantiningLeaves DEF Reasons
<1>4. QED
  BY <1>2, <1>3

LEMMA EmitStep ==
  ASSUME TypeOK, AllPlaced, NEW q \in Requests, Emit(q)
  PROVE  Leaves(q)
<1>1. /\ req[q].pc = "emit" /\ UNCHANGED <<readings, live, alarms, history>>
      /\ req' = [req EXCEPT ![q] = Finished(req[q], "accepted")]
  BY DEF Emit, Busy, tables
<1>2. QED
  BY <1>1, FinishedLeaves DEF Outcomes

LEMMA QuarantineStep ==
  ASSUME TypeOK, AllPlaced, NEW q \in Requests, Quarantine(q)
  PROVE  Leaves(q)
<1>1. /\ req[q].pc = "quarantine" /\ UNCHANGED <<readings, live, alarms, history>>
      /\ req' = [req EXCEPT ![q] = Finished(req[q], QuarantineOutcome(req[q].reason))]
  BY DEF Quarantine, Busy
<1>2. QuarantineOutcome(req[q].reason) \in Outcomes
  BY DEF QuarantineOutcome, Outcomes
<1>3. QED
  BY <1>1, <1>2, FinishedLeaves

LEMMA ReplyStep ==
  ASSUME NEW q \in Requests, Reply(q)
  PROVE  Leaves(q)
BY IdleLeaves DEF Reply, tables

LEMMA QuarantineFailsStep ==
  ASSUME TypeOK, AllPlaced, NEW q \in Requests, QuarantineFails(q)
  PROVE  Leaves(q)
<1>1. req[q].pc = "quarantine" /\ UNCHANGED <<readings, live, alarms, history>>
  BY DEF QuarantineFails, Busy, tables
<1>2. CASE req[q].lastResort
  <2>1. req' = [req EXCEPT ![q] = Idle]
    BY <1>2, Zenon DEF QuarantineFails
  <2>2. QED
    BY <1>1, <2>1, IdleLeaves
<1>3. CASE ~req[q].lastResort
  <2>1. Unexpected(q)
    BY <1>3, Zenon DEF QuarantineFails
  <2>2. QED
    BY <1>1, <2>1, UnexpectedLeaves
<1>4. QED
  BY <1>2, <1>3

LEMMA LookupFailsStep ==
  ASSUME NEW q \in Requests, LookupFails(q)
  PROVE  Leaves(q)
BY IdleLeaves DEF LookupFails, tables

LEMMA StatementFailsStep ==
  ASSUME TypeOK, AllPlaced, NEW q \in Requests, StatementFails(q)
  PROVE  Leaves(q)
<1>1. /\ req[q].pc \notin {"idle", "reply"} /\ UNCHANGED <<readings, live, alarms, history>>
      /\ Unexpected(q)
  BY DEF StatementFails, Trying, Busy, tables, InTransaction
<1>2. QED
  BY <1>1, UnexpectedLeaves

----------------------------------------------------------------------------
\* The steps inside a transaction.

\* The projection looks on: another statement comes next.
Searches(q, pc) ==
  /\ pc \in {"find", "create", "retry"}
  /\ req[q].pc \in {"project", "find", "create"}
  /\ pc = "retry" => live[Key(Current(q))] # {}
  /\ req' = [req EXCEPT ![q] = [req[q] EXCEPT !.pc = pc]]
  /\ UNCHANGED <<tables, emitted, history>>

\* The projection is done: what it may have written, and what it has seen.
Projects(q, wrote) ==
  /\ req[q].pc \in {"project", "find", "create", "retry"}
  /\ \/ /\ wrote = "none"
        /\ \/ req[q].pc = "find" /\ live[Key(Current(q))] # {}
           \/ req[q].pc = "retry"
        /\ \/ Current(q) \in skipped'
           \/ ~Older(Key(Current(q)), Current(q))
     \/ wrote = "updated" /\ Older(Key(Current(q)), Current(q))
     \/ wrote = "created" /\ live[Key(Current(q))] = {}
  /\ wrote # "none" => ~LiveLocked(q, Key(Current(q)))
  /\ req' = [req EXCEPT ![q] = Entered(req[q], wrote)]
  /\ skipped \subseteq skipped'
  /\ UNCHANGED <<tables, emitted, overlapped>>

Writes == {"none", "created", "updated"}

LEMMA ProjectUpdateStep ==
  ASSUME TypeOK, AllPlaced, NEW q \in Requests, ProjectUpdate(q)
  PROVE  Searches(q, "find") \/ Projects(q, "updated")
<1>1. CASE Older(Key(Current(q)), Current(q))
  <2>1. Projected(q, "updated") /\ ~LiveLocked(q, Key(Current(q)))
    BY <1>1 DEF ProjectUpdate
  <2>2. QED
    BY <1>1, <2>1, ProjectedMoves DEF Projects, ProjectUpdate, Busy, history
<1>2. CASE ~Older(Key(Current(q)), Current(q))
  <2>1. Goto(q, "find")
    BY <1>2 DEF ProjectUpdate
  <2>2. req' = [req EXCEPT ![q] = [req[q] EXCEPT !.pc = "find"]]
    BY <2>1, GotoMoves DEF Pcs, InTransaction
  <2>3. QED
    BY <2>2 DEF Searches, ProjectUpdate, Busy
<1>3. QED
  BY <1>1, <1>2

LEMMA ProjectFindStep ==
  ASSUME TypeOK, AllPlaced, NEW q \in Requests, ProjectFind(q)
  PROVE  Searches(q, "create") \/ Projects(q, "none")
<1>1. CASE live[Key(Current(q))] = {}
  <2>1. Goto(q, "create") /\ UNCHANGED skipped
    BY <1>1 DEF ProjectFind
  <2>2. req' = [req EXCEPT ![q] = [req[q] EXCEPT !.pc = "create"]]
    BY <2>1, GotoMoves DEF Pcs, InTransaction
  <2>3. QED
    BY <2>1, <2>2 DEF Searches, ProjectFind, Busy, history
<1>2. CASE live[Key(Current(q))] # {}
  <2>1. /\ Projected(q, "none")
        /\ skipped' = IF Older(Key(Current(q)), Current(q)) THEN skipped \cup {Current(q)}
                      ELSE skipped
    BY <1>2 DEF ProjectFind
  <2>2. skipped \subseteq skipped' /\ (Current(q) \in skipped' \/ ~Older(Key(Current(q)), Current(q)))
    BY <2>1
  <2>3. QED
    BY <1>2, <2>1, <2>2, ProjectedMoves DEF Projects, ProjectFind, Busy
<1>3. QED
  BY <1>1, <1>2

LEMMA ProjectCreateStep ==
  ASSUME NEW q \in Requests, ProjectCreate(q)
  PROVE  Projects(q, "created")
BY ProjectedMoves DEF Projects, ProjectCreate, Busy, history

LEMMA LoseCreateStep ==
  ASSUME TypeOK, AllPlaced, NEW q \in Requests, LoseCreate(q)
  PROVE  Searches(q, "retry") \/ (Leaves(q) /\ UNCHANGED <<tables, emitted, answered>>)
<1>1. CASE Unexpected(q)
  BY <1>1, UnexpectedLeaves DEF LoseCreate, Busy, tables
<1>2. CASE Goto(q, "retry")
  <2>1. req' = [req EXCEPT ![q] = [req[q] EXCEPT !.pc = "retry"]]
    BY <1>2, GotoMoves DEF Pcs, InTransaction
  <2>2. QED
    BY <2>1 DEF Searches, LoseCreate, Busy
<1>3. QED
  BY <1>1, <1>2 DEF LoseCreate

LEMMA ProjectRetryStep ==
  ASSUME NEW q \in Requests, ProjectRetry(q)
  PROVE  \E wrote \in {"none", "updated"} : Projects(q, wrote)
<1>1. CASE Older(Key(Current(q)), Current(q))
  BY <1>1, ProjectedMoves DEF ProjectRetry, Projects, Busy, history
<1>2. CASE ~Older(Key(Current(q)), Current(q))
  BY <1>2, ProjectedMoves DEF ProjectRetry, Projects, Busy, history
<1>3. QED
  BY <1>1, <1>2

\* The committed transaction of q: in `emit', or in quarantine when its
\* acknowledgement was lost.
Commits(q) ==
  /\ req[q].pc = "alarm" /\ req[q].due = {}
  /\ Applied(q)
  /\ \/ req' = [req EXCEPT ![q] = [req[q] EXCEPT !.pc = "emit"]]
     \/ req' = [req EXCEPT ![q] = Quarantining(req[q], "mapping_engine_failure", TRUE)]
  /\ UNCHANGED <<emitted, answered>>

LEMMA CommitStep ==
  ASSUME TypeOK, NEW q \in Requests, Commit(q) \/ CommitUnacknowledged(q)
  PROVE  Commits(q)
<1>1. CASE Commit(q)
  BY <1>1, GotoMoves DEF Commit, Commits, Busy, Pcs
<1>2. CASE CommitUnacknowledged(q)
  BY <1>2 DEF CommitUnacknowledged, Commits, Busy, Unexpected
<1>3. QED
  BY <1>1, <1>2

\* Every step is of one of these kinds, and the tables the kinds leave open
\* change in one action each.
StepKind ==
  \/ UNCHANGED <<readings, live, alarms, emitted, req, history>>
  \/ \E q \in Requests : Leaves(q) /\ (UNCHANGED emitted \/ Emit(q))
  \/ \E q \in Requests : InsertReading(q)
  \/ \E q \in Requests, pc \in {"find", "create", "retry"} : Searches(q, pc)
  \/ \E q \in Requests, wrote \in Writes : Projects(q, wrote)
  \/ \E q \in Requests, r \in Rules : EvaluateRule(q, r)
  \/ \E q \in Requests : Commits(q)
  \/ Crash

LEMMA StepKinds ==
  ASSUME TypeOK, AllPlaced, [Next]_vars
  PROVE  StepKind
<1>1. ASSUME NEW q \in Requests, NEW b \in Batches, NEW now \in Clock, Receive(q, b, now)
      PROVE  StepKind
  BY <1>1, ReceiveLeaves DEF StepKind, Receive
<1>2. ASSUME NEW q \in Requests, Work(q)
      PROVE  StepKind
  <2>1. CASE Gate(q)
    BY <2>1, GateStep DEF StepKind, Gate
  <2>2. CASE DuplicateReading(q)
    BY <2>2, DuplicateReadingStep DEF StepKind, DuplicateReading
  <2>3. CASE ProjectUpdate(q)
    BY <2>3, ProjectUpdateStep DEF StepKind, Writes
  <2>4. CASE ProjectFind(q)
    BY <2>4, ProjectFindStep DEF StepKind, Writes
  <2>5. CASE ProjectCreate(q)
    BY <2>5, ProjectCreateStep DEF StepKind, Writes
  <2>6. CASE LoseCreate(q)
    BY <2>6, LoseCreateStep DEF StepKind
  <2>7. CASE ProjectRetry(q)
    BY <2>7, ProjectRetryStep DEF StepKind, Writes
  <2>8. CASE Emit(q)
    BY <2>8, EmitStep DEF StepKind
  <2>9. CASE Classify(q)
    BY <2>9, ClassifyStep DEF StepKind, Classify
  <2>10. CASE Quarantine(q)
    BY <2>10, QuarantineStep DEF StepKind, Quarantine
  <2>11. CASE Reply(q)
    BY <2>11, ReplyStep DEF StepKind, Reply
  <2>12. QED
    BY <1>2, <2>1, <2>2, <2>3, <2>4, <2>5, <2>6, <2>7, <2>8, <2>9, <2>10, <2>11, CommitStep
    DEF Work, StepKind
<1>3. ASSUME NEW q \in Requests, Breaks(q)
      PROVE  StepKind
  <2>1. CASE QuarantineFails(q)
    BY <2>1, QuarantineFailsStep DEF StepKind, QuarantineFails
  <2>2. CASE StatementFails(q)
    BY <2>2, StatementFailsStep DEF StepKind, StatementFails
  <2>3. CASE LookupFails(q)
    BY <2>3, LookupFailsStep DEF StepKind, LookupFails
  <2>4. QED
    BY <1>3, <2>1, <2>2, <2>3, CommitStep DEF Breaks, StepKind
<1>4. CASE UNCHANGED vars
  BY <1>4 DEF StepKind, vars, tables, history
<1>5. QED
  BY <1>1, <1>2, <1>3, <1>4 DEF Next, StepKind

----------------------------------------------------------------------------
\* Types

LEMMA InitTyped == Init => TypeOK /\ AllPlaced
<1> SUFFICES ASSUME Init PROVE TypeOK /\ AllPlaced
  OBVIOUS
<1>1. Placed(Idle)
  BY DEF Idle, Placed, InTransaction, Projecting
<1>2. req \in [Requests -> Handlers]
  BY IdleType DEF Init
<1>3. QED
  BY <1>1, <1>2, BoundsAssumption DEF Init, TypeOK, AllPlaced

LEMMA HandlersKept ==
  ASSUME TypeOK, AllPlaced, StepKind
  PROVE  req' \in [Requests -> Handlers] /\ AllPlaced'
<1>1. ASSUME NEW q \in Requests, NEW h \in Handlers, Placed(h), req' = [req EXCEPT ![q] = h]
      PROVE  req' \in [Requests -> Handlers] /\ AllPlaced'
  BY <1>1, MoveFacts DEF AllPlaced
<1>2. ASSUME NEW q \in Requests, Leaves(q)
      PROVE  req' \in [Requests -> Handlers] /\ AllPlaced'
  BY <1>1, <1>2 DEF Leaves
<1>3. ASSUME NEW q \in Requests, NEW pc \in {"find", "create", "retry", "project", "alarm", "emit"},
             req[q].pc \in InTransaction \cup {"insert"}, 
             req[q].pc = "alarm" => pc = "emit" /\ req[q].due = {},
             req[q].pc = "insert" => pc # "emit",
             pc \in Projecting => Current(q).quality = "good",
             req' = [req EXCEPT ![q] = [req[q] EXCEPT !.pc = pc]]
      PROVE  req' \in [Requests -> Handlers] /\ AllPlaced'
  <2> DEFINE h == [req[q] EXCEPT !.pc = pc]
  <2>1. /\ req[q] \in Handlers /\ req[q].now \in Clock /\ req[q].todo # <<>>
        /\ Head(req[q].todo) \in Passing /\ Current(q) = Head(req[q].todo)
    BY <1>3, CurrentType DEF InTransaction
  <2>2. /\ h \in Handlers /\ h.pc = pc /\ h.now = req[q].now /\ h.todo = req[q].todo
        /\ h.wrote = req[q].wrote /\ h.raised = req[q].raised /\ h.due = req[q].due
    BY <2>1, GotoFacts DEF Pcs, InTransaction
  <2>3. /\ pc # "emit" => req[q].wrote = "none" /\ req[q].raised = {}
        /\ req[q].due = {}
    BY <1>3 DEF AllPlaced, Placed, InTransaction
  <2>4. req' = [req EXCEPT ![q] = h]
    BY <1>3
  <2> HIDE DEF h
  <2>5. Placed(h)
    BY <1>3, <2>1, <2>2, <2>3 DEF Placed, InTransaction, Projecting
  <2>6. QED
    BY <1>1, <2>2, <2>4, <2>5
<1>4. ASSUME NEW q \in Requests, InsertReading(q)
      PROVE  req' \in [Requests -> Handlers] /\ AllPlaced'
  <2> DEFINE pc == IF Current(q).quality = "good" THEN "project" ELSE "alarm"
  <2>1. Goto(q, pc) /\ req[q].pc = "insert"
    BY <1>4 DEF InsertReading, Busy
  <2>2. req' = [req EXCEPT ![q] = [req[q] EXCEPT !.pc = pc]]
    BY <2>1, GotoMoves DEF Pcs, InTransaction
  <2>3. pc \in {"project", "alarm"} /\ (pc \in Projecting => Current(q).quality = "good")
    BY DEF Projecting
  <2> HIDE DEF pc
  <2>4. QED
    BY <1>3, <2>1, <2>2, <2>3
<1>5. ASSUME NEW q \in Requests, NEW pc \in {"find", "create", "retry"}, Searches(q, pc)
      PROVE  req' \in [Requests -> Handlers] /\ AllPlaced'
  <2>1. Current(q).quality = "good"
    BY <1>5 DEF Searches, AllPlaced, Placed, Projecting, Current
  <2>2. QED
    BY <1>3, <1>5, <2>1 DEF Searches, InTransaction
<1>6. ASSUME NEW q \in Requests, NEW wrote \in Writes, Projects(q, wrote)
      PROVE  req' \in [Requests -> Handlers] /\ AllPlaced'
  <2>1. req[q].pc \in InTransaction /\ req' = [req EXCEPT ![q] = Entered(req[q], wrote)]
    BY <1>6 DEF Projects, InTransaction
  <2>2. /\ req[q] \in Handlers /\ req[q].now \in Clock /\ req[q].todo # <<>>
        /\ Head(req[q].todo) \in Passing
    BY <2>1, CurrentType DEF InTransaction
  <2>3. Entered(req[q], wrote) \in Handlers /\ Placed(Entered(req[q], wrote))
    BY <2>2, EnteredFacts DEF Placed, Writes, InTransaction, Projecting
  <2>4. QED
    BY <1>1, <2>1, <2>3
<1>7. ASSUME NEW q \in Requests, NEW r \in Rules, EvaluateRule(q, r)
      PROVE  req' \in [Requests -> Handlers] /\ AllPlaced'
  <2>1. PICK raised \in SUBSET Rules :
          req' = [req EXCEPT ![q] = [req[q] EXCEPT !.due = req[q].due \ {r}, !.raised = raised]]
    <3>1. req[q] \in Handlers
      BY DEF TypeOK
    <3>2. req[q].raised \subseteq Rules
      BY <3>1 DEF Handlers
    <3>3. req' = [req EXCEPT ![q] = [req[q] EXCEPT !.due = req[q].due \ {r},
                   !.raised = IF \E a \in alarms : a.rule = r THEN req[q].raised
                              ELSE req[q].raised \cup {r}]]
      BY <1>7, <3>1 DEF EvaluateRule, Handlers, TypeOK
    <3>4. QED
      BY <3>2, <3>3
  <2> DEFINE h == [req[q] EXCEPT !.due = req[q].due \ {r}, !.raised = raised]
  <2>2. req[q] \in Handlers /\ Placed(req[q]) /\ req[q].pc = "alarm"
    BY <1>7 DEF TypeOK, AllPlaced, EvaluateRule, Busy
  <2>3. /\ h \in Handlers /\ h.pc = "alarm" /\ h.now = req[q].now /\ h.todo = req[q].todo
    BY <2>2 DEF Handlers
  <2>4. req' = [req EXCEPT ![q] = h]
    BY <2>1
  <2> HIDE DEF h
  <2>5. Placed(h)
    BY <2>2, <2>3 DEF Placed, InTransaction, Projecting
  <2>6. QED
    BY <1>1, <2>3, <2>4, <2>5
<1>8. ASSUME NEW q \in Requests, Commits(q)
      PROVE  req' \in [Requests -> Handlers] /\ AllPlaced'
  <2>1. req[q].pc = "alarm" /\ req[q].due = {}
    BY <1>8 DEF Commits
  <2>2. CASE req' = [req EXCEPT ![q] = [req[q] EXCEPT !.pc = "emit"]]
    BY <1>3, <2>1, <2>2 DEF InTransaction, Projecting
  <2>3. CASE req' = [req EXCEPT ![q] = Quarantining(req[q], "mapping_engine_failure", TRUE)]
    <3>1. /\ req[q] \in Handlers /\ req[q].now \in Clock /\ req[q].todo # <<>>
      BY <2>1, CurrentType
    <3> DEFINE h == Quarantining(req[q], "mapping_engine_failure", TRUE)
    <3>3. /\ h \in Handlers /\ h.now = req[q].now /\ h.todo = req[q].todo /\ h.pc = "quarantine"
          /\ h.reason = "mapping_engine_failure" /\ h.wrote = "none" /\ h.raised = {}
          /\ h.due = {}
      BY <3>1 DEF Quarantining, Handlers, Pcs, Reasons
    <3>4. req' = [req EXCEPT ![q] = h]
      BY <2>3
    <3> HIDE DEF h
    <3>5. Placed(h)
      BY <3>1, <3>3 DEF Placed, InTransaction, Projecting
    <3>6. QED
      BY <1>1, <3>3, <3>4, <3>5
  <2>4. QED
    BY <1>8, <2>2, <2>3 DEF Commits
<1>9. CASE Crash
  <2>1. Placed(Idle)
    BY DEF Idle, Placed, InTransaction, Projecting
  <2>2. QED
    BY <1>9, <2>1, IdleType DEF Crash, AllPlaced
<1>10. CASE UNCHANGED req
  BY <1>10 DEF TypeOK, AllPlaced
<1>11. QED
  BY <1>2, <1>4, <1>5, <1>6, <1>7, <1>8, <1>9, <1>10 DEF StepKind

LEMMA TablesTyped ==
  ASSUME TypeOK, AllPlaced, StepKind
  PROVE  /\ readings' \subseteq Samples
         /\ live' \in [Channels -> SUBSET Samples]
         /\ alarms' \subseteq [rule: Rules, reading: Samples]
<1>1. ASSUME NEW q \in Requests, Commits(q)
      PROVE  /\ readings' \subseteq Samples
             /\ live' \in [Channels -> SUBSET Samples]
             /\ alarms' \subseteq [rule: Rules, reading: Samples]
  <2>1. Current(q) \in Passing /\ Current(q) \in Samples /\ req[q] \in Handlers
    BY <1>1, CurrentType DEF Commits, InTransaction
  <2>2. Key(Current(q)) \in Channels
    BY <2>1, PassingFacts
  <2>3. live' \in [Channels -> SUBSET Samples]
    <3>1. live' \in {live, [live EXCEPT ![Key(Current(q))] = {Current(q)}]}
      BY <1>1 DEF Commits, Applied
    <3>2. QED
      BY <2>1, <3>1 DEF TypeOK
  <2>4. req[q].raised \subseteq Rules
    BY <2>1 DEF Handlers
  <2>5. QED
    BY <1>1, <2>1, <2>3, <2>4 DEF Commits, Applied, TypeOK
<1>2. CASE UNCHANGED <<readings, live, alarms>>
  BY <1>2 DEF TypeOK
<1>3. QED
  BY <1>1, <1>2
  DEF StepKind, Leaves, InsertReading, Searches, Projects, EvaluateRule, Crash, tables

LEMMA ResultsTyped ==
  ASSUME TypeOK, AllPlaced, [Next]_vars
  PROVE  /\ quarantine' \subseteq [sample: Samples, reason: Reasons]
         /\ answered' \subseteq [sample: Samples, outcome: Outcomes]
<1>1. ASSUME NEW q \in Requests, Quarantine(q)
      PROVE  /\ quarantine' \subseteq [sample: Samples, reason: Reasons]
             /\ answered' \subseteq [sample: Samples, outcome: Outcomes]
  <2>1. req[q].pc = "quarantine"
    BY <1>1 DEF Quarantine, Busy
  <2>2. Current(q) \in Samples /\ req[q] \in Handlers
    BY <2>1, CurrentType
  <2>3. req[q].reason \in Reasons
    BY <2>1, <2>2 DEF AllPlaced, Placed, Handlers
  <2>4. QED
    BY <1>1, <2>2, <2>3 DEF Quarantine, TypeOK
<1>2. ASSUME NEW q \in Requests, Reply(q)
      PROVE  /\ quarantine' \subseteq [sample: Samples, reason: Reasons]
             /\ answered' \subseteq [sample: Samples, outcome: Outcomes]
  <2>1. req[q].results \subseteq [sample: Samples, outcome: Outcomes]
    BY DEF TypeOK, Handlers
  <2>2. QED
    BY <1>2, <2>1 DEF Reply, TypeOK, tables
<1>3. CASE UNCHANGED <<quarantine, answered>>
  BY <1>3 DEF TypeOK
<1>4. QED
  BY <1>1, <1>2, <1>3
  DEF Next, Work, Breaks, Receive, Gate, InsertReading, DuplicateReading, ProjectUpdate,
      ProjectFind, ProjectCreate, LoseCreate, ProjectRetry, EvaluateRule, Commit, Applied, Emit,
      Classify, CommitUnacknowledged, QuarantineFails,
      LookupFails, StatementFails, Crash, vars, tables

LEMMA CountersTyped ==
  ASSUME TypeOK, [Next]_vars
  PROVE  sends' \in 0 .. MaxSends /\ faults' \in 0 .. MaxFaults
<1>1. CASE UNCHANGED <<sends, faults>>
  BY <1>1 DEF TypeOK
<1>2. CASE sends' = sends /\ Fault
  BY <1>2, BoundsAssumption DEF Fault, TypeOK
<1>3. CASE faults' = faults /\ sends < MaxSends /\ sends' = sends + 1
  BY <1>3, BoundsAssumption DEF TypeOK
<1>4. QED
  BY <1>1, <1>2, <1>3
  DEF Next, Work, Breaks, Receive, Gate, InsertReading, DuplicateReading, ProjectUpdate,
      ProjectFind, ProjectCreate, LoseCreate, ProjectRetry, EvaluateRule, Commit, Emit, NoFault,
      Classify, Quarantine, Reply, CommitUnacknowledged, QuarantineFails,
      LookupFails, StatementFails, Crash, vars

LEMMA NextTyped == TypeOK /\ AllPlaced /\ [Next]_vars => TypeOK' /\ AllPlaced'
BY StepKinds, HandlersKept, TablesTyped, ResultsTyped, CountersTyped DEF TypeOK

\* Every reachable state is well typed: rows and answers are about samples that
\* were sent, and a handler always holds what its statement needs.
THEOREM IngestTypeOK == Spec => []TypeOK
<1>1. QED
  BY InitTyped, NextTyped, PTL DEF Spec

----------------------------------------------------------------------------
\* Rows and locks

LEMMA InitRows == Init => Rows
BY DEF Init, Rows

LEMMA NextRows ==
  ASSUME TypeOK, AllPlaced, Rows, Locks, StepKind
  PROVE  Rows'
<1>1. ASSUME NEW q \in Requests, Commits(q) PROVE Rows'
  <2>1. /\ Open(req[q]) /\ Current(q) = Sample(req[q]) /\ Current(q) \in Passing
    BY <1>1, CurrentType DEF Commits, Open, InTransaction, Sample
  <2>2. \A r \in readings : DedupKey(r) # DedupKey(Current(q))
    BY <2>1 DEF Locks, Fresh
  <2>3. Key(Current(q)) \in Channels /\ live \in [Channels -> SUBSET Samples]
    BY <2>1, PassingFacts DEF TypeOK
  <2>4. readings' = readings \cup {Current(q)}
        /\ live' = IF req[q].wrote = "none" THEN live
                   ELSE [live EXCEPT ![Key(Current(q))] = {Current(q)}]
    BY <1>1 DEF Commits, Applied
  <2>5. ASSUME NEW c \in Channels
        PROVE  live'[c] = {} \/ \E r \in readings' : Key(r) = c /\ live'[c] = {r}
    BY <2>3, <2>4 DEF Rows
  <2>6. QED
    BY <2>1, <2>2, <2>4, <2>5 DEF Rows
<1>2. CASE UNCHANGED <<readings, live>>
  BY <1>2 DEF Rows
<1>3. QED
  BY <1>1, <1>2
  DEF StepKind, Leaves, InsertReading, Searches, Projects, EvaluateRule, Crash, tables

LEMMA InitLocks == Init => Locks
<1>1. ~Open(Idle)
  BY DEF Open, Idle, InTransaction
<1>2. QED
  BY <1>1 DEF Init, Locks, Fresh, Apart

LEMMA LocksMove ==
  ASSUME TypeOK, Locks, NEW q \in Requests, NEW h \in Handlers,
         req' = [req EXCEPT ![q] = h], UNCHANGED <<readings, live>>,
         Fresh(h, readings, live), \A p \in Requests \ {q} : Apart(req[p], h)
  PROVE  Locks'
<1>1. req'[q] = h /\ \A p \in Requests \ {q} : req'[p] = req[p]
  BY MoveFacts
<1>2. \A p \in Requests \ {q} : Apart(h, req[p])
  BY DEF Apart
<1>3. QED
  BY <1>1, <1>2 DEF Locks

LEMMA CommittedHandler ==
  ASSUME TypeOK, AllPlaced, NEW q \in Requests, Commits(q)
  PROVE  \E h \in Handlers : /\ ~Open(h) /\ h.todo = req[q].todo
                             /\ req' = [req EXCEPT ![q] = h]
                             /\ h.pc = "emit" => h.wrote = req[q].wrote /\ h.raised = req[q].raised
<1>1. req[q] \in Handlers
  BY DEF TypeOK
<1>2. CASE req' = [req EXCEPT ![q] = [req[q] EXCEPT !.pc = "emit"]]
  BY <1>1, <1>2, GotoFacts DEF Open, InTransaction, Pcs
<1>3. CASE req' = [req EXCEPT ![q] = Quarantining(req[q], "mapping_engine_failure", TRUE)]
  <2> DEFINE h == Quarantining(req[q], "mapping_engine_failure", TRUE)
  <2>1. h \in Handlers /\ h.todo = req[q].todo /\ h.pc = "quarantine"
    BY <1>1 DEF Quarantining, Handlers, Pcs, Reasons
  <2> HIDE DEF h
  <2>2. ~Open(h) /\ h.pc # "emit"
    BY <2>1 DEF Open, InTransaction
  <2>3. req' = [req EXCEPT ![q] = h]
    BY <1>3 DEF h
  <2>4. QED
    BY <2>1, <2>2, <2>3
<1>4. QED
  BY <1>2, <1>3 DEF Commits

\* The handler after q's statement inside its transaction.
LEMMA SameSample ==
  ASSUME TypeOK, Locks, NEW q \in Requests, NEW h \in Handlers, Open(req[q]),
         h.todo = req[q].todo, h.wrote = req[q].wrote,
         h.pc = "retry" => live[Key(Current(q))] # {},
         req' = [req EXCEPT ![q] = h], UNCHANGED <<readings, live>>
  PROVE  Locks'
<1>1. Sample(h) = Sample(req[q]) /\ Sample(h) = Current(q)
  BY DEF Sample, Current
<1>2. Fresh(h, readings, live)
  BY <1>1 DEF Fresh, Locks
<1>3. \A p \in Requests \ {q} : Apart(req[p], h)
  BY <1>1 DEF Apart, Locks
<1>4. QED
  BY <1>2, <1>3, LocksMove

LEMMA NextLocks ==
  ASSUME TypeOK, AllPlaced, Rows, Locks, StepKind
  PROVE  Locks'
<1>1. ASSUME NEW q \in Requests, Leaves(q) PROVE Locks'
  <2>1. PICK h \in Handlers : h.pc \notin InTransaction /\ req' = [req EXCEPT ![q] = h]
    BY <1>1 DEF Leaves
  <2>2. Fresh(h, readings, live) /\ \A p \in Requests \ {q} : Apart(req[p], h)
    BY <2>1 DEF Fresh, Apart, Open
  <2>3. QED
    BY <1>1, <2>1, <2>2, LocksMove DEF Leaves
<1>2. ASSUME NEW q \in Requests, InsertReading(q) PROVE Locks'
  <2> DEFINE pc == IF Current(q).quality = "good" THEN "project" ELSE "alarm"
             h == [req[q] EXCEPT !.pc = pc]
  <2>1. pc \in Pcs /\ pc \in InTransaction \ {"retry"}
    BY DEF Pcs, InTransaction
  <2>2. req' = [req EXCEPT ![q] = h]
    BY <1>2, <2>1, GotoMoves DEF InsertReading
  <2>3. req[q] \in Handlers /\ req[q].pc = "insert"
    BY <1>2 DEF TypeOK, InsertReading, Busy
  <2> HIDE DEF pc
  <2>9. req[q].wrote = "none"
    BY <2>3 DEF AllPlaced, Placed
  <2>10. /\ h \in Handlers /\ h.pc = pc /\ h.todo = req[q].todo /\ h.wrote = req[q].wrote
    BY <2>1, <2>3, GotoFacts
  <2>4. /\ h \in Handlers /\ h.pc = pc /\ h.todo = req[q].todo /\ h.wrote = "none"
    BY <2>9, <2>10
  <2> HIDE DEF h
  <2>5. Sample(h) = Current(q)
    BY <2>4 DEF Sample, Current
  <2>6. Fresh(h, readings, live)
    BY <1>2, <2>1, <2>4, <2>5 DEF InsertReading, Stored, Fresh
  <2>7. \A p \in Requests \ {q} : Apart(req[p], h)
    BY <1>2, <2>4, <2>5 DEF InsertReading, HoldsIdentity, Apart, Open, Sample, Current
  <2>8. QED
    BY <1>2, <2>2, <2>4, <2>6, <2>7, LocksMove DEF InsertReading, tables
<1>3. ASSUME NEW q \in Requests, NEW pc \in {"find", "create", "retry"}, Searches(q, pc)
      PROVE  Locks'
  <2>1. req[q] \in Handlers /\ Open(req[q])
    BY <1>3 DEF TypeOK, Searches, Open, InTransaction
  <2>2. /\ [req[q] EXCEPT !.pc = pc] \in Handlers
        /\ [req[q] EXCEPT !.pc = pc].pc = pc
        /\ [req[q] EXCEPT !.pc = pc].todo = req[q].todo
        /\ [req[q] EXCEPT !.pc = pc].wrote = req[q].wrote
    BY <2>1, GotoFacts DEF Pcs, InTransaction
  <2>3. QED
    BY <1>3, <2>1, <2>2, SameSample DEF Searches, tables
<1>4. ASSUME NEW q \in Requests, NEW wrote \in Writes, Projects(q, wrote) PROVE Locks'
  <2> DEFINE h == Entered(req[q], wrote)
  <2>1. req[q] \in Handlers /\ Open(req[q]) /\ Current(q) \in Passing
    BY <1>4, CurrentType DEF Projects, Open, InTransaction
  <2>2. h \in Handlers /\ h.pc = "alarm" /\ h.todo = req[q].todo /\ h.wrote = wrote
    BY <2>1, EnteredFacts DEF Writes
  <2>3. Key(Current(q)) \in Channels
    BY <2>1, PassingFacts
  <2>4. Sample(h) = Current(q) /\ Sample(req[q]) = Current(q)
    BY <2>2 DEF Sample, Current
  <2>5. wrote # "none" => \A r \in live[Key(Current(q))] : r.timestamp < Current(q).timestamp
    <3>1. \A r1, r2 \in live[Key(Current(q))] : r1 = r2
      BY <2>3 DEF Rows
    <3>2. QED
      BY <1>4, <3>1 DEF Projects, Older
  <2>6. wrote # "none" =>
          \A p \in Requests \ {q} :
            Open(req[p]) /\ req[p].wrote # "none" => Key(Sample(req[p])) # Key(Current(q))
    BY <1>4 DEF Projects, LiveLocked, HoldsLive, Open, Sample, Current
  <2>7. Fresh(h, readings, live)
    BY <2>1, <2>2, <2>4, <2>5 DEF Fresh, Locks
  <2>8. \A p \in Requests \ {q} : Apart(req[p], h)
    BY <2>1, <2>2, <2>4, <2>6 DEF Apart, Locks
  <2>9. QED
    BY <1>4, <2>2, <2>7, <2>8, LocksMove DEF Projects, tables
<1>5. ASSUME NEW q \in Requests, NEW r \in Rules, EvaluateRule(q, r) PROVE Locks'
  <2> DEFINE h == [req[q] EXCEPT !.due = req[q].due \ {r},
                      !.raised = IF \E a \in alarms : a.rule = r THEN req[q].raised
                                 ELSE req[q].raised \cup {r}]
  <2>1. req[q] \in Handlers /\ req[q].pc = "alarm" /\ Open(req[q])
    BY <1>5 DEF EvaluateRule, Busy, TypeOK, Open, InTransaction
  <2>2. req[q].raised \subseteq Rules
    BY <2>1 DEF Handlers
  <2>3. h \in Handlers /\ h.pc = "alarm" /\ h.todo = req[q].todo /\ h.wrote = req[q].wrote
    BY <2>1, <2>2 DEF Handlers
  <2>4. req' = [req EXCEPT ![q] = h]
    BY <1>5, <2>1 DEF EvaluateRule, Handlers, TypeOK
  <2> HIDE DEF h
  <2>5. QED
    BY <1>5, <2>1, <2>3, <2>4, SameSample DEF EvaluateRule, tables
<1>6. ASSUME NEW q \in Requests, Commits(q) PROVE Locks'
  <2>1. /\ Open(req[q]) /\ Current(q) = Sample(req[q]) /\ Current(q) \in Passing
    BY <1>6, CurrentType DEF Commits, Open, InTransaction, Sample
  <2>2. PICK h \in Handlers : ~Open(h) /\ req' = [req EXCEPT ![q] = h]
    BY <1>6, CommittedHandler
  <2>3. req'[q] = h /\ \A p \in Requests \ {q} : req'[p] = req[p]
    BY <2>2, MoveFacts
  <2>4. ASSUME NEW p \in Requests \ {q}, Open(req[p])
        PROVE  Fresh(req[p], readings', live')
    <3>1. Apart(req[p], req[q]) /\ Fresh(req[p], readings, live)
      BY DEF Locks
    <3>2. readings' = readings \cup {Current(q)}
          /\ live' = IF req[q].wrote = "none" THEN live
                     ELSE [live EXCEPT ![Key(Current(q))] = {Current(q)}]
      BY <1>6 DEF Commits, Applied
    <3>3. Key(Current(q)) \in Channels /\ live \in [Channels -> SUBSET Samples]
      BY <2>1, PassingFacts DEF TypeOK
    <3>4. req[p].pc = "retry" => live'[Key(Sample(req[p]))] # {}
      BY <2>4, <3>1, <3>2, <3>3 DEF Fresh
    <3>5. req[p].wrote # "none" => live'[Key(Sample(req[p]))] = live[Key(Sample(req[p]))]
      BY <2>1, <2>4, <3>1, <3>2, <3>3 DEF Apart
    <3>6. \A r \in readings' : DedupKey(r) # DedupKey(Sample(req[p]))
      BY <2>1, <2>4, <3>1, <3>2 DEF Apart, Fresh
    <3>7. QED
      BY <3>1, <3>4, <3>5, <3>6 DEF Fresh
  <2>5. \A p \in Requests : Fresh(req'[p], readings', live')
    BY <2>2, <2>3, <2>4 DEF Fresh
  <2>6. \A p1 \in Requests : \A p2 \in Requests \ {p1} : Apart(req'[p2], req'[p1])
    BY <2>2, <2>3 DEF Locks, Apart
  <2>7. QED
    BY <2>5, <2>6 DEF Locks
<1>7. CASE Crash
  <2>1. ~Open(Idle)
    BY DEF Open, Idle, InTransaction
  <2>2. QED
    BY <1>7, <2>1 DEF Crash, Locks, Fresh, Apart
<1>8. CASE UNCHANGED <<readings, live, req>>
  BY <1>8 DEF Locks
<1>9. QED
  BY <1>1, <1>2, <1>3, <1>4, <1>5, <1>6, <1>7, <1>8 DEF StepKind, history

----------------------------------------------------------------------------
\* What a step does to any one handler.

\* A handler that raises a rule has found no event of it.
Raises(h1, h2) ==
  \A r \in h2.raised \ h1.raised : \A a \in alarms : a.rule # r

\* One rule is looked at, and raised if it has no event.
Looks(r, h1, h2) ==
  /\ h2.due = h1.due \ {r}
  /\ h2.raised = IF \E a \in alarms : a.rule = r THEN h1.raised ELSE h1.raised \cup {r}

HandlerStep(p) ==
  \/ req'[p] = req[p]
  \/ ~Open(req'[p]) /\ req'[p].pc # "emit"
  \/ /\ Commits(p)
     /\ ~Open(req'[p])
     /\ req'[p].todo = req[p].todo
     /\ req'[p].wrote = req[p].wrote
     /\ req'[p].raised = req[p].raised
  \/ /\ Open(req'[p])
     /\ req'[p].raised = {} /\ req'[p].due = {}
     /\ req'[p].pc = "alarm" => Sample(req'[p]).quality # "good"
  \/ /\ Open(req[p]) /\ Open(req'[p])
     /\ req'[p].pc # "alarm"
     /\ req'[p].raised = req[p].raised
  \/ /\ Open(req[p]) /\ Open(req'[p])
     /\ req'[p].todo = req[p].todo
     /\ req[p].pc \in Projecting
     /\ req'[p].raised = req[p].raised
     /\ req'[p].due = Violations(Sample(req[p]))
     /\ req'[p].wrote = "none" =>
          \/ Current(p) \in skipped'
          \/ live[Key(Current(p))] # {} /\ ~Older(Key(Current(p)), Current(p))
     /\ UNCHANGED <<readings, live, alarms, overlapped>>
  \/ /\ Open(req[p]) /\ Open(req'[p])
     /\ req[p].pc = "alarm"
     /\ req'[p].todo = req[p].todo
     /\ req'[p].wrote = req[p].wrote
     /\ \E r \in req[p].due : Looks(r, req[p], req'[p])
     /\ Raises(req[p], req'[p])
     /\ UNCHANGED <<readings, live, alarms, overlapped>>

LEMMA HandlerSteps ==
  ASSUME TypeOK, AllPlaced, Locks, StepKind
  PROVE  \A p \in Requests : HandlerStep(p)
<1>1. ASSUME NEW q \in Requests, NEW h \in Handlers, req' = [req EXCEPT ![q] = h],
             req'[q] = h => HandlerStep(q)
      PROVE  \A p \in Requests : HandlerStep(p)
  BY <1>1, MoveFacts DEF HandlerStep
<1>2. ASSUME NEW q \in Requests, Leaves(q) PROVE \A p \in Requests : HandlerStep(p)
  <2>1. PICK h \in Handlers : h.pc \notin InTransaction \cup {"emit"} /\ req' = [req EXCEPT ![q] = h]
    BY <1>2 DEF Leaves
  <2>2. QED
    BY <1>1, <2>1 DEF HandlerStep, Open
<1>3. ASSUME NEW q \in Requests, InsertReading(q) PROVE \A p \in Requests : HandlerStep(p)
  <2> DEFINE pc == IF Current(q).quality = "good" THEN "project" ELSE "alarm"
             h == [req[q] EXCEPT !.pc = pc]
  <2>1. pc \in Pcs /\ pc \in InTransaction /\ (pc = "alarm" => Current(q).quality # "good")
    BY DEF Pcs, InTransaction
  <2>2. req' = [req EXCEPT ![q] = h]
    BY <1>3, <2>1, GotoMoves DEF InsertReading
  <2>3. req[q] \in Handlers /\ req[q].raised = {} /\ req[q].due = {}
    BY <1>3 DEF TypeOK, InsertReading, Busy, AllPlaced, Placed
  <2> HIDE DEF pc
  <2>4. /\ h \in Handlers /\ h.pc = pc /\ h.todo = req[q].todo
        /\ h.raised = req[q].raised /\ h.due = req[q].due
    BY <2>1, <2>3, GotoFacts
  <2> HIDE DEF h
  <2>5. QED
    BY <1>1, <2>1, <2>2, <2>3, <2>4 DEF HandlerStep, Open, Sample, Current
<1>4. ASSUME NEW q \in Requests, NEW pc \in {"find", "create", "retry"}, Searches(q, pc)
      PROVE  \A p \in Requests : HandlerStep(p)
  <2>1. req[q] \in Handlers /\ Open(req[q])
    BY <1>4 DEF TypeOK, Searches, Open, InTransaction
  <2>2. /\ [req[q] EXCEPT !.pc = pc] \in Handlers
        /\ [req[q] EXCEPT !.pc = pc].pc = pc
        /\ [req[q] EXCEPT !.pc = pc].raised = req[q].raised
    BY <2>1, GotoFacts DEF Pcs, InTransaction
  <2>3. QED
    BY <1>1, <1>4, <2>1, <2>2 DEF Searches, HandlerStep, Open, InTransaction
<1>5. ASSUME NEW q \in Requests, NEW wrote \in Writes, Projects(q, wrote)
      PROVE  \A p \in Requests : HandlerStep(p)
  <2> DEFINE h == Entered(req[q], wrote)
  <2>1. req[q] \in Handlers /\ Open(req[q]) /\ Current(q) = Sample(req[q])
    BY <1>5 DEF Projects, Open, InTransaction, TypeOK, Current, Sample
  <2>2. h \in Handlers /\ h.pc = "alarm" /\ h.todo = req[q].todo /\ h.wrote = wrote
        /\ h.raised = req[q].raised /\ h.due = Violations(Sample(req[q]))
    BY <2>1, EnteredFacts DEF Writes, Sample
  <2>3. req[q].pc = "retry" => live[Key(Current(q))] # {}
    BY <2>1 DEF Locks, Fresh
  <2>4. wrote = "none" =>
          \/ Current(q) \in skipped'
          \/ live[Key(Current(q))] # {} /\ ~Older(Key(Current(q)), Current(q))
    BY <1>5, <2>3 DEF Projects
  <2>5. req' = [req EXCEPT ![q] = h] /\ UNCHANGED <<readings, live, alarms, overlapped>>
    BY <1>5 DEF Projects, tables
  <2> HIDE DEF h
  <2>6. req'[q] = h => HandlerStep(q)
    BY <1>5, <2>1, <2>2, <2>4, <2>5 DEF HandlerStep, Open, InTransaction, Projects, Projecting
  <2>7. QED
    BY <1>1, <2>2, <2>5, <2>6
<1>6. ASSUME NEW q \in Requests, NEW r \in Rules, EvaluateRule(q, r)
      PROVE  \A p \in Requests : HandlerStep(p)
  <2> DEFINE h == [req[q] EXCEPT !.due = req[q].due \ {r},
                      !.raised = IF \E a \in alarms : a.rule = r THEN req[q].raised
                                 ELSE req[q].raised \cup {r}]
  <2>1. req[q] \in Handlers /\ req[q].pc = "alarm" /\ Open(req[q])
    BY <1>6 DEF EvaluateRule, Busy, TypeOK, Open, InTransaction
  <2>2. req[q].raised \subseteq Rules
    BY <2>1 DEF Handlers
  <2>3. h \in Handlers /\ h.pc = "alarm" /\ h.todo = req[q].todo /\ h.wrote = req[q].wrote
        /\ h.due = req[q].due \ {r}
        /\ h.raised = IF \E a \in alarms : a.rule = r THEN req[q].raised
                      ELSE req[q].raised \cup {r}
    BY <2>1, <2>2 DEF Handlers
  <2>4. req' = [req EXCEPT ![q] = h]
    BY <1>6, <2>1 DEF EvaluateRule, Handlers, TypeOK
  <2>5. UNCHANGED <<readings, live, alarms, overlapped>>
    BY <1>6 DEF EvaluateRule, tables, history
  <2> HIDE DEF h
  <2>6. Raises(req[q], h) /\ \E x \in req[q].due : Looks(x, req[q], h)
    BY <1>6, <2>3 DEF Raises, Looks, EvaluateRule
  <2>7. req'[q] = h => HandlerStep(q)
    BY <2>1, <2>3, <2>5, <2>6 DEF HandlerStep, Open, InTransaction
  <2>8. QED
    BY <1>1, <2>3, <2>4, <2>7
<1>7. ASSUME NEW q \in Requests, Commits(q) PROVE \A p \in Requests : HandlerStep(p)
  <2>1. PICK h \in Handlers : /\ ~Open(h) /\ h.todo = req[q].todo
                              /\ req' = [req EXCEPT ![q] = h]
                              /\ h.pc = "emit" => h.wrote = req[q].wrote /\ h.raised = req[q].raised
    BY <1>7, CommittedHandler
  <2>2. req'[q] = h => HandlerStep(q)
    BY <1>7, <2>1 DEF HandlerStep
  <2>3. QED
    BY <1>1, <2>1, <2>2
<1>8. CASE Crash
  <2>1. ~Open(Idle) /\ Idle.pc # "emit"
    BY DEF Open, Idle, InTransaction
  <2>2. QED
    BY <1>8, <2>1 DEF Crash, HandlerStep
<1>9. CASE UNCHANGED req
  BY <1>9 DEF HandlerStep
<1>10. QED
  BY <1>2, <1>3, <1>4, <1>5, <1>6, <1>7, <1>8, <1>9 DEF StepKind

\* What a step does to the tables: nothing, or one transaction's commit.
LEMMA TableSteps ==
  ASSUME TypeOK, AllPlaced, StepKind
  PROVE  \/ UNCHANGED <<readings, live, alarms, overlapped>> /\ skipped \subseteq skipped'
         \/ \E q \in Requests :
              /\ Commits(q)
              /\ Open(req[q]) /\ Current(q) = Sample(req[q]) /\ Current(q) \in Passing
              /\ \A p \in Requests \ {q} : req'[p] = req[p]
<1>1. ASSUME NEW q \in Requests, Commits(q)
      PROVE  /\ Open(req[q]) /\ Current(q) = Sample(req[q]) /\ Current(q) \in Passing
             /\ \A p \in Requests \ {q} : req'[p] = req[p]
  <2>1. PICK h \in Handlers : req' = [req EXCEPT ![q] = h]
    BY <1>1, CommittedHandler
  <2>2. \A p \in Requests \ {q} : req'[p] = req[p]
    BY <2>1, MoveFacts
  <2>3. QED
    BY <1>1, <2>2, CurrentType DEF Commits, Open, InTransaction, Sample
<1>2. QED
  BY <1>1
  DEF StepKind, Leaves, InsertReading, Searches, Projects, EvaluateRule, Crash, tables, history

----------------------------------------------------------------------------
\* The latest readings

LEMMA StaysShown ==
  ASSUME TypeOK, AllPlaced, Rows, Locks, StepKind, NEW s \in Passing, Shown(s, live)
  PROVE  Shown(s, live')
<1>1. ASSUME NEW q \in Requests, Commits(q), Open(req[q]), Current(q) = Sample(req[q]),
             Current(q) \in Passing
      PROVE  Shown(s, live')
  <2>1. live' = IF req[q].wrote = "none" THEN live
                ELSE [live EXCEPT ![Key(Current(q))] = {Current(q)}]
    BY <1>1 DEF Commits, Applied
  <2>2. CASE req[q].wrote = "none" \/ Key(Current(q)) # Key(s)
    BY <2>1, <2>2, PassingFacts DEF Shown, TypeOK
  <2>3. CASE req[q].wrote # "none" /\ Key(Current(q)) = Key(s)
    <3>1. PICK r \in live[Key(s)] : r.timestamp >= s.timestamp
      BY DEF Shown
    <3>2. r \in Samples
      BY <3>1, PassingFacts DEF TypeOK
    <3>3. r.timestamp < Current(q).timestamp
      BY <1>1, <2>3, <3>1 DEF Locks, Fresh
    <3>4. Current(q) \in live'[Key(s)]
      BY <2>1, <2>3, PassingFacts DEF TypeOK
    <3>5. Current(q).timestamp >= s.timestamp
      BY <1>1, <3>1, <3>2, <3>3, PassingFacts, SamplesAssumption
    <3>6. QED
      BY <3>4, <3>5 DEF Shown
  <2>4. QED
    BY <2>2, <2>3
<1>2. CASE UNCHANGED live
  BY <1>2 DEF Shown
<1>3. QED
  BY <1>1, <1>2, TableSteps

\* A row that is not older is as recent.
LEMMA NotOlderIsShown ==
  ASSUME TypeOK, NEW s \in Passing, live[Key(s)] # {}, ~Older(Key(s), s)
  PROVE  Shown(s, live)
<1>1. PICK r \in live[Key(s)] : TRUE
  OBVIOUS
<1>2. r \in Samples /\ s \in Samples
  BY <1>1, PassingFacts DEF TypeOK
<1>3. QED
  BY <1>1, <1>2, SamplesAssumption DEF Shown, Older

LEMMA SkippedGrows ==
  ASSUME TypeOK, AllPlaced, StepKind
  PROVE  skipped \subseteq skipped'
<1>1. ASSUME NEW q \in Requests, Commits(q) PROVE skipped' = skipped
  BY <1>1 DEF Commits, Applied
<1>2. QED
  BY <1>1, TableSteps

LEMMA InitLatest == Init => Latest
<1>1. Seen(Idle)
  BY DEF Seen, Idle
<1>2. QED
  BY <1>1 DEF Init, Latest, LatestUnlessRaced, Seen

LEMMA NextLatest ==
  ASSUME TypeOK, AllPlaced, Rows, Locks, Latest, StepKind, AllPlaced'
  PROVE  Latest'
<1>1. skipped \subseteq skipped'
  BY SkippedGrows
<1>2. LatestUnlessRaced'
  <2>1. ASSUME NEW q \in Requests, Commits(q), Open(req[q]), Current(q) = Sample(req[q]),
               Current(q) \in Passing
        PROVE  LatestUnlessRaced'
    <3>1. /\ req[q].pc = "alarm"
          /\ readings' = readings \cup {Current(q)}
          /\ live' = IF req[q].wrote = "none" THEN live
                     ELSE [live EXCEPT ![Key(Current(q))] = {Current(q)}]
      BY <2>1 DEF Commits, Applied
    <3>2. \A s \in readings : Shown(s, live) => Shown(s, live')
      BY StaysShown DEF Rows
    <3>3. CASE req[q].wrote = "none"
      <4>1. Current(q).quality = "good" => Current(q) \in skipped \/ Shown(Current(q), live)
        BY <2>1, <3>1, <3>3 DEF Latest, Seen
      <4>2. Current(q).quality = "good" => Current(q) \in skipped' \/ Shown(Current(q), live')
        BY <1>1, <2>1, <4>1, StaysShown
      <4>3. QED
        BY <1>1, <3>1, <3>2, <4>2 DEF Latest, LatestUnlessRaced, Shown
    <3>4. CASE req[q].wrote # "none"
      <4>1. Current(q) \in live'[Key(Current(q))]
        BY <2>1, <3>1, <3>4, PassingFacts DEF TypeOK
      <4>2. Current(q).timestamp >= Current(q).timestamp
        BY <2>1, PassingFacts, SamplesAssumption
      <4>3. QED
        BY <1>1, <3>1, <3>2, <4>1, <4>2 DEF Latest, LatestUnlessRaced, Shown
    <3>5. QED
      BY <3>3, <3>4
  <2>2. CASE UNCHANGED <<readings, live>>
    BY <1>1, <2>2 DEF Latest, LatestUnlessRaced
  <2>3. QED
    BY <2>1, <2>2, TableSteps
<1>3. ASSUME NEW p \in Requests PROVE Seen(req[p])'
  <2> SUFFICES ASSUME req'[p].pc = "alarm", Sample(req'[p]).quality = "good",
                      req'[p].wrote = "none"
               PROVE  Sample(req'[p]) \in skipped' \/ Shown(Sample(req'[p]), live')
    BY DEF Seen, Shown
  <2>1. Sample(req'[p]) \in Passing
    BY DEF AllPlaced, Placed, InTransaction, Sample
  <2>2. CASE /\ req[p].pc = "alarm" /\ Sample(req'[p]) = Sample(req[p])
             /\ req'[p].wrote = req[p].wrote
    <3>1. Sample(req[p]) \in skipped \/ Shown(Sample(req[p]), live)
      BY <2>2 DEF Latest, Seen
    <3>2. QED
      BY <1>1, <2>1, <2>2, <3>1, StaysShown
  <2>3. CASE /\ Sample(req'[p]) = Current(p)
             /\ \/ Current(p) \in skipped'
                \/ live[Key(Current(p))] # {} /\ ~Older(Key(Current(p)), Current(p))
    BY <2>1, <2>3, NotOlderIsShown, StaysShown
  <2>4. QED
    BY <2>2, <2>3, HandlerSteps DEF HandlerStep, Sample, Current, Open, InTransaction
<1>4. QED
  BY <1>2, <1>3 DEF Latest

----------------------------------------------------------------------------
\* Alarms

LEMMA InitAlarms == Init => Alarms
<1>1. Guarded(Idle) /\ Evaluated(Idle)
  BY DEF Guarded, Evaluated, Open, Idle, InTransaction
<1>2. QED
  BY <1>1 DEF Init, Alarms, OneAlarmUnlessOverlap, NoMissedAlarm, Guarded, Evaluated

\* What a transaction has looked at stays looked at, whoever commits meanwhile.
LEMMA NextEvaluated ==
  ASSUME TypeOK, AllPlaced, Locks, Alarms, StepKind, AllPlaced', NEW p \in Requests,
         alarms \subseteq alarms'
  PROVE  Evaluated(req[p])'
<1> SUFFICES ASSUME req'[p].pc = "alarm"
             PROVE  /\ req'[p].due \cup req'[p].raised \subseteq Alerting(Sample(req'[p]))
                    /\ \A r \in Alerting(Sample(req'[p])) \ req'[p].due :
                         r \in req'[p].raised \/ \E a \in alarms' : a.rule = r
  BY DEF Evaluated, Sample, Alerting
<1>1. CASE /\ req[p].pc = "alarm" /\ Sample(req'[p]) = Sample(req[p])
           /\ req'[p].due = req[p].due /\ req'[p].raised = req[p].raised
  BY <1>1 DEF Alarms, Evaluated
<1>2. CASE /\ req'[p].raised = {} /\ req'[p].due = {}
           /\ Sample(req'[p]).quality # "good"
  BY <1>2 DEF Alerting
<1>3. CASE /\ req[p].pc \in Projecting /\ Sample(req'[p]) = Sample(req[p])
           /\ req'[p].due = Violations(Sample(req[p])) /\ req'[p].raised = req[p].raised
  <2>1. Sample(req[p]).quality = "good" /\ req[p].raised = {}
    BY <1>3 DEF AllPlaced, Placed, Sample, Projecting
  <2>2. QED
    BY <1>3, <2>1 DEF Alerting
<1>4. CASE /\ req[p].pc = "alarm" /\ Sample(req'[p]) = Sample(req[p])
           /\ \E r \in req[p].due : Looks(r, req[p], req'[p])
  BY <1>4 DEF Alarms, Evaluated, Looks
<1>5. QED
  BY <1>1, <1>2, <1>3, <1>4, HandlerSteps DEF HandlerStep, Open, InTransaction, Sample

LEMMA NextAlarms ==
  ASSUME TypeOK, AllPlaced, Locks, Alarms, StepKind, AllPlaced'
  PROVE  Alarms'
<1>1. ASSUME NEW q \in Requests, Commits(q), Open(req[q]),
             \A p \in Requests \ {q} : req'[p] = req[p]
      PROVE  Alarms'
  <2> DEFINE rule == req[q].raised
             twice == {r \in rule : \E p \in Requests \ {q} :
                                      req[p].pc \in InTransaction /\ r \in req[p].raised}
  <2>1. /\ alarms' = alarms \cup {[rule |-> r, reading |-> Current(q)] : r \in rule}
        /\ overlapped' = overlapped \cup twice
    BY <1>1 DEF Commits, Applied
  <2>2. \A a \in alarms' \ alarms : a.rule \in rule /\ a = [rule |-> a.rule, reading |-> Current(q)]
    BY <2>1
  <2>3. \A a \in alarms : a.rule \in rule => a.rule \in overlapped
    BY <1>1 DEF Alarms, Guarded
  <2> HIDE DEF rule
  <2>4. OneAlarmUnlessOverlap'
    <3> SUFFICES ASSUME NEW a1 \in alarms', NEW a2 \in alarms', a1.rule = a2.rule
                 PROVE  a1 = a2 \/ a1.rule \in overlapped'
      BY DEF OneAlarmUnlessOverlap
    <3>1. CASE a1 \in alarms /\ a2 \in alarms
      BY <2>1, <3>1 DEF Alarms, OneAlarmUnlessOverlap
    <3>2. CASE a1 \in alarms /\ a2 \notin alarms
      BY <2>1, <2>2, <2>3, <3>2
    <3>3. CASE a1 \notin alarms /\ a2 \in alarms
      BY <2>1, <2>2, <2>3, <3>3
    <3>4. CASE a1 \notin alarms /\ a2 \notin alarms
      BY <2>2, <3>4
    <3>5. QED
      BY <3>1, <3>2, <3>3, <3>4
  <2>5. ASSUME NEW p \in Requests PROVE Guarded(req[p])'
    <3>1. CASE p = q
      <4>1. ~Open(req'[q])
        BY <1>1, CommittedHandler, MoveFacts
      <4>2. QED
        BY <3>1, <4>1 DEF Guarded
    <3>2. CASE p # q
      <4> SUFFICES ASSUME Open(req[p]), NEW a \in alarms', a.rule \in req[p].raised
                   PROVE  a.rule \in overlapped'
        BY <1>1, <3>2 DEF Guarded
      <4>1. CASE a \in alarms
        BY <2>1, <4>1 DEF Alarms, Guarded
      <4>2. CASE a \notin alarms
        BY <2>1, <2>2, <3>2, <4>2 DEF Open
      <4>3. QED
        BY <4>1, <4>2
    <3>3. QED
      BY <3>1, <3>2
  <2>6. NoMissedAlarm'
    <3>1. readings' = readings \cup {Current(q)}
      BY <1>1 DEF Commits, Applied
    <3>2. /\ rule \subseteq Alerting(Current(q))
          /\ \A r \in Alerting(Current(q)) : r \in rule \/ \E a \in alarms : a.rule = r
      BY <1>1 DEF Alarms, Evaluated, Commits, Sample, Current, rule
    <3>3. ASSUME NEW r \in rule PROVE \E a \in alarms' : a.rule = r
      <4>1. [rule |-> r, reading |-> Current(q)] \in alarms'
        BY <2>1
      <4>2. QED
        BY <4>1
    <3>4. \A r \in Alerting(Current(q)) : \E a \in alarms' : a.rule = r
      BY <2>1, <3>2, <3>3
    <3>5. \A a \in alarms' : a.reading \in readings' /\ a.rule \in Alerting(a.reading)
      BY <2>2, <3>1, <3>2 DEF Alarms, NoMissedAlarm
    <3>6. \A s \in readings' : \A r \in Alerting(s) : \E a \in alarms' : a.rule = r
      BY <2>1, <3>1, <3>4 DEF Alarms, NoMissedAlarm
    <3>7. QED
      BY <3>5, <3>6 DEF NoMissedAlarm
  <2>7. \A p \in Requests : Evaluated(req[p])'
    BY <2>1, NextEvaluated
  <2>8. QED
    BY <2>4, <2>5, <2>6, <2>7 DEF Alarms
<1>2. CASE UNCHANGED <<readings, live, alarms, overlapped>>
  <2>1. OneAlarmUnlessOverlap'
    BY <1>2 DEF Alarms, OneAlarmUnlessOverlap
  <2>2. ASSUME NEW p \in Requests PROVE Guarded(req[p])'
    <3>1. CASE req'[p].raised = req[p].raised /\ Open(req[p])
      BY <1>2, <3>1 DEF Alarms, Guarded
    <3>2. CASE req'[p].raised = {} \/ ~Open(req'[p])
      BY <3>2 DEF Guarded
    <3>3. CASE Raises(req[p], req'[p]) /\ Open(req[p])
      BY <1>2, <3>3 DEF Alarms, Guarded, Raises
    <3>4. CASE req'[p] = req[p]
      BY <1>2, <3>4 DEF Alarms, Guarded
    <3>5. QED
      BY <3>1, <3>2, <3>3, <3>4, HandlerSteps DEF HandlerStep
  <2>3. NoMissedAlarm'
    BY <1>2 DEF Alarms, NoMissedAlarm
  <2>4. \A p \in Requests : Evaluated(req[p])'
    BY <1>2, NextEvaluated
  <2>5. QED
    BY <2>1, <2>2, <2>3, <2>4 DEF Alarms
<1>3. QED
  BY <1>1, <1>2, TableSteps

----------------------------------------------------------------------------
\* Events

LEMMA InitEvents == Init => Events
<1>1. Owed(Idle)
  BY DEF Owed, Idle
<1>2. QED
  BY <1>1 DEF Init, Events, NoGhostEvents, Owed

\* What is committed stays, so what could be said of it once may be said again.
LEMMA TablesGrow ==
  ASSUME TypeOK, AllPlaced, StepKind
  PROVE  readings \subseteq readings' /\ alarms \subseteq alarms'
<1>1. ASSUME NEW q \in Requests, Commits(q)
      PROVE  readings \subseteq readings' /\ alarms \subseteq alarms'
  BY <1>1 DEF Commits, Applied
<1>2. QED
  BY <1>1, TableSteps

LEMMA NextOwed ==
  ASSUME TypeOK, AllPlaced, Rows, Locks, Events, StepKind, NEW p \in Requests
  PROVE  Owed(req[p])'
<1>1. CASE ~Commits(p)
  <2>1. req'[p] = req[p] \/ req'[p].pc # "emit"
    BY <1>1, HandlerSteps DEF HandlerStep, Open, InTransaction
  <2>2. Sample(req[p]) \in readings => Sample(req[p]) \in Passing
    BY DEF Rows
  <2>3. QED
    BY <2>1, <2>2, StaysShown, TablesGrow DEF Events, Owed
<1>2. CASE Commits(p)
  <2>1. PICK h \in Handlers : /\ h.todo = req[p].todo
                              /\ req' = [req EXCEPT ![p] = h]
                              /\ h.pc = "emit" => h.wrote = req[p].wrote /\ h.raised = req[p].raised
    BY <1>2, CommittedHandler
  <2>2. req'[p] = h
    BY <2>1, MoveFacts
  <2>3. /\ Current(p) \in Passing /\ Current(p) = Sample(h)
    BY <1>2, <2>1, CurrentType DEF Commits, Sample, InTransaction
  <2>4. /\ readings' = readings \cup {Current(p)}
        /\ live' = IF req[p].wrote = "none" THEN live
                   ELSE [live EXCEPT ![Key(Current(p))] = {Current(p)}]
        /\ alarms' = alarms \cup {[rule |-> r, reading |-> Current(p)] : r \in req[p].raised}
    BY <1>2 DEF Commits, Applied
  <2>5. req[p].wrote # "none" => Shown(Current(p), live')
    BY <2>3, <2>4, PassingFacts, SamplesAssumption DEF TypeOK, Shown
  <2>6. QED
    BY <2>1, <2>2, <2>3, <2>4, <2>5 DEF Owed
<1>3. QED
  BY <1>1, <1>2

\* One event of those owed.
Published(e) ==
  /\ e.reading \in readings
  /\ e.kind = "alarm.event.created" => [rule |-> e.rule, reading |-> e.reading] \in alarms
  /\ e.kind = "live_reading.updated" => Shown(e.reading, live)

LEMMA PendingPublished ==
  ASSUME NEW q \in Requests, Owed(req[q]), req[q].pc = "emit", NEW e \in PendingEvents(q)
  PROVE  Published(e)
<1>1. Current(q) = Sample(req[q])
  BY DEF Current, Sample
<1>2. CASE e = Event("telemetry.reading.accepted", Current(q), NoRule)
  BY <1>1, <1>2 DEF Event, Published, Owed
<1>3. CASE e = Event("live_reading.updated", Current(q), NoRule) /\ req[q].wrote # "none"
  BY <1>1, <1>3 DEF Event, Published, Owed
<1>4. ASSUME NEW r \in req[q].raised, e = Event("alarm.event.created", Current(q), r)
      PROVE  Published(e)
  BY <1>1, <1>4 DEF Event, Published, Owed
<1>5. QED
  BY <1>2, <1>3, <1>4 DEF PendingEvents

LEMMA NextEvents ==
  ASSUME TypeOK, AllPlaced, Rows, Locks, Events, StepKind
  PROVE  Events'
<1>1. \A e \in emitted' : Published(e)
  <2>1. \A e \in emitted : Published(e)
    BY DEF Events, NoGhostEvents, Published, Shown
  <2>2. ASSUME NEW q \in Requests, Emit(q) PROVE \A e \in emitted' : Published(e)
    <3>1. \A e \in emitted' \ emitted : e \in PendingEvents(q)
      BY <2>2 DEF Emit
    <3>2. Owed(req[q]) /\ req[q].pc = "emit"
      BY <2>2 DEF Events, Emit, Busy
    <3>3. QED
      BY <2>1, <3>1, <3>2, PendingPublished
  <2>3. CASE UNCHANGED emitted
    BY <2>1, <2>3
  <2>4. QED
    BY <2>2, <2>3
    DEF StepKind, InsertReading, Searches, Projects, EvaluateRule, Commits, Crash
<1>2. \A e \in emitted' : e.reading \in Passing
  BY <1>1 DEF Published, Rows
<1>3. NoGhostEvents'
  BY <1>1, <1>2, StaysShown, TablesGrow DEF NoGhostEvents, Published, Shown
<1>4. QED
  BY <1>3, NextOwed DEF Events

----------------------------------------------------------------------------
\* The invariant, and what it is for

LEMMA InitIInv == Init => IInv
BY InitTyped, InitRows, InitLocks, InitLatest, InitAlarms, InitEvents DEF IInv

LEMMA NextIInv == IInv /\ [Next]_vars => IInv'
<1> SUFFICES ASSUME IInv, [Next]_vars PROVE IInv'
  OBVIOUS
<1>1. StepKind /\ TypeOK' /\ AllPlaced'
  BY StepKinds, NextTyped DEF IInv
<1>2. Rows' /\ Locks'
  BY <1>1, NextRows, NextLocks DEF IInv
<1>3. Latest'
  BY <1>1, NextLatest DEF IInv
<1>4. Alarms'
  BY <1>1, NextAlarms DEF IInv
<1>5. Events'
  BY <1>1, NextEvents DEF IInv
<1>6. QED
  BY <1>1, <1>2, <1>3, <1>4, <1>5 DEF IInv

LEMMA IngestInvariant == Spec => []IInv
BY InitIInv, NextIInv, PTL DEF Spec

\* Whatever the interleaving of the projection's statements, a good reading is
\* behind its live row, unless it was skipped between the update and the read.
THEOREM IngestLatestUnlessRaced == Spec => []LatestUnlessRaced
<1>1. IInv => LatestUnlessRaced
  BY DEF IInv, Latest
<1>2. QED
  BY <1>1, IngestInvariant, PTL

\* The evaluator's guard lets a second event of a rule through only to
\* transactions that are open together.
THEOREM IngestOneAlarmUnlessOverlap == Spec => []OneAlarmUnlessOverlap
<1>1. IInv => OneAlarmUnlessOverlap
  BY DEF IInv, Alarms
<1>2. QED
  BY <1>1, IngestInvariant, PTL

\* No reading slips past its alarm rules: whichever transactions overlap, fail or
\* crash, a committed good reading has left an active alarm of each rule it
\* violates, and no reading raises a rule that it does not violate.
THEOREM IngestNoMissedAlarm == Spec => []NoMissedAlarm
<1>1. IInv => NoMissedAlarm
  BY DEF IInv, Alarms
<1>2. QED
  BY <1>1, IngestInvariant, PTL

\* Events published after the commit never run ahead of the tables, even when
\* the process fails or events are lost.
THEOREM IngestNoGhostEvents == Spec => []NoGhostEvents
<1>1. IInv => NoGhostEvents
  BY DEF IInv, Events
<1>2. QED
  BY <1>1, IngestInvariant, PTL
----------------------------------------------------------------------------
\* Requests handled one at a time: the invariant of a server that never
\* overlaps two of them, which the races of the projection and of the alarm
\* guard then cannot disturb.

Serial == \A p, q \in Requests : p = q

EngineFailure == "mapping_engine_failure"

\* Nobody moves the row between the projection's statements, and while nothing
\* has failed a sample is put down to an engine failure only if no clock lets it
\* through the gates.
Calm(h, rows, failures) ==
  /\ h.pc = "find" => ~ \E r \in rows[Key(Sample(h))] : r.timestamp < Sample(h).timestamp
  /\ h.pc = "create" => rows[Key(Sample(h))] = {}
  /\ h.pc # "retry"
  /\ h.pc = "quarantine" /\ h.reason = EngineFailure /\ failures = 0 => Sample(h) \notin Passing

\* While nothing has failed, no sample the gates let through is on record as an
\* engine failure.
NoFalseQuarantine ==
  faults = 0 => \A x \in quarantine : x.reason = EngineFailure => x.sample \notin Passing

Undisturbed ==
  /\ skipped = {} /\ overlapped = {}
  /\ NoFalseQuarantine
  /\ \A q \in Requests : Calm(req[q], live, faults)

\* What the gates put down to the engine does not depend on the clock.
LEMMA EngineFailureLasts ==
  ASSUME NEW s, NEW now, NEW later, GateReason(s, now) = EngineFailure
  PROVE  GateReason(s, later) # ""
BY DEF GateReason, SourceReason, MappingReason, ResolutionReason, ReadingReason, EngineFailure

LEMMA CalmMoves ==
  ASSUME Serial, TypeOK, NEW q \in Requests, NEW h \in Handlers, req' = [req EXCEPT ![q] = h],
         Calm(h, live', faults')
  PROVE  \A p \in Requests : Calm(req'[p], live', faults')
BY MoveFacts DEF Serial

\* Most steps leave the handler where there is nothing to disturb.
LEMMA SettledIsCalm ==
  ASSUME NEW h, NEW rows, NEW failures, h.pc \notin {"find", "create", "retry", "quarantine"}
  PROVE  Calm(h, rows, failures)
BY DEF Calm

LEMMA QuarantiningIsCalm ==
  ASSUME Serial, TypeOK, NEW q \in Requests, NEW reason \in Reasons, NEW lastResort \in BOOLEAN,
         req' = [req EXCEPT ![q] = Quarantining(req[q], reason, lastResort)],
         reason = EngineFailure /\ faults' = 0 => Current(q) \notin Passing
  PROVE  \A p \in Requests : Calm(req'[p], live', faults')
<1> DEFINE h == Quarantining(req[q], reason, lastResort)
<1>1. req[q] \in Handlers
  BY DEF TypeOK
<1>2. h \in Handlers /\ h.pc = "quarantine" /\ h.reason = reason /\ h.todo = req[q].todo
  BY <1>1, QuarantiningFacts
<1>3. req' = [req EXCEPT ![q] = h]
  OBVIOUS
<1> HIDE DEF h
<1>4. Calm(h, live', faults')
  BY <1>2 DEF Calm, Sample, Current
<1>5. QED
  BY <1>2, <1>3, <1>4, CalmMoves

LEMMA FaultIsCalm ==
  ASSUME Serial, TypeOK, NEW q \in Requests, Fault, Unexpected(q)
  PROVE  \A p \in Requests : Calm(req'[p], live', faults')
<1>1. faults' # 0
  BY BoundsAssumption DEF TypeOK, Fault
<1>2. QED
  BY <1>1, QuarantiningIsCalm DEF Unexpected, Reasons

LEMMA SerialWork ==
  ASSUME Serial, TypeOK, AllPlaced, Undisturbed, NEW q \in Requests, Work(q)
  PROVE  \A p \in Requests : Calm(req'[p], live', faults')
<1> USE DEF Busy
<1>1. req[q] \in Handlers
  BY DEF TypeOK
<1>2. ASSUME NEW pc \in Pcs, Goto(q, pc), pc \notin {"find", "create", "retry", "quarantine"}
      PROVE  \A p \in Requests : Calm(req'[p], live', faults')
  <2> DEFINE h == [req[q] EXCEPT !.pc = pc]
  <2>1. req' = [req EXCEPT ![q] = h]
    BY <1>2, GotoMoves
  <2>2. h \in Handlers /\ h.pc = pc
    BY <1>1, GotoFacts
  <2> HIDE DEF h
  <2>3. QED
    BY <1>2, <2>1, <2>2, SettledIsCalm, CalmMoves
<1>3. ASSUME NEW wrote \in Writes, Projected(q, wrote)
      PROVE  \A p \in Requests : Calm(req'[p], live', faults')
  BY <1>1, <1>3, ProjectedMoves, EnteredFacts, SettledIsCalm, CalmMoves DEF Writes
<1>4. ASSUME NEW outcome \in Outcomes, req[q].pc \notin {"idle", "reply"},
             req' = [req EXCEPT ![q] = Finished(req[q], outcome)]
      PROVE  \A p \in Requests : Calm(req'[p], live', faults')
  <2>1. req[q].todo # <<>>
    BY <1>4, CurrentType
  <2>2. QED
    BY <1>1, <1>4, <2>1, FinishedFacts, SettledIsCalm, CalmMoves
<1>5. CASE Gate(q)
  <2> DEFINE s == Current(q)
             reason == GateReason(s, req[q].now)
  <2>1. CASE reason = ""
    BY <1>2, <1>5, <2>1 DEF Gate, Pcs
  <2>2. CASE reason # ""
    <3>1. req' = [req EXCEPT ![q] = Quarantining(req[q], reason, SourceReason(s) # "")]
      BY <1>5, <2>2 DEF Gate
    <3>2. reason \in Reasons
      BY <2>2, GateReasonType
    <3>3. reason = EngineFailure => s \notin Passing
      BY EngineFailureLasts DEF Passing
    <3> HIDE DEF reason
    <3>4. QED
      BY <3>1, <3>2, <3>3, QuarantiningIsCalm
  <2>3. QED
    BY <2>1, <2>2
<1>6. CASE InsertReading(q)
  BY <1>2, <1>6 DEF InsertReading, Pcs, InTransaction
<1>7. CASE DuplicateReading(q)
  BY <1>2, <1>7 DEF DuplicateReading, Pcs
<1>8. CASE ProjectUpdate(q)
  <2>1. CASE Older(Key(Current(q)), Current(q))
    BY <1>3, <1>8, <2>1 DEF ProjectUpdate, Writes
  <2>2. CASE ~Older(Key(Current(q)), Current(q))
    <3> DEFINE h == [req[q] EXCEPT !.pc = "find"]
    <3>1. req' = [req EXCEPT ![q] = h] /\ live' = live
      BY <1>8, <2>2, GotoMoves DEF ProjectUpdate, Pcs, InTransaction, tables
    <3>2. h \in Handlers /\ h.pc = "find" /\ Sample(h) = Current(q)
      BY <1>1, GotoFacts DEF Pcs, InTransaction, Sample, Current
    <3> HIDE DEF h
    <3>3. Calm(h, live', faults')
      BY <2>2, <3>1, <3>2 DEF Calm, Older
    <3>4. QED
      BY <3>1, <3>2, <3>3, CalmMoves
  <2>3. QED
    BY <2>1, <2>2
<1>9. CASE ProjectFind(q)
  <2>1. CASE live[Key(Current(q))] = {}
    <3> DEFINE h == [req[q] EXCEPT !.pc = "create"]
    <3>1. req' = [req EXCEPT ![q] = h] /\ live' = live
      BY <1>9, <2>1, GotoMoves DEF ProjectFind, Pcs, InTransaction, tables
    <3>2. h \in Handlers /\ h.pc = "create" /\ Sample(h) = Current(q)
      BY <1>1, GotoFacts DEF Pcs, InTransaction, Sample, Current
    <3> HIDE DEF h
    <3>3. Calm(h, live', faults')
      BY <2>1, <3>1, <3>2 DEF Calm
    <3>4. QED
      BY <3>1, <3>2, <3>3, CalmMoves
  <2>2. CASE live[Key(Current(q))] # {}
    BY <1>3, <1>9, <2>2 DEF ProjectFind, Writes
  <2>3. QED
    BY <2>1, <2>2
<1>10. CASE ProjectCreate(q)
  BY <1>3, <1>10 DEF ProjectCreate, Writes
<1>11. CASE LoseCreate(q)
  BY <1>11 DEF LoseCreate, Undisturbed, Calm, Sample, Current
<1>12. CASE ProjectRetry(q)
  BY <1>12 DEF ProjectRetry, Undisturbed, Calm
<1>13. ASSUME NEW r \in Rules, EvaluateRule(q, r)
       PROVE  \A p \in Requests : Calm(req'[p], live', faults')
  <2>1. req'[q].pc = "alarm"
    BY <1>1, <1>13 DEF EvaluateRule, TypeOK
  <2>2. \A p \in Requests : p = q
    BY DEF Serial
  <2>3. QED
    BY <2>1, <2>2, SettledIsCalm
<1>14. CASE Commit(q)
  BY <1>2, <1>14 DEF Commit, Pcs
<1>15. CASE Emit(q)
  BY <1>4, <1>15 DEF Emit, Outcomes
<1>16. CASE Classify(q)
  <2>1. CASE \E r \in Stored(Current(q)) : Identical(r, Current(q))
    BY <1>4, <1>16, <2>1 DEF Classify, Outcomes
  <2>2. CASE ~ \E r \in Stored(Current(q)) : Identical(r, Current(q))
    <3>1. req' = [req EXCEPT ![q] = Quarantining(req[q], "conflict_dedup", FALSE)]
      BY <1>16, <2>2 DEF Classify
    <3>2. QED
      BY <3>1, QuarantiningIsCalm DEF Reasons, EngineFailure
  <2>3. QED
    BY <2>1, <2>2
<1>17. CASE Quarantine(q)
  BY <1>4, <1>17 DEF Quarantine, QuarantineOutcome, Outcomes
<1>18. CASE Reply(q)
  <2>1. Idle.pc = "idle"
    BY DEF Idle
  <2>2. QED
    BY <1>18, <2>1, IdleType, SettledIsCalm, CalmMoves DEF Reply
<1>19. QED
  BY <1>5, <1>6, <1>7, <1>8, <1>9, <1>10, <1>11, <1>12, <1>13, <1>14, <1>15, <1>16, <1>17, <1>18
  DEF Work

LEMMA SerialBreaks ==
  ASSUME Serial, TypeOK, AllPlaced, Undisturbed, NEW q \in Requests, Breaks(q)
  PROVE  \A p \in Requests : Calm(req'[p], live', faults')
<1>1. CASE CommitUnacknowledged(q)
  BY <1>1, FaultIsCalm DEF CommitUnacknowledged
<1>2. CASE StatementFails(q)
  BY <1>2, FaultIsCalm DEF StatementFails
<1>3. CASE QuarantineFails(q)
  <2>1. Idle.pc = "idle"
    BY DEF Idle
  <2>2. CASE req[q].lastResort
    <3>1. req' = [req EXCEPT ![q] = Idle]
      BY <1>3, <2>2, Zenon DEF QuarantineFails
    <3>2. QED
      BY <2>1, <3>1, IdleType, SettledIsCalm, CalmMoves
  <2>3. CASE ~req[q].lastResort
    <3>1. Unexpected(q) /\ Fault
      BY <1>3, <2>3, Zenon DEF QuarantineFails
    <3>2. QED
      BY <3>1, FaultIsCalm
  <2>4. QED
    BY <2>2, <2>3
<1>4. CASE LookupFails(q)
  <2>1. Idle.pc = "idle" /\ req' = [req EXCEPT ![q] = Idle]
    BY <1>4 DEF LookupFails, Idle
  <2>2. QED
    BY <2>1, IdleType, SettledIsCalm, CalmMoves
<1>5. QED
  BY <1>1, <1>2, <1>3, <1>4 DEF Breaks

\* What a step does to the history and to the quarantine.
LEMMA SerialRecords ==
  ASSUME Serial, TypeOK, AllPlaced, Undisturbed, [Next]_vars
  PROVE  skipped' = {} /\ overlapped' = {} /\ NoFalseQuarantine'
<1> USE DEF Busy, history, tables
<1>1. faults \in Nat /\ faults' \in {faults, faults + 1}
  <2>1. faults \in Nat
    BY BoundsAssumption DEF TypeOK
  <2>2. ASSUME NEW q \in Requests, Work(q) PROVE faults' \in {faults, faults + 1}
    BY <2>2, Zenon
    DEF Work, Gate, InsertReading, DuplicateReading, ProjectUpdate, ProjectFind, ProjectCreate,
        LoseCreate, ProjectRetry, EvaluateRule, Commit, Emit, Classify, Quarantine, Reply,
        Fault, NoFault
  <2>3. ASSUME NEW q \in Requests, Breaks(q) PROVE faults' \in {faults, faults + 1}
    BY <2>3, Zenon DEF Breaks, CommitUnacknowledged, QuarantineFails,
    LookupFails, StatementFails, Fault
  <2>4. QED
    BY <2>1, <2>2, <2>3 DEF Next, vars, Receive, Crash, Fault
<1>2. faults' = 0 => faults = 0
  BY <1>1
<1>3. ASSUME NEW q \in Requests, Applied(q)
      PROVE  skipped' = {} /\ overlapped' = {} /\ NoFalseQuarantine'
  <2>1. Requests \ {q} = {}
    BY DEF Serial
  <2>2. QED
    BY <1>2, <1>3, <2>1 DEF Applied, Undisturbed, NoFalseQuarantine
<1>4. CASE UNCHANGED <<skipped, overlapped, quarantine>>
  BY <1>2, <1>4 DEF Undisturbed, NoFalseQuarantine
<1>5. ASSUME NEW q \in Requests, ProjectFind(q)
      PROVE  UNCHANGED <<skipped, overlapped, quarantine>>
  BY <1>5 DEF ProjectFind, Undisturbed, Calm, Older, Sample, Current
<1>6. ASSUME NEW q \in Requests, Quarantine(q)
      PROVE  skipped' = {} /\ overlapped' = {} /\ NoFalseQuarantine'
  <2>1. quarantine' = quarantine \cup {[sample |-> Current(q), reason |-> req[q].reason]}
    BY <1>6 DEF Quarantine
  <2>2. req[q].reason = EngineFailure /\ faults = 0 => Current(q) \notin Passing
    BY <1>6 DEF Quarantine, Undisturbed, Calm, Sample, Current
  <2>3. QED
    BY <1>2, <1>6, <2>1, <2>2 DEF Undisturbed, NoFalseQuarantine, Quarantine
<1>7. QED
  BY <1>3, <1>4, <1>5, <1>6
  DEF Next, vars, Receive, Work, Gate, InsertReading, DuplicateReading, ProjectUpdate,
      ProjectCreate, LoseCreate, ProjectRetry, EvaluateRule, Commit, Emit, Classify,
      Reply, Breaks, CommitUnacknowledged, QuarantineFails, LookupFails, StatementFails, Crash

LEMMA SerialInit == Init => Undisturbed
<1>1. Calm(Idle, live, faults)
  BY DEF Calm, Idle
<1>2. QED
  BY <1>1 DEF Init, Undisturbed, NoFalseQuarantine

LEMMA SerialNext ==
  ASSUME Serial
  PROVE  IInv /\ Undisturbed /\ [Next]_vars => Undisturbed'
<1> SUFFICES ASSUME IInv, Undisturbed, [Next]_vars PROVE Undisturbed'
  OBVIOUS
<1>1. TypeOK /\ AllPlaced
  BY DEF IInv
<1>2. skipped' = {} /\ overlapped' = {} /\ NoFalseQuarantine'
  BY <1>1, SerialRecords
<1>3. \A p \in Requests : Calm(req'[p], live', faults')
  <2>1. ASSUME NEW q \in Requests, NEW b \in Batches, NEW now \in Clock, Receive(q, b, now)
        PROVE  \A p \in Requests : Calm(req'[p], live', faults')
    <3>1. req'[q].pc = "gate"
      BY <1>1, <2>1 DEF Receive, TypeOK, Idle
    <3>2. \A p \in Requests : p = q
      BY DEF Serial
    <3>3. QED
      BY <3>1, <3>2, SettledIsCalm
  <2>2. CASE Crash
    <3>1. \A p \in Requests : req'[p].pc = "idle"
      BY <2>2 DEF Crash, Idle
    <3>2. QED
      BY <3>1, SettledIsCalm
  <2>3. CASE UNCHANGED vars
    BY <2>3 DEF vars, tables, Undisturbed
  <2>4. QED
    BY <1>1, <2>1, <2>2, <2>3, SerialWork, SerialBreaks DEF Next
<1>4. QED
  BY <1>2, <1>3 DEF Undisturbed

LEMMA SerialInvariant ==
  ASSUME Serial
  PROVE  Spec => []Undisturbed
BY SerialInit, SerialNext, IngestInvariant, PTL DEF Spec

\* Requests handled one at a time leave the latest good reading in its live row,
\* late samples, failures and crashes included: what the projection promises, and
\* breaks only when two transactions overlap.
THEOREM SerialLatestIsNewest ==
  ASSUME Serial
  PROVE  Spec => []LatestIsNewest
<1>1. IInv /\ Undisturbed => LatestIsNewest
  BY DEF IInv, Latest, LatestUnlessRaced, Undisturbed, LatestIsNewest
<1>2. QED
  BY <1>1, IngestInvariant, SerialInvariant, PTL

\* Requests handled one at a time leave one active event of a rule at most.
THEOREM SerialOneActiveAlarm ==
  ASSUME Serial
  PROVE  Spec => []OneActiveAlarm
<1>1. IInv /\ Undisturbed => OneActiveAlarm
  BY DEF IInv, Alarms, OneAlarmUnlessOverlap, Undisturbed, OneActiveAlarm
<1>2. QED
  BY <1>1, IngestInvariant, SerialInvariant, PTL

\* Requests handled one at a time quarantine no sample the gates let through as
\* an engine failure, unless something did fail: only a lost race for a live row
\* makes the service blame the engine for a good sample.
THEOREM SerialNoFalseQuarantine ==
  ASSUME Serial
  PROVE  Spec => []NoFalseQuarantine
<1>1. Undisturbed => NoFalseQuarantine
  BY DEF Undisturbed
<1>2. QED
  BY <1>1, SerialInvariant, PTL
=============================================================================
