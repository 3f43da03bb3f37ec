------------------------- MODULE IngestLedgerProofs -------------------------
(***************************************************************************)
(* What others may read off the tables of Ingest.  Callers: Ingest         *)
(* implements ReadingLedger, as a commit records one reading, a row in the *)
(* quarantine table files one refusal, a reply tells what is on record and *)
(* every other step leaves the ledger as it is; and a sample that is on    *)
(* record is never filed as a conflict.  Pages: the charts of Trends count *)
(* every reading once and end where the live reading is.                   *)
(***************************************************************************)
EXTENDS IngestProofs, Trends, FiniteSetTheorems, WellFoundedInduction

\* An answer and the tables it rests on (Ledger!Justified of the current ones).
Grounded(out, recorded, filed) ==
  /\ out.outcome = "accepted" => out.sample \in recorded
  /\ out.outcome = "duplicate" =>
       \E r \in recorded : DedupKey(r) = DedupKey(out.sample) /\ Identical(r, out.sample)
  /\ out.outcome = "conflict_quarantined" =>
       [sample |-> out.sample, reason |-> "conflict_dedup"] \in filed
  /\ out.outcome = "rejected_quarantined" =>
       \E r \in filed : r.sample = out.sample /\ r.reason # "conflict_dedup"

\* The answers a handler has ready, but not yet sent, are already true.
Told(h, recorded, filed) ==
  \A out \in h.results : out.outcome \in Outcomes /\ Grounded(out, recorded, filed)

AllTold == \A q \in Requests : Told(req[q], readings, quarantine)

----------------------------------------------------------------------------
\* The tables only grow, so that an answer stays true.

LEMMA RefusalsGrow ==
  ASSUME [Next]_vars
  PROVE  quarantine \subseteq quarantine'
BY DEF Next, Work, Breaks, Receive, Gate, InsertReading, DuplicateReading, ProjectUpdate,
       ProjectFind, ProjectCreate, LoseCreate, ProjectRetry, EvaluateRule, Commit, Applied, Emit,
       Classify, Quarantine, Reply, CommitUnacknowledged, QuarantineFails,
       LookupFails, StatementFails, Crash,
       vars, tables

LEMMA StaysTold ==
  ASSUME IInv, [Next]_vars, NEW h, Told(h, readings, quarantine)
  PROVE  Told(h, readings', quarantine')
<1>1. readings \subseteq readings'
  BY TablesGrow, StepKinds DEF IInv
<1>2. QED
  BY <1>1, RefusalsGrow DEF Told, Grounded

----------------------------------------------------------------------------
\* A step keeps the answers of a handler, drops them, or adds a true one.

LEMMA MovedTold ==
  ASSUME IInv, AllTold, [Next]_vars, NEW q \in Requests, NEW h \in Handlers,
         req' = [req EXCEPT ![q] = h], Told(h, readings', quarantine')
  PROVE  AllTold'
<1>1. req'[q] = h /\ \A p \in Requests \ {q} : req'[p] = req[p]
  BY MoveFacts DEF IInv
<1>2. \A p \in Requests : Told(req[p], readings', quarantine')
  BY StaysTold DEF AllTold
<1>3. QED
  BY <1>1, <1>2 DEF AllTold

LEMMA SameAnswersTold ==
  ASSUME IInv, AllTold, [Next]_vars, NEW q \in Requests, NEW h \in Handlers,
         req' = [req EXCEPT ![q] = h], h.results \subseteq req[q].results
  PROVE  AllTold'
<1>1. Told(req[q], readings', quarantine')
  BY StaysTold DEF AllTold
<1>2. Told(h, readings', quarantine')
  BY <1>1 DEF Told
<1>3. QED
  BY <1>2, MovedTold

LEMMA FinishedTold ==
  ASSUME IInv, AllTold, [Next]_vars, NEW q \in Requests, req[q].pc \notin {"idle", "reply"},
         NEW outcome \in Outcomes,
         req' = [req EXCEPT ![q] = Finished(req[q], outcome)],
         Grounded([sample |-> Current(q), outcome |-> outcome], readings', quarantine')
  PROVE  AllTold'
<1> DEFINE h == Finished(req[q], outcome)
<1>1. req[q] \in Handlers /\ req[q].todo # <<>> /\ Current(q) = Head(req[q].todo)
  BY CurrentType DEF IInv
<1>2. /\ h \in Handlers
      /\ h.results = req[q].results \cup {[sample |-> Current(q), outcome |-> outcome]}
  BY <1>1, FinishedFacts
<1>3. Told(req[q], readings', quarantine')
  BY StaysTold DEF AllTold
<1>4. Told(h, readings', quarantine')
  BY <1>2, <1>3 DEF Told
<1>5. QED
  BY <1>2, <1>4, MovedTold

LEMMA QuarantiningTold ==
  ASSUME IInv, AllTold, [Next]_vars, NEW q \in Requests,
         NEW reason \in Reasons, NEW lastResort \in BOOLEAN,
         req' = [req EXCEPT ![q] = Quarantining(req[q], reason, lastResort)]
  PROVE  AllTold'
<1> DEFINE h == Quarantining(req[q], reason, lastResort)
<1>1. req[q] \in Handlers
  BY DEF IInv, TypeOK
<1>2. h \in Handlers /\ h.results = req[q].results
  BY <1>1, QuarantiningFacts
<1>3. req' = [req EXCEPT ![q] = h]
  OBVIOUS
<1> HIDE DEF h
<1>4. QED
  BY <1>2, <1>3, SameAnswersTold

LEMMA UnexpectedTold ==
  ASSUME IInv, AllTold, [Next]_vars, NEW q \in Requests, Unexpected(q)
  PROVE  AllTold'
BY QuarantiningTold DEF Unexpected, Reasons

LEMMA GotoTold ==
  ASSUME IInv, AllTold, [Next]_vars, NEW q \in Requests, NEW pc \in Pcs, Goto(q, pc)
  PROVE  AllTold'
<1>1. req[q] \in Handlers
  BY DEF IInv, TypeOK
<1>2. req' = [req EXCEPT ![q] = [req[q] EXCEPT !.pc = pc]]
  BY GotoMoves DEF IInv
<1>3. QED
  BY <1>1, <1>2, GotoFacts, SameAnswersTold

LEMMA ProjectedTold ==
  ASSUME IInv, AllTold, [Next]_vars, NEW q \in Requests, NEW wrote \in Writes,
         Projected(q, wrote)
  PROVE  AllTold'
<1>1. req[q] \in Handlers
  BY DEF IInv, TypeOK
<1>2. req' = [req EXCEPT ![q] = Entered(req[q], wrote)]
  BY ProjectedMoves
<1>3. QED
  BY <1>1, <1>2, EnteredFacts, SameAnswersTold DEF Writes

LEMMA IdleTold ==
  ASSUME IInv, AllTold, [Next]_vars, NEW q \in Requests, req' = [req EXCEPT ![q] = Idle]
  PROVE  AllTold'
BY IdleType, SameAnswersTold DEF Idle

----------------------------------------------------------------------------
LEMMA InitTold == Init => AllTold
<1>1. Idle.results = {}
  BY DEF Idle
<1>2. QED
  BY <1>1 DEF Init, AllTold, Told

LEMMA WorkTold ==
  ASSUME IInv, AllTold, [Next]_vars, NEW q \in Requests, Work(q)
  PROVE  AllTold'
<1>1. CASE Gate(q)
  <2> DEFINE reason == GateReason(Current(q), req[q].now)
  <2>1. CASE reason = ""
    BY <1>1, <2>1, GotoTold DEF Gate, Pcs
  <2>2. CASE reason # ""
    <3>1. reason \in Reasons
      BY <2>2, GateReasonType
    <3>2. req' = [req EXCEPT ![q] = Quarantining(req[q], reason, SourceReason(Current(q)) # "")]
      BY <1>1, <2>2 DEF Gate
    <3>3. QED
      BY <3>1, <3>2, QuarantiningTold
  <2>3. QED
    BY <2>1, <2>2
<1>2. CASE InsertReading(q) \/ DuplicateReading(q)
  BY <1>2, GotoTold DEF InsertReading, DuplicateReading, Pcs, InTransaction
<1>3. CASE ProjectUpdate(q) \/ ProjectFind(q) \/ ProjectCreate(q) \/ ProjectRetry(q)
  <2>1. \/ \E pc \in Pcs : Goto(q, pc)
        \/ \E wrote \in Writes : Projected(q, wrote)
    BY <1>3 DEF ProjectUpdate, ProjectFind, ProjectCreate, ProjectRetry, Pcs, InTransaction, Writes
  <2>2. QED
    BY <2>1, GotoTold, ProjectedTold
<1>4. CASE LoseCreate(q)
  BY <1>4, GotoTold, UnexpectedTold DEF LoseCreate, Pcs, InTransaction
<1>5. ASSUME NEW r \in Rules, EvaluateRule(q, r) PROVE AllTold'
  <2> DEFINE h == [req[q] EXCEPT !.due = req[q].due \ {r},
                      !.raised = IF \E a \in alarms : a.rule = r THEN req[q].raised
                                 ELSE req[q].raised \cup {r}]
  <2>1. req[q] \in Handlers
    BY DEF IInv, TypeOK
  <2>2. req[q].raised \subseteq Rules
    BY <2>1 DEF Handlers
  <2>3. h \in Handlers /\ h.results = req[q].results
    BY <2>1, <2>2 DEF Handlers
  <2>4. req' = [req EXCEPT ![q] = h]
    BY <1>5, <2>1 DEF EvaluateRule, Handlers, IInv, TypeOK
  <2>5. QED
    BY <2>3, <2>4, SameAnswersTold
<1>6. CASE Commit(q)
  BY <1>6, GotoTold DEF Commit, Pcs
<1>7. CASE Emit(q)
  <2>1. req[q].pc = "emit" /\ Owed(req[q]) /\ UNCHANGED readings
    BY <1>7 DEF Emit, Busy, IInv, Events, tables
  <2>2. Current(q) \in readings
    BY <2>1 DEF Owed, Current, Sample
  <2>3. Grounded([sample |-> Current(q), outcome |-> "accepted"], readings', quarantine')
    BY <2>1, <2>2 DEF Grounded
  <2>4. QED
    BY <1>7, <2>1, <2>3, FinishedTold DEF Emit, Outcomes
<1>8. CASE Classify(q)
  <2>1. req[q].pc = "classify" /\ UNCHANGED readings
    BY <1>8 DEF Classify, Busy, tables
  <2>2. CASE \E r \in Stored(Current(q)) : Identical(r, Current(q))
    <3>1. Grounded([sample |-> Current(q), outcome |-> "duplicate"], readings', quarantine')
      BY <2>1, <2>2 DEF Grounded, Stored
    <3>2. req' = [req EXCEPT ![q] = Finished(req[q], "duplicate")]
      BY <1>8, <2>2 DEF Classify
    <3>3. QED
      BY <2>1, <3>1, <3>2, FinishedTold DEF Outcomes
  <2>3. CASE ~ \E r \in Stored(Current(q)) : Identical(r, Current(q))
    <3>1. req' = [req EXCEPT ![q] = Quarantining(req[q], "conflict_dedup", FALSE)]
      BY <1>8, <2>3 DEF Classify
    <3>2. QED
      BY <3>1, QuarantiningTold DEF Reasons
  <2>4. QED
    BY <2>2, <2>3
<1>9. CASE Quarantine(q)
  <2> DEFINE outcome == QuarantineOutcome(req[q].reason)
             row == [sample |-> Current(q), reason |-> req[q].reason]
  <2>1. /\ req[q].pc = "quarantine"
        /\ req' = [req EXCEPT ![q] = Finished(req[q], outcome)]
        /\ row \in quarantine'
    BY <1>9 DEF Quarantine, Busy
  <2>2. outcome \in Outcomes
    BY DEF QuarantineOutcome, Outcomes
  <2>3. Grounded([sample |-> Current(q), outcome |-> outcome], readings', quarantine')
    <3>1. CASE req[q].reason = "conflict_dedup"
      BY <2>1, <3>1 DEF Grounded, QuarantineOutcome
    <3>2. CASE req[q].reason # "conflict_dedup"
      <4>1. row.sample = Current(q) /\ row.reason # "conflict_dedup"
        BY <3>2
      <4>2. outcome = "rejected_quarantined"
        BY <3>2 DEF QuarantineOutcome
      <4>3. QED
        BY <2>1, <4>1, <4>2 DEF Grounded
    <3>3. QED
      BY <3>1, <3>2
  <2>4. QED
    BY <2>1, <2>2, <2>3, FinishedTold
<1>10. CASE Reply(q)
  BY <1>10, IdleTold DEF Reply
<1>11. QED
  BY <1>1, <1>2, <1>3, <1>4, <1>5, <1>6, <1>7, <1>8, <1>9, <1>10 DEF Work

LEMMA NextTold == IInv /\ AllTold /\ [Next]_vars => AllTold'
<1> SUFFICES ASSUME IInv, AllTold, [Next]_vars PROVE AllTold'
  OBVIOUS
<1>1. ASSUME NEW q \in Requests, NEW b \in Batches, NEW now \in Clock, Receive(q, b, now)
      PROVE  AllTold'
  <2>1. PICK h \in Handlers : req' = [req EXCEPT ![q] = h] /\ h.results = {}
    <3> DEFINE h == [Idle EXCEPT !.pc = "gate", !.todo = b, !.now = now]
    <3>1. b \in Seq(Samples)
      BY BatchesAssumption
    <3>2. h \in Handlers /\ h.results = {}
      BY <3>1 DEF Idle, Handlers, Pcs, Reasons
    <3>3. req' = [req EXCEPT ![q] = h]
      BY <1>1 DEF Receive
    <3>4. QED
      BY <3>2, <3>3
  <2>2. QED
    BY <2>1, SameAnswersTold
<1>2. ASSUME NEW q \in Requests, Breaks(q) PROVE AllTold'
  <2>1. CASE QuarantineFails(q)
    <3>1. req' = [req EXCEPT ![q] = Idle] \/ Unexpected(q)
      BY <2>1, Zenon DEF QuarantineFails
    <3>2. QED
      BY <3>1, IdleTold, UnexpectedTold
  <2>2. CASE CommitUnacknowledged(q) \/ StatementFails(q)
    BY <2>2, UnexpectedTold DEF CommitUnacknowledged, StatementFails
  <2>3. CASE LookupFails(q)
    BY <2>3, IdleTold DEF LookupFails
  <2>4. QED
    BY <1>2, <2>1, <2>2, <2>3 DEF Breaks
<1>3. CASE Crash
  BY <1>3 DEF Crash, AllTold, Told, Idle
<1>4. CASE UNCHANGED vars
  BY <1>4 DEF vars, tables, AllTold
<1>5. QED
  BY <1>1, <1>2, <1>3, <1>4, WorkTold DEF Next

----------------------------------------------------------------------------
\* Steps of the ledger

LedgerVars == <<readings, live, alarms, quarantine, answered>>

LEMMA CommitRecords ==
  ASSUME IInv, NEW q \in Requests, Commits(q)
  PROVE  Ledger!Record(Current(q)) /\ Current(q) \in Passing
<1>1. /\ Open(req[q]) /\ Current(q) = Sample(req[q]) /\ Current(q) \in Passing
  BY CurrentType DEF Commits, Open, InTransaction, Sample, IInv
<1>2. /\ readings' = readings \cup {Current(q)}
      /\ live' = IF req[q].wrote = "none" THEN live
                 ELSE [live EXCEPT ![Key(Current(q))] = {Current(q)}]
      /\ alarms' = alarms \cup {[rule |-> r, reading |-> Current(q)] : r \in req[q].raised}
      /\ UNCHANGED <<quarantine, answered>>
  BY DEF Commits, Applied
<1>3. \A r \in readings : DedupKey(r) # DedupKey(Current(q))
  BY <1>1 DEF IInv, Locks, Fresh
<1>4. req[q].wrote # "none" =>
        \A r \in live[Key(Current(q))] : r.timestamp < Current(q).timestamp
  BY <1>1 DEF IInv, Locks, Fresh
<1>5. /\ req[q].raised \subseteq Alerting(Current(q))
      /\ \A r \in Alerting(Current(q)) : r \in req[q].raised \/ \E a \in alarms : a.rule = r
  BY <1>1 DEF Commits, IInv, Alarms, Evaluated
<1>6. \A a \in alarms' \ alarms : a.reading = Current(q) /\ a.rule \in Alerting(Current(q))
  BY <1>2, <1>5
<1>7. ASSUME NEW rule \in Alerting(Current(q)) PROVE \E a \in alarms' : a.rule = rule
  <2>1. rule \in req[q].raised => [rule |-> rule, reading |-> Current(q)] \in alarms'
    BY <1>2
  <2>2. QED
    BY <1>2, <1>5, <2>1
<1>8. QED
  BY <1>1, <1>2, <1>3, <1>4, <1>6, <1>7 DEF Ledger!Record

LEMMA QuarantineRefuses ==
  ASSUME IInv, NEW q \in Requests, Quarantine(q)
  PROVE  \E s \in Samples, reason \in Reasons : Ledger!Refuse(s, reason)
<1>1. req[q].pc = "quarantine"
  BY DEF Quarantine, Busy
<1>2. Current(q) \in Samples /\ req[q] \in Handlers
  BY <1>1, CurrentType DEF IInv
<1>3. req[q].reason \in Reasons
  BY <1>1, <1>2 DEF AllPlaced, Placed, Handlers, IInv
<1>4. Ledger!Refuse(Current(q), req[q].reason)
  BY DEF Quarantine, Ledger!Refuse
<1>5. QED
  BY <1>2, <1>3, <1>4

LEMMA ReplyTells ==
  ASSUME IInv, AllTold, NEW q \in Requests, Reply(q)
  PROVE  Ledger!Tell
<1>1. /\ answered \subseteq answered'
      /\ \A out \in answered' \ answered : out \in req[q].results
      /\ UNCHANGED <<readings, live, alarms, quarantine>>
  BY DEF Reply, tables
<1>2. \A out \in req[q].results : Ledger!Justified(out)
  BY DEF AllTold, Told, Grounded, Ledger!Justified, Outcomes
<1>3. QED
  BY <1>1, <1>2 DEF Ledger!Tell

LEMMA LedgerSteps ==
  IInv /\ AllTold /\ [Next]_vars => [Ledger!LedgerNext]_LedgerVars
<1> SUFFICES ASSUME IInv, AllTold, [Next]_vars
             PROVE  Ledger!LedgerNext \/ UNCHANGED LedgerVars
  BY DEF LedgerVars
<1>1. ASSUME NEW q \in Requests, Commit(q) \/ CommitUnacknowledged(q)
      PROVE  Ledger!LedgerNext
  BY <1>1, CommitStep, CommitRecords DEF Ledger!LedgerNext, IInv
<1>2. ASSUME NEW q \in Requests, Quarantine(q) PROVE Ledger!LedgerNext
  BY <1>2, QuarantineRefuses DEF Ledger!LedgerNext
<1>3. ASSUME NEW q \in Requests, Reply(q) PROVE Ledger!LedgerNext
  BY <1>3, ReplyTells DEF Ledger!LedgerNext
<1>4. QED
  BY <1>1, <1>2, <1>3
  DEF Next, Work, Breaks, Receive, Gate, InsertReading, DuplicateReading, ProjectUpdate,
      ProjectFind, ProjectCreate, LoseCreate, ProjectRetry, EvaluateRule, Emit,
      Classify, QuarantineFails, LookupFails, StatementFails, Crash, vars, tables, LedgerVars

LEMMA LedgerStarts == Init => Ledger!LedgerInit
BY DEF Init, Ledger!LedgerInit

\* Ingestion keeps its promise to callers and readers: each identity recorded
\* once, channels that only move forward, and answers that are true.
THEOREM IngestImplementsLedger == Spec => ImplementsLedger
<1>1. Init => IInv /\ AllTold
  BY InitIInv, InitTold
<1>2. IInv /\ AllTold /\ [Next]_vars => IInv' /\ AllTold'
  BY NextIInv, NextTold
<1>3. QED
  BY <1>1, <1>2, LedgerStarts, LedgerSteps, PTL
  DEF Spec, ImplementsLedger, Ledger!LedgerSpec, LedgerVars, Ledger!ledgerVars

\* What a caller has once been told is on record for good, also after crashes.
AnswersStayTrue == \A out \in answered : Ledger!Justified(out)

LEMMA InitAnswers == Init => AnswersStayTrue
BY DEF Init, AnswersStayTrue

LEMMA NextAnswers == IInv /\ AllTold /\ AnswersStayTrue /\ [Next]_vars => AnswersStayTrue'
<1> SUFFICES ASSUME IInv, AllTold, AnswersStayTrue, [Next]_vars, NEW out \in answered'
             PROVE  Ledger!Justified(out)'
  BY DEF AnswersStayTrue
<1>1. out.outcome \in Outcomes
  BY NextTyped DEF IInv, TypeOK
<1>2. Grounded(out, readings, quarantine) \/ Grounded(out, readings', quarantine')
  <2>1. CASE out \in answered
    BY <1>1, <2>1 DEF AnswersStayTrue, Grounded, Ledger!Justified, Outcomes
  <2>2. ASSUME NEW q \in Requests, Reply(q), out \notin answered
        PROVE  Grounded(out, readings, quarantine)
    BY <2>2 DEF Reply, AllTold, Told
  <2>3. UNCHANGED answered \/ \E q \in Requests : Reply(q)
    BY DEF Next, Work, Breaks, Receive, Gate, InsertReading, DuplicateReading, ProjectUpdate,
       ProjectFind, ProjectCreate, LoseCreate, ProjectRetry, EvaluateRule, Commit, Emit,
       Classify, Quarantine, CommitUnacknowledged, QuarantineFails,
       LookupFails, StatementFails, Crash, vars
  <2>4. QED
    BY <2>1, <2>2, <2>3
<1>3. readings \subseteq readings' /\ quarantine \subseteq quarantine'
  BY TablesGrow, RefusalsGrow, StepKinds DEF IInv
<1>4. Grounded(out, readings', quarantine')
  BY <1>2, <1>3 DEF Grounded
<1>5. QED
  BY <1>1, <1>4 DEF Grounded, Ledger!Justified, Outcomes

\* An answer never turns false: a caller told "accepted" or "duplicate" may drop
\* its sample, whatever fails afterwards.
THEOREM IngestAnswersStayTrue == Spec => []AnswersStayTrue
<1>1. Init => IInv /\ AllTold /\ AnswersStayTrue
  BY InitIInv, InitTold, InitAnswers
<1>2. IInv /\ AllTold /\ AnswersStayTrue /\ [Next]_vars => (IInv /\ AllTold /\ AnswersStayTrue)'
  BY NextIInv, NextTold, NextAnswers
<1>3. QED
  BY <1>1, <1>2, PTL DEF Spec

----------------------------------------------------------------------------
\* Conflicts

\* A reading on record says otherwise than the sample, under the same identity.
Contradicted(s) ==
  \E r \in readings : DedupKey(r) = DedupKey(s) /\ ~Identical(r, s)

\* A handler that classifies has met such a reading, and one about to file a
\* conflict has compared it.
Compared(h) ==
  /\ h.pc = "classify" => \E r \in readings : DedupKey(r) = DedupKey(Sample(h))
  /\ h.pc = "quarantine" /\ h.reason = "conflict_dedup" => Contradicted(Sample(h))

ConflictsReal ==
  /\ \A f \in quarantine : f.reason = "conflict_dedup" => Contradicted(f.sample)
  /\ \A q \in Requests : Compared(req[q])

LEMMA InitConflicts == Init => ConflictsReal
<1>1. Idle.pc = "idle"
  BY DEF Idle
<1>2. QED
  BY <1>1 DEF Init, ConflictsReal, Compared

LEMMA ReadingsGrow ==
  ASSUME IInv, [Next]_vars
  PROVE  readings \subseteq readings'
BY TablesGrow, StepKinds DEF IInv

LEMMA MovedCompared ==
  ASSUME IInv, ConflictsReal, [Next]_vars, NEW q \in Requests, NEW h \in Handlers,
         req' = [req EXCEPT ![q] = h], Compared(h)
  PROVE  \A p \in Requests : Compared(req[p])'
<1>1. req'[q] = h /\ \A p \in Requests \ {q} : req'[p] = req[p]
  BY MoveFacts DEF IInv
<1>2. \A p \in Requests : Compared(req'[p])
  BY <1>1 DEF ConflictsReal
<1>3. readings \subseteq readings'
  BY ReadingsGrow
<1>4. QED
  BY <1>2, <1>3 DEF Compared, Contradicted, Sample

\* Most moves lead to a statement that has nothing to do with conflicts.
LEMMA ElsewhereCompared ==
  ASSUME IInv, ConflictsReal, [Next]_vars, NEW q \in Requests, NEW h \in Handlers,
         req' = [req EXCEPT ![q] = h], h.pc \notin {"classify", "quarantine"}
  PROVE  \A p \in Requests : Compared(req[p])'
<1>1. Compared(h)
  BY DEF Compared
<1>2. QED
  BY <1>1, MovedCompared

LEMMA QuarantiningCompared ==
  ASSUME IInv, ConflictsReal, [Next]_vars, NEW q \in Requests,
         NEW reason \in Reasons, NEW lastResort \in BOOLEAN,
         req' = [req EXCEPT ![q] = Quarantining(req[q], reason, lastResort)],
         reason = "conflict_dedup" => Contradicted(Sample(req[q]))
  PROVE  \A p \in Requests : Compared(req[p])'
<1> DEFINE h == Quarantining(req[q], reason, lastResort)
<1>1. req[q] \in Handlers
  BY DEF IInv, TypeOK
<1>2. h \in Handlers /\ h.pc = "quarantine" /\ h.reason = reason /\ h.todo = req[q].todo
  BY <1>1, QuarantiningFacts
<1>3. req' = [req EXCEPT ![q] = h]
  OBVIOUS
<1> HIDE DEF h
<1>4. Compared(h)
  BY <1>2 DEF Compared, Contradicted, Sample
<1>5. QED
  BY <1>2, <1>3, <1>4, MovedCompared

LEMMA UnexpectedCompared ==
  ASSUME IInv, ConflictsReal, [Next]_vars, NEW q \in Requests, Unexpected(q)
  PROVE  \A p \in Requests : Compared(req[p])'
BY QuarantiningCompared DEF Unexpected, Reasons

LEMMA GotoCompared ==
  ASSUME IInv, ConflictsReal, [Next]_vars, NEW q \in Requests, NEW pc \in Pcs, Goto(q, pc),
         pc \notin {"classify", "quarantine"}
  PROVE  \A p \in Requests : Compared(req[p])'
<1>1. req[q] \in Handlers
  BY DEF IInv, TypeOK
<1>2. req' = [req EXCEPT ![q] = [req[q] EXCEPT !.pc = pc]]
  BY GotoMoves DEF IInv
<1>3. QED
  BY <1>1, <1>2, GotoFacts, ElsewhereCompared

LEMMA FinishedCompared ==
  ASSUME IInv, ConflictsReal, [Next]_vars, NEW q \in Requests, req[q].pc \notin {"idle", "reply"},
         NEW outcome \in Outcomes, req' = [req EXCEPT ![q] = Finished(req[q], outcome)]
  PROVE  \A p \in Requests : Compared(req[p])'
<1> DEFINE h == Finished(req[q], outcome)
<1>1. req[q] \in Handlers /\ req[q].todo # <<>>
  BY CurrentType DEF IInv
<1>2. h \in Handlers /\ h.pc \in {"reply", "gate"}
  BY <1>1, FinishedFacts
<1>3. QED
  BY <1>2, ElsewhereCompared

LEMMA ProjectedCompared ==
  ASSUME IInv, ConflictsReal, [Next]_vars, NEW q \in Requests, NEW wrote \in Writes,
         Projected(q, wrote)
  PROVE  \A p \in Requests : Compared(req[p])'
<1>1. req[q] \in Handlers
  BY DEF IInv, TypeOK
<1>2. req' = [req EXCEPT ![q] = Entered(req[q], wrote)]
  BY ProjectedMoves
<1>3. QED
  BY <1>1, <1>2, EnteredFacts, ElsewhereCompared DEF Writes

LEMMA IdleCompared ==
  ASSUME IInv, ConflictsReal, [Next]_vars, NEW q \in Requests, req' = [req EXCEPT ![q] = Idle]
  PROVE  \A p \in Requests : Compared(req[p])'
BY IdleType, ElsewhereCompared DEF Idle

LEMMA GateIsNoConflict ==
  ASSUME NEW s, NEW now
  PROVE  GateReason(s, now) # "conflict_dedup"
BY DEF GateReason, SourceReason, MappingReason, ResolutionReason, ReadingReason

LEMMA WorkCompared ==
  ASSUME IInv, ConflictsReal, [Next]_vars, NEW q \in Requests, Work(q)
  PROVE  \A p \in Requests : Compared(req[p])'
<1>1. CASE Gate(q)
  <2> DEFINE reason == GateReason(Current(q), req[q].now)
  <2>1. CASE reason = ""
    BY <1>1, <2>1, GotoCompared DEF Gate, Pcs
  <2>2. CASE reason # ""
    <3>1. reason \in Reasons /\ reason # "conflict_dedup"
      BY <2>2, GateReasonType, GateIsNoConflict
    <3>2. req' = [req EXCEPT ![q] = Quarantining(req[q], reason, SourceReason(Current(q)) # "")]
      BY <1>1, <2>2 DEF Gate
    <3>3. QED
      BY <3>1, <3>2, QuarantiningCompared
  <2>3. QED
    BY <2>1, <2>2
<1>2. CASE InsertReading(q)
  BY <1>2, GotoCompared DEF InsertReading, Pcs, InTransaction
<1>3. CASE DuplicateReading(q)
  <2> DEFINE h == [req[q] EXCEPT !.pc = "classify"]
  <2>1. Stored(Current(q)) # {} /\ req' = [req EXCEPT ![q] = h]
    BY <1>3, GotoMoves DEF DuplicateReading, Pcs, IInv
  <2>2. req[q] \in Handlers
    BY DEF IInv, TypeOK
  <2>3. h \in Handlers /\ h.pc = "classify" /\ h.todo = req[q].todo
    BY <2>2, GotoFacts DEF Pcs
  <2> HIDE DEF h
  <2>4. Compared(h)
    BY <2>1, <2>3 DEF Compared, Stored, Sample, Current
  <2>5. QED
    BY <2>1, <2>3, <2>4, MovedCompared
<1>4. CASE ProjectUpdate(q) \/ ProjectFind(q) \/ ProjectCreate(q) \/ ProjectRetry(q)
  <2>1. \/ \E pc \in InTransaction : Goto(q, pc)
        \/ \E wrote \in Writes : Projected(q, wrote)
    BY <1>4 DEF ProjectUpdate, ProjectFind, ProjectCreate, ProjectRetry, InTransaction, Writes
  <2>2. \A pc \in InTransaction : pc \in Pcs /\ pc \notin {"classify", "quarantine"}
    BY DEF InTransaction, Pcs
  <2>3. QED
    BY <2>1, <2>2, GotoCompared, ProjectedCompared
<1>5. CASE LoseCreate(q)
  BY <1>5, GotoCompared, UnexpectedCompared DEF LoseCreate, Pcs, InTransaction
<1>6. ASSUME NEW r \in Rules, EvaluateRule(q, r) PROVE \A p \in Requests : Compared(req[p])'
  <2> DEFINE h == [req[q] EXCEPT !.due = req[q].due \ {r},
                      !.raised = IF \E a \in alarms : a.rule = r THEN req[q].raised
                                 ELSE req[q].raised \cup {r}]
  <2>1. req[q] \in Handlers /\ req[q].pc = "alarm"
    BY <1>6 DEF IInv, TypeOK, EvaluateRule, Busy
  <2>2. req[q].raised \subseteq Rules
    BY <2>1 DEF Handlers
  <2>3. h \in Handlers /\ h.pc = "alarm"
    BY <2>1, <2>2 DEF Handlers
  <2>4. req' = [req EXCEPT ![q] = h]
    BY <1>6, <2>1 DEF EvaluateRule, Handlers, IInv, TypeOK
  <2> HIDE DEF h
  <2>5. QED
    BY <2>3, <2>4, ElsewhereCompared
<1>7. CASE Commit(q)
  BY <1>7, GotoCompared DEF Commit, Pcs
<1>8. CASE Emit(q)
  BY <1>8, FinishedCompared DEF Emit, Busy, Outcomes
<1>9. CASE Classify(q)
  <2>1. req[q].pc = "classify"
    BY <1>9 DEF Classify, Busy
  <2>2. CASE \E r \in Stored(Current(q)) : Identical(r, Current(q))
    <3>1. req' = [req EXCEPT ![q] = Finished(req[q], "duplicate")]
      BY <1>9, <2>2 DEF Classify
    <3>2. QED
      BY <2>1, <3>1, FinishedCompared DEF Outcomes
  <2>3. CASE ~ \E r \in Stored(Current(q)) : Identical(r, Current(q))
    <3>1. req' = [req EXCEPT ![q] = Quarantining(req[q], "conflict_dedup", FALSE)]
      BY <1>9, <2>3 DEF Classify
    <3>2. Contradicted(Sample(req[q]))
      BY <2>1, <2>3 DEF ConflictsReal, Compared, Contradicted, Stored, Sample, Current
    <3>3. QED
      BY <3>1, <3>2, QuarantiningCompared DEF Reasons
  <2>4. QED
    BY <2>2, <2>3
<1>10. CASE Quarantine(q)
  <2>1. QuarantineOutcome(req[q].reason) \in Outcomes
    BY DEF QuarantineOutcome, Outcomes
  <2>2. QED
    BY <1>10, <2>1, FinishedCompared DEF Quarantine, Busy
<1>11. CASE Reply(q)
  BY <1>11, IdleCompared DEF Reply
<1>12. QED
  BY <1>1, <1>2, <1>3, <1>4, <1>5, <1>6, <1>7, <1>8, <1>9, <1>10, <1>11 DEF Work

LEMMA HandlersCompared ==
  ASSUME IInv, ConflictsReal, [Next]_vars
  PROVE  \A p \in Requests : Compared(req[p])'
<1>1. ASSUME NEW q \in Requests, NEW b \in Batches, NEW now \in Clock, Receive(q, b, now)
      PROVE  \A p \in Requests : Compared(req[p])'
  <2> DEFINE h == [Idle EXCEPT !.pc = "gate", !.todo = b, !.now = now]
  <2>1. b \in Seq(Samples)
    BY BatchesAssumption
  <2>2. h \in Handlers /\ h.pc = "gate"
    BY <2>1 DEF Idle, Handlers, Pcs, Reasons
  <2>3. req' = [req EXCEPT ![q] = h]
    BY <1>1 DEF Receive
  <2> HIDE DEF h
  <2>4. QED
    BY <2>2, <2>3, ElsewhereCompared
<1>2. ASSUME NEW q \in Requests, Breaks(q) PROVE \A p \in Requests : Compared(req[p])'
  <2>1. CASE QuarantineFails(q)
    <3>1. req' = [req EXCEPT ![q] = Idle] \/ Unexpected(q)
      BY <2>1, Zenon DEF QuarantineFails
    <3>2. QED
      BY <3>1, IdleCompared, UnexpectedCompared
  <2>2. CASE CommitUnacknowledged(q) \/ StatementFails(q)
    BY <2>2, UnexpectedCompared DEF CommitUnacknowledged, StatementFails
  <2>3. CASE LookupFails(q)
    BY <2>3, IdleCompared DEF LookupFails
  <2>4. QED
    BY <1>2, <2>1, <2>2, <2>3 DEF Breaks
<1>3. CASE Crash
  BY <1>3 DEF Crash, Compared, Idle
<1>4. CASE UNCHANGED vars
  BY <1>4 DEF vars, tables, ConflictsReal, Compared, Contradicted, Sample
<1>5. QED
  BY <1>1, <1>2, <1>3, <1>4, WorkCompared DEF Next

LEMMA NextConflicts == IInv /\ ConflictsReal /\ [Next]_vars => ConflictsReal'
<1> SUFFICES ASSUME IInv, ConflictsReal, [Next]_vars PROVE ConflictsReal'
  OBVIOUS
<1>1. readings \subseteq readings'
  BY ReadingsGrow
<1>2. quarantine' = quarantine \/ \E q \in Requests : Quarantine(q)
  BY DEF Next, Work, Breaks, Receive, Gate, InsertReading, DuplicateReading, ProjectUpdate,
         ProjectFind, ProjectCreate, LoseCreate, ProjectRetry, EvaluateRule, Commit, Applied, Emit,
         Classify, Reply, CommitUnacknowledged, QuarantineFails,
         LookupFails, StatementFails, Crash,
         vars, tables
<1>3. ASSUME NEW q \in Requests, Quarantine(q), NEW f \in quarantine' \ quarantine,
             f.reason = "conflict_dedup"
      PROVE  Contradicted(f.sample)
  <2>1. req[q].pc = "quarantine" /\ f = [sample |-> Current(q), reason |-> req[q].reason]
    BY <1>3 DEF Quarantine, Busy
  <2>2. QED
    BY <1>3, <2>1 DEF ConflictsReal, Compared, Sample, Current
<1>4. \A f \in quarantine' : f.reason = "conflict_dedup" => Contradicted(f.sample)
  BY <1>2, <1>3 DEF ConflictsReal
<1>5. \A f \in quarantine' : f.reason = "conflict_dedup" => Contradicted(f.sample)'
  BY <1>1, <1>4 DEF Contradicted
<1>6. QED
  BY <1>5, HandlersCompared DEF ConflictsReal

\* A caller that sends a recorded sample again, written plainly, never finds it
\* filed as a conflict: what is filed contradicts a reading on record, and no
\* other reading has its identity.
THEOREM IngestResendsNeverConflict == Spec => []ResendsNeverConflict
<1>1. Init => IInv /\ ConflictsReal
  BY InitIInv, InitConflicts
<1>2. IInv /\ ConflictsReal /\ [Next]_vars => IInv' /\ ConflictsReal'
  BY NextIInv, NextConflicts
<1>3. IInv /\ ConflictsReal => ResendsNeverConflict
  <2> SUFFICES ASSUME IInv, ConflictsReal, NEW s \in readings, s.plain,
                      [sample |-> s, reason |-> "conflict_dedup"] \in quarantine
               PROVE  FALSE
    BY DEF ResendsNeverConflict
  <2>1. PICK r \in readings : DedupKey(r) = DedupKey(s) /\ ~Identical(r, s)
    BY DEF ConflictsReal, Contradicted
  <2>2. r = s
    BY <2>1 DEF IInv, Rows
  <2>3. QED
    BY <2>1, <2>2 DEF Identical
<1>4. QED
  BY <1>1, <1>2, <1>3, PTL DEF Spec

----------------------------------------------------------------------------
\* Charts

\* A handler that projects works on a good reading, so a channel shows good
\* readings only.
GoodOnly(h) ==
  Open(h) /\ (h.pc # "alarm" \/ h.wrote # "none") => Sample(h).quality = "good"

LiveGood ==
  /\ \A c \in Channels : \A r \in live[c] : r.quality = "good"
  /\ \A q \in Requests : GoodOnly(req[q])

LEMMA InitGood == Init => LiveGood
<1>1. GoodOnly(Idle)
  BY DEF GoodOnly, Open, Idle, InTransaction
<1>2. QED
  BY <1>1 DEF Init, LiveGood

LEMMA HandlersStayGood ==
  ASSUME TypeOK, AllPlaced, LiveGood, StepKind
  PROVE  \A p \in Requests : GoodOnly(req'[p])
<1>1. ASSUME NEW q \in Requests, NEW h \in Handlers, req' = [req EXCEPT ![q] = h], GoodOnly(h)
      PROVE  \A p \in Requests : GoodOnly(req'[p])
  BY <1>1, MoveFacts DEF LiveGood
<1>2. ASSUME NEW q \in Requests, Leaves(q) PROVE \A p \in Requests : GoodOnly(req'[p])
  <2>1. PICK h \in Handlers : /\ h.pc \notin InTransaction \cup {"emit"}
                              /\ req' = [req EXCEPT ![q] = h]
    BY <1>2 DEF Leaves
  <2>2. QED
    BY <1>1, <2>1 DEF GoodOnly, Open
<1>3. ASSUME NEW q \in Requests, InsertReading(q) PROVE \A p \in Requests : GoodOnly(req'[p])
  <2> DEFINE pc == IF Current(q).quality = "good" THEN "project" ELSE "alarm"
             h == [req[q] EXCEPT !.pc = pc]
  <2>1. pc \in Pcs /\ (Current(q).quality # "good" => pc = "alarm")
    BY DEF Pcs, InTransaction
  <2>2. req' = [req EXCEPT ![q] = h]
    BY <1>3, <2>1, GotoMoves DEF InsertReading
  <2>3. req[q] \in Handlers /\ req[q].wrote = "none"
    BY <1>3 DEF TypeOK, InsertReading, Busy, AllPlaced, Placed
  <2> HIDE DEF pc
  <2>4. h \in Handlers /\ h.pc = pc /\ h.todo = req[q].todo /\ h.wrote = "none"
    BY <2>1, <2>3, GotoFacts
  <2> HIDE DEF h
  <2>5. GoodOnly(h)
    BY <2>1, <2>4 DEF GoodOnly, Sample, Current
  <2>6. QED
    BY <1>1, <2>2, <2>4, <2>5
<1>4. ASSUME NEW q \in Requests, NEW pc \in {"find", "create", "retry"}, Searches(q, pc)
      PROVE  \A p \in Requests : GoodOnly(req'[p])
  <2> DEFINE h == [req[q] EXCEPT !.pc = pc]
  <2>1. req[q] \in Handlers /\ Sample(req[q]).quality = "good"
    BY <1>4 DEF TypeOK, Searches, Open, InTransaction, LiveGood, GoodOnly
  <2>2. h \in Handlers /\ h.todo = req[q].todo
    BY <2>1, GotoFacts DEF Pcs, InTransaction
  <2>3. req' = [req EXCEPT ![q] = h]
    BY <1>4 DEF Searches
  <2> HIDE DEF h
  <2>4. QED
    BY <1>1, <2>1, <2>2, <2>3 DEF GoodOnly, Sample
<1>5. ASSUME NEW q \in Requests, NEW wrote \in Writes, Projects(q, wrote)
      PROVE  \A p \in Requests : GoodOnly(req'[p])
  <2> DEFINE h == Entered(req[q], wrote)
  <2>1. req[q] \in Handlers /\ Sample(req[q]).quality = "good"
    BY <1>5 DEF TypeOK, Projects, Open, InTransaction, LiveGood, GoodOnly
  <2>2. h \in Handlers /\ h.todo = req[q].todo
    BY <1>5, <2>1, EnteredFacts DEF Writes
  <2>3. req' = [req EXCEPT ![q] = h]
    BY <1>5 DEF Projects
  <2> HIDE DEF h
  <2>4. QED
    BY <1>1, <2>1, <2>2, <2>3 DEF GoodOnly, Sample
<1>6. ASSUME NEW q \in Requests, NEW r \in Rules, EvaluateRule(q, r)
      PROVE  \A p \in Requests : GoodOnly(req'[p])
  <2> DEFINE h == [req[q] EXCEPT !.due = req[q].due \ {r},
                      !.raised = IF \E a \in alarms : a.rule = r THEN req[q].raised
                                 ELSE req[q].raised \cup {r}]
  <2>1. req[q] \in Handlers /\ req[q].pc = "alarm"
    BY <1>6 DEF EvaluateRule, Busy, TypeOK
  <2>2. req[q].raised \subseteq Rules
    BY <2>1 DEF Handlers
  <2>3. h \in Handlers /\ h.pc = "alarm" /\ h.todo = req[q].todo /\ h.wrote = req[q].wrote
    BY <2>1, <2>2 DEF Handlers
  <2>4. req' = [req EXCEPT ![q] = h]
    BY <1>6, <2>1 DEF EvaluateRule, Handlers, TypeOK
  <2>5. GoodOnly(req[q])
    BY DEF LiveGood
  <2> HIDE DEF h
  <2>6. GoodOnly(h)
    BY <2>1, <2>3, <2>5 DEF GoodOnly, Sample, Open
  <2>7. QED
    BY <1>1, <2>3, <2>4, <2>6
<1>7. ASSUME NEW q \in Requests, Commits(q) PROVE \A p \in Requests : GoodOnly(req'[p])
  <2>1. PICK h \in Handlers : ~Open(h) /\ req' = [req EXCEPT ![q] = h]
    BY <1>7, CommittedHandler
  <2>2. QED
    BY <1>1, <2>1 DEF GoodOnly
<1>8. CASE Crash
  BY <1>8 DEF Crash, GoodOnly, Open, Idle, InTransaction
<1>9. CASE UNCHANGED req
  BY <1>9 DEF LiveGood
<1>10. QED
  BY <1>2, <1>3, <1>4, <1>5, <1>6, <1>7, <1>8, <1>9 DEF StepKind

LEMMA NextGood == IInv /\ LiveGood /\ [Next]_vars => LiveGood'
<1> SUFFICES ASSUME IInv, LiveGood, [Next]_vars PROVE LiveGood'
  OBVIOUS
<1>1. StepKind
  BY StepKinds DEF IInv
<1>2. \A p \in Requests : GoodOnly(req'[p])
  BY <1>1, HandlersStayGood DEF IInv
<1>3. ASSUME NEW q \in Requests, Commits(q), Open(req[q]), Current(q) = Sample(req[q])
      PROVE  \A c \in Channels : \A r \in live'[c] : r.quality = "good"
  <2>1. /\ req[q].pc = "alarm"
        /\ live' = IF req[q].wrote = "none" THEN live
                   ELSE [live EXCEPT ![Key(Current(q))] = {Current(q)}]
    BY <1>3 DEF Commits, Applied
  <2>2. req[q].wrote # "none" => Current(q).quality = "good"
    BY <1>3 DEF LiveGood, GoodOnly
  <2>3. QED
    BY <2>1, <2>2 DEF LiveGood, IInv, TypeOK
<1>4. \A c \in Channels : \A r \in live'[c] : r.quality = "good"
  BY <1>1, <1>3, TableSteps DEF IInv, LiveGood
<1>5. QED
  BY <1>2, <1>4 DEF LiveGood, GoodOnly, Open, Sample, InTransaction

LEMMA GoodInvariant == Spec => [](IInv /\ LiveGood)
BY InitIInv, NextIInv, InitGood, NextGood, PTL DEF Spec

LEMMA DateBinFacts ==
  ASSUME NEW w \in Nat \ {0}, NEW t \in Int
  PROVE  /\ DateBin(w, t) \in Int
         /\ DateBin(w, t) <= t
         /\ DateBin(w, DateBin(w, t)) = DateBin(w, t)
         /\ \A s \in Int : s <= t => DateBin(w, s) <= DateBin(w, t)
<1>1. DateBin(w, t) \in Int /\ DateBin(w, t) <= t
  BY SMT DEF DateBin
<1>2. DateBin(w, DateBin(w, t)) = DateBin(w, t)
  BY SMT DEF DateBin
<1>3. ASSUME NEW s \in Int, s <= t PROVE DateBin(w, s) <= DateBin(w, t)
  BY <1>3, SMT DEF DateBin
<1>4. QED
  BY <1>1, <1>2, <1>3

\* The grid of a window has the bucket of every instant in it.
LEMMA BinInGrid ==
  ASSUME NEW q, q.from \in Int, q.to \in Int, q.bucket \in Nat \ {0},
         NEW t \in Int, q.from <= t, t < q.to
  PROVE  DateBin(q.bucket, t) \in Grid(q)
<1>1. /\ DateBin(q.bucket, t) \in Int /\ DateBin(q.bucket, t) <= t
      /\ DateBin(q.bucket, DateBin(q.bucket, t)) = DateBin(q.bucket, t)
      /\ DateBin(q.bucket, q.from) \in Int
      /\ DateBin(q.bucket, q.from) <= DateBin(q.bucket, t)
  BY DateBinFacts
<1> HIDE DEF DateBin
<1>2. DateBin(q.bucket, t) \in DateBin(q.bucket, q.from) .. q.to - 1
  BY <1>1, SMT
<1>3. QED
  BY <1>1, <1>2, Zenon DEF Grid

\* A set of integers with an upper bound has a greatest member.
LEMMA GreatestMember ==
  ASSUME NEW S, S \subseteq Int, S # {}, NEW u \in Int, \A x \in S : x <= u
  PROVE  \E m \in S : \A x \in S : x <= m
<1> DEFINE T == {u - x : x \in S}
<1>1. T \subseteq Nat /\ T # {}
  <2>1. ASSUME NEW x \in S PROVE u - x \in Nat
    <3>1. x \in Int /\ x <= u
      OBVIOUS
    <3>2. QED
      BY <3>1, SMT
  <2>2. QED
    BY <2>1, Zenon
<1> DEFINE Below(y) == 0 .. y
           Belows == {Below(y) : y \in T}
<1>2. Belows \subseteq FiniteSubsetsOf(Nat) /\ Belows # {}
  <2>1. ASSUME NEW y \in T PROVE Below(y) \in FiniteSubsetsOf(Nat)
    <3>1. y \in Nat
      BY <1>1
    <3> HIDE DEF T
    <3>2. IsFiniteSet(Below(y)) /\ Below(y) \in SUBSET Nat
      BY <3>1, FS_Interval
    <3>3. QED
      BY <3>2, Zenon DEF FiniteSubsetsOf
  <2> HIDE DEF T, Below
  <2>2. QED
    BY <1>1, <2>1, Zenon
<1>3. PICK low \in Belows : \A other \in Belows : <<other, low>> \notin StrictSubsetOrdering(Nat)
  <2> HIDE DEF Belows
  <2> QED BY <1>2, WFMin, FS_StrictSubsetOrderingWellFounded, Zenon
<1>4. PICK n \in T : low = Below(n)
  <2> HIDE DEF T, Below
  <2> QED OBVIOUS
<1>5. \A y \in T : n <= y
  <2> HIDE DEF T, Belows
  <2> SUFFICES ASSUME NEW y \in T, y < n PROVE FALSE
    BY <1>1, <1>4
  <2>1. Below(y) \subseteq Nat /\ Below(n) \subseteq Nat /\ Below(y) \subseteq Below(n)
    BY <1>1
  <2>2. n \in Below(n) /\ n \notin Below(y)
    BY <1>1
  <2> HIDE DEF Below
  <2>3. <<Below(y), Below(n)>> \in StrictSubsetOrdering(Nat)
    BY <2>1, <2>2 DEF StrictSubsetOrdering
  <2>4. Below(y) \in Belows
    BY Zenon DEF Belows
  <2>5. QED
    BY <1>3, <1>4, <2>3, <2>4, Zenon
<1>6. PICK m \in S : n = u - m
  OBVIOUS
<1>7. ASSUME NEW x \in S PROVE x <= m
  <2>1. n <= u - x
    BY <1>5, Zenon
  <2>2. x \in Int /\ m \in Int
    OBVIOUS
  <2>3. QED
    BY <1>6, <2>1, <2>2, SMT
<1>8. QED
  BY <1>7

LEMMA LeastRung ==
  ASSUME NEW width \in Int, \E step \in BucketLadder : width <= step.upTo
  PROVE  \E step \in BucketLadder :
           /\ width <= step.upTo
           /\ \A other \in BucketLadder : width <= other.upTo => step.upTo <= other.upTo
<1> DEFINE rungs == {step \in BucketLadder : width <= step.upTo}
           S == {0 - step.upTo : step \in rungs}
<1>1. S \subseteq Int /\ S # {} /\ \A x \in S : x <= 0 - width
  <2>1. rungs # {}
    OBVIOUS
  <2>2. ASSUME NEW step \in rungs PROVE 0 - step.upTo \in Int /\ 0 - step.upTo <= 0 - width
    <3>1. step.upTo \in Nat /\ width <= step.upTo
      BY BucketsAssumption
    <3>2. QED
      BY <3>1, SMT
  <2> HIDE DEF rungs
  <2>3. QED
    BY <2>1, <2>2, Zenon
<1>2. PICK m \in S : \A x \in S : x <= m
  <2> HIDE DEF S
  <2>1. 0 - width \in Int
    OBVIOUS
  <2>2. QED
    BY <1>1, <2>1, GreatestMember, Zenon
<1>3. PICK step \in BucketLadder : width <= step.upTo /\ m = 0 - step.upTo
  OBVIOUS
<1>4. ASSUME NEW other \in BucketLadder, width <= other.upTo
      PROVE  step.upTo <= other.upTo
  <2>1. 0 - other.upTo \in S
    BY <1>4
  <2>2. 0 - other.upTo <= 0 - step.upTo
    BY <1>2, <1>3, <2>1
  <2>3. QED
    BY <2>2, BucketsAssumption
<1>5. QED
  BY <1>3, <1>4

LEMMA PolicyType ==
  ASSUME NEW width \in Int
  PROVE  PolicyForWidth(width) \in Nat
<1> DEFINE Least(step) ==
      /\ width <= step.upTo
      /\ \A other \in BucketLadder : width <= other.upTo => step.upTo <= other.upTo
<1>1. CASE width <= RawUpTo
  BY <1>1 DEF PolicyForWidth, Raw
<1>2. CASE ~(width <= RawUpTo) /\ ~ \E step \in BucketLadder : width <= step.upTo
  BY <1>2, BucketsAssumption DEF PolicyForWidth
<1>3. CASE ~(width <= RawUpTo) /\ \E step \in BucketLadder : width <= step.upTo
  <2>1. \E step \in BucketLadder : Least(step)
    BY <1>3, LeastRung
  <2>2. (CHOOSE step \in BucketLadder : Least(step)) \in BucketLadder
    <3> HIDE DEF Least
    <3> QED BY <2>1
  <2>3. PolicyForWidth(width) = (CHOOSE step \in BucketLadder : Least(step)).bucket
    BY <1>3, Zenon DEF PolicyForWidth
  <2>4. QED
    <3> HIDE DEF Least
    <3> QED BY <2>2, <2>3, BucketsAssumption
<1>4. QED
  BY <1>1, <1>2, <1>3

LEMMA ReadingFacts ==
  ASSUME TypeOK, Rows, NEW r \in readings
  PROVE  r \in Passing /\ r.timestamp \in Int
BY SamplesAssumption DEF TypeOK, Rows

\* The charts of a window, and the half a moment falls in.
LEMMA ChartFacts ==
  ASSUME NEW w \in Charts
  PROVE  /\ Whole(w).from = w[1] /\ Whole(w).to = w[3]
         /\ Whole(w).bucket \in Nat
         /\ w[1] \in Int /\ w[2] \in Int /\ w[3] \in Int
         /\ w[1] < w[2] /\ w[2] < w[3]
         /\ Halves(w) = {Query(w[1], w[2], Whole(w).bucket), Query(w[2], w[3], Whole(w).bucket)}
<1>1. /\ w[1] \in Int /\ w[2] \in Int /\ w[3] \in Int
      /\ w[1] < w[2] /\ w[2] < w[3]
  BY ChartsAssumption
<1>2. PolicyForWidth(w[3] - w[1]) \in Nat
  BY <1>1, PolicyType
<1>3. QED
  BY <1>1, <1>2 DEF Whole, Query, Halves

\* Whatever is in the tables, the charts of a window count every reading once.
LEMMA ChartsComplete == TypeOK /\ Rows => TrendsComplete
<1> SUFFICES ASSUME TypeOK, Rows, NEW c \in Channels, NEW w \in Charts,
                    Whole(w).bucket # Raw, NEW r \in Selected(c, Whole(w))
             PROVE  \E q \in Halves(w) : \E b \in Grid(q) :
                      \A p \in Halves(w) : \A d \in Grid(p) :
                        r \in Bucket(c, p, d) <=> p = q /\ d = b
  BY DEF TrendsComplete
<1> DEFINE width == Whole(w).bucket
           first == Query(w[1], w[2], width)
           second == Query(w[2], w[3], width)
<1>1. width \in Nat \ {0} /\ width # Raw
  BY ChartFacts DEF Raw
<1>2. /\ r \in readings /\ Line(Key(r)) = Line(c) /\ r.quality = "good"
      /\ r.timestamp \in Int
      /\ w[1] <= r.timestamp /\ r.timestamp < w[3]
  BY ChartFacts, ReadingFacts DEF Selected
<1>3. /\ w[1] \in Int /\ w[2] \in Int /\ w[3] \in Int /\ w[1] < w[2] /\ w[2] < w[3]
      /\ Halves(w) = {first, second}
  BY ChartFacts
<1>4. /\ first.from = w[1] /\ first.to = w[2] /\ first.bucket = width
      /\ second.from = w[2] /\ second.to = w[3] /\ second.bucket = width
  BY DEF Query
<1> HIDE DEF width, first, second
<1>5. \A p \in {first, second} :
        r \in Selected(c, p) <=> p.from <= r.timestamp /\ r.timestamp < p.to
  BY <1>1, <1>2, <1>4 DEF Selected
<1>6. \A p \in {first, second} : \A d :
        r \in Bucket(c, p, d) <=> r \in Selected(c, p) /\ d = DateBin(width, r.timestamp)
  BY <1>4 DEF Bucket
<1>7. ASSUME NEW q \in {first, second}, q.from <= r.timestamp, r.timestamp < q.to
      PROVE  \E b \in Grid(q) : \A p \in Halves(w) : \A d \in Grid(p) :
               r \in Bucket(c, p, d) <=> p = q /\ d = b
  <2>1. DateBin(width, r.timestamp) \in Grid(q)
    BY <1>1, <1>2, <1>3, <1>4, <1>7, BinInGrid
  <2>2. \A p \in {first, second} : r \in Selected(c, p) <=> p = q
    BY <1>2, <1>3, <1>4, <1>5, <1>7
  <2>3. QED
    BY <1>3, <1>6, <2>1, <2>2, Zenon
<1>8. r.timestamp < w[2] \/ w[2] <= r.timestamp
  BY <1>2, <1>3
<1>9. QED
  BY <1>2, <1>3, <1>4, <1>7, <1>8

\* Two charts that meet at any instant tell of each good reading of their
\* window once, whatever ingestion has committed.
THEOREM IngestTrendsComplete == Spec => []TrendsComplete
<1>1. IInv => TrendsComplete
  BY ChartsComplete DEF IInv
<1>2. QED
  BY <1>1, IngestInvariant, PTL

\* What a reading past the live row of its channel is.
LEMMA PastLive ==
  ASSUME IInv, NEW c \in Channels, NEW l \in live[c],
         NEW r \in readings, Key(r) = c, r.timestamp > l.timestamp, r.quality = "good"
  PROVE  r \in skipped
<1> SUFFICES ASSUME r \notin skipped PROVE FALSE
  OBVIOUS
<1>1. l \in readings /\ live[c] = {l}
  BY DEF IInv, Rows
<1>2. l.timestamp \in Int /\ r.timestamp \in Int
  BY <1>1, ReadingFacts DEF IInv
<1>3. PICK x \in live[c] : x.timestamp >= r.timestamp
  BY DEF IInv, Latest, LatestUnlessRaced
<1>4. QED
  BY <1>1, <1>2, <1>3

LEMMA ChartsEndAtLive == IInv /\ LiveGood => ChartEndsAtLive
<1> SUFFICES ASSUME IInv, LiveGood, NEW c \in Channels, NEW w \in Charts, NEW l \in live[c],
                    Whole(w).from <= l.timestamp, l.timestamp < Whole(w).to
             PROVE  IF Whole(w).bucket # Raw
                    THEN \E b \in LatestPoint(c, Whole(w)) :
                           \/ l \in Bucket(c, Whole(w), b)
                           \/ /\ b > DateBin(Whole(w).bucket, l.timestamp)
                              /\ \A r \in Bucket(c, Whole(w), b) : Key(r) = c => r \in skipped
                    ELSE \A page \in Pages(c, Whole(w)) :
                           \/ Cardinality(page) = RowLimit
                           \/ /\ l \in page
                              /\ \A r \in page : Key(r) = c /\ r.timestamp > l.timestamp =>
                                                   r \in skipped \/ r.quality # "good"
  BY Zenon DEF ChartEndsAtLive
<1> DEFINE q == Whole(w)
<1>1. q.from \in Int /\ q.to \in Int /\ q.bucket \in Nat
  BY ChartFacts
<1>2. l \in readings /\ Key(l) = c /\ l.quality = "good" /\ l.timestamp \in Int
  <2>1. l \in readings /\ Key(l) = c
    BY DEF IInv, Rows
  <2>2. QED
    BY <2>1, ReadingFacts DEF IInv, LiveGood
<1>3. l \in Selected(c, q)
  BY <1>2 DEF Selected
<1>4. \A r \in Selected(c, q) : r \in readings /\ r.timestamp \in Int
  BY ReadingFacts DEF Selected, IInv
<1>5. q.from <= l.timestamp /\ l.timestamp < q.to
  OBVIOUS
<1> HIDE DEF q
<1>6. CASE q.bucket # Raw
  <2>1. q.bucket \in Nat \ {0}
    BY <1>1, <1>6 DEF Raw
  <2> DEFINE start == DateBin(q.bucket, l.timestamp)
  <2>2. start \in Grid(q) /\ l \in Bucket(c, q, start)
    BY <1>1, <1>2, <1>3, <1>5, <2>1, BinInGrid DEF Bucket
  <2>3. \A b \in Grid(q) : b \in Int /\ b <= q.to
    <3>1. DateBin(q.bucket, q.from) \in Int
      BY <1>1, <2>1, DateBinFacts
    <3> HIDE DEF DateBin
    <3>2. \A b \in DateBin(q.bucket, q.from) .. q.to - 1 : b \in Int /\ b <= q.to
      BY <1>1, <3>1, SMT
    <3>3. QED
      BY <3>2 DEF Grid
  <2>4. PICK last \in Filled(c, q) : \A d \in Filled(c, q) : d <= last
    <3>1. start \in Filled(c, q)
      BY <2>2 DEF Filled
    <3>2. Filled(c, q) \subseteq Int /\ \A b \in Filled(c, q) : b <= q.to
      BY <2>3 DEF Filled
    <3>3. QED
      BY <1>1, <3>1, <3>2, GreatestMember, Zenon
  <2>5. last \in LatestPoint(c, q) /\ last \in Int /\ start <= last /\ start \in Int
    <3>1. start \in Filled(c, q) /\ last \in Grid(q)
      BY <2>2 DEF Filled
    <3>2. last \in LatestPoint(c, q)
      BY <2>4, Zenon DEF LatestPoint
    <3>3. QED
      BY <2>2, <2>3, <2>4, <3>1, <3>2
  <2>6. CASE last = start
    BY <1>6, <2>2, <2>5, <2>6 DEF q
  <2>7. CASE last > start
    <3>1. ASSUME NEW r \in Bucket(c, q, last), Key(r) = c PROVE r \in skipped
      <4>1. /\ r \in readings /\ r.timestamp \in Int /\ r.quality = "good"
            /\ DateBin(q.bucket, r.timestamp) = last
        BY <1>4, <1>6 DEF Bucket, Selected
      <4>2. ~(r.timestamp <= l.timestamp)
        BY <1>2, <2>1, <2>5, <2>7, <4>1, DateBinFacts
      <4>3. r.timestamp > l.timestamp
        BY <1>2, <4>1, <4>2
      <4>4. QED
        BY <3>1, <4>1, <4>3, PastLive
    <3>2. QED
      BY <1>6, <2>5, <2>7, <3>1 DEF q
  <2>8. QED
    BY <2>5, <2>6, <2>7
<1>7. CASE q.bucket = Raw
  <2>1. ASSUME NEW page \in Pages(c, q), Cardinality(page) # RowLimit
        PROVE  /\ l \in page
               /\ \A r \in page : Key(r) = c /\ r.timestamp > l.timestamp =>
                                    r \in skipped \/ r.quality # "good"
    <3>1. page = Selected(c, q)
      BY <2>1 DEF Pages
    <3>2. QED
      BY <1>3, <1>4, <3>1, PastLive
  <2>2. QED
    BY <1>7, <2>1 DEF q
<1>8. QED
  BY <1>6, <1>7

\* The charts of every page end where its tiles are: at the live reading.
THEOREM IngestChartEndsAtLive == Spec => []ChartEndsAtLive
BY GoodInvariant, ChartsEndAtLive, PTL
=============================================================================
