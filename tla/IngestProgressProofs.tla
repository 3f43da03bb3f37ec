------------------------ MODULE IngestProgressProofs ------------------------
(***************************************************************************)
(* Why every request of Ingest ends: whatever a handler does next, failing *)
(* statements included, brings it nearer its end by a count of statements  *)
(* left, and a handler that waits for a lock waits, directly or through    *)
(* one other handler, for one that does not wait.  What a commit owes: as  *)
(* long as nothing has failed, its events are out or about to be.  And how *)
(* many samples of a channel a lost create may cost.                       *)
(***************************************************************************)
EXTENDS IngestProofs, SequenceTheorems, FiniteSetTheorems

RuleCount == Cardinality(Rules)

\* Statements the current sample may still take, in the order of the code; the
\* rounds of the evaluator's loop are those still due.
Stage(h) ==
  IF h.pc = "idle" THEN 0
  ELSE IF h.pc = "reply" THEN 1
  ELSE IF h.pc = "quarantine" THEN IF h.lastResort THEN 1 ELSE 2
  ELSE IF h.pc \in {"classify", "emit"} THEN 3
  ELSE IF h.pc = "alarm" THEN 4 + Cardinality(h.due)
  ELSE IF h.pc = "retry" THEN 5 + RuleCount
  ELSE IF h.pc = "create" THEN 6 + RuleCount
  ELSE IF h.pc = "find" THEN 7 + RuleCount
  ELSE IF h.pc = "project" THEN 8 + RuleCount
  ELSE IF h.pc = "insert" THEN 9 + RuleCount
  ELSE 10 + RuleCount

PerSample == 10 + RuleCount

\* At most this many statements are left of the request.
Rank(h) == IF h.pc = "idle" THEN 0 ELSE Len(h.todo) * PerSample + Stage(h)

\* A step of q brings q nearer its end and leaves the others where they are.
Sinks(q) ==
  /\ Rank(req'[q]) < Rank(req[q])
  /\ \A p \in Requests \ {q} : req'[p] = req[p]

\* A request starts with a rank that its length gives, every statement of a
\* handler, also a failing one, lowers its rank, and nothing else but a crash,
\* which ends it, touches it.
WindsDown ==
  \A q \in Requests :
    /\ \A b \in Batches, now \in Clock :
         Receive(q, b, now) => Rank(req'[q]) = (Len(b) + 1) * PerSample
    /\ Work(q) \/ Breaks(q) => Sinks(q)
    /\ ~Busy(q, "idle") => req'[q] = req[q] \/ Rank(req'[q]) < Rank(req[q])

\* A rank is a number of statements, and none are left of an idle handler only.
Ranked == \A q \in Requests : Rank(req[q]) \in Nat /\ (Rank(req[q]) = 0 <=> Busy(q, "idle"))

\* The guards of Work: the next statement of q is free to run...
Ready(q) ==
  \/ req[q].pc \in {"gate", "find", "alarm", "emit", "classify", "quarantine", "reply"}
  \/ /\ Busy(q, "insert")
     /\ Stored(Current(q)) # {} \/ ~ \E p \in Requests \ {q} : HoldsIdentity(p, Current(q))
  \/ /\ req[q].pc \in {"project", "retry"}
     /\ Older(Key(Current(q)), Current(q)) => ~LiveLocked(q, Key(Current(q)))
  \/ /\ Busy(q, "create")
     /\ live[Key(Current(q))] # {} \/ ~LiveLocked(q, Key(Current(q)))

\* ...or needs a lock of the transaction of p: a unique key, or a live row.
Awaits(q, p) ==
  /\ p # q
  /\ \/ Busy(q, "insert") /\ HoldsIdentity(p, Current(q))
     \/ req[q].pc \in {"project", "create", "retry"} /\ HoldsLive(p, Key(Current(q)))

\* Nobody waits in a circle: at the end of a handler's waiting, at most two
\* locks away, there is one that is free to run.
NobodyWaitsInVain ==
  \A q \in Requests :
    \/ Busy(q, "idle") \/ Ready(q)
    \/ \E p \in Requests :
         /\ Awaits(q, p)
         /\ Ready(p) \/ \E r \in Requests : Awaits(p, r) /\ Ready(r)

\* The event is published, or owed by a handler that is about to publish it.
Due(e) == e \in emitted \/ \E q \in Requests : Busy(q, "emit") /\ e \in PendingEvents(q)

\* As long as nothing has failed, every change committed to the tables has its
\* event: none is lost between the commit and the gateway.
Announced ==
  faults = 0 =>
    /\ \A s \in readings : Due(Event("telemetry.reading.accepted", s, NoRule))
    /\ \A a \in alarms : Due(Event("alarm.event.created", a.reading, a.rule))
    /\ \A c \in Channels : \A s \in live[c] : Due(Event("live_reading.updated", s, NoRule))

----------------------------------------------------------------------------
\* Ranks

LEMMA CountType == RuleCount \in Nat /\ PerSample \in Nat
BY RulesAssumption, FS_CardinalityType DEF RuleCount, PerSample

LEMMA DueCount ==
  ASSUME NEW due \in SUBSET Rules
  PROVE  /\ IsFiniteSet(due) /\ Cardinality(due) \in Nat
         /\ Cardinality(due) <= RuleCount
BY RulesAssumption, FS_Subset, FS_CardinalityType DEF RuleCount

LEMMA StageType ==
  ASSUME NEW h \in Handlers
  PROVE  /\ Stage(h) \in 0 .. PerSample
         /\ h.pc # "idle" => Stage(h) # 0
<1>1. h.pc \in Pcs /\ h.due \in SUBSET Rules
  BY DEF Handlers
<1>2. Cardinality(h.due) \in Nat /\ Cardinality(h.due) <= RuleCount
  BY <1>1, DueCount
<1>3. RuleCount \in Nat /\ PerSample = 10 + RuleCount
  BY CountType DEF PerSample
<1>4. CASE h.pc \in {"idle", "reply", "classify", "emit"}
  BY <1>3, <1>4 DEF Stage
<1>5. CASE h.pc = "quarantine"
  BY <1>3, <1>5 DEF Stage
<1>6. CASE h.pc = "alarm"
  BY <1>2, <1>3, <1>6 DEF Stage
<1>7. CASE h.pc \in {"retry", "create", "find", "project", "insert", "gate"}
  BY <1>3, <1>7 DEF Stage
<1>8. QED
  BY <1>1, <1>4, <1>5, <1>6, <1>7 DEF Pcs, InTransaction

\* The samples left weigh a natural number, and one sample PerSample of it.
LEMMA Weights ==
  ASSUME NEW n \in Nat, NEW w \in Nat
  PROVE  n * w \in Nat /\ (n + 1) * w = n * w + w
OBVIOUS

LEMMA RankType ==
  ASSUME NEW h \in Handlers
  PROVE  Rank(h) \in Nat /\ (Rank(h) = 0 <=> h.pc = "idle")
<1>1. h.todo \in Seq(Samples)
  BY DEF Handlers
<1>2. Len(h.todo) * PerSample \in Nat
  BY <1>1, CountType, Weights
<1>3. Stage(h) \in Nat /\ (h.pc # "idle" => Stage(h) # 0)
  BY StageType, CountType
<1>4. QED
  BY <1>2, <1>3 DEF Rank

\* A later statement for the same sample is nearer the end...
LEMMA LaterRank ==
  ASSUME NEW h \in Handlers, NEW k \in Handlers, k.todo = h.todo, Stage(k) < Stage(h),
         h.pc # "idle"
  PROVE  Rank(k) < Rank(h)
<1>1. h.todo \in Seq(Samples)
  BY DEF Handlers
<1>2. Len(h.todo) * PerSample \in Nat
  BY <1>1, CountType, Weights
<1>3. Stage(h) \in Nat /\ Stage(k) \in Nat
  BY StageType, CountType
<1>4. QED
  BY <1>2, <1>3 DEF Rank

\* ...and so is any statement for the next sample.
LEMMA NextSampleRank ==
  ASSUME NEW h \in Handlers, NEW k \in Handlers, h.todo # <<>>, k.todo = Tail(h.todo),
         h.pc # "idle"
  PROVE  Rank(k) < Rank(h)
<1>1. h.todo \in Seq(Samples)
  BY DEF Handlers
<1> DEFINE n == Len(h.todo) - 1
<1>2. n \in Nat /\ Len(k.todo) = n /\ Len(h.todo) = n + 1
  <2>1. Len(Tail(h.todo)) = Len(h.todo) - 1
    BY <1>1, HeadTailProperties
  <2>2. Len(h.todo) \in Nat /\ Len(h.todo) # 0
    BY <1>1, EmptySeq
  <2>3. Len(k.todo) = Len(h.todo) - 1
    BY <2>1
  <2>4. QED
    BY <2>2, <2>3
<1> HIDE DEF n
<1>3. n * PerSample \in Nat /\ (n + 1) * PerSample = n * PerSample + PerSample
  <2>1. n \in Nat /\ PerSample \in Nat
    BY <1>2, CountType
  <2>2. QED
    BY <2>1, Weights, Zenon
<1>4. Stage(k) \in 0 .. PerSample /\ Stage(h) \in 0 .. PerSample /\ Stage(h) # 0
  BY StageType
<1>5. QED
  BY <1>2, <1>3, <1>4, CountType DEF Rank

LEMMA IdleRank == Rank(Idle) = 0
BY DEF Idle, Rank

LEMMA RanksTyped == TypeOK => Ranked
BY RankType DEF Ranked, Busy, TypeOK

----------------------------------------------------------------------------
\* Every statement lowers the rank of the handler that sends it

LEMMA MoveSinks ==
  ASSUME TypeOK, NEW q \in Requests, NEW h \in Handlers, req' = [req EXCEPT ![q] = h],
         Rank(h) < Rank(req[q])
  PROVE  Sinks(q)
BY MoveFacts DEF Sinks

LEMMA GotoSinks ==
  ASSUME TypeOK, NEW q \in Requests, NEW pc \in Pcs, Goto(q, pc), req[q].pc # "idle",
         Stage([req[q] EXCEPT !.pc = pc]) < Stage(req[q])
  PROVE  Sinks(q)
<1>1. req[q] \in Handlers
  BY DEF TypeOK
<1>2. [req[q] EXCEPT !.pc = pc] \in Handlers /\ [req[q] EXCEPT !.pc = pc].todo = req[q].todo
  BY <1>1, GotoFacts
<1>3. Rank([req[q] EXCEPT !.pc = pc]) < Rank(req[q])
  BY <1>1, <1>2, LaterRank
<1>4. QED
  BY <1>2, <1>3, GotoMoves, MoveSinks

LEMMA ProjectedSinks ==
  ASSUME TypeOK, NEW q \in Requests, NEW wrote \in Writes, Projected(q, wrote),
         req[q].pc \in Projecting
  PROVE  Sinks(q)
<1> DEFINE h == Entered(req[q], wrote)
<1>1. req[q] \in Handlers
  BY DEF TypeOK
<1>2. h \in Handlers /\ h.todo = req[q].todo /\ h.pc = "alarm"
  BY <1>1, EnteredFacts DEF Writes
<1>3. req' = [req EXCEPT ![q] = h]
  BY ProjectedMoves
<1> HIDE DEF h
<1>4. Stage(h) = 4 + Cardinality(h.due)
  BY <1>2 DEF Stage
<1>5. Cardinality(h.due) \in Nat /\ Cardinality(h.due) <= RuleCount /\ RuleCount \in Nat
  BY <1>2, DueCount, CountType DEF Handlers
<1>6. Stage(req[q]) \in {5 + RuleCount, 6 + RuleCount, 7 + RuleCount, 8 + RuleCount}
  BY DEF Stage, Projecting
<1>7. Stage(h) < Stage(req[q])
  BY <1>4, <1>5, <1>6
<1>8. req[q].pc # "idle"
  BY DEF Projecting
<1>9. QED
  BY <1>1, <1>2, <1>3, <1>7, <1>8, LaterRank, MoveSinks

\* Also the failing statement of a quarantine, which is tried once more.
LEMMA QuarantiningSinks ==
  ASSUME TypeOK, NEW q \in Requests, NEW reason \in Reasons, NEW lastResort \in BOOLEAN,
         req[q].pc \notin {"idle", "reply"},
         req[q].pc = "quarantine" => ~req[q].lastResort /\ lastResort,
         req' = [req EXCEPT ![q] = Quarantining(req[q], reason, lastResort)]
  PROVE  Sinks(q)
<1> DEFINE h == Quarantining(req[q], reason, lastResort)
<1>1. req[q] \in Handlers
  BY DEF TypeOK
<1>2. /\ h \in Handlers /\ h.todo = req[q].todo /\ h.pc = "quarantine"
      /\ h.lastResort = lastResort /\ req' = [req EXCEPT ![q] = h]
  BY <1>1, QuarantiningFacts
<1> HIDE DEF h
<1>3. Stage(h) = IF lastResort THEN 1 ELSE 2
  BY <1>2 DEF Stage
<1>4. RuleCount \in Nat /\ Cardinality(req[q].due) \in Nat
  BY <1>1, CountType, DueCount DEF Handlers
<1>5. CASE req[q].pc = "quarantine"
  <2>1. Stage(h) < Stage(req[q]) /\ req[q].pc # "idle"
    BY <1>3, <1>5 DEF Stage
  <2>2. QED
    BY <1>1, <1>2, <2>1, LaterRank, MoveSinks
<1>6. CASE req[q].pc # "quarantine"
  <2>1. Stage(req[q]) \in Nat /\ Stage(req[q]) >= 3
    <3>1. CASE req[q].pc = "alarm"
      BY <1>4, <3>1 DEF Stage
    <3>2. CASE req[q].pc # "alarm"
      BY <1>4, <1>6, <3>2 DEF Stage
    <3>3. QED
      BY <3>1, <3>2
  <2>2. Stage(h) < Stage(req[q])
    BY <1>3, <2>1
  <2>3. QED
    BY <1>1, <1>2, <2>2, LaterRank, MoveSinks
<1>7. QED
  BY <1>5, <1>6

LEMMA FinishedSinks ==
  ASSUME TypeOK, AllPlaced, NEW q \in Requests, req[q].pc \notin {"idle", "reply"},
         NEW outcome \in Outcomes, req' = [req EXCEPT ![q] = Finished(req[q], outcome)]
  PROVE  Sinks(q)
<1>1. req[q] \in Handlers /\ req[q].todo # <<>>
  BY CurrentType
<1>2. /\ Finished(req[q], outcome) \in Handlers
      /\ Finished(req[q], outcome).todo = Tail(req[q].todo)
  BY <1>1, FinishedFacts
<1>3. Rank(Finished(req[q], outcome)) < Rank(req[q])
  BY <1>1, <1>2, NextSampleRank
<1>4. QED
  BY <1>2, <1>3, MoveSinks

LEMMA IdleSinks ==
  ASSUME TypeOK, NEW q \in Requests, req[q].pc # "idle", req' = [req EXCEPT ![q] = Idle]
  PROVE  Sinks(q)
<1>1. Rank(req[q]) \in Nat /\ Rank(req[q]) # 0
  BY RankType DEF TypeOK
<1>2. Rank(Idle) < Rank(req[q])
  BY <1>1, IdleRank
<1>3. QED
  BY <1>2, IdleType, MoveSinks

\* A rule looked at is one round less.
LEMMA EvaluateSinks ==
  ASSUME TypeOK, NEW q \in Requests, NEW r \in Rules, EvaluateRule(q, r)
  PROVE  Sinks(q)
<1>1. req[q] \in Handlers /\ req[q].pc = "alarm" /\ r \in req[q].due
  BY DEF TypeOK, EvaluateRule, Busy
<1>2. PICK raised \in SUBSET Rules :
        req' = [req EXCEPT ![q] = [req[q] EXCEPT !.due = req[q].due \ {r}, !.raised = raised]]
  <2>1. req[q].raised \subseteq Rules
    BY <1>1 DEF Handlers
  <2>2. req' = [req EXCEPT ![q] = [req[q] EXCEPT !.due = req[q].due \ {r},
                 !.raised = IF \E a \in alarms : a.rule = r THEN req[q].raised
                            ELSE req[q].raised \cup {r}]]
    BY <1>1 DEF EvaluateRule, Handlers, TypeOK
  <2>3. QED
    BY <2>1, <2>2
<1> DEFINE h == [req[q] EXCEPT !.due = req[q].due \ {r}, !.raised = raised]
<1>3. /\ h \in Handlers /\ h.pc = "alarm" /\ h.todo = req[q].todo /\ h.due = req[q].due \ {r}
  BY <1>1 DEF Handlers
<1>4. req' = [req EXCEPT ![q] = h]
  BY <1>2
<1> HIDE DEF h
<1>5. req[q].due \in SUBSET Rules
  BY <1>1 DEF Handlers
<1>6. IsFiniteSet(req[q].due)
  BY <1>5, DueCount
<1>7. Cardinality(req[q].due \ {r}) = Cardinality(req[q].due) - 1
  BY <1>1, <1>6, FS_RemoveElement
<1>8. Cardinality(req[q].due) \in Nat
  BY <1>5, DueCount
<1>9. Stage(h) = 4 + Cardinality(req[q].due \ {r}) /\ Stage(req[q]) = 4 + Cardinality(req[q].due)
  BY <1>1, <1>3 DEF Stage
<1>10. Stage(h) < Stage(req[q])
  BY <1>7, <1>8, <1>9
<1>11. QED
  BY <1>1, <1>3, <1>4, <1>10, LaterRank, MoveSinks

LEMMA ProjectionSinks ==
  ASSUME TypeOK, AllPlaced, NEW q \in Requests,
         ProjectUpdate(q) \/ ProjectFind(q) \/ ProjectCreate(q) \/ LoseCreate(q) \/ ProjectRetry(q)
  PROVE  Sinks(q)
<1>1. RuleCount \in Nat /\ req[q] \in Handlers
  BY CountType DEF TypeOK
<1>2. ASSUME NEW pc \in {"find", "create", "retry"}, Goto(q, pc),
             <<req[q].pc, pc>> \in {<<"project", "find">>, <<"find", "create">>, <<"create", "retry">>}
      PROVE  Sinks(q)
  <2>1. [req[q] EXCEPT !.pc = pc].pc = pc /\ pc \in Pcs
    BY <1>1, GotoFacts DEF Pcs, InTransaction
  <2>2. Stage([req[q] EXCEPT !.pc = pc]) < Stage(req[q]) /\ req[q].pc # "idle"
    BY <1>1, <1>2, <2>1 DEF Stage
  <2>3. QED
    BY <1>2, <2>1, <2>2, GotoSinks
<1>3. ASSUME NEW wrote \in Writes, Projected(q, wrote) PROVE Sinks(q)
  BY <1>3, ProjectedSinks DEF Projecting, ProjectUpdate, ProjectFind, ProjectCreate, LoseCreate,
     ProjectRetry, Busy
<1>4. CASE ProjectUpdate(q)
  BY <1>2, <1>3, <1>4 DEF ProjectUpdate, Busy, Writes
<1>5. CASE ProjectFind(q)
  BY <1>2, <1>3, <1>5 DEF ProjectFind, Busy, Writes
<1>6. CASE ProjectCreate(q)
  BY <1>3, <1>6 DEF ProjectCreate, Writes
<1>7. CASE LoseCreate(q)
  <2>1. CASE Unexpected(q)
    BY <1>7, <2>1, QuarantiningSinks DEF LoseCreate, Busy, Unexpected, Reasons
  <2>2. QED
    BY <1>2, <1>7, <2>1 DEF LoseCreate, Busy
<1>8. CASE ProjectRetry(q)
  BY <1>3, <1>8 DEF ProjectRetry, Writes
<1>9. QED
  BY <1>4, <1>5, <1>6, <1>7, <1>8

LEMMA OtherGotosSink ==
  ASSUME TypeOK, AllPlaced, NEW q \in Requests,
         InsertReading(q) \/ DuplicateReading(q) \/ Commit(q)
  PROVE  Sinks(q)
<1>1. /\ RuleCount \in Nat /\ req[q] \in Handlers
      /\ Cardinality(req[q].due) \in Nat /\ Cardinality(req[q].due) <= RuleCount
  BY CountType, DueCount DEF TypeOK, Handlers
<1>2. PICK pc \in Pcs :
        /\ Goto(q, pc)
        /\ <<req[q].pc, pc>> \in {<<"insert", "project">>, <<"insert", "alarm">>,
                                 <<"insert", "classify">>, <<"alarm", "emit">>}
  BY DEF InsertReading, DuplicateReading, Commit, Busy, Pcs, InTransaction
<1>3. [req[q] EXCEPT !.pc = pc].pc = pc /\ [req[q] EXCEPT !.pc = pc].due = req[q].due
  BY <1>1, <1>2, GotoFacts
<1>4. Stage([req[q] EXCEPT !.pc = pc]) < Stage(req[q]) /\ req[q].pc # "idle"
  BY <1>1, <1>2, <1>3 DEF Stage
<1>5. QED
  BY <1>2, <1>4, GotoSinks

LEMMA GateSinks ==
  ASSUME TypeOK, AllPlaced, NEW q \in Requests, Gate(q)
  PROVE  Sinks(q)
<1>1. req[q] \in Handlers /\ req[q].pc = "gate" /\ RuleCount \in Nat
  BY CountType DEF TypeOK, Gate, Busy
<1> DEFINE reason == GateReason(Current(q), req[q].now)
<1>2. CASE reason = ""
  <2>1. Goto(q, "insert")
    BY <1>2 DEF Gate
  <2>2. [req[q] EXCEPT !.pc = "insert"].pc = "insert" /\ "insert" \in Pcs
    BY <1>1, GotoFacts DEF Pcs
  <2>3. Stage([req[q] EXCEPT !.pc = "insert"]) < Stage(req[q])
    BY <1>1, <2>2 DEF Stage
  <2>4. QED
    BY <1>1, <2>1, <2>2, <2>3, GotoSinks
<1>3. CASE reason # ""
  <2>1. reason \in Reasons
    BY <1>3, GateReasonType
  <2>2. req' = [req EXCEPT ![q] = Quarantining(req[q], reason, SourceReason(Current(q)) # "")]
    BY <1>3 DEF Gate
  <2>3. QED
    BY <1>1, <2>1, <2>2, QuarantiningSinks
<1>4. QED
  BY <1>2, <1>3

LEMMA WorkSinks ==
  ASSUME TypeOK, AllPlaced, NEW q \in Requests, Work(q)
  PROVE  Sinks(q)
<1>1. CASE Emit(q)
  BY <1>1, FinishedSinks DEF Emit, Busy, Outcomes
<1>2. CASE Classify(q)
  <2>1. CASE \E r \in Stored(Current(q)) : Identical(r, Current(q))
    BY <1>2, <2>1, FinishedSinks DEF Classify, Busy, Outcomes
  <2>2. CASE ~ \E r \in Stored(Current(q)) : Identical(r, Current(q))
    BY <1>2, <2>2, QuarantiningSinks DEF Classify, Busy, Reasons
  <2>3. QED
    BY <2>1, <2>2
<1>3. CASE Quarantine(q)
  BY <1>3, FinishedSinks DEF Quarantine, Busy, QuarantineOutcome, Outcomes
<1>4. CASE Reply(q)
  BY <1>4, IdleSinks DEF Reply, Busy
<1>5. QED
  BY <1>1, <1>2, <1>3, <1>4, GateSinks, ProjectionSinks, OtherGotosSink, EvaluateSinks DEF Work

LEMMA BreaksSink ==
  ASSUME TypeOK, AllPlaced, NEW q \in Requests, Breaks(q)
  PROVE  Sinks(q)
<1>1. CASE CommitUnacknowledged(q)
  BY <1>1, QuarantiningSinks DEF CommitUnacknowledged, Busy, Unexpected, Reasons
<1>2. CASE StatementFails(q)
  BY <1>2, QuarantiningSinks DEF StatementFails, Trying, Busy, InTransaction, Unexpected, Reasons
<1>3. CASE QuarantineFails(q)
  <2>1. req[q].pc = "quarantine"
    BY <1>3 DEF QuarantineFails, Busy
  <2>2. CASE req[q].lastResort
    <3>1. req' = [req EXCEPT ![q] = Idle]
      BY <1>3, <2>2, Zenon DEF QuarantineFails
    <3>2. QED
      BY <2>1, <3>1, IdleSinks
  <2>3. CASE ~req[q].lastResort
    <3>1. Unexpected(q)
      BY <1>3, <2>3, Zenon DEF QuarantineFails
    <3>2. QED
      BY <2>1, <2>3, <3>1, QuarantiningSinks DEF Unexpected, Reasons
  <2>4. QED
    BY <2>2, <2>3
<1>4. CASE LookupFails(q)
  BY <1>4, IdleSinks DEF LookupFails, Busy
<1>5. QED
  BY <1>1, <1>2, <1>3, <1>4 DEF Breaks

LEMMA ReceiveRank ==
  ASSUME TypeOK, NEW q \in Requests, NEW b \in Batches, NEW now \in Clock, Receive(q, b, now)
  PROVE  Rank(req'[q]) = (Len(b) + 1) * PerSample
<1> DEFINE h == [Idle EXCEPT !.pc = "gate", !.todo = b, !.now = now]
<1>1. req'[q] = h
  BY DEF Receive, TypeOK
<1>2. h.pc = "gate" /\ h.todo = b
  BY DEF Idle
<1> HIDE DEF h
<1>3. Rank(h) = Len(b) * PerSample + PerSample
  BY <1>2 DEF Rank, Stage, PerSample
<1>4. b \in Seq(Samples)
  BY BatchesAssumption
<1>5. Len(b) \in Nat /\ PerSample \in Nat
  BY <1>4, CountType
<1>6. (Len(b) + 1) * PerSample = Len(b) * PerSample + PerSample
  BY <1>5, Weights
<1>7. QED
  BY <1>1, <1>3, <1>6

\* Only a handler's own statements and crashes touch it while it is busy.
LEMMA StepWindsDown ==
  ASSUME TypeOK, AllPlaced, [Next]_vars
  PROVE  WindsDown
<1>1. ASSUME NEW q \in Requests, ~Busy(q, "idle")
      PROVE  req'[q] = req[q] \/ Rank(req'[q]) < Rank(req[q])
  <2>1. ASSUME NEW p \in Requests, Sinks(p)
        PROVE  req'[q] = req[q] \/ Rank(req'[q]) < Rank(req[q])
    BY <2>1 DEF Sinks
  <2>2. ASSUME NEW p \in Requests, NEW b \in Batches, NEW now \in Clock, Receive(p, b, now)
        PROVE  req'[q] = req[q]
    BY <1>1, <2>2 DEF Receive, Busy, TypeOK
  <2>3. CASE Crash
    <3>1. req'[q] = Idle
      BY <2>3 DEF Crash
    <3>2. Rank(req[q]) \in Nat /\ Rank(req[q]) # 0
      BY <1>1, RankType DEF TypeOK, Busy
    <3>3. QED
      BY <3>1, <3>2, IdleRank
  <2>4. CASE UNCHANGED vars
    BY <2>4 DEF vars
  <2>5. QED
    BY <2>1, <2>2, <2>3, <2>4, WorkSinks, BreaksSink DEF Next
<1>2. QED
  BY <1>1, WorkSinks, BreaksSink, ReceiveRank DEF WindsDown

----------------------------------------------------------------------------
\* Locks

\* Whoever has written a live row has only its alarm rules left to look at.
LEMMA LiveHolderReady ==
  ASSUME AllPlaced, NEW q \in Requests, NEW c, HoldsLive(q, c)
  PROVE  Ready(q)
BY DEF AllPlaced, Placed, HoldsLive, Ready, InTransaction

LEMMA RowWaiters ==
  ASSUME AllPlaced, NEW q \in Requests, req[q].pc \in {"project", "create", "retry"}, ~Ready(q)
  PROVE  \E p \in Requests : Awaits(q, p) /\ Ready(p)
<1>1. LiveLocked(q, Key(Current(q)))
  BY DEF Ready, Busy
<1>2. PICK p \in Requests \ {q} : HoldsLive(p, Key(Current(q)))
  BY <1>1 DEF LiveLocked
<1>3. Ready(p)
  BY <1>2, LiveHolderReady
<1>4. QED
  BY <1>2, <1>3 DEF Awaits

LEMMA PlacedWaits == TypeOK /\ AllPlaced => NobodyWaitsInVain
<1> SUFFICES ASSUME TypeOK, AllPlaced, NEW q \in Requests, ~Busy(q, "idle"), ~Ready(q)
             PROVE  \E p \in Requests :
                      /\ Awaits(q, p)
                      /\ Ready(p) \/ \E r \in Requests : Awaits(p, r) /\ Ready(r)
  BY DEF NobodyWaitsInVain
<1>1. req[q].pc \in {"insert", "project", "create", "retry"}
  BY DEF TypeOK, Handlers, Pcs, InTransaction, Ready, Busy
<1>2. CASE req[q].pc = "insert"
  <2>1. PICK p \in Requests \ {q} : HoldsIdentity(p, Current(q))
    BY <1>2 DEF Ready, Busy
  <2>2. Awaits(q, p)
    BY <1>2, <2>1 DEF Awaits, Busy
  <2>3. Ready(p) \/ req[p].pc \in {"project", "create", "retry"}
    BY <2>1 DEF HoldsIdentity, InTransaction, Ready
  <2>4. QED
    BY <2>2, <2>3, RowWaiters
<1>3. CASE req[q].pc # "insert"
  BY <1>1, <1>3, RowWaiters
<1>4. QED
  BY <1>2, <1>3

----------------------------------------------------------------------------
\* Events

LEMMA InitAnnounced == Init => Announced
BY DEF Init, Announced

\* An event that is due stays so, unless something fails.
LEMMA StaysDue ==
  ASSUME TypeOK, AllPlaced, [Next]_vars, faults' = 0, NEW e, Due(e)
  PROVE  Due(e)'
<1>1. ~Fault
  BY DEF Fault, TypeOK
<1>2. ~Crash /\ \A p \in Requests : ~Breaks(p)
  BY <1>1 DEF Crash, Breaks, CommitUnacknowledged, QuarantineFails, LookupFails, StatementFails
<1>3. \A p \in Requests : Emit(p) => emitted' = emitted \cup PendingEvents(p)
  BY <1>1 DEF Emit
<1>4. emitted \subseteq emitted'
  BY <1>2, <1>3
  DEF Next, Work, Receive, Gate, InsertReading, DuplicateReading, ProjectUpdate, ProjectFind,
      ProjectCreate, LoseCreate, ProjectRetry, EvaluateRule, Commit, Classify, Quarantine, Reply,
      vars
<1>5. CASE e \in emitted
  BY <1>4, <1>5 DEF Due
<1>6. ASSUME NEW q \in Requests, Busy(q, "emit"), e \in PendingEvents(q)
      PROVE  Due(e)'
  <2>1. CASE Emit(q)
    BY <1>3, <1>6, <2>1 DEF Due
  <2>2. CASE req'[q] = req[q]
    <3>1. Busy(q, "emit")' /\ PendingEvents(q)' = PendingEvents(q)
      BY <1>6, <2>2 DEF Busy, PendingEvents, Current
    <3>2. QED
      BY <1>6, <3>1 DEF Due
  <2>3. Work(q) => Emit(q)
    BY <1>6 DEF Work, Busy, Gate, InsertReading, DuplicateReading, ProjectUpdate, ProjectFind,
       ProjectCreate, LoseCreate, ProjectRetry, EvaluateRule, Commit, Classify, Quarantine, Reply
  <2>4. ASSUME NEW p \in Requests, p # q, Work(p) PROVE req'[q] = req[q]
    BY <2>4, WorkSinks DEF Sinks
  <2>5. ASSUME NEW p \in Requests, NEW b \in Batches, NEW now \in Clock, Receive(p, b, now)
        PROVE  req'[q] = req[q]
    BY <1>6, <2>5 DEF Receive, Busy, TypeOK
  <2>6. CASE UNCHANGED vars
    BY <2>2, <2>6 DEF vars
  <2>7. QED
    BY <1>2, <2>1, <2>2, <2>3, <2>4, <2>5, <2>6 DEF Next
<1>7. QED
  BY <1>5, <1>6 DEF Due

\* The events of a commit are due as soon as it takes effect.
LEMMA CommitIsDue ==
  ASSUME TypeOK, AllPlaced, NEW q \in Requests, Commit(q)
  PROVE  \A e \in PendingEvents(q) : Due(e)'
<1>1. req[q] \in Handlers
  BY DEF TypeOK
<1> DEFINE h == [req[q] EXCEPT !.pc = "emit"]
<1>2. /\ h \in Handlers /\ h.pc = "emit" /\ h.todo = req[q].todo
      /\ h.wrote = req[q].wrote /\ h.raised = req[q].raised
  BY <1>1, GotoFacts DEF Pcs
<1>3. req'[q] = h
  BY <1>2, GotoMoves, MoveFacts DEF Commit, Pcs
<1> HIDE DEF h
<1>4. PendingEvents(q)' = PendingEvents(q) /\ Busy(q, "emit")'
  BY <1>2, <1>3 DEF PendingEvents, Current, Busy
<1>5. QED
  BY <1>4 DEF Due

LEMMA NextAnnounced ==
  ASSUME TypeOK, AllPlaced, Announced, [Next]_vars
  PROVE  Announced'
<1> SUFFICES ASSUME faults' = 0
             PROVE  /\ \A s \in readings' : Due(Event("telemetry.reading.accepted", s, NoRule))'
                    /\ \A a \in alarms' : Due(Event("alarm.event.created", a.reading, a.rule))'
                    /\ \A c \in Channels : \A s \in live'[c] :
                         Due(Event("live_reading.updated", s, NoRule))'
  BY DEF Announced
<1>1. ~Fault /\ faults = 0
  <2>1. ~Fault
    BY DEF Fault, TypeOK
  <2>2. UNCHANGED faults
    BY <2>1
    DEF Next, Work, Breaks, Receive, Gate, InsertReading, DuplicateReading, ProjectUpdate,
        ProjectFind, ProjectCreate, LoseCreate, ProjectRetry, EvaluateRule, Commit, Emit, NoFault,
        Classify, Quarantine, Reply, CommitUnacknowledged, QuarantineFails,
        LookupFails, StatementFails, Crash,
        vars
  <2>3. QED
    BY <2>1, <2>2
<1>2. /\ \A s \in readings : Due(Event("telemetry.reading.accepted", s, NoRule))'
      /\ \A a \in alarms : Due(Event("alarm.event.created", a.reading, a.rule))'
      /\ \A c \in Channels : \A s \in live[c] : Due(Event("live_reading.updated", s, NoRule))'
  BY <1>1, StaysDue DEF Announced
<1>3. ASSUME NEW q \in Requests, Commit(q), NEW cur, cur = Current(q)
      PROVE  /\ \A s \in readings' : Due(Event("telemetry.reading.accepted", s, NoRule))'
             /\ \A a \in alarms' : Due(Event("alarm.event.created", a.reading, a.rule))'
             /\ \A c \in Channels : \A s \in live'[c] :
                  Due(Event("live_reading.updated", s, NoRule))'
  <2>1. /\ readings' = readings \cup {cur}
        /\ live' = IF req[q].wrote = "none" THEN live
                   ELSE [live EXCEPT ![Key(cur)] = {cur}]
        /\ alarms' = alarms \cup {[rule |-> r, reading |-> cur] : r \in req[q].raised}
    BY <1>3 DEF Commit, Applied
  <2>2. Due(Event("telemetry.reading.accepted", cur, NoRule))'
    BY <1>3, CommitIsDue DEF PendingEvents
  <2>3. \A r \in req[q].raised : Due(Event("alarm.event.created", cur, r))'
    BY <1>3, CommitIsDue DEF PendingEvents
  <2>4. req[q].wrote # "none" => Due(Event("live_reading.updated", cur, NoRule))'
    BY <1>3, CommitIsDue DEF PendingEvents
  <2>5. ASSUME NEW c \in Channels, NEW s \in live'[c]
        PROVE  Due(Event("live_reading.updated", s, NoRule))'
    <3>1. s \in live[c] \/ (s = cur /\ req[q].wrote # "none")
      BY <2>1 DEF TypeOK
    <3>2. QED
      BY <1>2, <2>4, <3>1
  <2>6. ASSUME NEW a \in alarms' PROVE Due(Event("alarm.event.created", a.reading, a.rule))'
    <3>1. a \in alarms \/ \E r \in req[q].raised : a = [rule |-> r, reading |-> cur]
      BY <2>1
    <3>2. QED
      BY <1>2, <2>3, <3>1
  <2>7. QED
    BY <1>2, <2>1, <2>2, <2>5, <2>6
<1>4. UNCHANGED <<readings, live, alarms>> \/ \E q \in Requests : Commit(q)
  BY <1>1 DEF Next, Work, Breaks, Receive, Gate, InsertReading, DuplicateReading, ProjectUpdate,
     ProjectFind, ProjectCreate, LoseCreate, ProjectRetry, EvaluateRule, Emit,
     Classify, Quarantine, Reply, CommitUnacknowledged, QuarantineFails,
     LookupFails, StatementFails, Crash,
     tables, vars
<1>5. QED
  BY <1>2, <1>3, <1>4

----------------------------------------------------------------------------
\* What the retry cannot save: a request gives up its sample of a channel for
\* the fault it has met, or for the first row of the channel, which another
\* request has written under it.

\* A sample the gates let through is about to be put down to the engine...
Blamed(h, c) ==
  h.pc = "quarantine" /\ h.reason = EngineFailure /\ Sample(h) \in Passing /\ Key(Sample(h)) = c

\* ...or will be, since the row it is to create is there already.
Beaten(h, c, row) == h.pc = "create" /\ Key(Sample(h)) = c /\ row # {}

Losing(c) == {q \in Requests : Blamed(req[q], c) \/ Beaten(req[q], c, live[c])}

\* Each fault may cost a sample, and the first row of the channel one of every
\* request but the one that wrote it.
Allowed(c) == faults + (IF live[c] = {} THEN 0 ELSE Cardinality(Requests) - 1)

Affordable(c) ==
  /\ IsFiniteSet(Unprojected(c))
  /\ Cardinality(Unprojected(c)) + Cardinality(Losing(c)) <= Allowed(c)

AllAffordable == \A c \in Channels : Affordable(c)

\* More handlers are losing, and so much more is allowed.
LEMMA MoreLosing ==
  ASSUME NEW U, IsFiniteSet(U), NEW D \in SUBSET Requests, NEW E \in SUBSET Requests,
         NEW X \in SUBSET Requests, NEW m \in Int, NEW n \in Int,
         Cardinality(U) + Cardinality(D) <= m, E \subseteq D \cup X, m + Cardinality(X) <= n
  PROVE  Cardinality(U) + Cardinality(E) <= n
<1>1. IsFiniteSet(D) /\ IsFiniteSet(E) /\ IsFiniteSet(X)
  BY RequestsAssumption, FS_Subset
<1>2. /\ IsFiniteSet(D \cup X)
      /\ Cardinality(D \cup X) = Cardinality(D) + Cardinality(X) - Cardinality(D \cap X)
  BY <1>1, FS_Union
<1>3. IsFiniteSet(D \cap X)
  BY <1>1, FS_Intersection
<1>4. Cardinality(E) <= Cardinality(D \cup X)
  BY <1>2, FS_Subset
<1>5. /\ Cardinality(U) \in Nat /\ Cardinality(D) \in Nat /\ Cardinality(E) \in Nat
      /\ Cardinality(X) \in Nat /\ Cardinality(D \cap X) \in Nat
  BY <1>1, <1>3, FS_CardinalityType
<1>6. QED
  BY <1>2, <1>4, <1>5

\* A loss is put on record: one handler less is losing.
LEMMA LossRecorded ==
  ASSUME NEW U, IsFiniteSet(U), NEW x, NEW D \in SUBSET Requests, NEW E \in SUBSET Requests,
         NEW q \in D, NEW m \in Int,
         Cardinality(U) + Cardinality(D) <= m, E \subseteq D \ {q}
  PROVE  IsFiniteSet(U \cup {x}) /\ Cardinality(U \cup {x}) + Cardinality(E) <= m
<1>1. IsFiniteSet(D)
  BY RequestsAssumption, FS_Subset
<1>2. IsFiniteSet(D \ {q}) /\ Cardinality(D \ {q}) = Cardinality(D) - 1
  BY <1>1, FS_RemoveElement
<1>3. IsFiniteSet(E) /\ Cardinality(E) <= Cardinality(D \ {q})
  BY <1>2, FS_Subset
<1>4. /\ IsFiniteSet(U \cup {x})
      /\ Cardinality(U \cup {x}) = Cardinality(U) \/ Cardinality(U \cup {x}) = Cardinality(U) + 1
  BY FS_AddElement
<1>5. Cardinality(U) \in Nat /\ Cardinality(D) \in Nat /\ Cardinality(E) \in Nat
  BY <1>1, <1>3, FS_CardinalityType
<1>6. QED
  BY <1>2, <1>3, <1>4, <1>5

LEMMA AllowedType ==
  ASSUME TypeOK, NEW c
  PROVE  /\ Allowed(c) \in Int /\ faults \in Nat /\ Cardinality(Requests) \in Nat
         /\ Losing(c) \in SUBSET Requests
<1>1. faults \in Nat
  BY BoundsAssumption DEF TypeOK
<1>2. Cardinality(Requests) \in Nat
  BY RequestsAssumption, FS_CardinalityType
<1>3. QED
  BY <1>1, <1>2 DEF Allowed, Losing

\* One handler moves and the tables stay.
LEMMA MoveAffordable ==
  ASSUME TypeOK, TypeOK', NEW q \in Requests, NEW h \in Handlers, req' = [req EXCEPT ![q] = h],
         UNCHANGED <<live, quarantine>>, NEW c \in Channels, Affordable(c),
         \/ faults' = faults + 1
         \/ /\ faults' = faults
            /\ Blamed(h, c) \/ Beaten(h, c, live[c]) =>
                 Blamed(req[q], c) \/ Beaten(req[q], c, live[c])
  PROVE  Affordable(c)'
<1>1. /\ Allowed(c) \in Int /\ faults \in Nat /\ Cardinality(Requests) \in Nat
      /\ Losing(c) \in SUBSET Requests /\ Losing(c)' \in SUBSET Requests
  BY AllowedType DEF Losing
<1>2. Unprojected(c)' = Unprojected(c)
  BY DEF Unprojected
<1>3. req'[q] = h /\ \A p \in Requests \ {q} : req'[p] = req[p]
  BY MoveFacts
<1>4. CASE faults' = faults + 1
  <2>1. Allowed(c)' = Allowed(c) + 1
    BY <1>1, <1>4 DEF Allowed
  <2>2. Losing(c)' \subseteq Losing(c) \cup {q}
    BY <1>3 DEF Losing
  <2>3. Cardinality({q}) = 1
    BY FS_Singleton
  <2>4. /\ IsFiniteSet(Unprojected(c))
        /\ Cardinality(Unprojected(c)) + Cardinality(Losing(c)) <= Allowed(c)
    BY DEF Affordable
  <2>5. Cardinality(Unprojected(c)) + Cardinality(Losing(c)') <= Allowed(c)'
    BY <1>1, <2>1, <2>2, <2>3, <2>4, MoreLosing
  <2>6. QED
    BY <1>2, <2>4, <2>5 DEF Affordable
<1>5. CASE faults' = faults /\ (Blamed(h, c) \/ Beaten(h, c, live[c]) =>
                                  Blamed(req[q], c) \/ Beaten(req[q], c, live[c]))
  <2>1. Allowed(c)' = Allowed(c)
    BY <1>5 DEF Allowed
  <2>2. Losing(c)' \subseteq Losing(c) \cup {}
    BY <1>3, <1>5 DEF Losing
  <2>3. Cardinality({}) = 0
    BY FS_EmptySet
  <2>4. /\ IsFiniteSet(Unprojected(c))
        /\ Cardinality(Unprojected(c)) + Cardinality(Losing(c)) <= Allowed(c)
    BY DEF Affordable
  <2>5. Cardinality(Unprojected(c)) + Cardinality(Losing(c)') <= Allowed(c)'
    BY <1>1, <2>1, <2>2, <2>3, <2>4, MoreLosing
  <2>6. QED
    BY <1>2, <2>4, <2>5 DEF Affordable
<1>6. QED
  BY <1>4, <1>5

\* Most steps leave the handler where it loses nothing.
LEMMA SafeMove ==
  ASSUME TypeOK, TypeOK', NEW q \in Requests, NEW h \in Handlers, req' = [req EXCEPT ![q] = h],
         UNCHANGED <<live, quarantine>>, NEW c \in Channels, Affordable(c),
         faults' \in {faults, faults + 1}, h.pc \notin {"create", "quarantine"}
  PROVE  Affordable(c)'
BY MoveAffordable DEF Blamed, Beaten

LEMMA GotoAffordable ==
  ASSUME TypeOK, TypeOK', NEW q \in Requests, NEW pc \in Pcs, Goto(q, pc),
         UNCHANGED <<live, quarantine, faults>>, NEW c \in Channels, Affordable(c),
         pc \notin {"create", "quarantine"}
  PROVE  Affordable(c)'
<1> DEFINE h == [req[q] EXCEPT !.pc = pc]
<1>1. req[q] \in Handlers
  BY DEF TypeOK
<1>2. h \in Handlers /\ h.pc = pc /\ req' = [req EXCEPT ![q] = h]
  BY <1>1, GotoFacts, GotoMoves
<1> HIDE DEF h
<1>3. QED
  BY <1>2, SafeMove

LEMMA ProjectedAffordable ==
  ASSUME TypeOK, TypeOK', NEW q \in Requests, NEW wrote \in Writes, Projected(q, wrote),
         UNCHANGED <<live, quarantine, faults>>, NEW c \in Channels, Affordable(c)
  PROVE  Affordable(c)'
<1>1. req[q] \in Handlers
  BY DEF TypeOK
<1>2. QED
  BY <1>1, ProjectedMoves, EnteredFacts, SafeMove DEF Writes

\* A sample is about to be quarantined: for no failure of the engine, after one,
\* or because its row was there already.
LEMMA QuarantiningAffordable ==
  ASSUME TypeOK, TypeOK', NEW q \in Requests, NEW reason \in Reasons, NEW lastResort \in BOOLEAN,
         req' = [req EXCEPT ![q] = Quarantining(req[q], reason, lastResort)],
         UNCHANGED <<live, quarantine>>, NEW c \in Channels, Affordable(c),
         \/ faults' = faults + 1
         \/ /\ faults' = faults
            /\ reason = EngineFailure /\ Current(q) \in Passing /\ Key(Current(q)) = c =>
                 Beaten(req[q], c, live[c])
  PROVE  Affordable(c)'
<1> DEFINE h == Quarantining(req[q], reason, lastResort)
<1>1. req[q] \in Handlers
  BY DEF TypeOK
<1>2. h \in Handlers /\ h.pc = "quarantine" /\ h.reason = reason /\ h.todo = req[q].todo
  BY <1>1, QuarantiningFacts
<1>3. req' = [req EXCEPT ![q] = h]
  OBVIOUS
<1> HIDE DEF h
<1>4. Sample(h) = Current(q)
  BY <1>2 DEF Sample, Current
<1>5. QED
  BY <1>2, <1>3, <1>4, MoveAffordable DEF Blamed, Beaten

LEMMA FinishedAffordable ==
  ASSUME TypeOK, AllPlaced, TypeOK', NEW q \in Requests, req[q].pc \notin {"idle", "reply"},
         NEW outcome \in Outcomes, req' = [req EXCEPT ![q] = Finished(req[q], outcome)],
         UNCHANGED <<live, quarantine>>, faults' \in {faults, faults + 1},
         NEW c \in Channels, Affordable(c)
  PROVE  Affordable(c)'
<1>1. req[q] \in Handlers /\ req[q].todo # <<>>
  BY CurrentType
<1>2. QED
  BY <1>1, FinishedFacts, SafeMove

LEMMA IdleAffordable ==
  ASSUME TypeOK, TypeOK', NEW q \in Requests, req' = [req EXCEPT ![q] = Idle],
         UNCHANGED <<live, quarantine>>, faults' \in {faults, faults + 1},
         NEW c \in Channels, Affordable(c)
  PROVE  Affordable(c)'
<1>1. Idle.pc = "idle"
  BY DEF Idle
<1>2. QED
  BY <1>1, IdleType, SafeMove

\* The commit of a transaction, its acknowledgement lost or not: when it writes
\* the first row of the channel, every other request may be about to lose.
LEMMA CommitAffordable ==
  ASSUME TypeOK, AllPlaced, TypeOK', NEW q \in Requests, Commit(q) \/ CommitUnacknowledged(q),
         NEW c \in Channels, Affordable(c)
  PROVE  Affordable(c)'
<1>1. PICK h \in Handlers :
        /\ req' = [req EXCEPT ![q] = h]
        /\ \/ h.pc = "emit" /\ faults' = faults
           \/ h.pc = "quarantine" /\ faults' = faults + 1
  <2>1. req[q] \in Handlers
    BY DEF TypeOK
  <2>2. CASE Commit(q)
    <3> DEFINE g == [req[q] EXCEPT !.pc = "emit"]
    <3>1. req' = [req EXCEPT ![q] = g] /\ faults' = faults
      BY <2>2, GotoMoves DEF Commit, Pcs
    <3>2. g \in Handlers /\ g.pc = "emit"
      BY <2>1, GotoFacts DEF Pcs
    <3> HIDE DEF g
    <3>3. QED
      BY <3>1, <3>2
  <2>3. CASE CommitUnacknowledged(q)
    <3> DEFINE g == Quarantining(req[q], "mapping_engine_failure", TRUE)
    <3>1. req' = [req EXCEPT ![q] = g] /\ faults' = faults + 1
      BY <2>3 DEF CommitUnacknowledged, Unexpected, Fault
    <3>2. g \in Handlers /\ g.pc = "quarantine"
      BY <2>1 DEF Quarantining, Handlers, Pcs, Reasons
    <3> HIDE DEF g
    <3>3. QED
      BY <3>1, <3>2
  <2>4. QED
    BY <2>2, <2>3
<1>2. Applied(q) /\ UNCHANGED quarantine
  BY DEF Commit, CommitUnacknowledged, Applied
<1>3. req'[q] = h /\ \A p \in Requests \ {q} : req'[p] = req[p]
  BY <1>1, MoveFacts
<1>4. Unprojected(c)' = Unprojected(c)
  BY <1>2 DEF Unprojected
<1>5. /\ Allowed(c) \in Int /\ faults \in Nat /\ Cardinality(Requests) \in Nat
      /\ Losing(c) \in SUBSET Requests /\ Losing(c)' \in SUBSET Requests
  BY AllowedType DEF Losing
<1>6. live[c] # {} => live'[c] # {}
  BY <1>2 DEF Applied, TypeOK
<1>7. /\ IsFiniteSet(Unprojected(c))
      /\ Cardinality(Unprojected(c)) + Cardinality(Losing(c)) <= Allowed(c)
  BY DEF Affordable
<1>8. faults' \in Int
  BY <1>1, <1>5
<1>9. ASSUME NEW X \in SUBSET Requests, Losing(c)' \subseteq Losing(c) \cup X,
             Allowed(c) + Cardinality(X) <= Allowed(c)'
      PROVE  Affordable(c)'
  <2>1. Allowed(c)' \in Int
    BY <1>5, <1>8 DEF Allowed
  <2>2. Cardinality(Unprojected(c)) + Cardinality(Losing(c)') <= Allowed(c)'
    BY <1>5, <1>7, <1>9, <2>1, MoreLosing
  <2>3. QED
    BY <1>4, <1>7, <2>2 DEF Affordable
<1>10. CASE live[c] = {} /\ live'[c] # {}
  <2>1. CASE faults' = faults
    <3>1. Losing(c)' \subseteq Losing(c) \cup (Requests \ {q})
      BY <1>1, <1>3, <1>5, <2>1 DEF Losing, Blamed, Beaten
    <3>2. Cardinality(Requests \ {q}) = Cardinality(Requests) - 1
      BY RequestsAssumption, FS_RemoveElement
    <3>3. Allowed(c) + Cardinality(Requests \ {q}) <= Allowed(c)'
      BY <1>5, <1>10, <2>1, <3>2 DEF Allowed
    <3>4. QED
      BY <1>9, <3>1, <3>3
  <2>2. CASE faults' = faults + 1
    <3>1. Losing(c)' \subseteq Losing(c) \cup Requests
      BY <1>5
    <3>2. Allowed(c) + Cardinality(Requests) <= Allowed(c)'
      BY <1>5, <1>10, <2>2 DEF Allowed
    <3>3. QED
      BY <1>9, <3>1, <3>2
  <2>3. QED
    BY <1>1, <2>1, <2>2
<1>11. CASE live[c] # {} \/ live'[c] = {}
  <2>1. live[c] = {} <=> live'[c] = {}
    BY <1>6, <1>11
  <2>2. CASE faults' = faults
    <3>1. Losing(c)' \subseteq Losing(c) \cup {}
      BY <1>1, <1>3, <1>5, <2>1, <2>2 DEF Losing, Blamed, Beaten
    <3>2. Allowed(c) + Cardinality({}) <= Allowed(c)'
      BY <1>5, <2>1, <2>2, FS_EmptySet DEF Allowed
    <3>3. QED
      BY <1>9, <3>1, <3>2
  <2>3. CASE faults' = faults + 1
    <3>1. Losing(c)' \subseteq Losing(c) \cup {q}
      BY <1>3, <2>1 DEF Losing, Blamed, Beaten
    <3>2. Cardinality({q}) = 1
      BY FS_Singleton
    <3>3. Allowed(c) + Cardinality({q}) <= Allowed(c)'
      BY <1>5, <2>1, <2>3, <3>2 DEF Allowed
    <3>4. QED
      BY <1>9, <3>1, <3>3
  <2>4. QED
    BY <1>1, <2>2, <2>3
<1>12. QED
  BY <1>10, <1>11

\* The only step that adds to what is lost: its handler was losing.
LEMMA QuarantineAffordable ==
  ASSUME TypeOK, AllPlaced, TypeOK', NEW q \in Requests, Quarantine(q),
         NEW c \in Channels, Affordable(c)
  PROVE  Affordable(c)'
<1> DEFINE s == Current(q)
           h == Finished(req[q], QuarantineOutcome(req[q].reason))
<1>1. req[q].pc = "quarantine"
  BY DEF Quarantine, Busy
<1>2. req[q] \in Handlers /\ req[q].todo # <<>> /\ QuarantineOutcome(req[q].reason) \in Outcomes
  BY <1>1, CurrentType DEF QuarantineOutcome, Outcomes
<1>3. h \in Handlers /\ h.pc \in {"reply", "gate"}
  BY <1>2, FinishedFacts
<1>4. req' = [req EXCEPT ![q] = h]
  BY DEF Quarantine
<1> HIDE DEF h
<1>5. req'[q] = h /\ \A p \in Requests \ {q} : req'[p] = req[p]
  BY <1>3, <1>4, MoveFacts
<1>6. UNCHANGED <<live, faults>>
      /\ quarantine' = quarantine \cup {[sample |-> s, reason |-> req[q].reason]}
  BY DEF Quarantine
<1>7. Losing(c)' \subseteq Losing(c) \ {q}
  BY <1>3, <1>5, <1>6 DEF Losing, Blamed, Beaten
<1>8. Allowed(c)' = Allowed(c)
  BY <1>6 DEF Allowed
<1>9. /\ Allowed(c) \in Int
      /\ Losing(c) \in SUBSET Requests /\ Losing(c)' \in SUBSET Requests
  BY AllowedType DEF Losing
<1>10. /\ IsFiniteSet(Unprojected(c))
       /\ Cardinality(Unprojected(c)) + Cardinality(Losing(c)) <= Allowed(c)
  BY DEF Affordable
<1>11. CASE Blamed(req[q], c)
  <2>1. q \in Losing(c)
    BY <1>11 DEF Losing
  <2>2. req[q].reason = "mapping_engine_failure" /\ s \in Passing /\ Key(s) = c
    BY <1>11 DEF Blamed, EngineFailure, Sample, Current
  <2>3. Unprojected(c)' = Unprojected(c) \cup {s}
    BY <1>6, <2>2 DEF Unprojected
  <2>4. /\ IsFiniteSet(Unprojected(c) \cup {s})
        /\ Cardinality(Unprojected(c) \cup {s}) + Cardinality(Losing(c)') <= Allowed(c)
    BY <1>7, <1>9, <1>10, <2>1, LossRecorded
  <2>5. QED
    BY <1>8, <2>3, <2>4 DEF Affordable
<1>12. CASE ~Blamed(req[q], c)
  <2>1. ~(req[q].reason = "mapping_engine_failure" /\ s \in Passing /\ Key(s) = c)
    BY <1>1, <1>12 DEF Blamed, EngineFailure, Sample, Current
  <2>2. Unprojected(c)' = Unprojected(c)
    BY <1>6, <2>1 DEF Unprojected
  <2>3. Losing(c)' \subseteq Losing(c) \cup {} /\ Cardinality({}) = 0
    BY <1>7, FS_EmptySet
  <2>4. Cardinality(Unprojected(c)) + Cardinality(Losing(c)') <= Allowed(c)
    BY <1>9, <1>10, <2>3, MoreLosing
  <2>5. QED
    BY <1>8, <1>10, <2>2, <2>4 DEF Affordable
<1>13. QED
  BY <1>11, <1>12

LEMMA WorkAffordable ==
  ASSUME TypeOK, AllPlaced, TypeOK', NEW q \in Requests, Work(q), NEW c \in Channels, Affordable(c)
  PROVE  Affordable(c)'
<1> USE DEF Busy
<1>1. CASE Gate(q)
  <2> DEFINE s == Current(q)
             reason == GateReason(s, req[q].now)
  <2>1. UNCHANGED <<live, quarantine, faults>>
    BY <1>1 DEF Gate, tables
  <2>2. CASE reason = ""
    <3>1. Goto(q, "insert") /\ "insert" \in Pcs
      BY <1>1, <2>2 DEF Gate, Pcs
    <3>2. QED
      BY <2>1, <3>1, GotoAffordable
  <2>3. CASE reason # ""
    <3>1. req' = [req EXCEPT ![q] = Quarantining(req[q], reason, SourceReason(s) # "")]
      BY <1>1, <2>3 DEF Gate
    <3>2. reason \in Reasons
      BY <2>3, GateReasonType
    <3>3. reason = EngineFailure => s \notin Passing
      BY EngineFailureLasts DEF Passing
    <3> HIDE DEF reason
    <3>4. QED
      BY <2>1, <3>1, <3>2, <3>3, QuarantiningAffordable
  <2>4. QED
    BY <2>2, <2>3
<1>2. CASE InsertReading(q)
  BY <1>2, GotoAffordable DEF InsertReading, tables, Pcs, InTransaction
<1>3. CASE DuplicateReading(q)
  BY <1>3, GotoAffordable DEF DuplicateReading, tables, Pcs
<1>4. CASE ProjectUpdate(q)
  <2>1. UNCHANGED <<live, quarantine, faults>>
    BY <1>4 DEF ProjectUpdate, tables
  <2>2. CASE Older(Key(Current(q)), Current(q))
    BY <1>4, <2>1, <2>2, ProjectedAffordable DEF ProjectUpdate, Writes
  <2>3. CASE ~Older(Key(Current(q)), Current(q))
    BY <1>4, <2>1, <2>3, GotoAffordable DEF ProjectUpdate, Pcs, InTransaction
  <2>4. QED
    BY <2>2, <2>3
<1>5. CASE ProjectFind(q)
  <2>1. UNCHANGED <<live, quarantine, faults>>
    BY <1>5 DEF ProjectFind, tables
  <2>2. CASE live[Key(Current(q))] = {}
    <3> DEFINE h == [req[q] EXCEPT !.pc = "create"]
    <3>1. req[q] \in Handlers
      BY DEF TypeOK
    <3>2. req' = [req EXCEPT ![q] = h]
      BY <1>5, <2>2, GotoMoves DEF ProjectFind, Pcs, InTransaction
    <3>3. h \in Handlers /\ h.pc = "create" /\ Sample(h) = Current(q)
      BY <3>1, GotoFacts DEF Pcs, InTransaction, Sample, Current
    <3> HIDE DEF h
    <3>4. ~Blamed(h, c) /\ ~Beaten(h, c, live[c])
      BY <2>2, <3>3 DEF Blamed, Beaten
    <3>5. QED
      BY <2>1, <3>2, <3>3, <3>4, MoveAffordable
  <2>3. CASE live[Key(Current(q))] # {}
    BY <1>5, <2>1, <2>3, ProjectedAffordable DEF ProjectFind, Writes
  <2>4. QED
    BY <2>2, <2>3
<1>6. CASE ProjectCreate(q)
  BY <1>6, ProjectedAffordable DEF ProjectCreate, tables, Writes
<1>7. CASE LoseCreate(q)
  <2>1. UNCHANGED <<live, quarantine, faults>>
    BY <1>7 DEF LoseCreate, tables
  <2>2. CASE Unexpected(q)
    <3>1. Key(Current(q)) = c => Beaten(req[q], c, live[c])
      BY <1>7 DEF LoseCreate, Beaten, Sample, Current
    <3>2. QED
      BY <2>1, <2>2, <3>1, QuarantiningAffordable DEF Unexpected, Reasons
  <2>3. CASE Goto(q, "retry")
    BY <2>1, <2>3, GotoAffordable DEF Pcs, InTransaction
  <2>4. QED
    BY <1>7, <2>2, <2>3 DEF LoseCreate
<1>8. CASE ProjectRetry(q)
  BY <1>8, ProjectedAffordable DEF ProjectRetry, tables, Writes
<1>9. ASSUME NEW r \in Rules, EvaluateRule(q, r) PROVE Affordable(c)'
  <2> DEFINE raised == IF \E a \in alarms : a.rule = r THEN req[q].raised
                        ELSE req[q].raised \cup {r}
             h == [req[q] EXCEPT !.due = req[q].due \ {r}, !.raised = raised]
  <2>1. req[q] \in Handlers /\ req[q].pc = "alarm" /\ UNCHANGED <<live, quarantine, faults>>
    BY <1>9 DEF EvaluateRule, TypeOK, tables
  <2>2. req' = [req EXCEPT ![q] = h]
    BY <1>9, <2>1 DEF EvaluateRule, Handlers, TypeOK
  <2>3. h \in Handlers /\ h.pc = "alarm"
    BY <2>1 DEF Handlers
  <2> HIDE DEF h
  <2>4. QED
    BY <2>1, <2>2, <2>3, SafeMove
<1>10. CASE Emit(q)
  <2>1. UNCHANGED <<live, quarantine>> /\ faults' \in {faults, faults + 1}
    BY <1>10 DEF Emit, tables, Fault, NoFault
  <2>2. QED
    BY <1>10, <2>1, FinishedAffordable DEF Emit, Outcomes
<1>11. CASE Classify(q)
  <2>1. UNCHANGED <<live, quarantine, faults>>
    BY <1>11 DEF Classify, tables
  <2>2. CASE \E r \in Stored(Current(q)) : Identical(r, Current(q))
    BY <1>11, <2>1, <2>2, FinishedAffordable DEF Classify, Outcomes
  <2>3. CASE ~ \E r \in Stored(Current(q)) : Identical(r, Current(q))
    <3>1. req' = [req EXCEPT ![q] = Quarantining(req[q], "conflict_dedup", FALSE)]
      BY <1>11, <2>3 DEF Classify
    <3>2. QED
      BY <2>1, <3>1, QuarantiningAffordable DEF Reasons, EngineFailure
  <2>4. QED
    BY <2>2, <2>3
<1>12. CASE Reply(q)
  <2>1. UNCHANGED <<live, quarantine>> /\ faults' \in {faults, faults + 1}
    BY <1>12 DEF Reply, tables, Fault, NoFault
  <2>2. QED
    BY <1>12, <2>1, IdleAffordable DEF Reply
<1>13. QED
  BY <1>1, <1>2, <1>3, <1>4, <1>5, <1>6, <1>7, <1>8, <1>9, <1>10, <1>11, <1>12,
     CommitAffordable, QuarantineAffordable
  DEF Work

LEMMA BreaksAffordable ==
  ASSUME TypeOK, AllPlaced, TypeOK', NEW q \in Requests, Breaks(q), NEW c \in Channels,
         Affordable(c)
  PROVE  Affordable(c)'
<1>1. ASSUME Unexpected(q), Fault, UNCHANGED <<live, quarantine>> PROVE Affordable(c)'
  BY <1>1, QuarantiningAffordable DEF Unexpected, Fault, Reasons
<1>2. ASSUME req' = [req EXCEPT ![q] = Idle], Fault, UNCHANGED <<live, quarantine>>
      PROVE  Affordable(c)'
  BY <1>2, IdleAffordable DEF Fault
<1>3. CASE QuarantineFails(q)
  <2>1. Fault /\ UNCHANGED <<live, quarantine>>
    BY <1>3 DEF QuarantineFails, tables
  <2>2. req' = [req EXCEPT ![q] = Idle] \/ Unexpected(q)
    BY <1>3, Zenon DEF QuarantineFails
  <2>3. QED
    BY <1>1, <1>2, <2>1, <2>2
<1>4. CASE LookupFails(q)
  BY <1>2, <1>4 DEF LookupFails, tables
<1>5. CASE StatementFails(q)
  BY <1>1, <1>5 DEF StatementFails, tables
<1>6. QED
  BY <1>3, <1>4, <1>5, CommitAffordable DEF Breaks

LEMMA InitAffordable == Init => AllAffordable
<1> SUFFICES ASSUME Init, NEW c \in Channels PROVE Affordable(c)
  BY DEF AllAffordable
<1>1. Unprojected(c) = {}
  BY DEF Init, Unprojected
<1>2. Losing(c) = {}
  BY DEF Init, Losing, Blamed, Beaten, Idle
<1>3. Allowed(c) = 0
  BY DEF Init, Allowed
<1>4. QED
  BY <1>1, <1>2, <1>3, FS_EmptySet DEF Affordable

LEMMA NextAffordable ==
  ASSUME TypeOK, AllPlaced, TypeOK', AllAffordable, [Next]_vars
  PROVE  AllAffordable'
<1> SUFFICES ASSUME NEW c \in Channels PROVE Affordable(c)'
  BY DEF AllAffordable
<1>1. Affordable(c)
  BY DEF AllAffordable
<1>2. ASSUME NEW q \in Requests, NEW b \in Batches, NEW now \in Clock, Receive(q, b, now)
      PROVE  Affordable(c)'
  <2>1. req'[q].pc = "gate" /\ req'[q] \in Handlers /\ req' = [req EXCEPT ![q] = req'[q]]
    BY <1>2 DEF Receive, TypeOK, Idle
  <2>2. UNCHANGED <<live, quarantine, faults>>
    BY <1>2 DEF Receive, tables
  <2>3. QED
    BY <1>1, <2>1, <2>2, SafeMove
<1>3. CASE Crash
  <2>1. Losing(c)' = {}
    BY <1>3 DEF Crash, Losing, Blamed, Beaten, Idle
  <2>2. Unprojected(c)' = Unprojected(c) /\ Allowed(c)' = Allowed(c) + 1
    BY <1>3, AllowedType DEF Crash, Fault, tables, Unprojected, Allowed
  <2>3. IsFiniteSet(Losing(c))
    BY AllowedType, RequestsAssumption, FS_Subset
  <2>4. Cardinality(Losing(c)) \in Nat /\ Cardinality({}) = 0 /\ Allowed(c) \in Int
        /\ Cardinality(Unprojected(c)) \in Nat
    BY <1>1, <2>3, AllowedType, FS_CardinalityType, FS_EmptySet DEF Affordable
  <2>5. QED
    BY <1>1, <2>1, <2>2, <2>4 DEF Affordable
<1>4. CASE UNCHANGED vars
  BY <1>1, <1>4 DEF vars, tables, Affordable, Unprojected, Losing, Allowed
<1>5. QED
  BY <1>1, <1>2, <1>3, <1>4, WorkAffordable, BreaksAffordable DEF Next

LEMMA AffordableCostsFew == TypeOK /\ AllAffordable => CreateRaceCostsFew
<1> SUFFICES ASSUME TypeOK, AllAffordable, NEW c \in Channels
             PROVE  Cardinality(Unprojected(c)) <= Cardinality(Requests) - 1 + faults
  BY DEF CreateRaceCostsFew
<1>1. Affordable(c)
  BY DEF AllAffordable
<1>2. Cardinality(Requests) \in Nat /\ Cardinality(Requests) # 0 /\ faults \in Nat
  BY RequestsAssumption, FS_CardinalityType, FS_EmptySet, AllowedType
<1>3. IsFiniteSet(Losing(c))
  BY AllowedType, RequestsAssumption, FS_Subset
<1>4. Cardinality(Losing(c)) \in Nat /\ Cardinality(Unprojected(c)) \in Nat
  BY <1>1, <1>3, FS_CardinalityType DEF Affordable
<1>5. QED
  BY <1>1, <1>2, <1>4 DEF Affordable, Allowed

----------------------------------------------------------------------------
\* A rank is a number of statements still to come, and only an idle handler has
\* none left.
THEOREM IngestRanked == Spec => []Ranked
BY IngestTypeOK, RanksTyped, PTL

\* Every statement of a request, failing ones included, brings it nearer its end,
\* and nothing others do sets it back: no request takes more statements than the
\* length of its batch allows.
THEOREM IngestWindsDown == Spec => [][WindsDown]_vars
<1>1. TypeOK /\ AllPlaced /\ [Next]_vars => [WindsDown]_vars
  BY StepWindsDown
<1>2. IInv => TypeOK /\ AllPlaced
  BY DEF IInv
<1>3. QED
  BY <1>1, <1>2, IngestInvariant, PTL DEF Spec

\* Whatever transactions are open, nobody waits for a lock in a circle: the end
\* of every waiting is a handler that is free to run.
THEOREM IngestNobodyWaitsInVain == Spec => []NobodyWaitsInVain
<1>1. IInv => NobodyWaitsInVain
  BY PlacedWaits DEF IInv
<1>2. QED
  BY <1>1, IngestInvariant, PTL

\* Nothing committed goes unannounced until something fails: an event is on its
\* way from the moment its transaction takes effect.
THEOREM IngestAnnounced == Spec => []Announced
<1>1. IInv /\ Announced /\ [Next]_vars => Announced'
  BY NextAnnounced DEF IInv
<1>2. QED
  BY <1>1, InitAnnounced, IngestInvariant, PTL DEF Spec

\* The retry after a lost create costs a channel no more samples than there are
\* requests beside the one that wrote its first row, and one for each fault.
THEOREM IngestCreateRaceCostsFew == Spec => []CreateRaceCostsFew
<1>1. IInv /\ AllAffordable /\ [Next]_vars => AllAffordable'
  <2>1. IInv /\ [Next]_vars => TypeOK'
    BY NextTyped DEF IInv
  <2>2. QED
    BY <2>1, NextAffordable DEF IInv
<1>2. IInv /\ AllAffordable => CreateRaceCostsFew
  BY AffordableCostsFew DEF IInv
<1>3. QED
  BY <1>1, <1>2, InitAffordable, IngestInvariant, PTL DEF Spec
=============================================================================
