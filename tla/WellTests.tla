----------------------------- MODULE WellTests -----------------------------
(***************************************************************************)
(* WellTestsService: the write side of the well_tests table.  A request is *)
(* several awaited database calls: it loads the row, checks the status it  *)
(* read, for `connect' looks for another active test of the unit, and then *)
(* updates the row by its id alone.  Requests interleave between the calls *)
(* (the service holds no transaction and no lock), and the CHECK           *)
(* constraints of the table are the only thing evaluated on the row as it  *)
(* is at the moment of the update.                                         *)
(***************************************************************************)
EXTENDS Naturals

CONSTANTS
  Tests,      \* ids that rows may be created under
  Jobs,       \* the deployment ledger, read-only here
  Units,      \* measurement units, each of one tenant
  JobUnit,    \* JobUnit[j]: jobs.unit_id
  Operators,  \* requests that may be in flight at once
  MaxTime     \* server clock readings are 1..MaxTime

ASSUME ConstantsAssumption ==
  /\ JobUnit \in [Jobs -> Units]
  /\ MaxTime \in Nat

VARIABLES
  row,      \* the well_tests table: one row per id, "absent" before creation
  op,       \* what each request has read and where it is
  raced,    \* history: a write since o's read has made that read stale
  tainted   \* history: tests some request wrote on the strength of a stale read

vars == <<row, op, raced, tainted>>

----------------------------------------------------------------------------
\* Times and rows

NullTime == 0
Times == 1 .. MaxTime
Stamps == Times \cup {NullTime}

Statuses ==
  {"scheduled", "connected", "stabilizing", "measuring", "completed", "closed", "aborted"}

\* Variant: the active band without its last status.
ActiveUntilMeasuring == {"connected", "stabilizing"}

ActiveStatuses == {"connected", "stabilizing", "measuring"}

\* disconnectedAt and abortedAt are never compared: whether they are set is kept.
Rows ==
  [status: Statuses \cup {"absent"}, job: Jobs,
   connectedAt: Stamps, stabilizationStartedAt: Stamps, stabilizationEndedAt: Stamps,
   officialStartedAt: Stamps, officialEndedAt: Stamps,
   disconnected: BOOLEAN, aborted: BOOLEAN]

BlankRow(j) ==
  [status |-> "absent", job |-> j,
   connectedAt |-> NullTime, stabilizationStartedAt |-> NullTime,
   stabilizationEndedAt |-> NullTime, officialStartedAt |-> NullTime,
   officialEndedAt |-> NullTime, disconnected |-> FALSE, aborted |-> FALSE]

Active(t) == row[t].status \in ActiveStatuses
UnitOf(t) == JobUnit[row[t].job]
SameUnit(t1, t2) == UnitOf(t1) = UnitOf(t2)

----------------------------------------------------------------------------
\* The table's CHECK constraints, NULL-tolerant as SQL evaluates them

NotEarlier(later, earlier) ==
  later # NullTime /\ earlier # NullTime => later >= earlier

StatusStamps(r) ==
  LET connected == r.connectedAt # NullTime
      stabilized == connected /\ r.stabilizationStartedAt # NullTime
      measured == /\ stabilized
                  /\ r.officialStartedAt # NullTime
                  /\ r.stabilizationEndedAt = r.officialStartedAt
      ended == measured /\ r.officialEndedAt # NullTime
  IN  /\ r.status = "connected" => connected
      /\ r.status = "stabilizing" => stabilized
      /\ r.status = "measuring" => measured
      /\ r.status = "completed" => ended
      /\ r.status = "closed" => ended /\ r.disconnected
      /\ r.status = "aborted" => r.aborted

StampOrder(r) ==
  /\ NotEarlier(r.stabilizationStartedAt, r.connectedAt)
  /\ NotEarlier(r.officialStartedAt, r.stabilizationStartedAt)
  /\ NotEarlier(r.officialEndedAt, r.officialStartedAt)
  /\ r.stabilizationEndedAt # NullTime /\ r.officialStartedAt # NullTime
       => r.stabilizationEndedAt = r.officialStartedAt

TableChecks(r) == StatusStamps(r) /\ StampOrder(r)

----------------------------------------------------------------------------
\* The transitions

Kinds == {"connect", "start_stabilization", "start_official", "end_official", "abort", "close"}

\* Variant: `completed' forgotten among the final statuses.
NonFinalForgetsCompleted == Statuses \ {"closed", "aborted"}

NonFinalStatuses == Statuses \ {"completed", "closed", "aborted"}

AllowedFrom(kind) ==
  CASE kind = "connect" -> {"scheduled"}
    [] kind = "start_stabilization" -> {"connected"}
    [] kind = "start_official" -> {"stabilizing"}
    [] kind = "end_official" -> {"measuring"}
    [] kind = "abort" -> NonFinalStatuses
    [] kind = "close" -> {"completed"}

\* The data object each transition hands to applyUpdate, laid over the row.
Patched(r, kind, now) ==
  CASE kind = "connect" -> [r EXCEPT !.status = "connected", !.connectedAt = now]
    [] kind = "start_stabilization" ->
         [r EXCEPT !.status = "stabilizing", !.stabilizationStartedAt = now]
    [] kind = "start_official" ->
         [r EXCEPT !.status = "measuring", !.officialStartedAt = now,
                   !.stabilizationEndedAt = now]
    [] kind = "end_official" -> [r EXCEPT !.status = "completed", !.officialEndedAt = now]
    [] kind = "abort" -> [r EXCEPT !.status = "aborted", !.aborted = TRUE]
    [] kind = "close" -> [r EXCEPT !.status = "closed", !.disconnected = TRUE]

\* The stamp of the loaded row that startOfficial and endOfficial compare with
\* the server clock.
PrecedingStamp(r, kind) ==
  CASE kind = "start_official" -> r.stabilizationStartedAt
    [] kind = "end_official" -> r.officialStartedAt
    [] OTHER -> NullTime

Ops ==
  [pc: {"idle"}] \cup
  [pc: {"guard", "write"}, kind: Kinds, test: Tests, preceding: Stamps]

Idle == [pc |-> "idle"]

Finish(o) ==
  /\ op' = [op EXCEPT ![o] = Idle]
  /\ raced' = [raced EXCEPT ![o] = FALSE]

----------------------------------------------------------------------------
Init ==
  /\ row \in [Tests -> {BlankRow(j) : j \in Jobs}]
  /\ op = [o \in Operators |-> Idle]
  /\ raced = [o \in Operators |-> FALSE]
  /\ tainted = {}

\* Variant: a status the enum does not have.
CreatePlanned(t, j) ==
  /\ row[t].status = "absent"
  /\ row' = [row EXCEPT ![t] = [BlankRow(j) EXCEPT !.status = "planned"]]
  /\ UNCHANGED <<op, raced, tainted>>

\* create: the unit and the tenant are taken from the job.
Create(t, j) ==
  /\ row[t].status = "absent"
  /\ row' = [row EXCEPT ![t] = [BlankRow(j) EXCEPT !.status = "scheduled"]]
  /\ UNCHANGED <<op, raced, tainted>>

\* Variant: the row is loaded and its status never asserted.
LoadUnasserted(o, t, kind) ==
  /\ op[o].pc = "idle"
  /\ row[t].status # "absent"
  /\ op' = [op EXCEPT ![o] =
              [pc |-> IF kind = "connect" THEN "guard" ELSE "write",
               kind |-> kind, test |-> t, preceding |-> NullTime]]
  /\ UNCHANGED <<row, raced, tainted>>

\* loadForTransition and assertTransition: a missing row (404) or a status the
\* transition is not allowed from (409) ends the request without an effect.
Load(o, t, kind) ==
  /\ op[o].pc = "idle"
  /\ row[t].status \in AllowedFrom(kind)
  /\ op' = [op EXCEPT ![o] =
              [pc |-> IF kind = "connect" THEN "guard" ELSE "write",
               kind |-> kind, test |-> t,
               preceding |-> PrecedingStamp(row[t], kind)]]
  /\ UNCHANGED <<row, raced, tainted>>

\* Variant: the guard looks only for tests that have not begun to measure.
OtherNotMeasuring(t) ==
  \E s \in Tests \ {t} : SameUnit(s, t) /\ row[s].status \in {"connected", "stabilizing"}

OtherActive(t) == \E s \in Tests \ {t} : SameUnit(s, t) /\ Active(s)

\* assertNoOtherActiveTestForUnit
PassGuard(o) ==
  /\ op[o].pc = "guard"
  /\ ~OtherActive(op[o].test)
  /\ op' = [op EXCEPT ![o].pc = "write"]
  /\ UNCHANGED <<row, raced, tainted>>

RefuseConnect(o) ==
  /\ op[o].pc = "guard"
  /\ OtherActive(op[o].test)
  /\ Finish(o)
  /\ UNCHANGED <<row, tainted>>

\* The service's own clock check, made before the update is sent.
ClockAccepted(o, now) ==
  op[o].preceding # NullTime => now >= op[o].preceding

\* What a write of test t as `next' makes stale: every other request on t, and
\* every connect past its guard when t becomes active on the same unit.
MakesStale(p, t, next) ==
  /\ op[p].pc # "idle"
  /\ \/ op[p].test = t
     \/ /\ op[p].kind = "connect" /\ op[p].pc = "write"
        /\ next \in ActiveStatuses
        /\ SameUnit(op[p].test, t)

\* applyUpdate: an update by id, which PostgreSQL takes if the new row passes
\* the CHECK constraints.  Date.now() may step back: any reading can come.
Write(o, now) ==
  /\ op[o].pc = "write"
  /\ LET t == op[o].test
         new == Patched(row[t], op[o].kind, now)
     IN  /\ ClockAccepted(o, now)
         /\ TableChecks(new)
         /\ row' = [row EXCEPT ![t] = new]
         /\ op' = [op EXCEPT ![o] = Idle]
         /\ raced' = [p \in Operators |->
                        p # o /\ (raced[p] \/ MakesStale(p, t, new.status))]
         /\ tainted' = IF raced[o] THEN tainted \cup {t} ELSE tainted

\* 400 from the clock check, or the update fails on a CHECK constraint.
RejectWrite(o, now) ==
  /\ op[o].pc = "write"
  /\ ~ClockAccepted(o, now) \/ ~TableChecks(Patched(row[op[o].test], op[o].kind, now))
  /\ Finish(o)
  /\ UNCHANGED <<row, tainted>>

\* A call to the database fails, or the process stops, before the update.
Fail(o) ==
  /\ op[o].pc # "idle"
  /\ Finish(o)
  /\ UNCHANGED <<row, tainted>>

Next ==
  \/ \E t \in Tests, j \in Jobs : Create(t, j)
  \/ \E o \in Operators, t \in Tests, kind \in Kinds : Load(o, t, kind)
  \/ \E o \in Operators : PassGuard(o)
  \/ \E o \in Operators : RefuseConnect(o)
  \/ \E o \in Operators, now \in Times : Write(o, now)
  \/ \E o \in Operators, now \in Times : RejectWrite(o, now)
  \/ \E o \in Operators : Fail(o)

Spec == Init /\ [][Next]_vars

----------------------------------------------------------------------------
TypeOK ==
  /\ row \in [Tests -> Rows]
  /\ op \in [Operators -> Ops]
  /\ raced \in [Operators -> BOOLEAN]
  /\ tainted \subseteq Tests

\* The arrows of the lifecycle diagram, and the promise they belong to: the
\* rows' statuses and units, seen as the state of WellTestLifecycle.
Lifecycle == INSTANCE WellTestLifecycle
  WITH status <- [t \in Tests |-> row[t].status],
       unitOf <- [t \in Tests |-> UnitOf(t)]

\* One active test per unit (the guard of connect): two tests of a unit are in
\* the active band together only when one of them was written by a request
\* whose read another request had made stale.
OverlapNeedsRace ==
  \A t1, t2 \in Tests :
    t1 # t2 /\ SameUnit(t1, t2) /\ Active(t1) /\ Active(t2)
      => t1 \in tainted \/ t2 \in tainted

\* The same without the excuse, which is what the service's guard is for.
OneActivePerUnit ==
  \A t1, t2 \in Tests : t1 # t2 /\ SameUnit(t1, t2) => ~(Active(t1) /\ Active(t2))

\* This step is o's update of t, and o's read was stale.
StaleWrite(o, t) ==
  raced[o] /\ op[o].pc = "write" /\ op[o].test = t /\ op'[o] = Idle

\* A test leaves the diagram (a final status overwritten, a step taken twice or
\* backwards) only in a write that relies on a stale read: status is checked at
\* load and never again.  Later requests follow the diagram from where it is.
DiagramUnlessRaced ==
  [][\A t \in Tests :
       \/ row'[t].status = row[t].status
       \/ row[t].status = "absent" /\ row'[t].status = "scheduled"
       \/ <<row[t].status, row'[t].status>> \in Lifecycle!Arrows
       \/ \E o \in Operators : StaleWrite(o, t)]_vars

\* The certified window: once an official start or end is recorded it is never
\* rewritten, unless a write that relied on a stale read has moved the test.
OfficialWindowUnlessRaced ==
  [][\A t \in Tests :
       \/ t \in tainted'
       \/ /\ row[t].officialStartedAt \in {NullTime, row'[t].officialStartedAt}
          /\ row[t].officialEndedAt \in {NullTime, row'[t].officialEndedAt}]_vars

\* With requests that do not overlap the table implements the lifecycle.
ImplementsLifecycle == Lifecycle!LifecycleSpec
=============================================================================
