-------------------------- MODULE WellTestsProofs --------------------------
(***************************************************************************)
(* Proofs about WellTests and the drawer over it, for any tests, units,    *)
(* operators, clock and fixture.                                           *)
(***************************************************************************)
EXTENDS TrendDrawer, TLAPS

\* The status a transition writes.
Target(kind) ==
  CASE kind = "connect" -> "connected"
    [] kind = "start_stabilization" -> "stabilizing"
    [] kind = "start_official" -> "measuring"
    [] kind = "end_official" -> "completed"
    [] kind = "abort" -> "aborted"
    [] kind = "close" -> "closed"

\* No other test of t's unit is active in the table r.
Free(r, t) ==
  \A s \in Tests \ {t} :
    JobUnit[r[s].job] = JobUnit[r[t].job] => r[s].status \notin ActiveStatuses

\* Requests work on created rows; a request no write has made stale still sees
\* the status it read, and a connect past its guard still sees a free unit.
ReadsHold ==
  \A o \in Operators :
    op[o].pc # "idle" =>
      /\ row[op[o].test].status # "absent"
      /\ ~raced[o] =>
           /\ row[op[o].test].status \in AllowedFrom(op[o].kind)
           /\ op[o].kind = "connect" /\ op[o].pc = "write" => Free(row, op[o].test)

\* The official stamps of a test that only followed fresh reads.
WindowFollowsStatus ==
  \A t \in Tests \ tainted :
    /\ row[t].status \in {"absent", "scheduled", "connected", "stabilizing"}
         => row[t].officialStartedAt = NullTime
    /\ row[t].status \in {"absent", "scheduled", "connected", "stabilizing", "measuring"}
         => row[t].officialEndedAt = NullTime

----------------------------------------------------------------------------
LEMMA BlankRowType ==
  ASSUME NEW j \in Jobs
  PROVE  /\ BlankRow(j) \in Rows
         /\ [BlankRow(j) EXCEPT !.status = "scheduled"] \in Rows
BY DEF BlankRow, Rows, Statuses, Stamps, NullTime

\* A patch keeps the job, sets the target status, and touches the official
\* stamps only in the transitions that are about them.
LEMMA PatchedFacts ==
  ASSUME NEW r \in Rows, NEW kind \in Kinds, NEW now \in Times
  PROVE  /\ Patched(r, kind, now) \in Rows
         /\ Patched(r, kind, now).job = r.job
         /\ Patched(r, kind, now).status = Target(kind)
         /\ kind # "start_official" =>
              Patched(r, kind, now).officialStartedAt = r.officialStartedAt
         /\ kind # "end_official" =>
              Patched(r, kind, now).officialEndedAt = r.officialEndedAt
<1>1. CASE kind = "connect"
  BY <1>1 DEF Patched, Rows, Statuses, Stamps, Target
<1>2. CASE kind = "start_stabilization"
  BY <1>2 DEF Patched, Rows, Statuses, Stamps, Target
<1>3. CASE kind = "start_official"
  BY <1>3 DEF Patched, Rows, Statuses, Stamps, Target
<1>4. CASE kind = "end_official"
  BY <1>4 DEF Patched, Rows, Statuses, Stamps, Target
<1>5. CASE kind = "abort"
  BY <1>5 DEF Patched, Rows, Statuses, Stamps, Target
<1>6. CASE kind = "close"
  BY <1>6 DEF Patched, Rows, Statuses, Stamps, Target
<1>7. QED
  BY <1>1, <1>2, <1>3, <1>4, <1>5, <1>6 DEF Kinds

LEMMA BusyOp ==
  ASSUME TypeOK, NEW o \in Operators, op[o].pc # "idle"
  PROVE  /\ op[o] \in [pc: {"guard", "write"}, kind: Kinds, test: Tests, preceding: Stamps]
         /\ op[o].test \in Tests
         /\ op[o].kind \in Kinds
         /\ row[op[o].test] \in Rows
BY DEF TypeOK, Ops

\* What Write does, with the record updates worked out.
LEMMA WriteFacts ==
  ASSUME TypeOK, NEW o \in Operators, NEW now \in Times, Write(o, now)
  PROVE  LET t == op[o].test
             new == Patched(row[t], op[o].kind, now)
         IN  /\ t \in Tests /\ new \in Rows /\ row[t] \in Rows
             /\ op[o].kind \in Kinds
             /\ new.job = row[t].job /\ new.status = Target(op[o].kind)
             /\ row' = [row EXCEPT ![t] = new]
             /\ op' = [op EXCEPT ![o] = Idle]
             /\ row'[t] = new
             /\ \A s \in Tests \ {t} : row'[s] = row[s]
<1>1. op[o].pc # "idle"
  BY DEF Write
<1>2. QED
  BY <1>1, BusyOp, PatchedFacts DEF Write, TypeOK

----------------------------------------------------------------------------
LEMMA InitTypeOK == Init => TypeOK
<1> SUFFICES ASSUME Init PROVE TypeOK
  OBVIOUS
<1>1. {BlankRow(j) : j \in Jobs} \subseteq Rows
  BY BlankRowType
<1>2. row \in [Tests -> Rows]
  BY <1>1 DEF Init
<1>3. op \in [Operators -> Ops]
  BY DEF Init, Ops, Idle
<1>4. QED
  BY <1>2, <1>3 DEF Init, TypeOK

LEMMA NextTypeOK == TypeOK /\ [Next]_vars => TypeOK'
<1> SUFFICES ASSUME TypeOK, [Next]_vars PROVE TypeOK'
  OBVIOUS
<1>1. ASSUME NEW t \in Tests, NEW j \in Jobs, Create(t, j) PROVE TypeOK'
  BY <1>1, BlankRowType DEF Create, TypeOK
<1>2. ASSUME NEW o \in Operators, NEW t \in Tests, NEW kind \in Kinds, Load(o, t, kind)
      PROVE TypeOK'
  <2>1. PrecedingStamp(row[t], kind) \in Stamps
    BY DEF PrecedingStamp, TypeOK, Rows, Stamps, NullTime
  <2>2. op' \in [Operators -> Ops]
    BY <1>2, <2>1 DEF Load, TypeOK, Ops
  <2>3. QED
    BY <1>2, <2>2 DEF Load, TypeOK
<1>3. ASSUME NEW o \in Operators, PassGuard(o) PROVE TypeOK'
  <2>1. op[o] \in [pc: {"guard", "write"}, kind: Kinds, test: Tests, preceding: Stamps]
    BY <1>3, BusyOp DEF PassGuard
  <2>2. [op[o] EXCEPT !.pc = "write"] \in Ops
    BY <2>1 DEF Ops
  <2>3. op' = [op EXCEPT ![o] = [op[o] EXCEPT !.pc = "write"]]
    BY <1>3 DEF PassGuard, TypeOK
  <2>4. QED
    BY <1>3, <2>2, <2>3 DEF PassGuard, TypeOK
<1>4. ASSUME NEW o \in Operators, Finish(o), UNCHANGED <<row, tainted>> PROVE TypeOK'
  BY <1>4 DEF Finish, TypeOK, Ops, Idle
<1>5. ASSUME NEW o \in Operators, NEW now \in Times, Write(o, now) PROVE TypeOK'
  <2>1. row' \in [Tests -> Rows]
    BY <1>5, WriteFacts DEF TypeOK
  <2>2. op' \in [Operators -> Ops]
    BY <1>5, WriteFacts DEF TypeOK, Ops, Idle
  <2>3. raced' \in [Operators -> BOOLEAN]
    BY <1>5 DEF Write, TypeOK
  <2>4. tainted' \subseteq Tests
    <3>1. tainted' \in {tainted, tainted \cup {op[o].test}}
      BY <1>5, Zenon DEF Write
    <3>2. QED
      BY <1>5, <3>1, WriteFacts DEF TypeOK
  <2>5. QED
    BY <2>1, <2>2, <2>3, <2>4 DEF TypeOK
<1>6. CASE UNCHANGED vars
  BY <1>6 DEF vars, TypeOK
<1>7. QED
  BY <1>1, <1>2, <1>3, <1>4, <1>5, <1>6 DEF Next, RefuseConnect, RejectWrite, Fail

\* Every reachable state is well typed: a row holds one of the table's statuses
\* and stamps, a request works on a row that exists.
THEOREM WellTestsTypeOK == Spec => []TypeOK
<1>1. QED
  BY InitTypeOK, NextTypeOK, PTL DEF Spec

----------------------------------------------------------------------------
\* Statuses from which a transition may start, and what follows from them.
LEMMA TransitionFacts ==
  ASSUME NEW kind \in Kinds, NEW status \in AllowedFrom(kind)
  PROVE  /\ Target(kind) \in ActiveStatuses /\ kind # "connect" => status \in ActiveStatuses
         /\ Target(kind) \notin {"absent", "scheduled"}
         /\ <<status, Target(kind)>> \in Lifecycle!Arrows
         /\ status # "absent"
BY DEF Kinds, AllowedFrom, Target, ActiveStatuses, NonFinalStatuses, Statuses,
       Lifecycle!Arrows, Lifecycle!ActiveBand

LEMMA InitReadsHold == Init => ReadsHold
BY DEF Init, ReadsHold, Idle

\* A request that is not o keeps its facts when row[t] alone is rewritten and
\* MakesStale says which requests that touches.
LEMMA NextReadsHold == TypeOK /\ ReadsHold /\ [Next]_vars => ReadsHold'
<1> SUFFICES ASSUME TypeOK, ReadsHold, [Next]_vars PROVE ReadsHold'
  OBVIOUS
<1>1. ASSUME NEW t \in Tests, NEW j \in Jobs, Create(t, j) PROVE ReadsHold'
  <2> SUFFICES ASSUME NEW o \in Operators, op'[o].pc # "idle"
               PROVE  /\ row'[op'[o].test].status # "absent"
                      /\ ~raced'[o] =>
                           /\ row'[op'[o].test].status \in AllowedFrom(op'[o].kind)
                           /\ op'[o].kind = "connect" /\ op'[o].pc = "write"
                                => Free(row', op'[o].test)
    BY DEF ReadsHold
  <2>1. op' = op /\ raced' = raced
    BY <1>1 DEF Create
  <2>2. op[o].test \in Tests /\ row[op[o].test].status # "absent"
    BY <2>1, BusyOp DEF ReadsHold
  <2>3. op[o].test # t /\ \A s \in Tests \ {t} : row'[s] = row[s]
    BY <1>1, <2>2 DEF Create, TypeOK
  <2>4. row'[t].status = "scheduled"
    BY <1>1, BlankRowType DEF Create, TypeOK, Rows
  <2>5. Free(row, op[o].test) => Free(row', op[o].test)
    BY <2>1, <2>2, <2>3, <2>4 DEF Free, ActiveStatuses
  <2>6. QED
    BY <2>1, <2>2, <2>3, <2>5 DEF ReadsHold
<1>2. ASSUME NEW o \in Operators, NEW t \in Tests, NEW kind \in Kinds, Load(o, t, kind)
      PROVE ReadsHold'
  <2>1. row[t].status # "absent"
    BY <1>2, TransitionFacts DEF Load
  <2>2. op' = [op EXCEPT ![o] = [pc |-> IF kind = "connect" THEN "guard" ELSE "write",
                                 kind |-> kind, test |-> t,
                                 preceding |-> PrecedingStamp(row[t], kind)]]
    BY <1>2 DEF Load
  <2>3. op'[o].kind = kind /\ op'[o].test = t /\ (kind = "connect" => op'[o].pc = "guard")
    BY <2>2 DEF TypeOK
  <2>4. \A p \in Operators \ {o} : op'[p] = op[p]
    BY <2>2 DEF TypeOK
  <2>5. row' = row /\ raced' = raced
    BY <1>2 DEF Load
  <2>6. QED
    BY <1>2, <2>1, <2>3, <2>4, <2>5 DEF ReadsHold, Load
<1>3. ASSUME NEW o \in Operators, PassGuard(o) PROVE ReadsHold'
  <2>1. op' = [op EXCEPT ![o].pc = "write"] /\ row' = row /\ raced' = raced
    BY <1>3 DEF PassGuard
  <2>2. op[o] \in [pc: {"guard", "write"}, kind: Kinds, test: Tests, preceding: Stamps]
    BY <1>3, BusyOp DEF PassGuard
  <2>3. op'[o].test = op[o].test /\ op'[o].kind = op[o].kind
    BY <2>1, <2>2 DEF TypeOK
  <2>4. \A p \in Operators \ {o} : op'[p] = op[p]
    BY <2>1 DEF TypeOK
  <2>5. Free(row, op[o].test)
    BY <1>3 DEF PassGuard, OtherActive, Active, SameUnit, UnitOf, Free
  <2>6. QED
    BY <1>3, <2>1, <2>3, <2>4, <2>5 DEF ReadsHold, PassGuard
<1>4. ASSUME NEW o \in Operators, Finish(o), UNCHANGED <<row, tainted>> PROVE ReadsHold'
  <2>1. op'[o].pc = "idle" /\ \A p \in Operators \ {o} : op'[p] = op[p] /\ raced'[p] = raced[p]
    BY <1>4 DEF Finish, Idle, TypeOK
  <2>2. QED
    BY <1>4, <2>1 DEF ReadsHold
<1>5. ASSUME NEW o \in Operators, NEW now \in Times, Write(o, now) PROVE ReadsHold'
  <2> DEFINE t == op[o].test
             new == Patched(row[t], op[o].kind, now)
  <2> SUFFICES ASSUME NEW p \in Operators, op'[p].pc # "idle"
               PROVE  /\ row'[op'[p].test].status # "absent"
                      /\ ~raced'[p] =>
                           /\ row'[op'[p].test].status \in AllowedFrom(op'[p].kind)
                           /\ op'[p].kind = "connect" /\ op'[p].pc = "write"
                                => Free(row', op'[p].test)
    BY DEF ReadsHold
  <2>1. /\ t \in Tests /\ new \in Rows /\ new.job = row[t].job
        /\ new.status = Target(op[o].kind) /\ op[o].kind \in Kinds
        /\ row'[t] = new /\ \A s \in Tests \ {t} : row'[s] = row[s]
    BY <1>5, WriteFacts
  <2>2. p # o /\ op'[p] = op[p]
    BY <1>5 DEF Write, TypeOK, Idle
  <2>3. op[p].test \in Tests
    BY <2>2, BusyOp
  <2>4. new.status # "absent"
    BY <2>1 DEF Target, Kinds
  <2>5. row'[op'[p].test].status # "absent"
    BY <2>1, <2>2, <2>3, <2>4 DEF ReadsHold
  <2>6. ~raced'[p] => ~raced[p] /\ ~MakesStale(p, t, new.status)
    BY <1>5, <2>2 DEF Write, TypeOK
  <2>7. ASSUME ~raced'[p]
        PROVE  /\ row'[op'[p].test].status \in AllowedFrom(op'[p].kind)
               /\ op'[p].kind = "connect" /\ op'[p].pc = "write" => Free(row', op'[p].test)
    <3>1. op[p].test # t
      BY <2>2, <2>6, <2>7 DEF MakesStale
    <3>2. row'[op[p].test].status \in AllowedFrom(op[p].kind)
      BY <2>1, <2>2, <2>3, <2>6, <2>7, <3>1 DEF ReadsHold
    <3>3. ASSUME op[p].kind = "connect", op[p].pc = "write" PROVE Free(row', op[p].test)
      <4>1. Free(row, op[p].test)
        BY <2>2, <2>6, <2>7, <3>3 DEF ReadsHold
      <4>2. ~(new.status \in ActiveStatuses /\ SameUnit(op[p].test, t))
        BY <2>2, <2>6, <2>7, <3>3 DEF MakesStale
      <4> HIDE DEF new, t
      <4>3. QED
        BY <2>1, <2>3, <3>1, <4>1, <4>2 DEF Free, SameUnit, UnitOf
    <3>4. QED
      BY <2>2, <3>2, <3>3
  <2>8. QED
    BY <2>5, <2>7
<1>6. CASE UNCHANGED vars
  BY <1>6 DEF vars, ReadsHold
<1>7. QED
  BY <1>1, <1>2, <1>3, <1>4, <1>5, <1>6 DEF Next, RefuseConnect, RejectWrite, Fail

----------------------------------------------------------------------------
LEMMA InitOverlap == Init => OverlapNeedsRace
<1>1. Init => \A t \in Tests : row[t].status = "absent"
  BY DEF Init, BlankRow
<1>2. QED
  BY <1>1 DEF OverlapNeedsRace, Active, ActiveStatuses

\* Only Write can make a test active.  With a fresh read, a connect found the
\* unit free, and every other transition keeps a test active that already was.
LEMMA NextOverlap ==
  TypeOK /\ ReadsHold /\ OverlapNeedsRace /\ [Next]_vars => OverlapNeedsRace'
<1> SUFFICES ASSUME TypeOK, ReadsHold, OverlapNeedsRace, [Next]_vars PROVE OverlapNeedsRace'
  OBVIOUS
<1>1. ASSUME NEW t \in Tests, NEW j \in Jobs, Create(t, j) PROVE OverlapNeedsRace'
  <2>1. row'[t].status = "scheduled" /\ tainted' = tainted
    BY <1>1, BlankRowType DEF Create, TypeOK, Rows
  <2>2. \A s \in Tests \ {t} : row'[s] = row[s]
    BY <1>1 DEF Create, TypeOK
  <2>3. QED
    BY <2>1, <2>2 DEF OverlapNeedsRace, Active, SameUnit, UnitOf, ActiveStatuses
<1>2. ASSUME NEW o \in Operators, NEW now \in Times, Write(o, now) PROVE OverlapNeedsRace'
  <2> DEFINE t == op[o].test
             new == Patched(row[t], op[o].kind, now)
  <2>1. /\ t \in Tests /\ new \in Rows /\ new.job = row[t].job
        /\ new.status = Target(op[o].kind) /\ op[o].kind \in Kinds
        /\ row'[t] = new /\ \A s \in Tests \ {t} : row'[s] = row[s]
    BY <1>2, WriteFacts
  <2>2. op[o].pc = "write"
    BY <1>2 DEF Write
  <2>3. tainted' = IF raced[o] THEN tainted \cup {t} ELSE tainted
    BY <1>2, Zenon DEF Write
  <2>4. CASE raced[o]
    <3>1. tainted' = tainted \cup {t}
      BY <2>3, <2>4, Zenon
    <3> HIDE DEF new, t
    <3>2. QED
      BY <2>1, <3>1 DEF OverlapNeedsRace, Active, SameUnit, UnitOf
  <2>5. CASE ~raced[o]
    <3>1. tainted' = tainted
      BY <2>3, <2>5, Zenon
    <3>2. row[t].status \in AllowedFrom(op[o].kind)
      BY <2>2, <2>5 DEF ReadsHold
    <3>3. new.status \in ActiveStatuses =>
            Free(row, t) \/ row[t].status \in ActiveStatuses
      <4>1. CASE op[o].kind = "connect"
        BY <2>2, <2>5, <4>1 DEF ReadsHold
      <4>2. CASE op[o].kind # "connect"
        BY <2>1, <3>2, <4>2, TransitionFacts
      <4>3. QED
        BY <4>1, <4>2
    <3> HIDE DEF new, t
    <3>4. QED
      BY <2>1, <3>1, <3>3 DEF OverlapNeedsRace, Active, SameUnit, UnitOf, Free
  <2>6. QED
    BY <2>4, <2>5
<1>3. ASSUME UNCHANGED <<row, tainted>> PROVE OverlapNeedsRace'
  BY <1>3 DEF OverlapNeedsRace, Active, SameUnit, UnitOf
<1>4. QED
  BY <1>1, <1>2, <1>3 DEF Next, Load, PassGuard, RefuseConnect, RejectWrite, Fail, vars

\* In every interleaving, two tests of a unit are active together only if one
\* of them was written on a stale read: the guard is right but not atomic.
THEOREM WellTestsOverlapNeedsRace == Spec => []OverlapNeedsRace
<1>1. QED
  BY InitTypeOK, NextTypeOK, InitReadsHold, NextReadsHold, InitOverlap, NextOverlap,
     PTL DEF Spec

----------------------------------------------------------------------------
\* How the status of a test moves in one step.
Moves(t, o, now) ==
  /\ op[o].test = t
  /\ row'[t].status = Target(op[o].kind)
  /\ op'[o] = Idle
  /\ op[o].pc = "write"
  /\ op[o].kind \in Kinds
  /\ ~raced[o] => row[t].status \in AllowedFrom(op[o].kind)

LEMMA StepMoves ==
  ASSUME TypeOK, ReadsHold, [Next]_vars, NEW t \in Tests
  PROVE  \/ row'[t] = row[t]
         \/ row[t].status = "absent" /\ row'[t].status = "scheduled"
         \/ \E o \in Operators, now \in Times : Moves(t, o, now) /\ Write(o, now)
<1>1. ASSUME NEW s \in Tests, NEW j \in Jobs, Create(s, j)
      PROVE  \/ row'[t] = row[t]
             \/ row[t].status = "absent" /\ row'[t].status = "scheduled"
  BY <1>1, BlankRowType DEF Create, TypeOK, Rows
<1>2. ASSUME NEW o \in Operators, NEW now \in Times, Write(o, now)
      PROVE  row'[t] = row[t] \/ Moves(t, o, now)
  <2>1. op[o].pc = "write"
    BY <1>2 DEF Write
  <2>2. op'[o] = Idle
    BY <1>2, WriteFacts DEF TypeOK
  <2>3. ~raced[o] => row[op[o].test].status \in AllowedFrom(op[o].kind)
    BY <2>1 DEF ReadsHold
  <2>4. QED
    BY <1>2, <2>1, <2>2, <2>3, WriteFacts DEF Moves
<1>3. QED
  BY <1>1, <1>2 DEF Next, Load, PassGuard, RefuseConnect, RejectWrite, Fail, vars

\* Whatever requests overlap, a test leaves the lifecycle diagram only in a
\* write whose read had been overtaken.
THEOREM WellTestsDiagramUnlessRaced == Spec => DiagramUnlessRaced
<1> DEFINE Follows == \A t \in Tests :
             \/ row'[t].status = row[t].status
             \/ row[t].status = "absent" /\ row'[t].status = "scheduled"
             \/ <<row[t].status, row'[t].status>> \in Lifecycle!Arrows
             \/ \E o \in Operators : StaleWrite(o, t)
<1>1. TypeOK /\ ReadsHold /\ [Next]_vars => Follows
  <2> SUFFICES ASSUME TypeOK, ReadsHold, [Next]_vars, NEW t \in Tests
               PROVE  \/ row'[t].status = row[t].status
                      \/ row[t].status = "absent" /\ row'[t].status = "scheduled"
                      \/ <<row[t].status, row'[t].status>> \in Lifecycle!Arrows
                      \/ \E o \in Operators : StaleWrite(o, t)
    OBVIOUS
  <2>1. ASSUME NEW o \in Operators, NEW now \in Times, Moves(t, o, now)
        PROVE  <<row[t].status, row'[t].status>> \in Lifecycle!Arrows \/ StaleWrite(o, t)
    <3>1. CASE raced[o]
      BY <2>1, <3>1 DEF Moves, StaleWrite
    <3>2. CASE ~raced[o]
      BY <2>1, <3>2, TransitionFacts DEF Moves
    <3>3. QED
      BY <3>1, <3>2
  <2>2. QED
    BY <2>1, StepMoves
<1>2. QED
  BY <1>1, InitTypeOK, NextTypeOK, InitReadsHold, NextReadsHold, PTL
  DEF Spec, DiagramUnlessRaced

----------------------------------------------------------------------------
LEMMA InitWindow == Init => WindowFollowsStatus
BY DEF Init, BlankRow, WindowFollowsStatus

LEMMA NextWindow ==
  TypeOK /\ ReadsHold /\ WindowFollowsStatus /\ [Next]_vars => WindowFollowsStatus'
<1> SUFFICES ASSUME TypeOK, ReadsHold, WindowFollowsStatus, [Next]_vars
             PROVE  WindowFollowsStatus'
  OBVIOUS
<1>1. ASSUME NEW t \in Tests, NEW j \in Jobs, Create(t, j) PROVE WindowFollowsStatus'
  <2>1. /\ row'[t].officialStartedAt = NullTime /\ row'[t].officialEndedAt = NullTime
        /\ tainted' = tainted
    BY <1>1 DEF Create, TypeOK, BlankRow
  <2>2. \A s \in Tests \ {t} : row'[s] = row[s]
    BY <1>1 DEF Create, TypeOK
  <2>3. QED
    BY <2>1, <2>2 DEF WindowFollowsStatus
<1>2. ASSUME NEW o \in Operators, NEW now \in Times, Write(o, now) PROVE WindowFollowsStatus'
  <2> DEFINE t == op[o].test
             new == Patched(row[t], op[o].kind, now)
  <2>1. /\ t \in Tests /\ row[t] \in Rows /\ new.status = Target(op[o].kind)
        /\ op[o].kind \in Kinds
        /\ row'[t] = new /\ \A s \in Tests \ {t} : row'[s] = row[s]
    BY <1>2, WriteFacts
  <2>2. tainted' = IF raced[o] THEN tainted \cup {t} ELSE tainted
    BY <1>2, Zenon DEF Write
  <2>3. CASE raced[o]
    <3>1. tainted' = tainted \cup {t}
      BY <2>2, <2>3, Zenon
    <3> HIDE DEF new, t
    <3>2. QED
      BY <2>1, <3>1 DEF WindowFollowsStatus
  <2>4. CASE ~raced[o]
    <3>1. tainted' = tainted
      BY <2>2, <2>4, Zenon
    <3>2. row[t].status \in AllowedFrom(op[o].kind)
      BY <1>2, <2>4 DEF ReadsHold, Write
    <3>3. op[o].kind # "start_official" => new.officialStartedAt = row[t].officialStartedAt
      BY <2>1, PatchedFacts
    <3>4. op[o].kind # "end_official" => new.officialEndedAt = row[t].officialEndedAt
      BY <2>1, PatchedFacts
    <3> HIDE DEF new, t
    <3>5. ASSUME t \notin tainted
          PROVE  /\ new.status \in {"absent", "scheduled", "connected", "stabilizing"}
                      => new.officialStartedAt = NullTime
                 /\ new.status \in {"absent", "scheduled", "connected", "stabilizing", "measuring"}
                      => new.officialEndedAt = NullTime
      BY <2>1, <3>2, <3>3, <3>4, <3>5 DEF WindowFollowsStatus, AllowedFrom, Target, Kinds
    <3>6. QED
      BY <2>1, <3>1, <3>5 DEF WindowFollowsStatus
  <2>5. QED
    BY <2>3, <2>4
<1>3. ASSUME UNCHANGED <<row, tainted>> PROVE WindowFollowsStatus'
  BY <1>3 DEF WindowFollowsStatus
<1>4. QED
  BY <1>1, <1>2, <1>3 DEF Next, Load, PassGuard, RefuseConnect, RejectWrite, Fail, vars

\* A recorded official start or end is never rewritten on a test that only
\* requests with fresh reads have moved.
THEOREM WellTestsOfficialWindow == Spec => OfficialWindowUnlessRaced
<1> DEFINE Kept == \A t \in Tests :
             \/ t \in tainted'
             \/ /\ row[t].officialStartedAt \in {NullTime, row'[t].officialStartedAt}
                /\ row[t].officialEndedAt \in {NullTime, row'[t].officialEndedAt}
<1>1. TypeOK /\ ReadsHold /\ WindowFollowsStatus /\ WindowFollowsStatus' /\ [Next]_vars => Kept
  <2> SUFFICES ASSUME TypeOK, ReadsHold, WindowFollowsStatus, WindowFollowsStatus', [Next]_vars,
                      NEW t \in Tests, t \notin tainted'
               PROVE  /\ row[t].officialStartedAt \in {NullTime, row'[t].officialStartedAt}
                      /\ row[t].officialEndedAt \in {NullTime, row'[t].officialEndedAt}
    OBVIOUS
  <2>1. tainted \subseteq tainted'
    <3>1. ASSUME NEW o \in Operators, NEW now \in Times, Write(o, now)
          PROVE  tainted' \in {tainted, tainted \cup {op[o].test}}
      BY <3>1, Zenon DEF Write
    <3>2. QED
      BY <3>1 DEF Next, Create, Load, PassGuard, RefuseConnect, RejectWrite, Fail, vars
  <2>2. CASE row[t].status = "absent"
    BY <2>1, <2>2 DEF WindowFollowsStatus
  <2>3. ASSUME NEW o \in Operators, NEW now \in Times, Moves(t, o, now), Write(o, now)
        PROVE  /\ row[t].officialStartedAt \in {NullTime, row'[t].officialStartedAt}
               /\ row[t].officialEndedAt \in {NullTime, row'[t].officialEndedAt}
    <3>1. ~raced[o]
      <4>1. raced[o] => tainted' = tainted \cup {op[o].test}
        BY <2>3, Zenon DEF Write
      <4>2. op[o].test = t
        BY <2>3 DEF Moves
      <4>3. QED
        BY <4>1, <4>2
    <3>2. /\ row[t].status \in AllowedFrom(op[o].kind)
          /\ op[o].test = t /\ op[o].kind \in Kinds
      BY <2>3, <3>1 DEF Moves
    <3>3. /\ row[t] \in Rows
          /\ row'[t] = Patched(row[t], op[o].kind, now)
      BY <2>3, <3>2, WriteFacts
    <3>4. /\ op[o].kind # "start_official" => row'[t].officialStartedAt = row[t].officialStartedAt
          /\ op[o].kind # "end_official" => row'[t].officialEndedAt = row[t].officialEndedAt
      BY <3>2, <3>3, PatchedFacts
    <3>5. QED
      BY <2>1, <3>2, <3>4 DEF WindowFollowsStatus, AllowedFrom
  <2>4. QED
    BY <2>2, <2>3, StepMoves
<1>2. QED
  BY <1>1, InitTypeOK, NextTypeOK, InitReadsHold, NextReadsHold, InitWindow, NextWindow, PTL
  DEF Spec, OfficialWindowUnlessRaced

----------------------------------------------------------------------------
\* With one operator no write comes between a read and the write it leads to.
NothingRaced == raced = [o \in Operators |-> FALSE] /\ tainted = {}

LEMMA NextNothingRaced ==
  ASSUME \A o1, o2 \in Operators : o1 = o2, NothingRaced, [Next]_vars
  PROVE  NothingRaced'
<1>1. ASSUME NEW o \in Operators, NEW now \in Times, Write(o, now) PROVE NothingRaced'
  <2>1. raced' = [p \in Operators |->
                    p # o /\ (raced[p] \/ MakesStale(p, op[o].test,
                                  Patched(row[op[o].test], op[o].kind, now).status))]
    BY <1>1 DEF Write
  <2>2. \A p \in Operators : p = o
    OBVIOUS
  <2>3. raced' = [p \in Operators |-> FALSE]
    BY <2>1, <2>2, Zenon
  <2>4. tainted' = IF raced[o] THEN tainted \cup {op[o].test} ELSE tainted
    BY <1>1, Zenon DEF Write
  <2>5. ~raced[o]
    BY DEF NothingRaced
  <2>6. QED
    BY <2>3, <2>4, <2>5, Zenon DEF NothingRaced
<1>2. ASSUME NEW o \in Operators, Finish(o), UNCHANGED <<row, tainted>> PROVE NothingRaced'
  BY <1>2 DEF Finish, NothingRaced
<1>3. ASSUME UNCHANGED <<raced, tainted>> PROVE NothingRaced'
  BY <1>3 DEF NothingRaced
<1>4. QED
  BY <1>1, <1>2, <1>3
  DEF Next, Create, Load, PassGuard, RefuseConnect, RejectWrite, Fail, vars

\* With requests that do not overlap a unit never carries two active tests.
THEOREM SerialOneActivePerUnit ==
  ASSUME \A o1, o2 \in Operators : o1 = o2
  PROVE  Spec => []OneActivePerUnit
<1>1. Init => NothingRaced
  BY DEF Init, NothingRaced
<1>2. NothingRaced /\ [Next]_vars => NothingRaced'
  BY NextNothingRaced
<1>3. NothingRaced /\ OverlapNeedsRace => OneActivePerUnit
  BY DEF NothingRaced, OverlapNeedsRace, OneActivePerUnit
<1>4. QED
  BY <1>1, <1>2, <1>3, WellTestsOverlapNeedsRace, PTL DEF Spec

\* With requests that do not overlap the table implements the lifecycle: every
\* step of the service is an arrow of the diagram on a free unit, or a stutter.
THEOREM SerialImplementsLifecycle ==
  ASSUME \A o1, o2 \in Operators : o1 = o2
  PROVE  Spec => ImplementsLifecycle
<1> DEFINE status == [t \in Tests |-> row[t].status]
           unitOf == [t \in Tests |-> UnitOf(t)]
           Inv == TypeOK /\ ReadsHold /\ NothingRaced
<1>1. Init => Inv
  BY InitTypeOK, InitReadsHold DEF Init, NothingRaced
<1>2. Inv /\ [Next]_vars => Inv'
  BY NextTypeOK, NextReadsHold, NextNothingRaced
<1>3. Init => Lifecycle!LifecycleInit
  <2> SUFFICES ASSUME Init PROVE Lifecycle!LifecycleInit
    OBVIOUS
  <2>1. \A t \in Tests : row[t].status = "absent" /\ row[t].job \in Jobs
    BY DEF Init, BlankRow
  <2>2. \A t \in Tests : UnitOf(t) \in Units
    BY <2>1, ConstantsAssumption DEF UnitOf
  <2>3. QED
    BY <2>1, <2>2 DEF Lifecycle!LifecycleInit, Lifecycle!ActiveBand
<1>4. Inv /\ [Next]_vars => [Lifecycle!LifecycleNext]_(Lifecycle!lifecycleVars)
  <2> SUFFICES ASSUME Inv, [Next]_vars
               PROVE  [Lifecycle!LifecycleNext]_(Lifecycle!lifecycleVars)
    OBVIOUS
  <2>1. ASSUME NEW t \in Tests, NEW j \in Jobs, Create(t, j)
        PROVE  Lifecycle!LifecycleNext
    <3>1. row' = [row EXCEPT ![t] = [BlankRow(j) EXCEPT !.status = "scheduled"]]
      BY <2>1 DEF Create
    <3>2. row'[t].status = "scheduled" /\ row'[t].job = j
      BY <3>1 DEF TypeOK, BlankRow
    <3>3. \A s \in Tests \ {t} : row'[s] = row[s]
      BY <3>1 DEF TypeOK
    <3>4. status[t] = "absent"
      BY <2>1 DEF Create
    <3>5. status' = [status EXCEPT ![t] = "scheduled"]
      BY <3>2, <3>3
    <3>6. unitOf' = [unitOf EXCEPT ![t] = JobUnit[j]]
      BY <3>2, <3>3 DEF UnitOf
    <3>7. JobUnit[j] \in Units
      BY ConstantsAssumption
    <3>8. Lifecycle!Schedule(t, JobUnit[j])
      BY <3>4, <3>5, <3>6 DEF Lifecycle!Schedule
    <3>9. QED
      BY <3>7, <3>8 DEF Lifecycle!LifecycleNext
  <2>2. ASSUME NEW o \in Operators, NEW now \in Times, Write(o, now)
        PROVE  Lifecycle!LifecycleNext
    <3>0. PICK t \in Tests, next \in Lifecycle!Reachable :
            t = op[o].test /\ next = Target(op[o].kind)
      <4>1. op[o].test \in Tests /\ op[o].kind \in Kinds
        BY <2>2, WriteFacts
      <4>2. Target(op[o].kind) \in Lifecycle!Reachable
        BY <4>1 DEF Target, Kinds, Lifecycle!Reachable, Lifecycle!ActiveBand
      <4>3. QED
        BY <4>1, <4>2
    <3>1. /\ op[o].kind \in Kinds
          /\ row'[t].status = next /\ row'[t].job = row[t].job
          /\ \A s \in Tests \ {t} : row'[s] = row[s]
      BY <2>2, <3>0, WriteFacts
    <3>2. op[o].pc = "write" /\ ~raced[o]
      BY <2>2 DEF Write, NothingRaced
    <3>3. row[t].status \in AllowedFrom(op[o].kind)
      BY <3>0, <3>2 DEF ReadsHold
    <3>4. <<status[t], next>> \in Lifecycle!Arrows
      BY <3>0, <3>1, <3>3, TransitionFacts
    <3>5. next = "connected" => ~Lifecycle!Occupied(unitOf[t])
      <4> SUFFICES ASSUME next = "connected",
                          NEW s \in Tests, unitOf[s] = unitOf[t],
                          status[s] \in Lifecycle!ActiveBand
                   PROVE  FALSE
        BY DEF Lifecycle!Occupied
      <4>1. op[o].kind = "connect"
        BY <3>0, <3>1 DEF Target, Kinds
      <4>2. Free(row, t) /\ row[t].status = "scheduled"
        BY <3>0, <3>2, <3>3, <4>1 DEF ReadsHold, AllowedFrom
      <4>3. s # t
        BY <4>2 DEF Lifecycle!ActiveBand
      <4>4. QED
        BY <3>1, <4>2, <4>3 DEF Free, UnitOf, Lifecycle!ActiveBand, ActiveStatuses
    <3>6. status' = [status EXCEPT ![t] = next]
      BY <3>1
    <3>7. unitOf' = unitOf
      BY <3>1 DEF UnitOf
    <3>8. Lifecycle!Advance(t, next)
      BY <3>4, <3>5, <3>6, <3>7 DEF Lifecycle!Advance
    <3>9. QED
      BY <3>8 DEF Lifecycle!LifecycleNext
  <2>3. ASSUME row' = row
        PROVE  UNCHANGED Lifecycle!lifecycleVars
    BY <2>3 DEF Lifecycle!lifecycleVars, UnitOf
  <2>4. QED
    BY <2>1, <2>2, <2>3
    DEF Next, Load, PassGuard, RefuseConnect, RejectWrite, Fail, vars
<1>5. QED
  BY <1>1, <1>2, <1>3, <1>4, PTL DEF Spec, ImplementsLifecycle, Lifecycle!LifecycleSpec
----------------------------------------------------------------------------
\* The drawer over these tests.  What a later reading of a row keeps of an
\* earlier one: stamps are set and never cleared.
KeepsStamps(r, s) ==
  /\ r.connectedAt # NullTime => s.connectedAt # NullTime
  /\ r.stabilizationStartedAt # NullTime => s.stabilizationStartedAt # NullTime
  /\ r.officialStartedAt # NullTime => s.officialStartedAt # NullTime

\* What holds of an answer while the table goes on.
Holds(a) ==
  a # NoTest =>
    /\ a[1] \in Tests /\ a[2] \in Rows
    /\ a[2].status \in ActiveStatuses /\ StatusStamps(a[2])
    /\ row[a[1]].status # "absent"
    /\ KeepsStamps(a[2], row[a[1]])

DrawerInv ==
  /\ DrawerTypeOK
  /\ \A t \in Tests : StatusStamps(row[t])
  /\ Holds(cache) /\ Holds(answer)
  /\ cache # NoTest /\ answer # NoTest /\ cache[1] = answer[1] => KeepsStamps(cache[2], answer[2])
  /\ fetch # "idle" => open
  /\ ~open => selection = "diagnostic"
  /\ SelectionHasWindow

\* A step of either table, as far as the drawer is concerned.
TableMoves ==
  \A t \in Tests :
    /\ StatusStamps(row'[t])
    /\ row[t].status # "absent" => row'[t].status # "absent" /\ KeepsStamps(row[t], row'[t])

LEMMA AnswerParts ==
  ASSUME NEW a \in Answers
  PROVE  a # NoTest => a[1] \in Tests /\ a[2] \in Rows
BY DEF Answers, NoTest

LEMMA ActiveAnswersHold ==
  ASSUME TypeOK, \A t \in Tests : StatusStamps(row[t]), NEW a \in ActiveAnswers
  PROVE  /\ a \in Answers
         /\ Holds(a)
         /\ a # NoTest => a[2] = row[a[1]]
<1>1. CASE a = NoTest
  BY <1>1 DEF Answers, Holds
<1>2. CASE a # NoTest
  <2>1. PICK t \in Tests : a = <<t, row[t]>> /\ Active(t)
    BY <1>2, Zenon DEF ActiveAnswers
  <2>2. a[1] = t /\ a[2] = row[t] /\ row[t] \in Rows
    BY <2>1 DEF TypeOK
  <2>3. row[t].status \in ActiveStatuses /\ StatusStamps(row[t])
    BY <2>1 DEF Active
  <2>4. KeepsStamps(row[t], row[t])
    BY DEF KeepsStamps
  <2>5. row[t].status # "absent"
    BY <2>3 DEF ActiveStatuses
  <2>6. a \in Answers
    BY <2>1, <2>2 DEF Answers
  <2>7. QED
    BY <2>2, <2>3, <2>4, <2>5, <2>6 DEF Holds
<1>3. QED
  BY <1>1, <1>2

\* A patch only sets stamps, and sets those its status asks for.
LEMMA PatchedStamps ==
  ASSUME NEW r \in Rows, NEW kind \in Kinds, NEW now \in Times
  PROVE  /\ KeepsStamps(r, Patched(r, kind, now))
         /\ Patched(r, kind, now).status # "absent"
         /\ StatusStamps(r) /\ r.status \in AllowedFrom(kind)
              => StatusStamps(Patched(r, kind, now))
<1>0. now # NullTime
  BY DEF Times, NullTime
<1>1. CASE kind = "connect"
  BY <1>0, <1>1 DEF Patched, Rows, AllowedFrom, StatusStamps, KeepsStamps
<1>2. CASE kind = "start_stabilization"
  BY <1>0, <1>2 DEF Patched, Rows, AllowedFrom, StatusStamps, KeepsStamps
<1>3. CASE kind = "start_official"
  BY <1>0, <1>3 DEF Patched, Rows, AllowedFrom, StatusStamps, KeepsStamps
<1>4. CASE kind = "end_official"
  BY <1>0, <1>4 DEF Patched, Rows, AllowedFrom, StatusStamps, KeepsStamps
<1>5. CASE kind = "abort"
  BY <1>0, <1>5 DEF Patched, Rows, AllowedFrom, StatusStamps, KeepsStamps
<1>6. CASE kind = "close"
  BY <1>0, <1>6 DEF Patched, Rows, AllowedFrom, StatusStamps, KeepsStamps
<1>7. QED
  BY <1>1, <1>2, <1>3, <1>4, <1>5, <1>6 DEF Kinds

LEMMA BlankStamps ==
  ASSUME NEW j \in Jobs
  PROVE  StatusStamps([BlankRow(j) EXCEPT !.status = "scheduled"]) /\ StatusStamps(BlankRow(j))
BY DEF BlankRow, StatusStamps

\* One test's row replaced.
LEMMA ReplacedMoves ==
  ASSUME TypeOK, \A s \in Tests : StatusStamps(row[s]),
         NEW t \in Tests, NEW new \in Rows, StatusStamps(new),
         row[t].status # "absent" => new.status # "absent" /\ KeepsStamps(row[t], new),
         row' = [row EXCEPT ![t] = new]
  PROVE  row' \in [Tests -> Rows] /\ TableMoves
<1>1. row' \in [Tests -> Rows] /\ row'[t] = new /\ \A s \in Tests \ {t} : row'[s] = row[s]
  BY DEF TypeOK
<1>2. \A s \in Tests : KeepsStamps(row[s], row[s])
  BY DEF KeepsStamps
<1>3. QED
  BY <1>1, <1>2 DEF TableMoves

LEMMA MockMoves ==
  ASSUME TypeOK, \A s \in Tests : StatusStamps(row[s]),
         NEW t \in Tests, NEW kind \in Kinds, NEW now \in Times, MockTransition(t, kind, now)
  PROVE  TypeOK' /\ TableMoves
<1>1. row[t] \in Rows /\ row[t].status \in AllowedFrom(kind) /\ StatusStamps(row[t])
  BY DEF MockTransition, TypeOK
<1>2. PICK new \in Rows :
        /\ new = Patched(row[t], kind, now)
        /\ StatusStamps(new) /\ new.status # "absent" /\ KeepsStamps(row[t], new)
  BY <1>1, PatchedStamps, PatchedFacts
<1>3. row' = [row EXCEPT ![t] = new] /\ UNCHANGED <<op, raced, tainted>>
  BY <1>2 DEF MockTransition
<1>4. row' \in [Tests -> Rows] /\ TableMoves
  BY <1>2, <1>3, ReplacedMoves
<1>5. QED
  BY <1>3, <1>4 DEF TypeOK

LEMMA CreateMoves ==
  ASSUME TypeOK, \A s \in Tests : StatusStamps(row[s]),
         NEW t \in Tests, NEW j \in Jobs, Create(t, j)
  PROVE  TypeOK' /\ TableMoves
<1>1. PICK new \in Rows : new = [BlankRow(j) EXCEPT !.status = "scheduled"] /\ StatusStamps(new)
  BY BlankRowType, BlankStamps
<1>2. /\ row' = [row EXCEPT ![t] = new] /\ row[t].status = "absent"
      /\ UNCHANGED <<op, raced, tainted>>
  BY <1>1 DEF Create
<1>3. row' \in [Tests -> Rows] /\ TableMoves
  BY <1>1, <1>2, ReplacedMoves
<1>4. QED
  BY <1>2, <1>3 DEF TypeOK

LEMMA ServiceMoves ==
  ASSUME TypeOK, \A s \in Tests : StatusStamps(row[s]), [Next]_vars
  PROVE  TypeOK' /\ TableMoves
<1>1. TypeOK'
  BY NextTypeOK
<1>2. ASSUME NEW t \in Tests, NEW j \in Jobs, Create(t, j) PROVE TableMoves
  BY <1>2, CreateMoves
<1>3. ASSUME NEW o \in Operators, NEW now \in Times, Write(o, now) PROVE TableMoves
  <2>1. PICK t \in Tests : t = op[o].test
    BY <1>3, WriteFacts
  <2>2. op[o].kind \in Kinds /\ row[t] \in Rows
    BY <1>3, <2>1, WriteFacts
  <2>3. PICK new \in Rows :
          /\ new = Patched(row[t], op[o].kind, now)
          /\ new.status # "absent" /\ KeepsStamps(row[t], new)
    BY <2>2, PatchedStamps, PatchedFacts
  <2>4. StatusStamps(new) /\ row' = [row EXCEPT ![t] = new]
    BY <1>3, <2>1, <2>3 DEF Write, TableChecks
  <2>5. QED
    BY <2>3, <2>4, ReplacedMoves
<1>4. ASSUME row' = row PROVE TableMoves
  BY <1>4 DEF TableMoves, KeepsStamps
<1>5. QED
  BY <1>1, <1>2, <1>3, <1>4
  DEF Next, Load, PassGuard, RefuseConnect, RejectWrite, Fail, vars

\* An answer goes on to hold while the table moves under it.
LEMMA HoldsOn ==
  ASSUME TableMoves, NEW a, Holds(a)
  PROVE  a # NoTest =>
           /\ a[1] \in Tests /\ a[2] \in Rows
           /\ a[2].status \in ActiveStatuses /\ StatusStamps(a[2])
           /\ row'[a[1]].status # "absent"
           /\ KeepsStamps(a[2], row'[a[1]])
<1> SUFFICES ASSUME a # NoTest
             PROVE  /\ a[1] \in Tests /\ a[2] \in Rows
                    /\ a[2].status \in ActiveStatuses /\ StatusStamps(a[2])
                    /\ row'[a[1]].status # "absent"
                    /\ KeepsStamps(a[2], row'[a[1]])
  OBVIOUS
<1>1. /\ a[1] \in Tests /\ a[2] \in Rows
      /\ a[2].status \in ActiveStatuses /\ StatusStamps(a[2])
      /\ row[a[1]].status # "absent" /\ KeepsStamps(a[2], row[a[1]])
  BY DEF Holds
<1>2. row'[a[1]].status # "absent" /\ KeepsStamps(row[a[1]], row'[a[1]])
  BY <1>1 DEF TableMoves
<1>3. KeepsStamps(a[2], row'[a[1]])
  BY <1>1, <1>2 DEF KeepsStamps
<1>4. QED
  BY <1>1, <1>2, <1>3

LEMMA LastHourHasWindow == \A a : Window(a, "last_hour") # Off
<1> SUFFICES ASSUME NEW a PROVE Window(a, "last_hour") # Off
  OBVIOUS
<1>1. Window(a, "last_hour") = Between("hourAgo", "now")
  BY DEF Window
<1>2. QED
  BY <1>1 DEF Between, Off

LEMMA NoTestNoWindow ==
  \A pill \in Pills \ {"last_hour"} : Window(NoTest, pill) = Off
BY DEF Window, Pills

\* The default has a window.
LEMMA DefaultHasWindow ==
  ASSUME NEW a, Holds(a)
  PROVE  /\ DefaultSelection(a) \in Selections
         /\ DefaultSelection(a) \in Pills => Window(a, DefaultSelection(a)) # Off
<1>1. CASE a = NoTest
  BY <1>1 DEF DefaultSelection, Selections, Pills
<1>2. CASE a # NoTest
  <2>1. a[2].status \in ActiveStatuses /\ StatusStamps(a[2]) /\ a[2] \in Rows
    BY <1>2 DEF Holds
  <2>2. PICK r \in Rows : r = a[2] /\ r.status \in ActiveStatuses /\ StatusStamps(r)
    BY <2>1
  <2>3. CASE r.status = "connected"
    <3>1. DefaultSelection(a) = "last_hour"
      BY <1>2, <2>2, <2>3 DEF DefaultSelection
    <3>2. QED
      BY <3>1, LastHourHasWindow DEF Selections, Pills
  <2>4. CASE r.status = "stabilizing"
    <3>1. DefaultSelection(a) = "stabilization"
      BY <1>2, <2>2, <2>4 DEF DefaultSelection
    <3>2. Window(a, "stabilization") = StabilizationWindow(r)
      BY <1>2, <2>2 DEF Window
    <3>3. StabilizationWindow(r) # Off
      BY <2>2, <2>4 DEF StabilizationWindow, StatusStamps, Between, Off
    <3>4. QED
      BY <3>1, <3>2, <3>3 DEF Selections, Pills
  <2>5. CASE r.status = "measuring"
    <3>1. DefaultSelection(a) = "official_window"
      BY <1>2, <2>2, <2>5 DEF DefaultSelection
    <3>2. Window(a, "official_window") = OfficialWindow(r)
      BY <1>2, <2>2 DEF Window
    <3>3. OfficialWindow(r) # Off
      BY <2>2, <2>5 DEF OfficialWindow, StatusStamps, Between, Off
    <3>4. QED
      BY <3>1, <3>2, <3>3 DEF Selections, Pills
  <2>6. QED
    BY <2>2, <2>3, <2>4, <2>5 DEF ActiveStatuses
<1>3. QED
  BY <1>1, <1>2

\* A window that was there stays while the test is in the same phase.
LEMMA WindowStays ==
  ASSUME NEW a, NEW b, Holds(a), Holds(b), Identity(a) = Identity(b),
         a # NoTest /\ b # NoTest /\ a[1] = b[1] => KeepsStamps(a[2], b[2]),
         NEW pill \in Pills, Window(a, pill) # Off
  PROVE  Window(b, pill) # Off
<1>1. CASE pill = "last_hour"
  BY <1>1, LastHourHasWindow
<1>2. CASE pill # "last_hour"
  <2>1. a # NoTest
    BY <1>2, NoTestNoWindow
  <2>2. b # NoTest
    BY <2>1 DEF Identity, NoTest
  <2>3. a[1] = b[1] /\ a[2].status = b[2].status
    BY <2>1, <2>2 DEF Identity
  <2>4. /\ a[2] \in Rows /\ b[2] \in Rows /\ a[2].status \in ActiveStatuses
        /\ KeepsStamps(a[2], b[2])
    BY <2>1, <2>2, <2>3 DEF Holds
  <2>5. PICK r \in Rows, s \in Rows :
          /\ r = a[2] /\ s = b[2]
          /\ r.status = s.status /\ r.status \in ActiveStatuses /\ KeepsStamps(r, s)
    BY <2>3, <2>4
  <2>6. CASE pill = "stabilization"
    <3>1. Window(a, pill) = StabilizationWindow(r) /\ Window(b, pill) = StabilizationWindow(s)
      BY <2>1, <2>2, <2>5, <2>6 DEF Window
    <3>2. QED
      BY <2>5, <3>1 DEF StabilizationWindow, KeepsStamps, Between, Off
  <2>7. CASE pill = "official_window"
    <3>1. Window(a, pill) = OfficialWindow(r) /\ Window(b, pill) = OfficialWindow(s)
      BY <2>1, <2>2, <2>5, <2>7 DEF Window
    <3>2. s.officialStartedAt # NullTime
      BY <2>5, <3>1 DEF OfficialWindow, KeepsStamps
    <3>3. OfficialWindow(s) = Between("officialStartedAt", "now")
      BY <2>5, <3>2 DEF OfficialWindow, ActiveStatuses
    <3>4. QED
      BY <3>1, <3>3 DEF Between, Off
  <2>8. CASE pill = "full_test"
    <3>1. Window(a, pill) = FullTestWindow(r) /\ Window(b, pill) = FullTestWindow(s)
      BY <2>1, <2>2, <2>5, <2>8 DEF Window
    <3>2. s.connectedAt # NullTime \/ s.stabilizationStartedAt # NullTime
      BY <2>5, <3>1 DEF FullTestWindow, KeepsStamps
    <3>3. FullTestWindow(s).from # "none"
      BY <3>2 DEF FullTestWindow, Between
    <3>4. QED
      BY <3>1, <3>3 DEF Off
  <2>9. QED
    BY <1>2, <2>6, <2>7, <2>8 DEF Pills
<1>3. QED
  BY <1>1, <1>2

LEMMA InitDrawerInv == DrawerInit => DrawerInv
<1> SUFFICES ASSUME DrawerInit PROVE DrawerInv
  OBVIOUS
<1>1. TypeOK /\ \A t \in Tests : StatusStamps(row[t])
  <2>1. CASE Init
    BY <2>1, InitTypeOK, BlankStamps DEF Init
  <2>2. CASE MockInit
    <3>1. op \in [Operators -> Ops]
      BY <2>2 DEF MockInit, Ops, Idle
    <3>2. QED
      BY <2>2, <3>1, DrawerAssumption DEF MockInit, TypeOK, FollowsLifecycle
  <2>3. QED
    BY <2>1, <2>2 DEF DrawerInit
<1>2. cache = NoTest /\ answer = NoTest /\ fetch = "idle" /\ selection = "diagnostic" /\ ~open
  BY DEF DrawerInit
<1>3. NoTest \in Answers
  BY DEF Answers
<1>4. DrawerTypeOK
  BY <1>1, <1>2, <1>3 DEF DrawerInit, DrawerTypeOK, Selections
<1>5. SelectionHasWindow
  BY <1>2 DEF SelectionHasWindow, Pills
<1>6. QED
  BY <1>1, <1>2, <1>4, <1>5 DEF DrawerInv, Holds

\* The tables move and the drawer does not.
LEMMA TableKeepsDrawerInv ==
  ASSUME DrawerInv, TypeOK', TableMoves, UNCHANGED <<source, drawer>>
  PROVE  DrawerInv'
<1>1. UNCHANGED <<source, open, cache, fetch, answer, selection>>
  BY DEF drawer
<1>2. Holds(cache)' /\ Holds(answer)'
  <2>1. Holds(cache) /\ Holds(answer)
    BY DEF DrawerInv
  <2>2. QED
    BY <1>1, <2>1, HoldsOn DEF Holds
<1>3. \A t \in Tests : StatusStamps(row'[t])
  BY DEF TableMoves
<1>4. SelectionHasWindow'
  BY <1>1 DEF DrawerInv, SelectionHasWindow
<1>5. DrawerTypeOK'
  BY <1>1 DEF DrawerInv, DrawerTypeOK
<1>6. QED
  BY <1>1, <1>2, <1>3, <1>4, <1>5 DEF DrawerInv

\* The tables stand still.
LEMMA StillTables ==
  ASSUME DrawerInv, UNCHANGED vars
  PROVE  /\ TypeOK' /\ \A t \in Tests : StatusStamps(row'[t])
         /\ \A a : Holds(a) /\ a # NoTest =>
              /\ a[1] \in Tests /\ a[2] \in Rows
              /\ a[2].status \in ActiveStatuses /\ StatusStamps(a[2])
              /\ row'[a[1]].status # "absent"
              /\ KeepsStamps(a[2], row'[a[1]])
BY DEF DrawerInv, DrawerTypeOK, TypeOK, vars, Holds

LEMMA NextDrawerInv == DrawerInv /\ [DrawerNext]_drawerVars => DrawerInv'
<1> SUFFICES ASSUME DrawerInv, [DrawerNext]_drawerVars PROVE DrawerInv'
  OBVIOUS
<1>0. TypeOK /\ \A t \in Tests : StatusStamps(row[t])
  BY DEF DrawerInv, DrawerTypeOK
<1>1. CASE Serve
  <2>1. [Next]_vars /\ UNCHANGED <<source, drawer>>
    BY <1>1 DEF Serve
  <2>2. TypeOK' /\ TableMoves
    BY <1>0, <2>1, ServiceMoves
  <2>3. QED
    BY <2>1, <2>2, TableKeepsDrawerInv
<1>2. ASSUME NEW t \in Tests, NEW j \in Jobs, MockCreate(t, j) PROVE DrawerInv'
  BY <1>0, <1>2, CreateMoves, TableKeepsDrawerInv DEF MockCreate
<1>3. ASSUME NEW t \in Tests, NEW kind \in Kinds, NEW now \in Times, MockTransition(t, kind, now)
      PROVE DrawerInv'
  <2>1. UNCHANGED <<source, drawer>>
    BY <1>3 DEF MockTransition
  <2>2. QED
    BY <1>0, <1>3, <2>1, MockMoves, TableKeepsDrawerInv
<1>4. CASE Open
  <2>1. /\ UNCHANGED <<vars, source, cache, answer>>
        /\ fetch' \in {"idle", "asked"} /\ open'
        /\ selection' = DefaultSelection(cache)
    BY <1>4 DEF Open
  <2>2. selection' \in Selections /\ SelectionHasWindow'
    BY <2>1, DefaultHasWindow DEF DrawerInv, SelectionHasWindow
  <2>3. DrawerTypeOK'
    BY <2>1, <2>2, StillTables, <1>4 DEF DrawerInv, DrawerTypeOK, Open
  <2>4. Holds(cache)' /\ Holds(answer)'
    BY <2>1, StillTables DEF DrawerInv, Holds
  <2>5. QED
    BY <2>1, <2>2, <2>3, <2>4, StillTables DEF DrawerInv
<1>5. CASE Close
  <2>1. /\ UNCHANGED <<vars, source, cache>> /\ selection' = "diagnostic"
        /\ answer' = NoTest /\ fetch' = "idle" /\ open' = FALSE
    BY <1>5 DEF Close
  <2>2. SelectionHasWindow' /\ selection' \in Selections
    BY <2>1 DEF SelectionHasWindow, Pills, Selections
  <2>3. DrawerTypeOK'
    BY <2>1, <2>2, StillTables DEF DrawerInv, DrawerTypeOK, Answers
  <2>4. Holds(cache)' /\ Holds(answer)'
    BY <2>1, StillTables DEF DrawerInv, Holds
  <2>5. QED
    BY <2>1, <2>2, <2>3, <2>4, StillTables DEF DrawerInv
<1>6. CASE Collect
  <2>1. /\ UNCHANGED <<vars, source, open, fetch, answer, selection>>
        /\ cache' = NoTest /\ ~open
    BY <1>6 DEF Collect
  <2>2. SelectionHasWindow'
    BY <2>1 DEF DrawerInv, SelectionHasWindow, Pills
  <2>3. DrawerTypeOK'
    BY <2>1, StillTables DEF DrawerInv, DrawerTypeOK, Answers
  <2>4. Holds(cache)' /\ Holds(answer)'
    BY <2>1, StillTables DEF DrawerInv, Holds
  <2>5. QED
    BY <2>1, <2>2, <2>3, <2>4, StillTables DEF DrawerInv
<1>7. CASE Poll
  <2>1. /\ UNCHANGED <<vars, source, open, cache, answer, selection>>
        /\ fetch' = "asked" /\ open
    BY <1>7 DEF Poll
  <2>2. SelectionHasWindow'
    BY <2>1 DEF DrawerInv, SelectionHasWindow
  <2>3. DrawerTypeOK'
    BY <2>1, StillTables DEF DrawerInv, DrawerTypeOK
  <2>4. Holds(cache)' /\ Holds(answer)'
    BY <2>1, StillTables DEF DrawerInv, Holds
  <2>5. QED
    BY <2>1, <2>2, <2>3, <2>4, StillTables DEF DrawerInv
<1>8. CASE Read
  <2>1. /\ UNCHANGED <<vars, source, open, cache, selection>>
        /\ fetch' = "read" /\ fetch = "asked"
        /\ answer' \in ActiveAnswers
    BY <1>8 DEF Read
  <2>2. /\ answer' \in Answers /\ Holds(answer')
        /\ answer' # NoTest => answer'[2] = row[answer'[1]]
    BY <1>0, <2>1, ActiveAnswersHold
  <2>3. SelectionHasWindow'
    BY <2>1 DEF DrawerInv, SelectionHasWindow
  <2>4. DrawerTypeOK'
    BY <2>1, <2>2, StillTables DEF DrawerInv, DrawerTypeOK
  <2>5. Holds(cache)' /\ Holds(answer)'
    BY <2>1, <2>2, StillTables DEF DrawerInv, Holds
  <2>6. cache' # NoTest /\ answer' # NoTest /\ cache'[1] = answer'[1]
          => KeepsStamps(cache'[2], answer'[2])
    BY <2>1, <2>2 DEF DrawerInv, Holds
  <2>7. QED
    BY <2>1, <2>3, <2>4, <2>5, <2>6, StillTables DEF DrawerInv
<1>9. CASE Arrive
  <2>1. /\ UNCHANGED <<vars, source, open>> /\ cache' = answer /\ answer' = NoTest
        /\ fetch' = "idle" /\ open
        /\ selection' = IF Identity(answer) # Identity(cache) THEN "outdated" ELSE selection
    BY <1>9 DEF Arrive, DrawerInv
  <2>2. Holds(answer) /\ Holds(cache)
    BY DEF DrawerInv
  <2>3. SelectionHasWindow'
    <3>1. CASE Identity(answer) # Identity(cache)
      BY <2>1, <3>1 DEF SelectionHasWindow, Pills
    <3>2. CASE Identity(answer) = Identity(cache)
      <4>1. selection' = selection
        BY <2>1, <3>2
      <4>2. selection \in Pills => Window(cache, selection) # Off
        BY DEF DrawerInv, SelectionHasWindow
      <4>3. cache # NoTest /\ answer # NoTest /\ cache[1] = answer[1]
              => KeepsStamps(cache[2], answer[2])
        BY DEF DrawerInv
      <4>4. selection \in Pills => Window(answer, selection) # Off
        BY <2>2, <3>2, <4>2, <4>3, WindowStays
      <4>5. QED
        BY <2>1, <4>1, <4>4 DEF SelectionHasWindow
    <3>3. QED
      BY <3>1, <3>2
  <2>4. DrawerTypeOK'
    BY <2>1, StillTables DEF DrawerInv, DrawerTypeOK, Answers
  <2>5. Holds(cache)' /\ Holds(answer)'
    BY <2>1, <2>2, StillTables DEF Holds
  <2>6. QED
    BY <2>1, <2>3, <2>4, <2>5, StillTables DEF DrawerInv
<1>10. CASE GiveUp
  <2>1. /\ UNCHANGED <<vars, source, open, cache, selection>>
        /\ fetch' = "idle" /\ answer' = NoTest
    BY <1>10 DEF GiveUp
  <2>2. SelectionHasWindow'
    BY <2>1 DEF DrawerInv, SelectionHasWindow
  <2>3. DrawerTypeOK'
    BY <2>1, StillTables DEF DrawerInv, DrawerTypeOK, Answers
  <2>4. Holds(cache)' /\ Holds(answer)'
    BY <2>1, StillTables DEF DrawerInv, Holds
  <2>5. QED
    BY <2>1, <2>2, <2>3, <2>4, StillTables DEF DrawerInv
<1>11. ASSUME NEW choice \in Selections, Pick(choice) PROVE DrawerInv'
  <2>1. /\ UNCHANGED <<vars, source, open, cache, fetch, answer>>
        /\ selection' = choice /\ open
        /\ choice \in Pills => Window(cache, choice) # Off
    BY <1>11 DEF Pick
  <2>2. SelectionHasWindow'
    BY <2>1 DEF SelectionHasWindow
  <2>3. DrawerTypeOK'
    BY <2>1, StillTables DEF DrawerInv, DrawerTypeOK
  <2>4. Holds(cache)' /\ Holds(answer)'
    BY <2>1, StillTables DEF DrawerInv, Holds
  <2>5. QED
    BY <2>1, <2>2, <2>3, <2>4, StillTables DEF DrawerInv
<1>12. CASE Resync
  <2>1. /\ UNCHANGED <<vars, source, open, cache, fetch, answer>> /\ open
        /\ selection' = DefaultSelection(cache)
    BY <1>12 DEF Resync, DrawerInv
  <2>2. selection' \in Selections /\ SelectionHasWindow'
    BY <2>1, DefaultHasWindow DEF DrawerInv, SelectionHasWindow
  <2>3. DrawerTypeOK'
    BY <2>1, <2>2, StillTables DEF DrawerInv, DrawerTypeOK
  <2>4. Holds(cache)' /\ Holds(answer)'
    BY <2>1, StillTables DEF DrawerInv, Holds
  <2>5. QED
    BY <2>1, <2>2, <2>3, <2>4, StillTables DEF DrawerInv
<1>13. CASE UNCHANGED drawerVars
  <2>1. UNCHANGED <<vars, source, drawer>>
    BY <1>13 DEF drawerVars
  <2>2. TypeOK' /\ TableMoves
    BY <1>0, <2>1, ServiceMoves
  <2>3. QED
    BY <2>1, <2>2, TableKeepsDrawerInv
<1>14. QED
  BY <1>1, <1>2, <1>3, <1>4, <1>5, <1>6, <1>7, <1>8, <1>9, <1>10, <1>11, <1>12, <1>13
  DEF DrawerNext

\* Whatever is done to the tests under it, by any operators at once, on the
\* service or the mock store, whatever becomes of its polls and whatever is
\* clicked, the drawer has no pill selected without a window once the effect of
\* its last drawing has run.
THEOREM DrawerSelectionHasWindow == DrawerSpec => []SelectionHasWindow
<1>1. DrawerInv => SelectionHasWindow
  BY DEF DrawerInv
<1>2. QED
  BY <1>1, InitDrawerInv, NextDrawerInv, PTL DEF DrawerSpec

----------------------------------------------------------------------------
\* How far an open drawer is from showing the unit's active test: an answer
\* that the table has overtaken has to arrive before the next poll can help.
Overtaken == fetch = "read" /\ answer \notin ActiveAnswers

DrawerLag ==
  IF Overtaken THEN 4
  ELSE IF cache \in ActiveAnswers THEN 0
  ELSE IF fetch = "idle" THEN 3
  ELSE IF fetch = "asked" THEN 2
  ELSE 1

ComesNearer ==
  open /\ open' =>
    /\ DrawerLag' > DrawerLag => row' # row \/ GiveUp
    /\ Poll \/ Read \/ Arrive => DrawerLag' < DrawerLag \/ DrawerLag' = 0

\* The answers are a matter of the rows alone.
LEMMA SameAnswers ==
  ASSUME row' = row
  PROVE  ActiveAnswers' = ActiveAnswers
BY DEF ActiveAnswers, UnitOf, Active

LEMMA LagMoves ==
  ASSUME DrawerTypeOK, [DrawerNext]_drawerVars
  PROVE  ComesNearer
<1> USE DEF DrawerLag, Overtaken
<1>1. DrawerLag \in 0 .. 4
  OBVIOUS
<1>2. CASE Poll
  BY <1>2, SameAnswers DEF Poll, vars, ComesNearer
<1>3. CASE Read
  BY <1>3, SameAnswers DEF Read, vars, ComesNearer
<1>4. CASE Arrive
  BY <1>4, SameAnswers DEF Arrive, vars, ComesNearer
<1>5. CASE ~(Poll \/ Read \/ Arrive)
  <2>1. CASE row' # row \/ GiveUp
    BY <1>5, <2>1 DEF ComesNearer
  <2>2. CASE row' = row /\ ~GiveUp
    <3>1. open /\ open' => UNCHANGED <<cache, fetch, answer>>
      BY <1>5, <2>2
      DEF DrawerNext, drawerVars, drawer, Serve, MockCreate, MockTransition, Open, Close, Collect,
          Resync, Pick
    <3>2. open /\ open' => DrawerLag' = DrawerLag
      BY <2>2, <3>1, SameAnswers
    <3>3. QED
      BY <1>1, <1>5, <3>2 DEF ComesNearer
  <2>3. QED
    BY <2>1, <2>2
<1>6. QED
  BY <1>2, <1>3, <1>4, <1>5

\* However many operators work on the tests, and on the mock store, an open
\* drawer falls further behind the unit's active test only when a row is written
\* or a poll given up, and every step of a poll brings it nearer, the arrival of an
\* answer long outdated included.  With the fairness of the polls this is why the
\* drawer catches up.
THEOREM DrawerComesNearer == DrawerSpec => [][ComesNearer]_drawerVars
<1>1. DrawerInv /\ [DrawerNext]_drawerVars => ComesNearer
  BY LagMoves DEF DrawerInv
<1>2. QED
  BY <1>1, InitDrawerInv, NextDrawerInv, PTL DEF DrawerSpec

----------------------------------------------------------------------------
\* With one operator at a time the rows follow the lifecycle in both tables,
\* and on the service their stamps are in order.
Serial == \A o1, o2 \in Operators : o1 = o2

Shown(r) == FollowsLifecycle(r) /\ (source = "api" => StampOrder(r))

SerialInv ==
  /\ DrawerInv
  /\ ReadsHold /\ NothingRaced /\ OneActivePerUnit
  /\ source = "mock" => op = [o \in Operators |-> Idle]
  /\ \A t \in Tests : Shown(row[t])
  /\ cache # NoTest => Shown(cache[2])
  /\ answer # NoTest => Shown(answer[2])

LEMMA PatchedFollows ==
  ASSUME NEW r \in Rows, NEW kind \in Kinds, NEW now \in Times,
         FollowsLifecycle(r), r.status \in AllowedFrom(kind)
  PROVE  FollowsLifecycle(Patched(r, kind, now))
<1>0. now # NullTime
  BY DEF Times, NullTime
<1>00. StatusStamps(Patched(r, kind, now))
  BY PatchedStamps DEF FollowsLifecycle
<1> USE <1>0, <1>00 DEF Patched, Rows, AllowedFrom, FollowsLifecycle, StatusStamps, NonFinalStatuses
<1>1. CASE kind = "connect"
  BY <1>1
<1>2. CASE kind = "start_stabilization"
  BY <1>2
<1>3. CASE kind = "start_official"
  BY <1>3
<1>4. CASE kind = "end_official"
  BY <1>4
<1>5. CASE kind = "abort"
  BY <1>5
<1>6. CASE kind = "close"
  BY <1>6
<1>7. QED
  BY <1>1, <1>2, <1>3, <1>4, <1>5, <1>6 DEF Kinds

LEMMA BlankFollows ==
  ASSUME NEW j \in Jobs
  PROVE  /\ FollowsLifecycle(BlankRow(j)) /\ StampOrder(BlankRow(j))
         /\ FollowsLifecycle([BlankRow(j) EXCEPT !.status = "scheduled"])
         /\ StampOrder([BlankRow(j) EXCEPT !.status = "scheduled"])
BY DEF BlankRow, FollowsLifecycle, StatusStamps, StampOrder, NotEarlier

\* A step of a table replaces one row: by a planned test's, or by what a
\* transition makes of a row it is allowed from, on a unit that is free.
Takes(t, kind, new) ==
  /\ row[t].status \in AllowedFrom(kind)
  /\ kind = "connect" => Free(row, t)
  /\ new.status = Target(kind) /\ new.job = row[t].job

SerialStep ==
  \/ row' = row
  \/ \E t \in Tests, new \in Rows :
       /\ row' = [row EXCEPT ![t] = new]
       /\ Shown(new)
       /\ \/ row[t].status = "absent" /\ new.status = "scheduled"
          \/ \E kind \in Kinds : Takes(t, kind, new)

LEMMA CreateSteps ==
  ASSUME NEW t \in Tests, NEW j \in Jobs, Create(t, j)
  PROVE  SerialStep
<1>1. PICK new \in Rows :
        /\ new = [BlankRow(j) EXCEPT !.status = "scheduled"]
        /\ FollowsLifecycle(new) /\ StampOrder(new) /\ new.status = "scheduled"
  BY BlankRowType, BlankFollows DEF BlankRow
<1>2. row' = [row EXCEPT ![t] = new] /\ row[t].status = "absent"
  BY <1>1 DEF Create
<1>3. QED
  BY <1>1, <1>2 DEF SerialStep, Shown

LEMMA PatchSteps ==
  ASSUME TypeOK, NEW t \in Tests, NEW kind \in Kinds, NEW now \in Times,
         Shown(row[t]), row[t].status \in AllowedFrom(kind), kind = "connect" => Free(row, t),
         source = "api" => StampOrder(Patched(row[t], kind, now)),
         row' = [row EXCEPT ![t] = Patched(row[t], kind, now)]
  PROVE  SerialStep
<1>1. row[t] \in Rows /\ FollowsLifecycle(row[t])
  BY DEF TypeOK, Shown
<1>2. PICK new \in Rows :
        /\ new = Patched(row[t], kind, now) /\ FollowsLifecycle(new)
        /\ new.status = Target(kind) /\ new.job = row[t].job
  BY <1>1, PatchedFollows, PatchedFacts
<1>3. Shown(new) /\ Takes(t, kind, new)
  BY <1>2 DEF Shown, Takes
<1>4. QED
  BY <1>2, <1>3 DEF SerialStep

LEMMA ServiceSteps ==
  ASSUME TypeOK, ReadsHold, NothingRaced, \A t \in Tests : Shown(row[t]), [Next]_vars
  PROVE  SerialStep
<1>1. ASSUME NEW t \in Tests, NEW j \in Jobs, Create(t, j) PROVE SerialStep
  BY <1>1, CreateSteps
<1>2. ASSUME NEW o \in Operators, NEW now \in Times, Write(o, now) PROVE SerialStep
  <2>1. PICK t \in Tests, kind \in Kinds : t = op[o].test /\ kind = op[o].kind
    BY <1>2, WriteFacts
  <2>2. op[o].pc = "write" /\ ~raced[o]
    BY <1>2 DEF Write, NothingRaced
  <2>3. row[t].status \in AllowedFrom(kind) /\ (kind = "connect" => Free(row, t))
    BY <2>1, <2>2 DEF ReadsHold
  <2>4. /\ row' = [row EXCEPT ![t] = Patched(row[t], kind, now)]
        /\ StampOrder(Patched(row[t], kind, now))
    BY <1>2, <2>1 DEF Write, TableChecks
  <2>5. QED
    BY <2>3, <2>4, PatchSteps
<1>3. ASSUME row' = row PROVE SerialStep
  BY <1>3 DEF SerialStep
<1>4. QED
  BY <1>1, <1>2, <1>3 DEF Next, Load, PassGuard, RefuseConnect, RejectWrite, Fail, vars

LEMMA MockSteps ==
  ASSUME SerialInv, NEW t \in Tests, NEW kind \in Kinds, NEW now \in Times,
         MockTransition(t, kind, now)
  PROVE  SerialStep
<1>1. TypeOK /\ Shown(row[t])
  BY DEF SerialInv, DrawerInv, DrawerTypeOK
<1>2. /\ row[t].status \in AllowedFrom(kind) /\ source = "mock"
      /\ kind = "connect" => ~OtherActive(t)
      /\ row' = [row EXCEPT ![t] = Patched(row[t], kind, now)]
  BY DEF MockTransition
<1>3. kind = "connect" => Free(row, t)
  BY <1>2 DEF OtherActive, Active, SameUnit, UnitOf, Free
<1>4. QED
  BY <1>1, <1>2, <1>3, PatchSteps

\* What such a step keeps.
LEMMA StepKeeps ==
  ASSUME TypeOK, OneActivePerUnit, \A t \in Tests : Shown(row[t]), source' = source, SerialStep
  PROVE  OneActivePerUnit' /\ \A t \in Tests : Shown(row[t])'
<1>1. CASE row' = row
  BY <1>1 DEF OneActivePerUnit, SameUnit, UnitOf, Active, Shown
<1>2. ASSUME NEW t \in Tests, NEW new \in Rows, row' = [row EXCEPT ![t] = new], Shown(new),
             \/ row[t].status = "absent" /\ new.status = "scheduled"
             \/ \E kind \in Kinds : Takes(t, kind, new)
      PROVE  OneActivePerUnit' /\ \A s \in Tests : Shown(row[s])'
  <2>1. row'[t] = new /\ \A s \in Tests \ {t} : row'[s] = row[s]
    BY <1>2 DEF TypeOK
  <2>2. \A s \in Tests : Shown(row[s])'
    BY <1>2, <2>1 DEF Shown
  <2>3. new.status \in ActiveStatuses =>
          /\ new.job = row[t].job
          /\ Free(row, t) \/ row[t].status \in ActiveStatuses
    <3>1. ASSUME NEW kind \in Kinds, Takes(t, kind, new), new.status \in ActiveStatuses
          PROVE  Free(row, t) \/ row[t].status \in ActiveStatuses
      BY <3>1, TransitionFacts DEF Takes
    <3>2. QED
      BY <1>2, <3>1 DEF Takes, ActiveStatuses
  <2>4. OneActivePerUnit'
    BY <2>1, <2>3 DEF OneActivePerUnit, Active, SameUnit, UnitOf, Free
  <2>5. QED
    BY <2>2, <2>4
<1>3. QED
  BY <1>1, <1>2 DEF SerialStep

LEMMA InitSerialInv == DrawerInit => SerialInv
<1> SUFFICES ASSUME DrawerInit PROVE SerialInv
  OBVIOUS
<1>1. DrawerInv /\ cache = NoTest /\ answer = NoTest
  BY InitDrawerInv DEF DrawerInit
<1>2. NothingRaced /\ op = [o \in Operators |-> Idle]
  BY DEF DrawerInit, Init, MockInit, NothingRaced
<1>3. ReadsHold
  BY <1>2 DEF ReadsHold, Idle
<1>4. OneActivePerUnit /\ \A t \in Tests : Shown(row[t])
  <2>1. CASE Init
    <3>1. \A t \in Tests : row[t].status = "absent" /\ \E j \in Jobs : row[t] = BlankRow(j)
      BY <2>1 DEF Init, BlankRow
    <3>2. OneActivePerUnit
      BY <3>1 DEF OneActivePerUnit, Active, ActiveStatuses
    <3>3. QED
      BY <3>1, <3>2, BlankFollows DEF Shown
  <2>2. CASE source = "mock" /\ MockInit
    <3>1. row = Fixture /\ source # "api"
      BY <2>2 DEF MockInit
    <3>2. QED
      BY <3>1, DrawerAssumption DEF OneActivePerUnit, Active, SameUnit, UnitOf, Shown
  <2>3. QED
    BY <2>1, <2>2 DEF DrawerInit
<1>5. QED
  BY <1>1, <1>2, <1>3, <1>4 DEF SerialInv

LEMMA NextSerialStep ==
  ASSUME SerialInv, [DrawerNext]_drawerVars
  PROVE  SerialStep /\ source' = source
<1>0. TypeOK /\ ReadsHold /\ NothingRaced /\ \A t \in Tests : Shown(row[t])
  BY DEF SerialInv, DrawerInv, DrawerTypeOK
<1>1. CASE Serve
  BY <1>0, <1>1, ServiceSteps DEF Serve
<1>2. ASSUME NEW t \in Tests, NEW j \in Jobs, MockCreate(t, j) PROVE SerialStep /\ source' = source
  BY <1>2, CreateSteps DEF MockCreate
<1>3. ASSUME NEW t \in Tests, NEW kind \in Kinds, NEW now \in Times, MockTransition(t, kind, now)
      PROVE  SerialStep /\ source' = source
  BY <1>3, MockSteps DEF MockTransition
<1>4. ASSUME UNCHANGED <<vars, source>> PROVE SerialStep /\ source' = source
  BY <1>4 DEF SerialStep, vars
<1>5. QED
  BY <1>1, <1>2, <1>3, <1>4
  DEF DrawerNext, Open, Close, Collect, Poll, Read, Arrive, Resync, GiveUp, Pick,
      drawerVars

LEMMA NextSerialInv ==
  ASSUME Serial, SerialInv, [DrawerNext]_drawerVars
  PROVE  SerialInv'
<1>0. TypeOK /\ DrawerInv /\ ReadsHold /\ NothingRaced
  BY DEF SerialInv, DrawerInv, DrawerTypeOK
<1>1. DrawerInv'
  BY <1>0, NextDrawerInv
<1>2. source' = source /\ OneActivePerUnit' /\ \A t \in Tests : Shown(row[t])'
  BY <1>0, NextSerialStep, StepKeeps DEF SerialInv
<1>3. /\ ReadsHold' /\ NothingRaced'
      /\ source' = "mock" => op' = [o \in Operators |-> Idle]
  <2>1. CASE Serve
    BY <1>0, <2>1, NextReadsHold, NextNothingRaced DEF Serve, Serial
  <2>2. CASE source = "mock" /\ UNCHANGED <<op, raced, tainted>>
    BY <1>0, <1>2, <2>2 DEF SerialInv, ReadsHold, NothingRaced, Idle
  <2>3. CASE UNCHANGED <<vars, source>>
    BY <1>0, <2>3 DEF SerialInv, vars, ReadsHold, NothingRaced, Free
  <2>4. QED
    BY <2>1, <2>2, <2>3
    DEF DrawerNext, MockCreate, Create, MockTransition, Open, Close, Collect, Poll, Read, Arrive,
        Resync, GiveUp, Pick, drawerVars
<1>4. \A a \in {cache', answer'} :
        \/ a = NoTest \/ a = cache \/ a = answer
        \/ \E t \in Tests : a = <<t, row[t]>>
  <2>1. CASE Read
    BY <2>1 DEF Read, ActiveAnswers
  <2>2. QED
    BY <2>1
    DEF DrawerNext, Serve, MockCreate, MockTransition, Open, Close, Collect, Poll, Arrive, Resync,
        GiveUp, Pick, drawer, drawerVars
<1>5. \A a \in {cache', answer'} : a # NoTest => Shown(a[2])
  BY <1>4 DEF SerialInv
<1>6. \A a \in {cache', answer'} : a # NoTest => Shown(a[2])'
  BY <1>2, <1>5 DEF Shown
<1>7. QED
  BY <1>1, <1>2, <1>3, <1>6 DEF SerialInv

\* Such a row is shown with sound windows.
LEMMA ShownSound ==
  ASSUME NEW r \in Rows, Shown(r), r.status # "absent"
  PROVE  SoundWindows(r)
<1> DEFINE stabilization == StabilizationWindow(r)
           official == OfficialWindow(r)
           full == FullTestWindow(r)
<1>0. FollowsLifecycle(r) /\ StatusStamps(r)
  BY DEF Shown, FollowsLifecycle
<1>1. r.officialStartedAt # NullTime =>
        /\ stabilization = Between("stabilizationStartedAt", "stabilizationEndedAt")
        /\ r.stabilizationEndedAt = r.officialStartedAt
  BY <1>0 DEF FollowsLifecycle, StabilizationWindow
<1>2. r.officialStartedAt = NullTime => official = Off
  BY DEF OfficialWindow
<1>3. /\ r.status = "measuring" => official = Between("officialStartedAt", "now")
      /\ r.status \in {"completed", "closed"} =>
           official = Between("officialStartedAt", "officialEndedAt")
      /\ r.status = "aborted" /\ r.officialStartedAt # NullTime =>
           official = Between("officialStartedAt", "abortedAt")
  BY <1>0 DEF OfficialWindow, StatusStamps
<1>4. r.status \in {"scheduled", "connected", "stabilizing"} => official = Off
  BY <1>0, <1>2 DEF FollowsLifecycle
<1>5. r.status \in {"scheduled", "connected", "stabilizing", "measuring", "completed", "closed",
                    "aborted"}
  BY DEF Rows, Statuses
<1>6. /\ Off.from = "none" /\ Off.to = "none"
      /\ \A f, g : Between(f, g).from = f /\ Between(f, g).to = g
  BY DEF Off, Between
<1>7. official # Off => /\ stabilization.to \in Recorded
                        /\ r[stabilization.to] = r[official.from]
  <2> SUFFICES ASSUME official # Off
               PROVE  stabilization.to \in Recorded /\ r[stabilization.to] = r[official.from]
    OBVIOUS
  <2>1. r.officialStartedAt # NullTime
    BY <1>2
  <2>2. official.from = "officialStartedAt"
    BY <1>3, <1>4, <1>5, <1>6, <2>1
  <2>3. stabilization.to = "stabilizationEndedAt"
    BY <1>1, <1>6, <2>1
  <2>4. QED
    BY <1>1, <2>1, <2>2, <2>3 DEF Recorded
<1>8. official = Off <=> \/ r.status \in {"scheduled", "connected", "stabilizing"}
                         \/ r.status = "aborted" /\ r.officialStartedAt = NullTime
  BY <1>2, <1>3, <1>4, <1>5, <1>6
<1>9. official.to = "now" <=> r.status = "measuring"
  BY <1>2, <1>3, <1>4, <1>5, <1>6
<1>10. ASSUME source = "api"
       PROVE  /\ Upright(r, stabilization) /\ Upright(r, official) /\ Upright(r, full)
              /\ stabilization # Off => r[full.from] <= r[stabilization.from]
  <2>1. StampOrder(r)
    BY <1>10 DEF Shown
  <2>0. /\ r.connectedAt \in Nat /\ r.stabilizationStartedAt \in Nat
        /\ r.officialStartedAt \in Nat /\ r.officialEndedAt \in Nat
        /\ r.stabilizationEndedAt = r.officialStartedAt
    BY <1>0, ConstantsAssumption DEF Rows, Stamps, Times, NullTime, FollowsLifecycle
  <2>2. /\ r.officialStartedAt # NullTime =>
             /\ r.connectedAt <= r.stabilizationStartedAt
             /\ r.stabilizationStartedAt <= r.officialStartedAt
             /\ r.connectedAt # NullTime /\ r.stabilizationStartedAt # NullTime
        /\ r.officialEndedAt # NullTime =>
             r.officialStartedAt # NullTime /\ r.officialStartedAt <= r.officialEndedAt
        /\ r.connectedAt # NullTime /\ r.stabilizationStartedAt # NullTime =>
             r.connectedAt <= r.stabilizationStartedAt
    BY <1>0, <2>0, <2>1 DEF StampOrder, NotEarlier, FollowsLifecycle
  <2>3. Upright(r, stabilization)
    <3>1. CASE r.officialStartedAt # NullTime
      BY <1>1, <1>6, <2>0, <2>2, <3>1 DEF Upright
    <3>2. CASE r.officialStartedAt = NullTime
      <4>1. stabilization.to \in {"none", "now"}
        BY <1>6, <2>0, <3>2 DEF StabilizationWindow
      <4>2. QED
        BY <4>1 DEF Upright, Recorded
    <3>3. QED
      BY <3>1, <3>2
  <2>4. Upright(r, official)
    <3>1. \/ official.to \in {"none", "now", "abortedAt"}
          \/ official = Between("officialStartedAt", "officialEndedAt")
      BY <1>2, <1>3, <1>4, <1>5, <1>6
    <3>2. r.status \in {"completed", "closed"} => r.officialStartedAt <= r.officialEndedAt
      BY <1>0, <2>2 DEF StatusStamps
    <3>3. r.status \notin {"completed", "closed"} => official.to \in {"none", "now", "abortedAt"}
      BY <1>2, <1>3, <1>4, <1>5, <1>6
    <3>4. QED
      BY <1>3, <1>6, <3>2, <3>3 DEF Upright, Recorded
  <2>5. Upright(r, full)
    <3>1. CASE full = Off
      BY <1>6, <3>1 DEF Upright, Recorded
    <3>2. CASE r.officialEndedAt = NullTime /\ full # Off
      <4>1. full.to \in {"now", "disconnectedAt"}
        BY <1>6, <3>2 DEF FullTestWindow
      <4>2. QED
        BY <4>1 DEF Upright, Recorded
    <3>3. CASE r.officialEndedAt # NullTime
      <4>1. full.from = "connectedAt" /\ full.to \in {"disconnectedAt", "officialEndedAt"}
        BY <1>6, <2>2, <3>3 DEF FullTestWindow
      <4>2. r.connectedAt <= r.officialEndedAt
        BY <2>0, <2>2, <3>3
      <4>3. QED
        BY <4>1, <4>2 DEF Upright, Recorded
    <3>4. QED
      BY <3>1, <3>2, <3>3
  <2>6. stabilization # Off => r[full.from] <= r[stabilization.from]
    <3> SUFFICES ASSUME stabilization # Off PROVE r[full.from] <= r[stabilization.from]
      OBVIOUS
    <3>1. r.stabilizationStartedAt # NullTime /\ stabilization.from = "stabilizationStartedAt"
      BY <1>6 DEF StabilizationWindow
    <3>2. \/ full.from = "connectedAt" /\ r.connectedAt # NullTime
          \/ full.from = "stabilizationStartedAt"
      BY <1>6, <3>1 DEF FullTestWindow
    <3>3. QED
      BY <2>0, <2>2, <3>1, <3>2
  <2>7. QED
    BY <2>3, <2>4, <2>5, <2>6
<1> HIDE DEF stabilization, official, full
<1>11. QED
  BY <1>3, <1>7, <1>8, <1>9, <1>10 DEF SoundWindows, stabilization, official, full

\* With one operator at a time, or the mock store, every window is sound: of the
\* tests as they are and of the one the drawer still shows.
THEOREM DrawerWindowsSound ==
  ASSUME Serial
  PROVE  DrawerSpec => []WindowsSound
<1>1. SerialInv => WindowsSound
  <2> SUFFICES ASSUME SerialInv PROVE WindowsSound
    OBVIOUS
  <2>1. \A t \in Tests : row[t] \in Rows /\ Shown(row[t])
    BY DEF SerialInv, DrawerInv, DrawerTypeOK, TypeOK
  <2>2. cache # NoTest => cache[2] \in Rows /\ Shown(cache[2]) /\ cache[2].status # "absent"
    BY DEF SerialInv, DrawerInv, Holds, ActiveStatuses
  <2>3. QED
    BY <2>1, <2>2, ShownSound DEF WindowsSound
<1>2. SerialInv /\ [DrawerNext]_drawerVars => SerialInv'
  BY NextSerialInv
<1>3. QED
  BY <1>1, <1>2, InitSerialInv, PTL DEF DrawerSpec

\* And the guards of connect, the service's and the mock store's, leave a unit
\* with one active test.
THEOREM DrawerOneActivePerUnit ==
  ASSUME Serial
  PROVE  DrawerSpec => []OneActivePerUnit
<1>1. SerialInv => OneActivePerUnit
  BY DEF SerialInv
<1>2. SerialInv /\ [DrawerNext]_drawerVars => SerialInv'
  BY NextSerialInv
<1>3. QED
  BY <1>1, <1>2, InitSerialInv, PTL DEF DrawerSpec

\* Both tables implement the lifecycle of WellTestLifecycle, whose tests may
\* exist already when the page is loaded.
THEOREM DrawerImplementsLifecycle ==
  ASSUME Serial
  PROVE  DrawerSpec => ImplementsLifecycle
<1> DEFINE status == [t \in Tests |-> row[t].status]
           unitOf == [t \in Tests |-> UnitOf(t)]
<1>1. SerialInv => Lifecycle!LifecycleInit
  <2> SUFFICES ASSUME SerialInv PROVE Lifecycle!LifecycleInit
    OBVIOUS
  <2>1. \A t \in Tests : row[t] \in Rows
    BY DEF SerialInv, DrawerInv, DrawerTypeOK, TypeOK
  <2>2. \A t \in Tests : row[t].status \in {"absent", "scheduled"} \cup Lifecycle!Reachable
    BY <2>1 DEF Rows, Statuses, Lifecycle!Reachable, Lifecycle!ActiveBand
  <2>3. \A t \in Tests : UnitOf(t) \in Units
    BY <2>1, ConstantsAssumption DEF UnitOf, Rows
  <2>4. \A t1, t2 \in Tests :
          UnitOf(t1) = UnitOf(t2) /\ {row[t1].status, row[t2].status} \subseteq Lifecycle!ActiveBand
            => t1 = t2
    BY DEF SerialInv, OneActivePerUnit, SameUnit, Active, ActiveStatuses, Lifecycle!ActiveBand
  <2>5. QED
    BY <2>2, <2>3, <2>4 DEF Lifecycle!LifecycleInit
<1>2. SerialInv /\ [DrawerNext]_drawerVars => [Lifecycle!LifecycleNext]_(Lifecycle!lifecycleVars)
  <2> SUFFICES ASSUME SerialInv, [DrawerNext]_drawerVars
               PROVE  [Lifecycle!LifecycleNext]_(Lifecycle!lifecycleVars)
    OBVIOUS
  <2>0. TypeOK
    BY DEF SerialInv, DrawerInv, DrawerTypeOK
  <2>1. ASSUME row' = row PROVE UNCHANGED Lifecycle!lifecycleVars
    BY <2>1 DEF Lifecycle!lifecycleVars, UnitOf
  <2>2. ASSUME NEW t \in Tests, NEW new \in Rows, row' = [row EXCEPT ![t] = new],
               row[t].status = "absent", new.status = "scheduled"
        PROVE  Lifecycle!LifecycleNext
    <3>1. row'[t] = new /\ \A s \in Tests \ {t} : row'[s] = row[s]
      BY <2>0, <2>2 DEF TypeOK
    <3>2. PICK u \in Units : u = JobUnit[new.job]
      BY ConstantsAssumption DEF Rows
    <3>3. status' = [status EXCEPT ![t] = "scheduled"]
      <4>1. row'[t].status = "scheduled"
        BY <2>2, <3>1
      <4>2. QED
        BY <3>1, <4>1
    <3>4. unitOf' = [unitOf EXCEPT ![t] = u]
      BY <3>1, <3>2 DEF UnitOf
    <3>5. Lifecycle!Schedule(t, u)
      BY <2>2, <3>3, <3>4 DEF Lifecycle!Schedule
    <3>6. QED
      BY <3>5 DEF Lifecycle!LifecycleNext
  <2>3. ASSUME NEW t \in Tests, NEW new \in Rows, row' = [row EXCEPT ![t] = new],
               NEW kind \in Kinds, Takes(t, kind, new)
        PROVE  Lifecycle!LifecycleNext
    <3>1. row'[t] = new /\ \A s \in Tests \ {t} : row'[s] = row[s]
      BY <2>0, <2>3 DEF TypeOK
    <3>2. PICK next \in Lifecycle!Reachable : next = Target(kind)
      BY DEF Target, Kinds, Lifecycle!Reachable, Lifecycle!ActiveBand
    <3>3. <<status[t], next>> \in Lifecycle!Arrows
      BY <2>3, <3>2, TransitionFacts DEF Takes
    <3>4. next = "connected" => ~Lifecycle!Occupied(unitOf[t])
      <4> SUFFICES ASSUME next = "connected",
                          NEW s \in Tests, unitOf[s] = unitOf[t],
                          status[s] \in Lifecycle!ActiveBand
                   PROVE  FALSE
        BY DEF Lifecycle!Occupied
      <4>1. kind = "connect"
        BY <3>2 DEF Target, Kinds
      <4>2. Free(row, t) /\ row[t].status = "scheduled"
        BY <2>3, <4>1 DEF Takes, AllowedFrom
      <4>3. s # t
        BY <4>2 DEF Lifecycle!ActiveBand
      <4>4. QED
        BY <4>2, <4>3 DEF Free, UnitOf, Lifecycle!ActiveBand, ActiveStatuses
    <3>5. status' = [status EXCEPT ![t] = next]
      <4>1. row'[t].status = next
        BY <2>3, <3>1, <3>2 DEF Takes
      <4>2. QED
        BY <3>1, <4>1
    <3>6. unitOf' = unitOf
      BY <2>3, <3>1 DEF UnitOf, Takes
    <3>7. Lifecycle!Advance(t, next)
      BY <3>3, <3>4, <3>5, <3>6 DEF Lifecycle!Advance
    <3>8. QED
      BY <3>7 DEF Lifecycle!LifecycleNext
  <2>4. QED
    BY <2>1, <2>2, <2>3, NextSerialStep DEF SerialStep
<1>3. SerialInv /\ [DrawerNext]_drawerVars => SerialInv'
  BY NextSerialInv
<1>4. QED
  BY <1>1, <1>2, <1>3, InitSerialInv, PTL
  DEF DrawerSpec, ImplementsLifecycle, Lifecycle!LifecycleSpec
=============================================================================
