---------------------------- MODULE ConsoleProofs ----------------------------
(***************************************************************************)
(* The safety properties of Console for any sensors, units, profile,       *)
(* timings, thresholds, capacity and bounds.  They need each other, what   *)
(* is known of the readings on their way to the store, and what an event   *)
(* the alarm center has shown says of the readings before it.              *)
(***************************************************************************)
EXTENDS Console, ConsoleDataProofs

\* A page that is not mounted has no clock; without one the alarm center is
\* empty.
Idle ==
  /\ \A p \in Pages \ pages : clock[p] = 0
  /\ \A p \in Pages : clock[p] <= now
  /\ clock["alarms"] = 0 => events = {}

\* A frame holds one reading for each of its tags, of this tick, and no ring
\* has one as late of a tag that is still to come.
Fed ==
  /\ \A k \in Keys : /\ Filled(rings[k], Readings)
                     /\ Latest(rings[k]) # NoReading =>
                          k \in Enabled /\ Latest(rings[k]).ts <= ticked
  /\ ticked <= now
  /\ \A i \in 1 .. Len(frame) :
       /\ frame[i].reading.ts = ticked
       /\ Latest(rings[frame[i].key]) # NoReading =>
            Latest(rings[frame[i].key]).ts < ticked
       /\ \A j \in 1 .. Len(frame) : frame[i].key = frame[j].key => i = j

Sole == OnePerKey(events) /\ IsFiniteSet(events)

\* The clock of the evaluation before the next one, or an earlier time.
Floor == IF clock["alarms"] # 0 THEN clock["alarms"] ELSE now
Recalled == Told(events, closed \cup ClearedIds(events), LatestIn(rings), Floor)

IInv ==
  /\ TypeOK /\ RuntimeHonest /\ Idle /\ Fed
  /\ ScreenCurrent
  /\ Sole /\ CenterCurrent /\ AckShown /\ HistoryBounded /\ Recalled

----------------------------------------------------------------------------
\* Types

LEMMA TimesAreNat == Times \subseteq Nat /\ 0 \in Times
  BY BoundsAssumption DEF Times

LEMMA PagesFinite ==
  IsFiniteSet(Pages) /\ \A s \in SUBSET Pages : IsFiniteSet(s) /\ Cardinality(s) \in 0 .. Cardinality(Pages)
<1>1. IsFiniteSet(Pages)
  <2>1. IsFiniteSet({"operations"})
    BY FS_Singleton
  <2>2. Pages = {"operations"} \cup {"alarms"}
    BY DEF Pages
  <2> QED
    BY <2>1, <2>2, FS_AddElement
<1>2. ASSUME NEW s \in SUBSET Pages
      PROVE  IsFiniteSet(s) /\ Cardinality(s) \in 0 .. Cardinality(Pages)
  <2>1. IsFiniteSet(s) /\ Cardinality(s) <= Cardinality(Pages)
    BY <1>1, FS_Subset
  <2>2. Cardinality(s) \in Nat /\ Cardinality(Pages) \in Nat
    BY <1>1, <2>1, FS_CardinalityType
  <2> QED
    BY <2>1, <2>2
<1> QED
  BY <1>1, <1>2

LEMMA MappedFinite == IsFiniteSet(Mapped)
  BY SensorsAssumption, JobsAssumption, FS_Subset

LEMMA EmptyTyped ==
  ASSUME NEW S
  PROVE  EmptyRing \in Rings(S) /\ Latest(EmptyRing) = Undefined /\ Filled(EmptyRing, S)
<1>1. 0 \in Slots /\ 0 \in 0 .. Capacity
  BY CapacityAssumption DEF Slots
<1> QED
  BY <1>1 DEF EmptyRing, Rings, Latest, Filled

LEMMA LatestTyped ==
  ASSUME NEW S, NEW ring \in Rings(S)
  PROVE  Latest(ring) \in S \cup {Undefined}
<1>1. ring.head \in Slots /\ ring.data \in [Slots -> S \cup {Undefined}]
  BY DEF Rings
<1>2. PICK x \in Nat : x = ring.head - 1 + Capacity /\ x < 2 * Capacity
  BY <1>1, CapacityAssumption DEF Slots
<1>3. x % Capacity = IF x < Capacity THEN x ELSE x - Capacity
  BY <1>2, Wrap
<1>4. PICK y \in Slots : y = IF x < Capacity THEN x ELSE x - Capacity
  BY <1>2, CapacityAssumption DEF Slots
<1>5. (ring.head - 1 + Capacity) % Capacity = y
  BY <1>2, <1>3, <1>4
<1> QED
  BY <1>1, <1>4, <1>5 DEF Latest

LEMMA HeardTyped ==
  ASSUME NEW rs \in [Keys -> Rings(Readings)]
  PROVE  /\ \A k \in Keys : /\ Latest(rs[k]) \in Readings \cup {NoReading}
                            /\ LatestIn(rs)[k] = Latest(rs[k])
         /\ \A k \in Mapped : Dated(Times, LatestIn(rs)[k])
<1>1. \A k \in Keys : Latest(rs[k]) \in Readings \cup {NoReading}
  BY LatestTyped, UndefinedAssumption
<1>2. \A k \in Keys : LatestIn(rs)[k] = Latest(rs[k])
  BY DEF LatestIn
<1>3. \A k \in Keys : Dated(Times, Latest(rs[k]))
  BY <1>1 DEF Dated, Readings
<1> QED
  BY <1>1, <1>2, <1>3, SensorsAssumption

LEMMA TileTyped ==
  ASSUME NEW k, NEW r, NEW at
  PROVE  /\ Tile(k, r, at) \in [state : AlarmStates, status : Statuses]
         /\ Entry(k, r, at) \in [alarm : AlarmStates, stale : Statuses]
<1>1. TileState(k, r, at) \in AlarmStates /\ UnitAlarm(k, r, at) \in AlarmStates
  BY EvaluateTyped DEF TileState, UnitAlarm, AlarmStates
<1>2. TileStatus(k, r, at) \in Statuses /\ Status(k, r, at) \in Statuses
  BY StatusTyped DEF TileStatus
<1> QED
  BY <1>1, <1>2 DEF Tile, Entry

LEMMA ScreenTyped ==
  ASSUME NEW rs, NEW at
  PROVE  /\ TilesAt(rs, at) \in [Keys -> [state : AlarmStates, status : Statuses]]
         /\ UnitAt(rs, at) \in [Mapped -> [alarm : AlarmStates, stale : Statuses]]
  BY TileTyped DEF TilesAt, UnitAt

LEMMA NothingTyped ==
  /\ NoTiles \in [Keys -> [state : AlarmStates, status : Statuses]]
  /\ NoUnit \in [Mapped -> [alarm : AlarmStates, stale : Statuses]]
  BY ScreenTyped DEF NoTiles, NoUnit

----------------------------------------------------------------------------
\* The runtime

LEMMA PagesCounted ==
  ASSUME NEW s \in SUBSET Pages, NEW p \in Pages
  PROVE  /\ p \notin s => Cardinality(s \cup {p}) = Cardinality(s) + 1
         /\ p \in s => Cardinality(s \ {p}) = Cardinality(s) - 1
         /\ s \ {p} = {} /\ p \in s => Cardinality(s) = 1
         /\ s = {} <=> Cardinality(s) = 0
         /\ Cardinality(s) \in 0 .. Cardinality(Pages) /\ Cardinality(Pages) \in Nat
<1>1. IsFiniteSet(s) /\ IsFiniteSet(Pages)
  BY PagesFinite
<1>2. p \notin s => Cardinality(s \cup {p}) = Cardinality(s) + 1
  BY <1>1, FS_AddElement
<1>3. p \in s => Cardinality(s \ {p}) = Cardinality(s) - 1
  BY <1>1, FS_RemoveElement
<1>4. s \ {p} = {} /\ p \in s => Cardinality(s) = 1
  <2>1. s \ {p} = {} /\ p \in s => s = {p}
    OBVIOUS
  <2> QED
    BY <2>1, FS_Singleton
<1>5. s = {} <=> Cardinality(s) = 0
  BY <1>1, FS_EmptySet
<1> QED
  BY <1>1, <1>2, <1>3, <1>4, <1>5, PagesFinite, FS_CardinalityType

LEMMA StartKeeps ==
  ASSUME TypeOK, RuntimeHonest, NEW p \in Pages \ pages, StartTelemetry,
         pages' = pages \cup {p}
  PROVE  /\ RuntimeHonest'
         /\ refCount' \in 0 .. Cardinality(Pages)
         /\ running' \in BOOLEAN /\ wired' \in BOOLEAN
         /\ connection' \in {"connected", "disconnected"}
         /\ ticked' \in {ticked, now}
<1>1. /\ Cardinality(pages') = Cardinality(pages) + 1
      /\ Cardinality(pages') \in 0 .. Cardinality(Pages)
      /\ Cardinality(pages) \in Nat /\ pages' # {}
      /\ pages = {} <=> Cardinality(pages) = 0
  <2>1. pages \in SUBSET Pages /\ pages' \in SUBSET Pages /\ p \in Pages /\ p \notin pages
    BY DEF TypeOK
  <2> QED
    BY <2>1, PagesCounted
<1>2. CASE refCount > 0
  BY <1>1, <1>2 DEF StartTelemetry, RuntimeHonest, TypeOK
<1>3. CASE ~(refCount > 0)
  BY <1>1, <1>3 DEF StartTelemetry, RuntimeHonest, TypeOK
<1> QED
  BY <1>2, <1>3

LEMMA StopKeeps ==
  ASSUME TypeOK, RuntimeHonest, NEW p \in pages, StopTelemetry, pages' = pages \ {p}
  PROVE  /\ RuntimeHonest'
         /\ refCount' \in 0 .. Cardinality(Pages)
         /\ running' \in BOOLEAN /\ wired' \in BOOLEAN
         /\ connection' \in {"connected", "disconnected"}
<1>1. /\ Cardinality(pages') = Cardinality(pages) - 1
      /\ Cardinality(pages') \in Nat /\ Cardinality(pages') <= Cardinality(Pages)
      /\ Cardinality(pages) \in Nat /\ Cardinality(Pages) \in Nat
      /\ pages' = {} <=> Cardinality(pages') = 0
  <2>1. pages \in SUBSET Pages /\ pages' \in SUBSET Pages /\ p \in Pages
    BY DEF TypeOK
  <2>2. /\ Cardinality(pages \ {p}) = Cardinality(pages) - 1
        /\ Cardinality(pages) \in 0 .. Cardinality(Pages) /\ Cardinality(Pages) \in Nat
    BY <2>1, PagesCounted
  <2>3. /\ Cardinality(pages') \in 0 .. Cardinality(Pages)
        /\ pages' = {} <=> Cardinality(pages') = 0
    BY <2>1, PagesCounted
  <2> QED
    BY <2>2, <2>3
<1>2. CASE refCount > 1
  BY <1>1, <1>2 DEF StopTelemetry, RuntimeHonest, TypeOK
<1>3. CASE ~(refCount > 1)
  <2>1. /\ refCount' = 0 /\ running' = FALSE /\ wired' = FALSE
        /\ connection' = "disconnected"
    BY <1>3 DEF StopTelemetry
  <2>2. refCount = Cardinality(pages)
    BY DEF RuntimeHonest
  <2>3. pages' = {} /\ Cardinality(pages') = 0
    BY <1>1, <1>3, <2>2
  <2>4. RuntimeHonest'
    BY <2>1, <2>3, Zenon DEF RuntimeHonest
  <2>5. refCount' \in 0 .. Cardinality(Pages)
    BY <1>1, <2>1
  <2> QED
    BY <2>1, <2>4, <2>5
<1> QED
  BY <1>2, <1>3

\* Every step keeps the promise of the reference count.
LEMMA NextRuntime == TypeOK /\ RuntimeHonest /\ [Next]_vars => RuntimeHonest'
<1> SUFFICES ASSUME TypeOK, RuntimeHonest, [Next]_vars PROVE RuntimeHonest'
  OBVIOUS
<1>1. ASSUME NEW p \in Pages, Mount(p) PROVE RuntimeHonest'
  BY <1>1, StartKeeps DEF Mount
<1>2. ASSUME NEW p \in Pages, Unmount(p) PROVE RuntimeHonest'
  BY <1>2, StopKeeps DEF Unmount
<1>3. CASE UNCHANGED <<pages, runtime>>
  BY <1>3 DEF RuntimeHonest, runtime
<1> QED
  BY <1>1, <1>2, <1>3 DEF Next, Tick, NowTick, Redraw, AcknowledgeShown, Acknowledge, SimTick,
     IngestReading, vars

----------------------------------------------------------------------------
\* Types, continued

Ids == Mapped \X EventStates \X Times

LEMMA IdTyped == ASSUME NEW e \in Events(Times) PROVE Id(e) \in Ids
  BY DEF Id, Ids, Events

LEMMA EvaluationTyped ==
  ASSUME events \subseteq Events(Times), closed \subseteq Ids,
         NEW rs \in [Keys -> Rings(Readings)], NEW known \in SUBSET Ids, NEW at \in Times,
         events' \in Derivations(events, LatestIn(rs), known, at), Close(known)
  PROVE  events' \subseteq Events(Times) /\ closed' \subseteq Ids
<1>1. \A k \in Mapped : Dated(Times, LatestIn(rs)[k])
  BY HeardTyped
<1>2. events' \subseteq Events(Times)
  BY <1>1, Parts, TimesAreNat
<1>3. closed' \subseteq Ids
  BY DEF Close
<1> QED
  BY <1>2, <1>3

LEMMA DrawTyped ==
  ASSUME TypeOK, NEW p \in Pages, Draw(p, now)
  PROVE  /\ tiles' \in [Keys -> [state : AlarmStates, status : Statuses]]
         /\ unit' \in [Mapped -> [alarm : AlarmStates, stale : Statuses]]
         /\ events' \subseteq Events(Times) /\ closed' \subseteq Ids
<1>1. CASE p = "operations"
  BY <1>1, ScreenTyped DEF Draw, center, TypeOK, Ids
<1>2. CASE p # "operations"
  <2>1. events' \in Derivations(events, LatestIn(rings), acked, now) /\ Close(acked)
    BY <1>2 DEF Draw
  <2>2. tiles' = tiles /\ unit' = unit
    BY <1>2 DEF Draw, screen
  <2> QED
    BY <2>1, <2>2, EvaluationTyped DEF TypeOK, Ids
<1> QED
  BY <1>1, <1>2

LEMMA NotifyTyped ==
  ASSUME TypeOK, NEW k \in Keys, NEW rs \in [Keys -> Rings(Readings)], Notify(k, rs)
  PROVE  /\ tiles' \in [Keys -> [state : AlarmStates, status : Statuses]]
         /\ unit' \in [Mapped -> [alarm : AlarmStates, stale : Statuses]]
         /\ events' \subseteq Events(Times) /\ closed' \subseteq Ids
<1>1. tiles' \in [Keys -> [state : AlarmStates, status : Statuses]]
  BY TileTyped DEF Notify, TypeOK
<1>2. unit' \in [Mapped -> [alarm : AlarmStates, stale : Statuses]]
  BY TileTyped DEF Notify, TypeOK
<1>3. CASE "alarms" \in pages /\ clock["alarms"] # 0
  <2>1. events' \in Derivations(events, LatestIn(rs), acked, clock["alarms"]) /\ Close(acked)
    BY <1>3 DEF Notify
  <2>2. clock["alarms"] \in Times
    BY DEF TypeOK, Pages
  <2> QED
    BY <1>1, <1>2, <2>1, <2>2, EvaluationTyped DEF TypeOK, Ids
<1>4. CASE ~("alarms" \in pages /\ clock["alarms"] # 0)
  BY <1>1, <1>2, <1>4 DEF Notify, center, TypeOK, Ids
<1> QED
  BY <1>3, <1>4

\* Whatever button is pressed, ids of the events shown are acknowledged.
LEMMA ShownTyped ==
  ASSUME TypeOK, AcknowledgeShown
  PROVE  \E ids \in SUBSET Ids : Acknowledge(ids)
<1> DEFINE shown(lifecycles) == {Id(e) : e \in {f \in events : f.lifecycle \in lifecycles}}
<1>1. \A lifecycles : shown(lifecycles) \in SUBSET Ids
  BY IdTyped DEF TypeOK
<1>2. CASE \E id \in shown({"ACTIVE", "ACKED"}) : Acknowledge({id})
  <2>1. PICK id \in shown({"ACTIVE", "ACKED"}) : Acknowledge({id})
    BY <1>2
  <2>2. {id} \in SUBSET Ids
    BY <1>1, <2>1
  <2> QED
    BY <2>1, <2>2
<1>3. CASE Acknowledge(shown({"ACTIVE"}))
  BY <1>1, <1>3
<1> QED
  BY <1>2, <1>3 DEF AcknowledgeShown

LEMMA ElementTyped ==
  ASSUME NEW S, NEW q \in Seq(S), NEW i \in 1 .. Len(q)
  PROVE  q[i] \in S
  OBVIOUS

LEMMA HeadTyped ==
  ASSUME TypeOK, frame # <<>>
  PROVE  /\ Head(frame).key \in Emitted /\ Head(frame).reading \in Readings
         /\ Head(frame).key \in Keys /\ Head(frame).key \in Enabled
         /\ Tail(frame) \in Seq([key : Emitted, reading : Readings])
         /\ Len(frame) \in Nat /\ Len(frame) > 0 /\ Head(frame) = frame[1]
         /\ Len(Tail(frame)) = Len(frame) - 1
         /\ \A i \in 1 .. Len(Tail(frame)) : Tail(frame)[i] = frame[i + 1]
<1>1. frame \in Seq([key : Emitted, reading : Readings])
  BY DEF TypeOK
<1>2. Head(frame) \in [key : Emitted, reading : Readings]
  BY <1>1, HeadTailProperties
<1>3. Emitted \subseteq Enabled /\ Enabled \subseteq Keys
  BY ProfileAssumption, SensorsAssumption DEF Emitted
<1>4. /\ Tail(frame) \in Seq([key : Emitted, reading : Readings])
      /\ Len(Tail(frame)) = Len(frame) - 1
      /\ \A i \in 1 .. Len(Tail(frame)) : Tail(frame)[i] = frame[i + 1]
  BY <1>1, HeadTailProperties
<1>5. Len(frame) \in Nat /\ Len(frame) > 0 /\ Head(frame) = frame[1]
  BY <1>1, EmptySeq
<1> QED
  BY <1>2, <1>3, <1>4, <1>5

LEMMA FunctionIsSeq ==
  ASSUME NEW S, NEW n \in Nat, NEW f \in [1 .. n -> S]
  PROVE  f \in Seq(S) /\ Len(f) = n
  OBVIOUS

LEMMA FrameTyped ==
  ASSUME TypeOK, SimTick
  PROVE  /\ frame' \in Seq([key : Emitted, reading : Readings])
         /\ Len(frame') = Len(Profile)
         /\ \A i \in 1 .. Len(frame') : /\ frame'[i].key = Profile[i]
                                        /\ frame'[i].reading.ts = now
<1> DEFINE Sent == [key : Emitted, reading : Readings]
<1>1. PICK values \in [Emitted -> AnyValue] :
        frame' = [i \in DOMAIN Profile |->
          [key |-> Profile[i], reading |-> [ts |-> now, value |-> values[Profile[i]]]]]
  BY DEF SimTick
<1>2. Profile \in Seq(Enabled) /\ Len(Profile) \in Nat /\ DOMAIN Profile = 1 .. Len(Profile)
  BY ProfileAssumption
<1>3. \A i \in DOMAIN Profile : Profile[i] \in Emitted
  BY DEF Emitted
<1>4. frame' \in [1 .. Len(Profile) -> Sent]
  BY <1>1, <1>2, <1>3 DEF Readings, TypeOK
<1> HIDE DEF Sent
<1>5. frame' \in Seq(Sent) /\ Len(frame') = Len(Profile)
  BY <1>2, <1>4, FunctionIsSeq
<1> QED
  BY <1>1, <1>2, <1>5 DEF Sent

LEMMA PushedTyped ==
  ASSUME TypeOK, frame # <<>>
  PROVE  [rings EXCEPT ![Head(frame).key] = Push(@, Head(frame).reading)]
           \in [Keys -> Rings(Readings)]
  BY HeadTyped, PushTyped DEF TypeOK

LEMMA NextTypeOK == TypeOK /\ RuntimeHonest /\ [Next]_vars => TypeOK'
<1> SUFFICES ASSUME TypeOK, RuntimeHonest, [Next]_vars PROVE TypeOK'
  OBVIOUS
<1>0. now \in Times /\ closed \subseteq Ids /\ acked \subseteq Ids
  BY DEF TypeOK, Ids
<1>1. CASE Tick
  BY <1>1, BoundsAssumption DEF Tick, TypeOK, runtime, store, screen, center, Times
<1>2. ASSUME NEW p \in Pages, Mount(p) PROVE TypeOK'
  <2>1. p \in Pages \ pages /\ StartTelemetry /\ pages' = pages \cup {p}
    BY <1>2 DEF Mount
  <2>2. /\ refCount' \in 0 .. Cardinality(Pages)
        /\ running' \in BOOLEAN /\ wired' \in BOOLEAN
        /\ connection' \in {"connected", "disconnected"}
        /\ ticked' \in Times
    BY <2>1, <1>0, StartKeeps DEF TypeOK
  <2>3. /\ tiles' \in [Keys -> [state : AlarmStates, status : Statuses]]
        /\ unit' \in [Mapped -> [alarm : AlarmStates, stale : Statuses]]
    BY <1>2, ScreenTyped DEF Mount, screen, TypeOK
  <2> QED
    BY <1>2, <2>1, <2>2, <2>3 DEF Mount, TypeOK, store, center
<1>3. ASSUME NEW p \in Pages, Unmount(p) PROVE TypeOK'
  <2>1. p \in pages /\ StopTelemetry /\ pages' = pages \ {p}
    BY <1>3 DEF Unmount
  <2>2. /\ refCount' \in 0 .. Cardinality(Pages)
        /\ running' \in BOOLEAN /\ wired' \in BOOLEAN
        /\ connection' \in {"connected", "disconnected"}
    BY <2>1, StopKeeps
  <2>3. /\ tiles' \in [Keys -> [state : AlarmStates, status : Statuses]]
        /\ unit' \in [Mapped -> [alarm : AlarmStates, stale : Statuses]]
        /\ events' \subseteq Events(Times)
    BY <1>3, NothingTyped DEF Unmount, screen, TypeOK
  <2>4. clock' \in [Pages -> Times]
    BY <1>3, TimesAreNat DEF Unmount, TypeOK
  <2> QED
    BY <1>3, <2>1, <2>2, <2>3, <2>4 DEF Unmount, TypeOK, store
<1>4. ASSUME NEW p \in Pages, NowTick(p) PROVE TypeOK'
  <2>1. Draw(p, now)
    BY <1>4 DEF NowTick
  <2>2. clock' \in [Pages -> Times]
    BY <1>4, <1>0 DEF NowTick, TypeOK
  <2> QED
    BY <1>4, <2>1, <2>2, DrawTyped DEF NowTick, TypeOK, runtime, store, Ids
<1>5. CASE Redraw
  <2>1. events' \in Derivations(events, LatestIn(rings), acked, clock["alarms"]) /\ Close(acked)
    BY <1>5 DEF Redraw, Draw
  <2>2. clock["alarms"] \in Times /\ tiles' = tiles /\ unit' = unit
    BY <1>5 DEF Redraw, Draw, screen, TypeOK, Pages
  <2>3. events' \subseteq Events(Times) /\ closed' \subseteq Ids
    BY <2>1, <2>2, <1>0, EvaluationTyped DEF TypeOK
  <2> QED
    BY <1>5, <2>2, <2>3 DEF Redraw, TypeOK, runtime, store, Ids
<1>6. CASE AcknowledgeShown
  <2>1. PICK ids \in SUBSET Ids : Acknowledge(ids)
    BY <1>6, ShownTyped
  <2>2. acked' \in SUBSET Ids
    BY <2>1, <1>0 DEF Acknowledge
  <2>3. /\ events' \in Derivations(events, LatestIn(rings), acked', clock["alarms"])
        /\ Close(acked')
    BY <2>1 DEF Acknowledge
  <2>4. clock["alarms"] \in Times
    BY DEF TypeOK, Pages
  <2>5. events' \subseteq Events(Times) /\ closed' \subseteq Ids
    BY <2>2, <2>3, <2>4, <1>0, EvaluationTyped DEF TypeOK
  <2> QED
    BY <2>1, <2>2, <2>5 DEF Acknowledge, TypeOK, runtime, store, screen, Ids
<1>7. CASE SimTick
  BY <1>7, <1>0, FrameTyped DEF SimTick, TypeOK, runtime, screen, center
<1>8. CASE IngestReading
  <2>1. frame # <<>> /\ frame' = Tail(frame)
    BY <1>8 DEF IngestReading
  <2>2. CASE wired
    <3>1. /\ rings' = [rings EXCEPT ![Head(frame).key] = Push(@, Head(frame).reading)]
          /\ Notify(Head(frame).key, rings')
      BY <1>8, <2>2 DEF IngestReading
    <3>2. rings' \in [Keys -> Rings(Readings)]
      BY <3>1, <2>1, PushedTyped
    <3> QED
      BY <1>8, <2>1, <3>1, <3>2, HeadTyped, NotifyTyped DEF IngestReading, TypeOK, runtime, Ids
  <2>3. CASE ~wired
    BY <1>8, <2>1, <2>3, HeadTyped DEF IngestReading, TypeOK, runtime, screen, center
  <2> QED
    BY <2>2, <2>3
<1>9. CASE UNCHANGED vars
  BY <1>9 DEF vars, TypeOK, runtime, store, screen, center
<1> QED
  BY <1>1, <1>2, <1>3, <1>4, <1>5, <1>6, <1>7, <1>8, <1>9 DEF Next

----------------------------------------------------------------------------
\* Clocks, readings and the screen

\* There is nothing to acknowledge before the page has a clock.
LEMMA AcknowledgeAfterTick ==
  ASSUME TypeOK, Idle, AcknowledgeShown
  PROVE  clock["alarms"] # 0
<1>1. CASE events = {}
  <2>1. Acknowledge({})
    BY <1>1 DEF AcknowledgeShown
  <2> QED
    BY <2>1 DEF Acknowledge
<1>2. CASE events # {}
  BY <1>2 DEF Idle
<1> QED
  BY <1>1, <1>2

LEMMA NextIdle == TypeOK /\ Idle /\ [Next]_vars => Idle'
<1> SUFFICES ASSUME TypeOK, Idle, [Next]_vars PROVE Idle'
  OBVIOUS
<1>0. now \in Nat /\ now # 0 /\ (\A p \in Pages : clock[p] \in Nat) /\ "alarms" \in Pages
  BY TimesAreNat DEF TypeOK, Pages
<1>1. CASE Tick
  BY <1>0, <1>1 DEF Tick, Idle, center
<1>2. ASSUME NEW p \in Pages, Mount(p) PROVE Idle'
  BY <1>2 DEF Mount, Idle, center
<1>3. ASSUME NEW p \in Pages, Unmount(p) PROVE Idle'
  <2>1. \A q \in Pages : clock'[q] = IF q = p THEN 0 ELSE clock[q]
    BY <1>3 DEF Unmount, TypeOK
  <2>2. events' = IF p = "operations" THEN events ELSE {}
    BY <1>3 DEF Unmount
  <2>3. now' = now /\ pages' = pages \ {p}
    BY <1>3 DEF Unmount
  <2> QED
    BY <1>0, <2>1, <2>2, <2>3 DEF Idle, Pages
<1>4. ASSUME NEW p \in Pages, NowTick(p) PROVE Idle'
  <2>1. \A q \in Pages : clock'[q] = IF q = p THEN now ELSE clock[q]
    BY <1>4 DEF NowTick, TypeOK
  <2>2. now' = now /\ pages' = pages /\ p \in pages
    BY <1>4 DEF NowTick
  <2>3. p # "alarms" => events' = events
    BY <1>4 DEF NowTick, Draw, center, Pages
  <2> QED
    BY <1>0, <2>1, <2>2, <2>3 DEF Idle
<1>5. CASE Redraw
  BY <1>5 DEF Redraw, Idle
<1>6. CASE AcknowledgeShown
  <2>1. UNCHANGED <<now, pages, clock>>
    BY <1>6, ShownTyped DEF Acknowledge
  <2> QED
    BY <1>6, <2>1, AcknowledgeAfterTick DEF Idle
<1>7. CASE SimTick
  BY <1>7 DEF SimTick, Idle, center
<1>8. CASE IngestReading
  BY <1>8 DEF IngestReading, Notify, Idle, center
<1>9. CASE UNCHANGED vars
  BY <1>9 DEF vars, Idle, center
<1> QED
  BY <1>1, <1>2, <1>3, <1>4, <1>5, <1>6, <1>7, <1>8, <1>9 DEF Next

LEMMA PushLatest ==
  ASSUME NEW S, NEW ring \in Rings(S), NEW v \in S
  PROVE  Latest(Push(ring, v)) = v
<1>1. ring.head \in Slots /\ ring.size \in 0 .. Capacity /\ ring.data \in [Slots -> S \cup {Undefined}]
  BY DEF Rings
<1>2. PICK p \in Rings(S) :
        /\ p = Push(ring, v)
        /\ p.size = IF ring.size < Capacity THEN ring.size + 1 ELSE ring.size
        /\ p.data = [ring.data EXCEPT ![ring.head] = v]
        /\ p.head = IF ring.head + 1 = Capacity THEN 0 ELSE ring.head + 1
  BY PushTyped
<1>3. p.size # 0
  BY <1>1, <1>2, CapacityAssumption
<1>4. (p.head - 1 + Capacity) % Capacity = ring.head
  <2>1. PICK x \in Nat : x = p.head - 1 + Capacity /\ x < 2 * Capacity
    BY <1>1, <1>2, CapacityAssumption DEF Slots
  <2>2. x % Capacity = IF x < Capacity THEN x ELSE x - Capacity
    BY <2>1, Wrap
  <2>3. (IF x < Capacity THEN x ELSE x - Capacity) = ring.head
    BY <1>1, <1>2, <2>1, CapacityAssumption DEF Slots
  <2> QED
    BY <2>1, <2>2, <2>3
<1> QED
  BY <1>1, <1>2, <1>3, <1>4 DEF Latest

\* What the store's rings are after a reading of the frame.
LEMMA Pushed ==
  ASSUME TypeOK, Fed, frame # <<>>,
         rings' = [rings EXCEPT ![Head(frame).key] = Push(@, Head(frame).reading)]
  PROVE  /\ rings' \in [Keys -> Rings(Readings)]
         /\ \A k \in Keys : Filled(rings'[k], Readings)
         /\ Latest(rings'[Head(frame).key]) = Head(frame).reading
         /\ Head(frame).reading.ts = ticked
         /\ \A k \in Keys : k # Head(frame).key => rings'[k] = rings[k]
         /\ Latest(rings[Head(frame).key]) # NoReading =>
              Latest(rings[Head(frame).key]).ts < ticked
<1>1. PICK k \in Keys : k = Head(frame).key
  BY HeadTyped
<1>2. PICK r \in Readings : r = Head(frame).reading
  BY HeadTyped
<1>3. rings' \in [Keys -> Rings(Readings)]
  BY PushedTyped
<1>4. rings'[k] = Push(rings[k], r) /\ \A m \in Keys : m # k => rings'[m] = rings[m]
  BY <1>1, <1>2 DEF TypeOK
<1>5. rings[k] \in Rings(Readings) /\ Filled(rings[k], Readings)
  BY DEF TypeOK, Fed
<1>6. Latest(rings'[k]) = r
  BY <1>4, <1>5, PushLatest
<1>7. Filled(rings'[k], Readings)
  BY <1>4, <1>5, PushRemembers
<1>8. r.ts = ticked /\ (Latest(rings[k]) # NoReading => Latest(rings[k]).ts < ticked)
  BY <1>1, <1>2, HeadTyped DEF Fed
<1>9. \A m \in Keys : Filled(rings'[m], Readings)
  BY <1>4, <1>7 DEF Fed
<1> QED
  BY <1>1, <1>2, <1>3, <1>4, <1>6, <1>8, <1>9

LEMMA NextFed == TypeOK /\ Fed /\ [Next]_vars => Fed'
<1> SUFFICES ASSUME TypeOK, Fed, [Next]_vars PROVE Fed'
  OBVIOUS
<1>0. now \in Nat /\ ticked \in Nat /\ rings \in [Keys -> Rings(Readings)]
  BY TimesAreNat DEF TypeOK
<1>1. \A k \in Keys : Latest(rings[k]) # NoReading => Latest(rings[k]).ts \in Nat
  BY <1>0, HeardTyped, TimesAreNat DEF Readings
<1>2. ASSUME frame = <<>>, frame' = frame, rings' = rings, now' \in Nat, now' >= now,
             ticked' \in {ticked, now}
      PROVE  Fed'
  <2>1. Len(frame') = 0
    BY <1>2
  <2>2. ticked' \in Nat /\ ticked' >= ticked /\ ticked' <= now'
    BY <1>0, <1>2 DEF Fed
  <2> QED
    BY <1>0, <1>1, <1>2, <2>1, <2>2 DEF Fed
<1>3. CASE Tick
  BY <1>0, <1>2, <1>3 DEF Tick, Quiet, store
<1>4. ASSUME NEW p \in Pages, Mount(p) PROVE Fed'
  BY <1>0, <1>2, <1>4 DEF Mount, StartTelemetry, Quiet, store
<1>5. CASE SimTick
  <2>1. /\ Len(frame') = Len(Profile)
        /\ \A i \in 1 .. Len(frame') : frame'[i].key = Profile[i] /\ frame'[i].reading.ts = now
    BY <1>5, FrameTyped
  <2>2. ticked < now /\ ticked' = now /\ rings' = rings /\ now' = now
    BY <1>5 DEF SimTick
  <2>3. \A i, j \in 1 .. Len(Profile) : Profile[i] = Profile[j] => i = j
    BY ProfileAssumption
  <2>4. \A i \in 1 .. Len(Profile) : Profile[i] \in Keys
    BY ProfileAssumption, SensorsAssumption
  <2>5. \A k \in Keys : Latest(rings[k]) # NoReading => Latest(rings[k]).ts < now
    BY <1>0, <1>1, <2>2 DEF Fed
  <2>6. \A k \in Keys : /\ Filled(rings'[k], Readings)
                        /\ Latest(rings'[k]) # NoReading =>
                             k \in Enabled /\ Latest(rings'[k]).ts <= ticked'
    BY <1>0, <1>1, <2>2, <2>5 DEF Fed
  <2> QED
    BY <1>0, <2>1, <2>2, <2>3, <2>4, <2>5, <2>6 DEF Fed
<1>6. CASE IngestReading
  <2>1. frame # <<>> /\ frame' = Tail(frame) /\ ticked' = ticked /\ now' = now
    BY <1>6 DEF IngestReading
  <2>2. PICK n \in Nat : n = Len(frame) /\ Len(frame') = n - 1 /\ n > 0
    BY <2>1, HeadTyped
  <2>3. \A i \in 1 .. n - 1 : frame'[i] = frame[i + 1] /\ i + 1 \in 1 .. n /\ i + 1 # 1
    BY <2>1, <2>2, HeadTyped
  <2>4. \A i \in 1 .. n : frame[i].key \in Keys
    <3>1. \A i \in 1 .. n : frame[i] \in [key : Emitted, reading : Readings]
      BY <2>2, ElementTyped DEF TypeOK
    <3>2. Emitted \subseteq Keys
      BY ProfileAssumption, SensorsAssumption DEF Emitted
    <3> QED
      BY <3>1, <3>2
  <2>5. \A i, j \in 1 .. n : frame[i].key = frame[j].key => i = j
    BY <2>2 DEF Fed
  <2>6. \A i \in 1 .. n - 1 : frame'[i].key # Head(frame).key
    BY <2>1, <2>2, <2>3, <2>5, HeadTyped
  <2>7. \A i, j \in 1 .. n - 1 : frame'[i].key = frame'[j].key => i = j
    BY <2>3, <2>5
  <2>8. \A i \in 1 .. n - 1 :
          /\ frame'[i].reading.ts = ticked /\ frame'[i].key \in Keys
          /\ Latest(rings[frame'[i].key]) # NoReading =>
               Latest(rings[frame'[i].key]).ts < ticked
    BY <2>2, <2>3, <2>4 DEF Fed
  <2>9. CASE wired
    <3>1. rings' = [rings EXCEPT ![Head(frame).key] = Push(@, Head(frame).reading)]
      BY <1>6, <2>9 DEF IngestReading
    <3>2. \A k \in Keys : /\ Filled(rings'[k], Readings)
                          /\ Latest(rings'[k]) # NoReading =>
                               k \in Enabled /\ Latest(rings'[k]).ts <= ticked
      BY <1>0, <2>1, <3>1, Pushed, HeadTyped DEF Fed
    <3>3. \A i \in 1 .. n - 1 : rings'[frame'[i].key] = rings[frame'[i].key]
      BY <2>1, <2>6, <2>8, <3>1, Pushed
    <3> QED
      BY <2>1, <2>2, <2>7, <2>8, <3>2, <3>3 DEF Fed
  <2>10. CASE ~wired
    <3>1. rings' = rings
      BY <1>6, <2>10 DEF IngestReading
    <3> QED
      BY <2>1, <2>2, <2>7, <2>8, <3>1 DEF Fed
  <2> QED
    BY <2>9, <2>10
<1>7. CASE UNCHANGED <<now, ticked, store>>
  BY <1>7 DEF Fed, store
<1> QED
  BY <1>3, <1>4, <1>5, <1>6, <1>7
  DEF Next, Unmount, NowTick, Redraw, AcknowledgeShown, Acknowledge, vars

\* Every step that changes a reading or the page's clock redraws what shows it.
LEMMA NextScreen == TypeOK /\ Idle /\ ScreenCurrent /\ [Next]_vars => ScreenCurrent'
<1> SUFFICES ASSUME TypeOK, Idle, ScreenCurrent, [Next]_vars PROVE ScreenCurrent'
  OBVIOUS
<1>0. "operations" \in Pages
  BY DEF Pages
<1>1. CASE UNCHANGED <<pages, clock, rings, screen>>
  BY <1>1 DEF ScreenCurrent, screen
<1>2. ASSUME NEW p \in Pages, Mount(p) PROVE ScreenCurrent'
  <2>1. CASE p = "operations"
    <3>1. clock["operations"] = 0
      BY <1>0, <1>2, <2>1 DEF Mount, Idle
    <3> QED
      BY <1>2, <2>1, <3>1 DEF Mount, ScreenCurrent, store
  <2>2. CASE p # "operations"
    BY <1>2, <2>2 DEF Mount, ScreenCurrent, store, screen
  <2> QED
    BY <2>1, <2>2
<1>3. ASSUME NEW p \in Pages, Unmount(p) PROVE ScreenCurrent'
  <2>1. CASE p = "operations"
    BY <1>3, <2>1 DEF Unmount, ScreenCurrent
  <2>2. CASE p # "operations"
    BY <1>0, <1>3, <2>2 DEF Unmount, ScreenCurrent, store, screen, TypeOK
  <2> QED
    BY <2>1, <2>2
<1>4. ASSUME NEW p \in Pages, NowTick(p) PROVE ScreenCurrent'
  <2>1. CASE p = "operations"
    BY <1>0, <1>4, <2>1 DEF NowTick, Draw, ScreenCurrent, store, TypeOK
  <2>2. CASE p # "operations"
    BY <1>0, <1>4, <2>2 DEF NowTick, Draw, ScreenCurrent, store, screen, TypeOK
  <2> QED
    BY <2>1, <2>2
<1>5. CASE IngestReading
  <2>1. CASE ~wired
    BY <1>5, <2>1 DEF IngestReading, ScreenCurrent, screen
  <2>2. CASE wired
    <3> SUFFICES ASSUME "operations" \in pages
                 PROVE  /\ tiles' = TilesAt(rings', clock["operations"])
                        /\ unit' = UnitAt(rings', clock["operations"])
      BY <1>5 DEF IngestReading, ScreenCurrent
    <3> DEFINE at == clock["operations"]
    <3>1. PICK k \in Keys : k = Head(frame).key
      BY <1>5, HeadTyped DEF IngestReading
    <3>2. rings' = [rings EXCEPT ![k] = Push(@, Head(frame).reading)] /\ Notify(k, rings')
      BY <1>5, <2>2, <3>1 DEF IngestReading
    <3>3. \A m \in Keys : m # k => rings'[m] = rings[m]
      BY <3>2 DEF TypeOK
    <3>4. tiles = [m \in Keys |-> Tile(m, Latest(rings[m]), at)]
      BY DEF ScreenCurrent, TilesAt
    <3>5. unit = [m \in Mapped |-> Entry(m, Latest(rings[m]), at)]
      BY DEF ScreenCurrent, UnitAt
    <3>6. tiles' = [m \in Keys |-> Tile(m, Latest(rings'[m]), at)]
      <4>1. tiles' = [tiles EXCEPT ![k] = Tile(k, Latest(rings'[k]), at)]
        BY <3>2 DEF Notify
      <4> QED
        BY <4>1, <3>3, <3>4
    <3>7. unit' = [m \in Mapped |-> Entry(m, Latest(rings'[m]), at)]
      <4>1. unit' = [m \in Mapped |-> IF JobOf[m] = JobOf[k]
                                      THEN Entry(m, Latest(rings'[m]), at) ELSE unit[m]]
        BY <3>2 DEF Notify
      <4>2. \A m \in Mapped : JobOf[m] # JobOf[k] => rings'[m] = rings[m]
        BY <3>3, SensorsAssumption
      <4> QED
        BY <4>1, <4>2, <3>5
    <3> QED
      BY <3>6, <3>7 DEF TilesAt, UnitAt
  <2> QED
    BY <2>1, <2>2
<1>6. CASE Redraw
  BY <1>6 DEF Redraw, Draw, ScreenCurrent, store, screen
<1>7. CASE AcknowledgeShown
  <2>1. UNCHANGED <<pages, clock, rings, screen>>
    BY <1>7 DEF AcknowledgeShown, Acknowledge, store
  <2> QED
    BY <1>1, <2>1
<1> QED
  BY <1>1, <1>2, <1>3, <1>4, <1>5, <1>6, <1>7 DEF Next, Tick, SimTick, store, vars

----------------------------------------------------------------------------
\* The alarm center

\* CenterCurrent for given events, rings and clock.
CenterAt(evs, rs, at) ==
  \A k \in Mapped :
    LET open == {e \in Uncleared(evs) : e.key = k}
        finding == Finding(k, Latest(rs[k]), at)
    IN  /\ {e.state : e \in open} = {finding} \ {"none"}
        /\ \A e, f \in open : e = f

Bounded(evs) == Cardinality(Cleared(evs)) <= MaxCleared + Cardinality(Mapped)
Marked(evs, known) == \A e \in Uncleared(evs) : e.lifecycle = "ACKED" <=> Id(e) \in known

\* A later evaluation remembers no less.
LEMMA ToldLater ==
  ASSUME NEW evs, NEW ids, NEW latest, NEW x \in Nat, NEW y \in Nat, x <= y,
         Told(evs, ids, latest, x)
  PROVE  Told(evs, ids, latest, y)
<1>1. ASSUME NEW id \in ids PROVE Passed(id, latest[id[1]], y)
  <2>1. Passed(id, latest[id[1]], x)
    BY DEF Told
  <2> QED
    BY <2>1 DEF Passed
<1>2. ASSUME NEW e \in Uncleared(evs)
      PROVE  Opened(e, latest[e.key], y) /\ (Id(e) \in ids => e.state = "offline")
  <2>1. Opened(e, latest[e.key], x) /\ (Id(e) \in ids => e.state = "offline")
    BY DEF Told
  <2>2. CASE e.state = "offline"
    BY <2>1, <2>2 DEF Opened
  <2>3. CASE e.state # "offline" /\ latest[e.key].ts # e.first
    BY <2>1, <2>3 DEF Opened
  <2>4. CASE e.state # "offline" /\ latest[e.key].ts = e.first
    <3>1. PICK before \in Nat : before <= x /\ Finding(e.key, latest[e.key], before) = e.state
      BY <2>1, <2>4 DEF Opened
    <3>2. before <= y
      BY <3>1
    <3> QED
      BY <2>1, <2>4, <3>1, <3>2 DEF Opened
  <2> QED
    BY <2>2, <2>3, <2>4
<1> QED
  BY <1>1, <1>2 DEF Told

LEMMA ToldFewer ==
  ASSUME NEW evs, NEW ids, NEW fewer \in SUBSET ids, NEW latest, NEW x, Told(evs, ids, latest, x)
  PROVE  Told(evs, fewer, latest, x)
  BY DEF Told

\* A later reading puts what was cleared, and what is open, behind it.
LEMMA ToldNewer ==
  ASSUME NEW evs \in SUBSET Events(Times), NEW ids \in SUBSET Ids, NEW x,
         NEW old, NEW latest, Told(evs, ids, old, x),
         \A k \in Mapped :
           \/ latest[k] = old[k]
           \/ /\ latest[k] # NoReading /\ latest[k].ts \in Nat
              /\ old[k] # NoReading => old[k].ts \in Nat /\ old[k].ts < latest[k].ts
  PROVE  Told(evs, ids, latest, x)
<1>1. ASSUME NEW id \in ids PROVE Passed(id, latest[id[1]], x)
  <2>1. Passed(id, old[id[1]], x)
    BY DEF Told
  <2>2. id[1] \in Mapped /\ id[3] \in Nat
    BY TimesAreNat DEF Ids
  <2>3. CASE latest[id[1]] = old[id[1]]
    BY <2>1, <2>3
  <2>4. CASE latest[id[1]] # old[id[1]]
    <3>1. /\ latest[id[1]] # NoReading /\ latest[id[1]].ts \in Nat
          /\ old[id[1]] # NoReading =>
               old[id[1]].ts \in Nat /\ old[id[1]].ts < latest[id[1]].ts
      BY <2>2, <2>4
    <3>2. id[2] # "offline" => latest[id[1]].ts > id[3]
      BY <2>1, <2>2, <3>1 DEF Passed
    <3> QED
      BY <2>2, <3>1, <3>2 DEF Passed
  <2> QED
    BY <2>3, <2>4
<1>2. ASSUME NEW e \in Uncleared(evs)
      PROVE  Opened(e, latest[e.key], x) /\ (Id(e) \in ids => e.state = "offline")
  <2>1. Opened(e, old[e.key], x) /\ (Id(e) \in ids => e.state = "offline")
    BY DEF Told
  <2>2. e.key \in Mapped /\ e.first \in Nat
    BY TimesAreNat DEF Uncleared, Events
  <2>3. CASE latest[e.key] = old[e.key]
    BY <2>1, <2>3
  <2>4. CASE latest[e.key] # old[e.key]
    <3>1. /\ latest[e.key] # NoReading /\ latest[e.key].ts \in Nat
          /\ old[e.key] # NoReading => old[e.key].ts \in Nat /\ old[e.key].ts < latest[e.key].ts
      BY <2>2, <2>4
    <3>2. e.state # "offline" => latest[e.key].ts > e.first
      BY <2>1, <2>2, <3>1 DEF Opened
    <3> QED
      BY <2>1, <2>2, <3>1, <3>2 DEF Opened
  <2> QED
    BY <2>3, <2>4
<1> QED
  BY <1>1, <1>2 DEF Told

\* One evaluation of the page, whatever caused it.
LEMMA Evaluated ==
  ASSUME events \subseteq Events(Times), closed \subseteq Ids, acked \subseteq Ids, Sole, AckShown,
         NEW rs \in [Keys -> Rings(Readings)],
         NEW known \in SUBSET Ids, acked \subseteq known,
         NEW at \in Times, NEW floor \in Nat, floor <= at,
         Told(events, closed \cup ClearedIds(events), LatestIn(rs), floor),
         events' \in Derivations(events, LatestIn(rs), known, at), Close(known)
  PROVE  /\ Sole' /\ CenterAt(events', rs, at) /\ Bounded(events') /\ Marked(events', known)
         /\ Told(events', (closed \cup ClearedIds(events))', LatestIn(rs), at)
<1> DEFINE ids == closed \cup ClearedIds(events)
<1>1. \A k \in Mapped : Dated(Times, LatestIn(rs)[k])
  BY HeardTyped
<1>2. OnePerKey(events) /\ IsFiniteSet(events)
  BY DEF Sole
<1>3. /\ OnePerKey(events')
      /\ \A k \in Mapped : {e.state : e \in {f \in Uncleared(events') : f.key = k}}
                             = {Finding(k, LatestIn(rs)[k], at)} \ {"none"}
  BY <1>1, <1>2, EvaluationCurrent, TimesAreNat
<1>4. CenterAt(events', rs, at)
  <2>1. \A k \in Mapped : LatestIn(rs)[k] = Latest(rs[k])
    BY HeardTyped, SensorsAssumption
  <2> QED
    BY <1>3, <2>1 DEF CenterAt, OnePerKey
<1>5. IsFiniteSet(events') /\ Bounded(events')
  BY <1>1, <1>2, EvaluationBounded, TimesAreNat, MappedFinite DEF Bounded
<1>6. Marked(events', known)
  <2>1. \A e \in Uncleared(events) : e.lifecycle = "ACKED" => Id(e) \in known
    BY DEF AckShown
  <2> QED
    BY <1>1, <2>1, EvaluationAcked, TimesAreNat DEF Marked
<1>7. Told(events', ids \cup ClearedIds(events'), LatestIn(rs), at)
  <2>1. ClearedIds(events) \subseteq ids
    OBVIOUS
  <2> HIDE DEF ids
  <2> QED
    BY <1>1, <1>2, <2>1, EvaluationTold, TimesAreNat DEF ids
<1>8. (closed' \cup ClearedIds(events')) \subseteq ids \cup ClearedIds(events')
  BY DEF Close, ClearedIds
<1>9. Told(events', closed' \cup ClearedIds(events'), LatestIn(rs), at)
  BY <1>7, <1>8, ToldFewer
<1>10. (closed \cup ClearedIds(events))' = closed' \cup ClearedIds(events')
  BY DEF ClearedIds, Cleared, Uncleared, Id
<1> QED
  BY <1>3, <1>4, <1>5, <1>6, <1>9, <1>10 DEF Sole

Center == Sole /\ CenterCurrent /\ AckShown /\ HistoryBounded /\ Recalled

LEMMA CenterFrom ==
  ASSUME Sole', Bounded(events'), Marked(events', acked'),
         clock'["alarms"] # 0 => CenterAt(events', rings', clock'["alarms"]),
         Told(events', (closed \cup ClearedIds(events))', LatestIn(rings'), Floor')
  PROVE  Center'
<1>1. CenterCurrent'
  BY DEF CenterCurrent, CenterAt
<1>2. HistoryBounded'
  BY DEF HistoryBounded, Bounded
<1>3. AckShown'
  BY DEF AckShown, Marked
<1>4. Recalled'
  BY DEF Recalled, LatestIn
<1> QED
  BY <1>1, <1>2, <1>3, <1>4 DEF Center

LEMMA CenterHas ==
  ASSUME Center
  PROVE  /\ Sole /\ Bounded(events) /\ Marked(events, acked) /\ AckShown
         /\ clock["alarms"] # 0 => CenterAt(events, rings, clock["alarms"])
         /\ Told(events, closed \cup ClearedIds(events), LatestIn(rings), Floor)
  BY DEF Center, CenterCurrent, CenterAt, HistoryBounded, Bounded, AckShown, Marked, Recalled

\* The list of the alarm center over any step: whoever causes an evaluation,
\* and however the page comes and goes.
LEMMA NextCenter ==
  ASSUME TypeOK, Idle, Fed, Center, [Next]_vars
  PROVE  Center'
<1>0. /\ "alarms" \in Pages /\ now \in Nat /\ now \in Times /\ now # 0
      /\ clock["alarms"] \in Times /\ clock["alarms"] \in Nat /\ clock["alarms"] <= now
      /\ Floor \in Nat /\ Floor <= now
      /\ rings \in [Keys -> Rings(Readings)]
      /\ events \subseteq Events(Times) /\ closed \subseteq Ids /\ acked \subseteq Ids
      /\ acked \in SUBSET Ids
  <2>1. /\ "alarms" \in Pages /\ now \in Nat /\ now \in Times /\ now # 0
        /\ clock["alarms"] \in Times /\ clock["alarms"] \in Nat
    BY TimesAreNat DEF TypeOK, Pages
  <2>2. clock["alarms"] <= now
    BY <2>1 DEF Idle
  <2>3. Floor \in Nat /\ Floor <= now
    BY <2>1, <2>2 DEF Floor
  <2> QED
    BY <2>1, <2>2, <2>3 DEF TypeOK, Ids
<1>1. /\ Sole /\ Bounded(events) /\ Marked(events, acked) /\ AckShown
      /\ clock["alarms"] # 0 => CenterAt(events, rings, clock["alarms"])
      /\ Told(events, closed \cup ClearedIds(events), LatestIn(rings), Floor)
  BY CenterHas
<1>2. ASSUME UNCHANGED <<rings, events, closed, acked>>, clock'["alarms"] = clock["alarms"],
             now' \in Nat, now' >= now
      PROVE  Center'
  <2>1. Floor' \in Nat /\ Floor <= Floor'
    BY <1>0, <1>2 DEF Floor
  <2>2. Told(events, closed \cup ClearedIds(events), LatestIn(rings), Floor')
    BY <1>0, <1>1, <2>1, ToldLater
  <2>3. (closed \cup ClearedIds(events))' = closed \cup ClearedIds(events)
    BY <1>2 DEF ClearedIds, Cleared, Uncleared, Id
  <2>4. Sole' /\ Bounded(events') /\ Marked(events', acked')
    BY <1>1, <1>2 DEF Sole
  <2>5. /\ clock'["alarms"] # 0 => CenterAt(events', rings', clock'["alarms"])
        /\ Told(events', (closed \cup ClearedIds(events))', LatestIn(rings'), Floor')
    BY <1>1, <1>2, <2>2, <2>3
  <2> QED
    BY <2>4, <2>5, CenterFrom
<1>3. ASSUME NEW rs \in [Keys -> Rings(Readings)], rings' = rs,
             NEW known \in SUBSET Ids, acked \subseteq known, acked' = known,
             NEW at \in Times, clock'["alarms"] = at, at # 0, Floor <= at,
             Told(events, closed \cup ClearedIds(events), LatestIn(rs), Floor),
             events' \in Derivations(events, LatestIn(rs), known, at), Close(known)
      PROVE  Center'
  <2>1. /\ Sole' /\ CenterAt(events', rs, at) /\ Bounded(events') /\ Marked(events', known)
        /\ Told(events', (closed \cup ClearedIds(events))', LatestIn(rs), at)
    BY <1>0, <1>1, <1>3, Evaluated
  <2>2. Floor' = at
    BY <1>3 DEF Floor
  <2> QED
    BY <1>3, <2>1, <2>2, CenterFrom
<1>4. CASE Tick
  BY <1>0, <1>2, <1>4 DEF Tick, store, center
<1>5. ASSUME NEW p \in Pages, Mount(p) PROVE Center'
  BY <1>0, <1>2, <1>5 DEF Mount, store, center
<1>6. ASSUME NEW p \in Pages, Unmount(p) PROVE Center'
  <2>1. CASE p = "operations"
    BY <1>0, <1>2, <1>6, <2>1 DEF Unmount, store, TypeOK
  <2>2. CASE p # "operations"
    <3>1. /\ events' = {} /\ closed' = closed /\ rings' = rings /\ acked' = acked
          /\ clock'["alarms"] = 0 /\ now' = now
      BY <1>0, <1>6, <2>2 DEF Unmount, store, TypeOK, Pages
    <3>2. Uncleared(events') = {} /\ Cleared(events') = {}
      BY <3>1 DEF Uncleared, Cleared
    <3>3. Sole'
      <4>1. OnePerKey(events') /\ IsFiniteSet(events')
        BY <3>1, <3>2, FS_EmptySet DEF OnePerKey
      <4> QED
        BY <4>1 DEF Sole
    <3>4. Bounded(events')
      <4>1. Cardinality(Cleared(events')) = 0 /\ Cardinality(Mapped) \in Nat
        BY <3>2, FS_EmptySet, MappedFinite, FS_CardinalityType
      <4> QED
        BY <4>1, MaxClearedAssumption DEF Bounded
    <3>5. Marked(events', acked')
      BY <3>2 DEF Marked
    <3>6. Floor' = now
      BY <3>1 DEF Floor
    <3>7. (closed \cup ClearedIds(events))' = closed
      BY <3>1, <3>2 DEF ClearedIds
    <3>8. Told(events, closed, LatestIn(rings), now)
      <4>1. Told(events, closed \cup ClearedIds(events), LatestIn(rings), now)
        BY <1>0, <1>1, ToldLater
      <4> QED
        BY <4>1, ToldFewer
    <3>9. Told(events', closed, LatestIn(rings), now)
      BY <3>2, <3>8 DEF Told
    <3>10. Told(events', (closed \cup ClearedIds(events))', LatestIn(rings'), Floor')
      BY <3>1, <3>6, <3>7, <3>9
    <3> QED
      BY <3>1, <3>3, <3>4, <3>5, <3>10, CenterFrom
  <2> QED
    BY <2>1, <2>2
<1>7. ASSUME NEW p \in Pages, NowTick(p) PROVE Center'
  <2>1. clock'[p] = now /\ (p # "alarms" => clock'["alarms"] = clock["alarms"])
    BY <1>0, <1>7 DEF NowTick, TypeOK
  <2>2. CASE p = "operations"
    BY <1>0, <1>2, <1>7, <2>1, <2>2 DEF NowTick, Draw, store, center
  <2>3. CASE p # "operations"
    <3>1. p = "alarms"
      BY <2>3 DEF Pages
    <3>2. /\ rings' = rings /\ acked' = acked /\ Close(acked)
          /\ events' \in Derivations(events, LatestIn(rings), acked, now)
      BY <1>7, <2>3 DEF NowTick, Draw, store
    <3> QED
      BY <1>0, <1>1, <1>3, <2>1, <3>1, <3>2
  <2> QED
    BY <2>2, <2>3
<1>8. CASE Redraw
  <2>1. /\ clock["alarms"] # 0 /\ clock' = clock /\ rings' = rings /\ acked' = acked
        /\ events' \in Derivations(events, LatestIn(rings), acked, clock["alarms"])
        /\ Close(acked)
    BY <1>8 DEF Redraw, Draw, store
  <2>2. Floor <= clock["alarms"]
    BY <1>0, <2>1 DEF Floor
  <2> QED
    BY <1>0, <1>1, <1>3, <2>1, <2>2
<1>9. CASE AcknowledgeShown
  <2>1. PICK ids \in SUBSET Ids : Acknowledge(ids)
    BY <1>9, ShownTyped
  <2>2. clock["alarms"] # 0
    BY <1>9, AcknowledgeAfterTick
  <2>3. PICK known \in SUBSET Ids : known = acked \cup ids
    BY <1>0
  <2>4. /\ clock' = clock /\ rings' = rings /\ acked' = known /\ Close(known)
        /\ events' \in Derivations(events, LatestIn(rings), known, clock["alarms"])
    BY <2>1, <2>3 DEF Acknowledge, store
  <2>5. Floor <= clock["alarms"]
    BY <1>0, <2>2 DEF Floor
  <2> QED
    BY <1>0, <1>1, <1>3, <2>2, <2>3, <2>4, <2>5
<1>10. CASE SimTick
  BY <1>0, <1>2, <1>10 DEF SimTick, center
<1>11. CASE IngestReading
  <2>1. /\ frame # <<>> /\ clock' = clock /\ now' = now /\ acked' = acked /\ pages' = pages
    BY <1>11 DEF IngestReading
  <2>2. CASE ~wired
    BY <1>0, <1>2, <1>11, <2>1, <2>2 DEF IngestReading, center
  <2>3. CASE wired
    <3>1. /\ rings' = [rings EXCEPT ![Head(frame).key] = Push(@, Head(frame).reading)]
          /\ Notify(Head(frame).key, rings')
      BY <1>11, <2>3 DEF IngestReading
    <3>2. PICK rs \in [Keys -> Rings(Readings)] : rs = rings'
      BY <2>1, <3>1, PushedTyped
    <3>3. Told(events, closed \cup ClearedIds(events), LatestIn(rs), Floor)
      <4>1. \A k \in Mapped :
              \/ LatestIn(rs)[k] = LatestIn(rings)[k]
              \/ /\ LatestIn(rs)[k] # NoReading /\ LatestIn(rs)[k].ts \in Nat
                 /\ LatestIn(rings)[k] # NoReading =>
                      LatestIn(rings)[k].ts \in Nat /\ LatestIn(rings)[k].ts < LatestIn(rs)[k].ts
        <5> SUFFICES ASSUME NEW k \in Mapped
                     PROVE
              \/ Latest(rs[k]) = Latest(rings[k])
              \/ /\ Latest(rs[k]) # NoReading /\ Latest(rs[k]).ts \in Nat
                 /\ Latest(rings[k]) # NoReading =>
                      Latest(rings[k]).ts \in Nat /\ Latest(rings[k]).ts < Latest(rs[k]).ts
          BY SensorsAssumption DEF LatestIn
        <5>1. k \in Keys
          BY SensorsAssumption
        <5>2. CASE k # Head(frame).key
          BY <2>1, <3>1, <3>2, <5>1, <5>2, Pushed
        <5>3. CASE k = Head(frame).key
          <6>1. Latest(rs[k]) \in Readings /\ Latest(rs[k]).ts = ticked
            BY <2>1, <3>1, <3>2, <5>3, Pushed, HeadTyped
          <6>2. Latest(rings[k]) # NoReading => Latest(rings[k]).ts < ticked
            BY <2>1, <3>1, <5>3, Pushed
          <6>3. Latest(rings[k]) \in Readings \cup {NoReading}
            BY <1>0, <5>1, HeardTyped
          <6>4. Latest(rs[k]) # NoReading
            BY <6>1, UndefinedAssumption
          <6>5. \A r \in Readings : r.ts \in Nat
            BY TimesAreNat DEF Readings
          <6> QED
            BY <6>1, <6>2, <6>3, <6>4, <6>5
        <5> QED
          BY <5>2, <5>3
      <4>2. ClearedIds(events) \subseteq Ids
        BY <1>0, IdTyped DEF ClearedIds, Cleared
      <4>3. closed \cup ClearedIds(events) \in SUBSET Ids
        BY <1>0, <4>2
      <4> QED
        BY <1>0, <1>1, <4>1, <4>3, ToldNewer
    <3>4. CASE "alarms" \in pages /\ clock["alarms"] # 0
      <4>1. /\ events' \in Derivations(events, LatestIn(rs), acked, clock["alarms"])
            /\ Close(acked)
        BY <3>1, <3>2, <3>4 DEF Notify
      <4>2. Floor <= clock["alarms"]
        BY <1>0, <3>4 DEF Floor
      <4> QED
        BY <1>0, <1>3, <2>1, <3>2, <3>3, <3>4, <4>1, <4>2
    <3>5. CASE ~("alarms" \in pages /\ clock["alarms"] # 0)
      <4>1. clock["alarms"] = 0
        BY <1>0, <3>5 DEF Idle
      <4>2. events' = events /\ closed' = closed
        BY <3>1, <3>5 DEF Notify, center
      <4>3. Sole' /\ Bounded(events') /\ Marked(events', acked')
        BY <1>1, <2>1, <4>2 DEF Sole
      <4>4. (closed \cup ClearedIds(events))' = closed \cup ClearedIds(events)
        BY <4>2 DEF ClearedIds, Cleared, Uncleared, Id
      <4>5. Floor' = Floor
        BY <2>1 DEF Floor
      <4>6. Told(events', (closed \cup ClearedIds(events))', LatestIn(rings'), Floor')
        BY <3>2, <3>3, <4>2, <4>4, <4>5
      <4> QED
        BY <2>1, <4>1, <4>3, <4>6, CenterFrom
    <3> QED
      BY <3>4, <3>5
  <2> QED
    BY <2>2, <2>3
<1>12. CASE UNCHANGED vars
  BY <1>0, <1>2, <1>12 DEF vars, store, center
<1> QED
  BY <1>4, <1>5, <1>6, <1>7, <1>8, <1>9, <1>10, <1>11, <1>12 DEF Next

----------------------------------------------------------------------------
\* The invariant

LEMMA InitIInv == Init => IInv
<1> SUFFICES ASSUME Init PROVE IInv
  OBVIOUS
<1>1. \A k \in Keys : rings[k] = EmptyRing
  BY DEF Init
<1>2. TypeOK
  <2>1. rings \in [Keys -> Rings(Readings)]
    BY EmptyTyped DEF Init
  <2>2. 0 \in 0 .. Cardinality(Pages)
    BY PagesFinite, FS_CardinalityType
  <2>3. now \in Times \ {0} /\ clock \in [Pages -> Times] /\ ticked \in Times
    BY BoundsAssumption DEF Init, Times
  <2>4. tiles \in [Keys -> [state : AlarmStates, status : Statuses]]
    BY NothingTyped DEF Init
  <2>5. unit \in [Mapped -> [alarm : AlarmStates, stale : Statuses]]
    BY NothingTyped DEF Init
  <2>6. /\ pages \subseteq Pages /\ refCount \in 0 .. Cardinality(Pages)
        /\ running \in BOOLEAN /\ wired \in BOOLEAN
        /\ connection \in {"connected", "disconnected"}
    BY <2>2 DEF Init
  <2>7. frame \in Seq([key : Emitted, reading : Readings])
    BY DEF Init
  <2>8. /\ events \subseteq Events(Times)
        /\ acked \subseteq Mapped \X EventStates \X Times
        /\ closed \subseteq Mapped \X EventStates \X Times
    BY DEF Init
  <2> QED
    BY <2>1, <2>3, <2>4, <2>5, <2>6, <2>7, <2>8 DEF TypeOK
<1>3. RuntimeHonest
  BY FS_EmptySet DEF Init, RuntimeHonest
<1>4. Idle
  BY DEF Init, Idle
<1>5. Fed
  <2>1. \A k \in Keys : Latest(rings[k]) = NoReading /\ Filled(rings[k], Readings)
    BY <1>1, EmptyTyped, UndefinedAssumption
  <2> QED
    BY <2>1 DEF Init, Fed
<1>6. ScreenCurrent
  BY DEF Init, ScreenCurrent
<1>7. Uncleared(events) = {} /\ Cleared(events) = {} /\ clock["alarms"] = 0
  BY DEF Init, Uncleared, Cleared, Pages
<1>8. Sole
  BY <1>7, FS_EmptySet DEF Init, Sole, OnePerKey
<1>9. CenterCurrent /\ AckShown
  BY <1>7 DEF CenterCurrent, AckShown
<1>10. HistoryBounded
  BY <1>7, FS_EmptySet, MappedFinite, FS_CardinalityType, MaxClearedAssumption
  DEF HistoryBounded
<1>11. Recalled
  BY <1>7 DEF Init, Recalled, Told, ClearedIds
<1> QED
  BY <1>2, <1>3, <1>4, <1>5, <1>6, <1>8, <1>9, <1>10, <1>11 DEF IInv

LEMMA NextIInv == IInv /\ [Next]_vars => IInv'
<1> SUFFICES ASSUME IInv, [Next]_vars PROVE IInv'
  OBVIOUS
<1>1. TypeOK /\ RuntimeHonest /\ Idle /\ Fed /\ ScreenCurrent /\ Center
  BY DEF IInv, Center
<1>2. TypeOK' /\ RuntimeHonest' /\ Idle' /\ Fed' /\ ScreenCurrent'
  BY <1>1, NextTypeOK, NextRuntime, NextIdle, NextFed, NextScreen
<1>3. Center'
  BY <1>1, NextCenter
<1> QED
  BY <1>2, <1>3 DEF IInv, Center

LEMMA Invariance == Spec => []IInv
  BY InitIInv, NextIInv, PTL DEF Spec

\* For every profile, capacity and bound: the variables keep their types, the
\* rings, the cached views and the events of the alarm center among them.
THEOREM TypeCorrect == Spec => []TypeOK
<1>1. IInv => TypeOK
  BY DEF IInv
<1> QED
  BY <1>1, Invariance, PTL

\* operationsRuntime.ts: one adapter runs while a page is mounted and none
\* after the last has left, and the store's status says so.
THEOREM RuntimeStaysHonest == Spec => []RuntimeHonest
<1>1. IInv => RuntimeHonest
  BY DEF IInv
<1> QED
  BY <1>1, Invariance, PTL

\* useLiveValue, useAlarmState, useUnitTelemetrySnapshot: what they cache is
\* what they would compute.
THEOREM ScreenStaysCurrent == Spec => []ScreenCurrent
<1>1. IInv => ScreenCurrent
  BY DEF IInv
<1> QED
  BY <1>1, Invariance, PTL

\* derive.ts: one open event for each sensor with something to say, for what
\* it says now.
THEOREM CenterStaysCurrent == Spec => []CenterCurrent
<1>1. IInv => CenterCurrent
  BY DEF IInv
<1> QED
  BY <1>1, Invariance, PTL

\* ackStore.ts: an open event is shown acknowledged iff its id was.
THEOREM AcknowledgementsShown == Spec => []AckShown
<1>1. IInv => AckShown
  BY DEF IInv
<1> QED
  BY <1>1, Invariance, PTL

\* derive.ts, eventId: an alarm that returns is a new event; only offline can
\* have the id of an acknowledged event that was cleared.
THEOREM ClearedStaysClosed == Spec => []NeverReopened
<1>1. IInv => NeverReopened
  BY DEF IInv, Recalled, Told, NeverReopened
<1> QED
  BY <1>1, Invariance, PTL

\* derive.ts, maxClearedRetained: the bound of the history of cleared events.
THEOREM HistoryStaysBounded == Spec => []HistoryBounded
<1>1. IInv => HistoryBounded
  BY DEF IInv
<1> QED
  BY <1>1, Invariance, PTL

----------------------------------------------------------------------------
\* The four views

LEMMA SensorAgrees ==
  ASSUME NEW k \in Keys, NEW r, NEW at, r # NoReading => k \in Enabled
  PROVE  /\ TileState(k, r, at) \in Alarms <=> Counted(k, r, at) = "alarm"
         /\ TileState(k, r, at) \in Alarms <=> Finding(k, r, at) \in Alarms
         /\ k \in Enabled /\ TileStatus(k, r, at) \in Silences <=> Counted(k, r, at) = "stale"
         /\ k \in Enabled /\ TileStatus(k, r, at) \in Silences
              <=> Finding(k, r, at) \in Silences
         /\ TileState(k, r, at) \in Alarms => k \in Enabled
<1>1. Evaluate(k, r) \in AlarmStates /\ Evaluate(k, r) \notin Silences /\ Evaluate(k, r) # "none"
  BY EvaluateTyped
<1>2. k \notin Enabled => Evaluate(k, r) = "disabled"
  BY DEF Evaluate
<1> QED
  BY <1>1, <1>2 DEF TileState, TileStatus, Counted, Finding, Alarms, Silences, Warnings, AlarmStates

LEMMA EntryAgrees ==
  ASSUME NEW k \in Keys, NEW r, NEW at, r # NoReading => k \in Enabled
  PROVE  /\ k \in Mapped \ Enabled => UnitAlarm(k, r, at) = "disabled"
         /\ k \in Enabled => UnitAlarm(k, r, at) = TileState(k, r, at)
         /\ k \notin Enabled => TileState(k, r, at) = "no_data"
         /\ TileState(k, r, at) # "no_data" => Status(k, r, at) \notin Silences
  BY DEF UnitAlarm, TileState

LEMMA TileShows ==
  ASSUME NEW k, NEW r, NEW at
  PROVE  /\ Tile(k, r, at).state = TileState(k, r, at)
         /\ Tile(k, r, at).status = TileStatus(k, r, at)
         /\ Entry(k, r, at).alarm = UnitAlarm(k, r, at)
         /\ Entry(k, r, at).stale = Status(k, r, at)
  BY DEF Tile, Entry

LEMMA ViewsOf ==
  ASSUME NEW rs, NEW at
  PROVE  /\ \A k \in Keys : TilesAt(rs, at)[k] = Tile(k, Latest(rs[k]), at)
         /\ \A k \in Mapped : UnitAt(rs, at)[k] = Entry(k, Latest(rs[k]), at)
  BY DEF TilesAt, UnitAt

\* The tiles, the badges, the header and the alarm center tell one story: the
\* four evaluators (telemetrySelectors.ts, viewModel.ts, alarmSummary.ts,
\* derive.ts) agree on every sensor at every clock of the page.
THEOREM ViewsStayInAgreement == Spec => []ViewsAgree
<1>1. ASSUME IInv, "operations" \in pages PROVE ViewsAgree
  <2> DEFINE at == clock["operations"]
             heard == LatestIn(rings)
             alarmed == {k \in Keys : tiles[k].state \in Alarms}
             silent == {k \in Enabled : tiles[k].status \in Silences}
             relevant(j) == {k \in Keys \ (Mapped \ Enabled) :
                               JobOf[k] = j /\ tiles[k].state # "disabled"}
             lit(j) == {k \in relevant(j) : tiles[k].state # "no_data"}
  <2>0. Enabled \subseteq Mapped /\ Mapped \subseteq Keys
    BY SensorsAssumption
  <2>1. \A k \in Keys : /\ heard[k] # NoReading => k \in Enabled
                        /\ heard[k] = Latest(rings[k])
    <3>1. \A k \in Keys : Latest(rings[k]) # NoReading => k \in Enabled
      BY <1>1 DEF IInv, Fed
    <3>2. \A k \in Keys : heard[k] = Latest(rings[k])
      BY DEF LatestIn
    <3> QED
      BY <3>1, <3>2
  <2>2. /\ \A k \in Keys : tiles[k] = Tile(k, heard[k], at)
        /\ \A k \in Mapped : unit[k] = Entry(k, heard[k], at)
    <3>1. tiles = TilesAt(rings, at) /\ unit = UnitAt(rings, at)
      BY <1>1 DEF IInv, ScreenCurrent
    <3> HIDE DEF at, heard
    <3>2. \A k \in Keys : tiles[k] = Tile(k, Latest(rings[k]), at)
      BY <3>1, ViewsOf
    <3>3. \A k \in Mapped : unit[k] = Entry(k, Latest(rings[k]), at)
      BY <3>1, ViewsOf
    <3>4. ASSUME NEW k \in Keys PROVE Tile(k, heard[k], at) = Tile(k, Latest(rings[k]), at)
      BY <2>1
    <3>5. ASSUME NEW k \in Mapped PROVE Entry(k, heard[k], at) = Entry(k, Latest(rings[k]), at)
      BY <2>0, <2>1
    <3> QED
      BY <3>2, <3>3, <3>4, <3>5
  <2> HIDE DEF at, heard
  <2>3. \A k \in Keys : /\ tiles[k].state = TileState(k, heard[k], at)
                        /\ tiles[k].status = TileStatus(k, heard[k], at)
    BY <2>2, TileShows
  <2>4. \A k \in Mapped : /\ unit[k].alarm = UnitAlarm(k, heard[k], at)
                          /\ unit[k].stale = Status(k, heard[k], at)
    BY <2>2, TileShows
  <2>5. /\ alarmed = {k \in Keys : Counted(k, heard[k], at) = "alarm"}
        /\ alarmed = {k \in Mapped : Finding(k, heard[k], at) \in Alarms}
        /\ alarmed \subseteq Enabled
    BY <2>0, <2>1, <2>3, SensorAgrees
  <2>6. /\ silent = {k \in Keys : Counted(k, heard[k], at) = "stale"}
        /\ silent = {k \in Mapped : Finding(k, heard[k], at) \in Silences}
    BY <2>0, <2>1, <2>3, SensorAgrees
  <2>7. ASSUME NEW j
        PROVE  LET badge == Badge({k \in Keys : JobOf[k] = j}, unit)
               IN  /\ badge = "ALARM" <=> lit(j) \cap alarmed # {}
                   /\ badge = "OFFLINE" <=> lit(j) = {}
                   /\ badge = "TESTING" <=>
                        lit(j) # {} /\ lit(j) = relevant(j) /\ lit(j) \cap alarmed = {}
    <3> DEFINE shown == {k \in Keys : JobOf[k] = j}
    <3>1. \A k \in Keys :
            /\ k \in Mapped \ Enabled => unit[k].alarm = "disabled"
            /\ k \in Enabled => unit[k].alarm = tiles[k].state
            /\ k \notin Enabled => tiles[k].state = "no_data"
            /\ k \in Mapped /\ tiles[k].state # "no_data" => unit[k].stale \notin Silences
      BY <2>0, <2>1, <2>3, <2>4, EntryAgrees
    <3>2. Considered(shown, unit) = relevant(j)
      BY <2>0, <3>1 DEF Considered
    <3>3. Reporting(shown, unit) = lit(j)
      <4>1. ASSUME NEW k \in relevant(j)
            PROVE  (k \in Mapped /\ unit[k].stale \notin Silences /\ unit[k].alarm # "no_data")
                     <=> tiles[k].state # "no_data"
        BY <2>0, <3>1
      <4>2. Reporting(shown, unit)
              = {k \in relevant(j) : k \in Mapped /\ unit[k].stale \notin Silences
                                                /\ unit[k].alarm # "no_data"}
        BY <3>2 DEF Reporting
      <4> QED
        BY <4>1, <4>2
    <3>4. (\E k \in Considered(shown, unit) \cap Mapped : unit[k].alarm \in Alarms)
            <=> lit(j) \cap alarmed # {}
      <4>1. \A k \in relevant(j) : k \in Mapped => k \in Enabled
        OBVIOUS
      <4>2. \A k \in lit(j) \cap alarmed : k \in Mapped /\ unit[k].alarm \in Alarms
        BY <2>0, <2>5, <3>1
      <4>3. \A k \in relevant(j) \cap Mapped : unit[k].alarm \in Alarms =>
              k \in lit(j) \cap alarmed
        BY <2>0, <3>1, <4>1 DEF Alarms
      <4> QED
        BY <3>2, <4>2, <4>3
    <3>5. lit(j) \cap alarmed # {} => lit(j) # {}
      OBVIOUS
    <3> HIDE DEF lit, relevant, alarmed, shown
    <3>6. LET badge == Badge(shown, unit)
          IN  /\ badge = "ALARM" <=> lit(j) \cap alarmed # {}
              /\ badge = "OFFLINE" <=> lit(j) = {}
              /\ badge = "TESTING" <=>
                   lit(j) # {} /\ lit(j) = relevant(j) /\ lit(j) \cap alarmed = {}
      BY <3>2, <3>3, <3>4, <3>5 DEF Badge
    <3> QED
      BY <3>6 DEF shown
  <2> QED
    BY <2>5, <2>6, <2>7 DEF ViewsAgree, at, heard
<1>2. IInv => ViewsAgree
  BY <1>1 DEF ViewsAgree
<1> QED
  BY <1>2, Invariance, PTL

----------------------------------------------------------------------------
\* Silence

SilentAt(k, at) == Status(k, Latest(rings[k]), at) \in Silences

\* What a page says of an enabled sensor is what its clock says.
Shown ==
  \A p \in pages, k \in Enabled :
    ShownSilent(k, p) <=> SilentAt(k, clock[p]) /\ (p = "alarms" => clock[p] # 0)

LEMMA ShownByClock == IInv => Shown
<1> SUFFICES ASSUME IInv, NEW p \in pages, NEW k \in Enabled
             PROVE  ShownSilent(k, p) <=> SilentAt(k, clock[p]) /\ (p = "alarms" => clock[p] # 0)
  BY DEF Shown
<1>0. k \in Mapped /\ k \in Keys
  BY SensorsAssumption
<1>1. CASE p = "operations"
  <2>1. tiles[k] = Tile(k, Latest(rings[k]), clock[p])
    <3>1. tiles = TilesAt(rings, clock[p])
      BY <1>1 DEF IInv, ScreenCurrent
    <3> QED
      BY <1>0, <3>1, ViewsOf
  <2>2. /\ tiles[k].state = TileState(k, Latest(rings[k]), clock[p])
        /\ tiles[k].status = Status(k, Latest(rings[k]), clock[p])
    BY <2>1, TileShows DEF TileStatus
  <2>3. SilentAt(k, clock[p]) => tiles[k].state = "no_data"
    BY <2>2 DEF TileState, SilentAt
  <2> QED
    BY <1>1, <2>2, <2>3 DEF ShownSilent, SilentAt
<1>2. CASE p = "alarms" /\ clock[p] = 0
  <2>1. events = {}
    BY <1>2 DEF IInv, Idle
  <2> QED
    BY <1>2, <2>1 DEF ShownSilent, Uncleared
<1>3. CASE p = "alarms" /\ clock[p] # 0
  <2> DEFINE found == Finding(k, Latest(rings[k]), clock[p])
             open == {e \in Uncleared(events) : e.key = k}
  <2>1. {e.state : e \in open} = {found} \ {"none"}
    BY <1>0, <1>3 DEF IInv, CenterCurrent
  <2>2. found \in Silences <=> SilentAt(k, clock[p])
    BY <1>0, EvaluateTyped DEF Finding, SilentAt, Silences
  <2>3. ShownSilent(k, p) <=> \E state \in {e.state : e \in open} : state \in Silences
    BY <1>3 DEF ShownSilent
  <2>4. "none" \notin Silences
    BY DEF Silences
  <2> QED
    BY <1>3, <2>1, <2>2, <2>3, <2>4
<1> QED
  BY <1>1, <1>2, <1>3 DEF IInv, TypeOK, Pages

\* A frame is handed to the store at the time of its tick.
Prompt == frame # <<>> => ticked = now

LEMMA NextPrompt == TypeOK /\ Prompt /\ [Next]_vars => Prompt'
<1> SUFFICES ASSUME TypeOK, Prompt, [Next]_vars, frame' # <<>> PROVE ticked' = now'
  BY DEF Prompt
<1>1. CASE SimTick
  BY <1>1 DEF SimTick
<1>2. CASE IngestReading
  BY <1>2 DEF IngestReading, Prompt
<1>3. CASE UNCHANGED vars
  BY <1>3 DEF vars, store, Prompt
<1> QED
  BY <1>1, <1>2, <1>3 DEF Next, Tick, Mount, Unmount, NowTick, Redraw, AcknowledgeShown,
     Acknowledge, Quiet, store

\* A page whose clock has reached the time of day is not behind it: it shows
\* every silent sensor as silent, though no message told it so.
ClockTells == \A p \in pages : clock[p] = now => ~Behind(p)

LEMMA ClockSuffices == IInv => ClockTells
<1> SUFFICES ASSUME IInv, NEW p \in pages, clock[p] = now, Behind(p) PROVE FALSE
  BY DEF ClockTells
<1>1. PICK k \in Enabled : Silent(k) /\ ~ShownSilent(k, p)
  BY DEF Behind
<1>2. SilentAt(k, clock[p]) /\ clock[p] # 0
  BY <1>1 DEF Silent, SilentAt, IInv, TypeOK
<1> QED
  BY <1>1, <1>2, ShownByClock DEF Shown

\* useNowTick.ts: the clock of a page is all it needs to see a sensor fall
\* silent.  SilenceSurfaces follows if the clock is read again and again.
THEOREM ClockSurfacesSilence == Spec => []ClockTells
  BY Invariance, ClockSuffices, PTL

\* Only the passing of time puts a page behind: no reading, drawing, mount or
\* acknowledgement hides a silence that was shown.
FallsBehind == \A p \in pages : Behind(p)' => Behind(p) \/ now' # now

LEMMA StepFallsBehind ==
  ASSUME IInv, Prompt, [Next]_vars, Shown', ClockTells',
         NEW p \in pages, Behind(p)', now' = now
  PROVE  Behind(p)
<1>0. /\ TypeOK /\ Fed /\ p \in Pages /\ p \in pages' /\ Shown
      /\ now \in Nat /\ now # 0
  BY ShownByClock, TimesAreNat DEF IInv, TypeOK, Behind
<1>1. PICK k \in Enabled : Silent(k)' /\ ~ShownSilent(k, p)'
  BY DEF Behind
<1>2. clock'[p] = clock[p]
  <2>1. ASSUME NEW q \in Pages, Unmount(q) PROVE clock'[p] = clock[p]
    BY <1>0, <2>1 DEF Unmount, TypeOK
  <2>2. ASSUME NEW q \in Pages, NowTick(q) PROVE clock'[p] = clock[p]
    <3>1. CASE q = p
      <4>1. clock'[p] = now'
        BY <1>0, <2>2, <3>1 DEF NowTick, TypeOK
      <4> QED
        BY <1>0, <4>1 DEF ClockTells
    <3>2. CASE q # p
      BY <1>0, <2>2, <3>2 DEF NowTick, TypeOK
    <3> QED
      BY <3>1, <3>2
  <2>3. CASE UNCHANGED clock
    BY <2>3
  <2> QED
    BY <2>1, <2>2, <2>3 DEF Next, vars, Tick, Mount, Redraw, AcknowledgeShown, Acknowledge,
       SimTick, IngestReading
<1>3. k \in Keys
  BY SensorsAssumption
<1>4. \/ rings'[k] = rings[k]
      \/ /\ Latest(rings'[k]) # NoReading
         /\ Latest(rings'[k]).ts = now
  <2>1. CASE rings' = rings
    BY <2>1
  <2>2. CASE rings' # rings
    <3>1. /\ frame # <<>>
          /\ rings' = [rings EXCEPT ![Head(frame).key] = Push(@, Head(frame).reading)]
      BY <2>2 DEF Next, Tick, Mount, Unmount, NowTick, Redraw, AcknowledgeShown, Acknowledge,
         SimTick, IngestReading, vars, store
    <3>2. Head(frame).reading \in Readings /\ NoReading \notin Readings
      BY <1>0, <3>1, HeadTyped, UndefinedAssumption
    <3>3. /\ Latest(rings'[Head(frame).key]) = Head(frame).reading
          /\ Head(frame).reading.ts = ticked
          /\ k # Head(frame).key => rings'[k] = rings[k]
      BY <1>0, <1>3, <3>1, Pushed
    <3>4. ticked = now
      BY <3>1 DEF Prompt
    <3> QED
      BY <3>2, <3>3, <3>4
  <2> QED
    BY <2>1, <2>2
<1>5. rings'[k] = rings[k]
  <2>1. ASSUME NEW r, r # NoReading, r.ts = now PROVE Status(k, r, now) = "live"
    <3>1. Age(r, now) = 0
      BY <1>0, <2>1 DEF Age
    <3>2. \A field \in Fields : Timing(k, field) \in Nat /\ Timing(k, field) > 0
      BY <1>3, TimingTyped
    <3> QED
      BY <2>1, <3>1, <3>2 DEF Status, AgeStatus, Fields
  <2>2. Status(k, Latest(rings'[k]), now) \in Silences
    BY <1>1 DEF Silent
  <2> QED
    BY <1>4, <2>1, <2>2 DEF Silences
<1>6. Silent(k)
  BY <1>1, <1>5 DEF Silent
<1>7. SilentAt(k, clock[p])' <=> SilentAt(k, clock[p])
  BY <1>2, <1>5 DEF SilentAt
<1>8. ~(SilentAt(k, clock[p]) /\ (p = "alarms" => clock[p] # 0))
  BY <1>0, <1>1, <1>2, <1>7 DEF Shown
<1> QED
  BY <1>0, <1>6, <1>8 DEF Behind, Shown

\* useNowTick.ts, telemetryStore.ts: a mounted page falls behind by the passing
\* of time alone.
THEOREM OnlyTimeHidesSilence == Spec => [][FallsBehind]_vars
<1>1. Spec => []Prompt
  <2>1. Init => Prompt
    BY DEF Init, Prompt
  <2>2. IInv => TypeOK
    BY DEF IInv
  <2> QED
    BY <2>1, <2>2, NextPrompt, Invariance, PTL DEF Spec
<1>2. IInv /\ Prompt /\ [Next]_vars /\ Shown' /\ ClockTells' => [FallsBehind]_vars
  BY StepFallsBehind DEF FallsBehind
<1> QED
  BY <1>1, <1>2, ShownByClock, ClockSuffices, Invariance, PTL DEF Spec

----------------------------------------------------------------------------
\* Refinement

LEMMA InitLog == Init => Log!Init
<1> SUFFICES ASSUME Init PROVE Log!Init
  OBVIOUS
<1>1. ToArray(EmptyRing) = <<>>
  BY DEF ToArray, EmptyRing
<1>2. [k \in Keys |-> ToArray(rings[k])] = [k \in Keys |-> <<>>]
  BY <1>1 DEF Init
<1> QED
  BY <1>2 DEF Log!Init

LEMMA StepLog ==
  ASSUME IInv, [Next]_vars
  PROVE  [Log!Next]_([k \in Keys |-> ToArray(rings[k])])
<1> DEFINE log == [k \in Keys |-> ToArray(rings[k])]
<1>0. TypeOK /\ Fed
  BY DEF IInv
<1>1. CASE rings' = rings
  BY <1>1
<1>2. CASE rings' # rings
  <2>1. IngestReading /\ wired
    BY <1>2 DEF Next, Tick, Mount, Unmount, NowTick, Redraw, AcknowledgeShown, Acknowledge, SimTick,
       IngestReading, vars, store
  <2>2. frame # <<>> /\ rings' = [rings EXCEPT ![Head(frame).key] = Push(@, Head(frame).reading)]
    BY <2>1 DEF IngestReading
  <2>3. PICK k \in Keys : k = Head(frame).key
    BY <1>0, <2>2, HeadTyped
  <2>4. PICK r \in Readings : r = Head(frame).reading
    BY <1>0, <2>2, HeadTyped
  <2>5. rings[k] \in Rings(Readings) /\ Filled(rings[k], Readings)
    BY <1>0 DEF TypeOK, Fed
  <2>6. r.ts = ticked /\ (Latest(rings[k]) # NoReading => Latest(rings[k]).ts < ticked)
    BY <1>0, <2>2, <2>3, <2>4, Pushed
  <2>7. PICK longer : longer = Append(ToArray(rings[k]), r)
    OBVIOUS
  <2>8. ToArray(rings'[k]) = IF Len(longer) > Capacity THEN Tail(longer) ELSE longer
    <3>1. rings'[k] = Push(rings[k], r)
      BY <1>0, <2>2, <2>3, <2>4 DEF TypeOK
    <3> QED
      BY <3>1, <2>5, <2>7, PushRemembers
  <2>9. log' = [log EXCEPT ![k] = IF Len(longer) > Capacity THEN Tail(longer) ELSE longer]
    BY <1>0, <2>2, <2>3, <2>8 DEF TypeOK
  <2>10. log[k] # <<>> => r.ts > log[k][Len(log[k])].ts
    <3>1. log[k] = ToArray(rings[k])
      OBVIOUS
    <3>2. ToArray(rings[k]) # <<>> =>
            Latest(rings[k]) = ToArray(rings[k])[Len(ToArray(rings[k]))]
      BY <2>5, LatestIsLast
    <3>3. ToArray(rings[k]) # <<>> => Latest(rings[k]) \in Readings
      <4>1. ToArray(rings[k]) \in Seq(Readings)
        BY <2>5, ArrayTyped
      <4>2. ToArray(rings[k]) # <<>> =>
              ToArray(rings[k])[Len(ToArray(rings[k]))] \in Readings
        BY <4>1
      <4> QED
        BY <4>2, <3>2
    <3>4. \A x \in Readings : x # NoReading /\ x.ts \in Nat
      BY UndefinedAssumption, TimesAreNat DEF Readings
    <3>5. ToArray(rings[k]) # <<>> => r.ts > Latest(rings[k]).ts
      BY <2>6, <3>3, <3>4
    <3> QED
      BY <3>1, <3>2, <3>5
  <2>11. PICK t \in Times, v \in AnyValue : r = [ts |-> t, value |-> v]
    BY DEF Readings
  <2>12. log[k] = ToArray(rings[k])
    OBVIOUS
  <2> HIDE DEF log
  <2>13. CASE log'[k] = log[k]
    <3>1. log' = [log EXCEPT ![k] = log[k]]
      BY <2>9, <2>13, <2>3 DEF log
    <3>2. log' = log
      BY <3>1 DEF log
    <3> QED
      BY <3>2 DEF log
  <2>14. CASE log'[k] # log[k]
    <3>1. Log!Remember(k, [ts |-> t, value |-> v])
      BY <2>7, <2>9, <2>10, <2>11, <2>12 DEF Log!Remember, Log!Newest, log
    <3>2. Log!Next
      BY <2>14, <2>11, <3>1 DEF Log!Next, log
    <3> QED
      BY <3>2
  <2> QED
    BY <2>13, <2>14
<1> QED
  BY <1>1, <1>2

\* For every capacity: the rings are the log that the store promises its
\* readers (telemetryStore.ts, ingest; ringBuffer.ts, push and toArray).
THEOREM ImplementsReadingLog == Spec => KeepsLastReadings
<1>1. Spec => [][Log!Next]_([k \in Keys |-> ToArray(rings[k])])
  BY StepLog, Invariance, PTL DEF Spec
<1> QED
  BY <1>1, InitLog, PTL DEF Spec, KeepsLastReadings, Log!Spec
=============================================================================
