------------------------------- MODULE Console -------------------------------
(***************************************************************************)
(* One browser tab of the console on the simulated stream: the runtime     *)
(* that owns the adapter, the adapter, the telemetry store with a ring     *)
(* buffer for every tag, and the two pages that watch the store.           *)
(* Operations shows a tile for every tag, a badge for every unit and the   *)
(* header's counts, Alarms the alarm center, where the operator            *)
(* acknowledges.  JavaScript runs one callback at a time: while a tick of  *)
(* the adapter hands its readings to the store nothing else runs, but the  *)
(* listeners run after each reading.                                       *)
(***************************************************************************)
EXTENDS AlarmCenter, RingBuffer

CONSTANTS
  JobOf,     \* [Keys -> jobs]
  Profile,   \* the tags a tick emits, in order
  Emits,     \* [the tags of Profile -> values they may take]
  MaxTime,
  MaxAcks    \* acknowledged ids

Pages == {"operations", "alarms"}
Times == 0 .. MaxTime
AnyValue == Values \cup {NoValue}
Readings == [ts : Times, value : AnyValue]
Emitted == {Profile[i] : i \in DOMAIN Profile}

ASSUME UndefinedAssumption == Undefined = NoReading /\ NoReading \notin Readings
ASSUME JobsAssumption == DOMAIN JobOf = Keys /\ IsFiniteSet(Keys)
ASSUME ProfileAssumption ==
  /\ Profile \in Seq(Enabled)
  /\ Emits \in [Emitted -> SUBSET AnyValue]
  /\ \A i, j \in DOMAIN Profile : Profile[i] = Profile[j] => i = j
ASSUME BoundsAssumption == MaxTime \in Nat \ {0} /\ MaxAcks \in Nat

VARIABLES
  now,         \* the wall clock
  pages,       \* mounted
  clock,       \* what useNowTick returned to each page, 0 before its first tick
  refCount,    \* of the runtime's handle, 0 without one
  running, wired, ticked,  \* the adapter: its timer, its listener, its last tick
  connection,  \* the store's connection status
  rings,
  frame,       \* readings of this tick the store has yet to take
  tiles, unit, \* cached by the hooks of Operations
  events,      \* cached by useAlarmCenter
  acked,       \* ackStore
  closed       \* history: acknowledged ids of events that were cleared

runtime == <<refCount, running, wired, connection>>
store == <<rings, frame>>
screen == <<tiles, unit>>
center == <<events, closed>>
vars == <<now, pages, clock, runtime, ticked, store, screen, center, acked>>

\* getLatestReading
LatestIn(rs) == [k \in Keys |-> Latest(rs[k])]

----------------------------------------------------------------------------
\* What the hooks of Operations show: useLiveValue and useAlarmState for a
\* tile, useUnitTelemetrySnapshot for the badge of a unit.
Tile(k, reading, at) ==
  [state |-> TileState(k, reading, at), status |-> TileStatus(k, reading, at)]
Entry(k, reading, at) ==
  [alarm |-> UnitAlarm(k, reading, at), stale |-> Status(k, reading, at)]
TilesAt(rs, at) == [k \in Keys |-> Tile(k, Latest(rs[k]), at)]
UnitAt(rs, at) == [k \in Mapped |-> Entry(k, Latest(rs[k]), at)]

\* A page that is not mounted shows nothing.
NoTiles == TilesAt([k \in Keys |-> EmptyRing], 0)
NoUnit == UnitAt([k \in Keys |-> EmptyRing], 0)

TypeOK ==
  /\ now \in Times \ {0}
  /\ pages \subseteq Pages
  /\ clock \in [Pages -> Times]
  /\ refCount \in 0 .. Cardinality(Pages)
  /\ running \in BOOLEAN /\ wired \in BOOLEAN /\ ticked \in Times
  /\ connection \in {"connected", "disconnected"}
  /\ rings \in [Keys -> Rings(Readings)]
  /\ frame \in Seq([key : Emitted, reading : Readings])
  /\ tiles \in [Keys -> [state : AlarmStates, status : Statuses]]
  /\ unit \in [Mapped -> [alarm : AlarmStates, stale : Statuses]]
  /\ events \subseteq Events(Times)
  /\ acked \subseteq Mapped \X EventStates \X Times
  /\ closed \subseteq Mapped \X EventStates \X Times

Init ==
  /\ now = 1
  /\ pages = {}
  /\ clock = [p \in Pages |-> 0]
  /\ refCount = 0
  /\ running = FALSE /\ wired = FALSE /\ ticked = 0
  /\ connection = "disconnected"
  /\ rings = [k \in Keys |-> EmptyRing]
  /\ frame = <<>>
  /\ tiles = NoTiles /\ unit = NoUnit
  /\ events = {} /\ closed = {}
  /\ acked = {}

Quiet == frame = <<>>

\* The clock a page reads in its first effect is that of its mounting.
Tick ==
  /\ Quiet
  /\ \A p \in pages : clock[p] # 0
  /\ now < MaxTime
  /\ now' = now + 1
  /\ UNCHANGED <<pages, clock, runtime, ticked, store, screen, center, acked>>

----------------------------------------------------------------------------
\* The runtime: one adapter for all the pages

\* startOperationsTelemetry: the store listens before the adapter starts, and
\* so hears that it is connected.  The first tick is an interval away.
StartTelemetry ==
  IF refCount > 0
  THEN refCount' = refCount + 1 /\ UNCHANGED <<running, wired, ticked, connection>>
  ELSE /\ refCount' = 1
       /\ running' = TRUE /\ wired' = TRUE
       /\ ticked' = now
       /\ connection' = "connected"

\* Variant: the store stops listening before the adapter stops.
StopUnheard ==
  IF refCount > 1
  THEN refCount' = refCount - 1 /\ UNCHANGED <<running, wired, connection>>
  ELSE /\ refCount' = 0
       /\ running' = FALSE /\ wired' = FALSE
       /\ UNCHANGED connection

\* stopOperationsTelemetry: the adapter stops while the store still listens.
StopTelemetry ==
  IF refCount > 1
  THEN refCount' = refCount - 1 /\ UNCHANGED <<running, wired, connection>>
  ELSE /\ refCount' = 0
       /\ running' = FALSE /\ wired' = FALSE
       /\ connection' = "disconnected"

----------------------------------------------------------------------------
\* The pages

Close(ids) == closed' = closed \cup (ids \cap {Id(e) : e \in Cleared(events')})

Draw(p, at) ==
  IF p = "operations"
  THEN /\ tiles' = TilesAt(rings, at) /\ unit' = UnitAt(rings, at)
       /\ UNCHANGED center
  ELSE /\ events' \in Derivations(events, LatestIn(rings), acked, at)
       /\ Close(acked)
       /\ UNCHANGED screen

\* The first drawing is at time 0, where no reading is old and the alarm
\* center keeps its empty list; then the effects start the runtime.
Mount(p) ==
  /\ Quiet
  /\ p \notin pages
  /\ pages' = pages \cup {p}
  /\ IF p = "operations"
     THEN tiles' = TilesAt(rings, 0) /\ unit' = UnitAt(rings, 0)
     ELSE UNCHANGED screen
  /\ StartTelemetry
  /\ UNCHANGED <<now, clock, store, center, acked>>

\* The store keeps its readings, the page nothing.
Unmount(p) ==
  /\ Quiet
  /\ p \in pages
  /\ pages' = pages \ {p}
  /\ clock' = [clock EXCEPT ![p] = 0]
  /\ IF p = "operations"
     THEN tiles' = NoTiles /\ unit' = NoUnit /\ UNCHANGED events
     ELSE events' = {} /\ UNCHANGED screen
  /\ StopTelemetry
  /\ UNCHANGED <<now, ticked, store, closed, acked>>

\* Variant: the clock is read on mount only.
NowTickOnce(p) ==
  /\ Quiet
  /\ p \in pages
  /\ clock[p] = 0
  /\ clock' = [clock EXCEPT ![p] = now]
  /\ Draw(p, now)
  /\ UNCHANGED <<now, pages, runtime, ticked, store, acked>>

\* useNowTick: on mount and every five seconds.
NowTick(p) ==
  /\ Quiet
  /\ p \in pages
  /\ clock[p] # now
  /\ clock' = [clock EXCEPT ![p] = now]
  /\ Draw(p, now)
  /\ UNCHANGED <<now, pages, runtime, ticked, store, acked>>

\* Alarms is drawn again for a reason of its own (a tab, a filter).
Redraw ==
  /\ Quiet
  /\ "alarms" \in pages /\ clock["alarms"] # 0
  /\ Draw("alarms", clock["alarms"])
  /\ UNCHANGED <<now, pages, clock, runtime, ticked, store, acked>>

\* acknowledgeAlarm, acknowledgeManyAlarms
Acknowledge(ids) ==
  /\ Quiet
  /\ "alarms" \in pages
  /\ ~(ids \subseteq acked)
  /\ Cardinality(acked \cup ids) <= MaxAcks
  /\ acked' = acked \cup ids
  /\ events' \in Derivations(events, LatestIn(rings), acked', clock["alarms"])
  /\ Close(acked')
  /\ UNCHANGED <<now, pages, clock, runtime, ticked, store, screen>>

\* The button of a row, and the one for all active rows.
AcknowledgeShown ==
  LET ids(lifecycles) == {Id(e) : e \in {f \in events : f.lifecycle \in lifecycles}}
  IN  \/ \E id \in ids({"ACTIVE", "ACKED"}) : Acknowledge({id})
      \/ Acknowledge(ids({"ACTIVE"}))

----------------------------------------------------------------------------
\* The adapter and the store

\* tick: the timer fires at most once in a reading of the clock.
SimTick ==
  /\ Quiet
  /\ running
  /\ ticked < now
  /\ ticked' = now
  /\ \E values \in [Emitted -> AnyValue] :
       /\ \A k \in Emitted : values[k] \in Emits[k]
       /\ frame' = [i \in DOMAIN Profile |->
            [key |-> Profile[i], reading |-> [ts |-> now, value |-> values[Profile[i]]]]]
  /\ UNCHANGED <<now, pages, clock, runtime, rings, screen, center, acked>>

\* Variant: the job's listeners are not told.
NotifyTag(k, rs) ==
  /\ tiles' = IF "operations" \in pages
              THEN [tiles EXCEPT ![k] = Tile(k, Latest(rs[k]), clock["operations"])]
              ELSE tiles
  /\ UNCHANGED <<unit, center>>

\* notifyTag: the tile of the tag.  notifyJob: the snapshot of the unit, and
\* the alarm center, which listens to every job.
Notify(k, rs) ==
  LET at == clock["operations"] IN
  /\ tiles' = IF "operations" \in pages
              THEN [tiles EXCEPT ![k] = Tile(k, Latest(rs[k]), at)]
              ELSE tiles
  /\ unit' = IF "operations" \in pages
             THEN [m \in Mapped |-> IF JobOf[m] = JobOf[k]
                                    THEN Entry(m, Latest(rs[m]), at)
                                    ELSE unit[m]]
             ELSE unit
  /\ IF "alarms" \in pages /\ clock["alarms"] # 0
     THEN /\ events' \in Derivations(events, LatestIn(rs), acked, clock["alarms"])
          /\ Close(acked)
     ELSE UNCHANGED center

\* ingest of a frame, one reading at a time
IngestReading ==
  /\ frame # <<>>
  /\ frame' = Tail(frame)
  /\ LET k == Head(frame).key IN
     IF wired
     THEN /\ rings' = [rings EXCEPT ![k] = Push(@, Head(frame).reading)]
          /\ Notify(k, rings')
     ELSE UNCHANGED <<rings, screen, center>>
  /\ UNCHANGED <<now, pages, clock, runtime, ticked, acked>>

Next ==
  \/ Tick
  \/ \E p \in Pages : Mount(p) \/ Unmount(p) \/ NowTick(p)
  \/ Redraw
  \/ AcknowledgeShown
  \/ SimTick
  \/ IngestReading

\* Callbacks run to their end; the interval of useNowTick fires again and again.
Fairness ==
  /\ WF_vars(IngestReading)
  /\ \A p \in Pages : WF_vars(NowTick(p))

Spec == Init /\ [][Next]_vars /\ Fairness

----------------------------------------------------------------------------
\* Properties

\* However the pages come and go, one adapter runs as long as any of them is
\* mounted, and the connection status the store shows is the adapter's.
RuntimeHonest ==
  /\ running <=> pages # {}
  /\ refCount = Cardinality(pages)
  /\ connection = IF running THEN "connected" ELSE "disconnected"

\* The hooks of Operations cache what they show and recompute it only when a
\* listener or the page's clock tells them to: it is never older than the
\* store's last reading at the page's clock.
ScreenCurrent ==
  "operations" \in pages =>
    /\ tiles = TilesAt(rings, clock["operations"])
    /\ unit = UnitAt(rings, clock["operations"])

\* A tile, the badge of its unit, the header's counts and the alarm center's
\* findings come of four pieces of code, and agree at one clock: the header
\* and the alarm center count the tiles in alarm and the silent ones, and the
\* badge says of the unit's tiles what they show, those of disabled sensors
\* left out: ALARM if one is in alarm, OFFLINE if none has data, TESTING if all
\* have, else DEGRADED.  (The tile of a disabled sensor says no_data.)
ViewsAgree ==
  LET at == clock["operations"]
      heard == LatestIn(rings)
      alarmed == {k \in Keys : tiles[k].state \in Alarms}
      silent == {k \in Enabled : tiles[k].status \in Silences}
      relevant(j) == {k \in Keys \ (Mapped \ Enabled) :
                        JobOf[k] = j /\ tiles[k].state # "disabled"}
      lit(j) == {k \in relevant(j) : tiles[k].state # "no_data"}
  IN  "operations" \in pages =>
        /\ alarmed = {k \in Keys : Counted(k, heard[k], at) = "alarm"}
        /\ alarmed = {k \in Mapped : Finding(k, heard[k], at) \in Alarms}
        /\ silent = {k \in Keys : Counted(k, heard[k], at) = "stale"}
        /\ silent = {k \in Mapped : Finding(k, heard[k], at) \in Silences}
        /\ \A j \in {JobOf[k] : k \in Keys} :
             LET badge == Badge({k \in Keys : JobOf[k] = j}, unit)
             IN  /\ badge = "ALARM" <=> lit(j) \cap alarmed # {}
                 /\ badge = "OFFLINE" <=> lit(j) = {}
                 /\ badge = "TESTING" <=>
                      lit(j) # {} /\ lit(j) = relevant(j) /\ lit(j) \cap alarmed = {}

\* After its first tick the alarm center has exactly one open event for a
\* sensor in alarm or silent at the page's clock, for its present state, and
\* none for another sensor: through changes of state, lost readings, redraws
\* and acknowledgements nothing lingers and nothing doubles.
CenterCurrent ==
  clock["alarms"] # 0 =>
    \A k \in Mapped :
      LET open == {e \in Uncleared(events) : e.key = k}
          finding == Finding(k, Latest(rings[k]), clock["alarms"])
      IN  /\ {e.state : e \in open} = {finding} \ {"none"}
          /\ \A e, f \in open : e = f

\* An open event is shown acknowledged iff its id was acknowledged, at once,
\* also when the page was left and mounted again in between.
AckShown ==
  \A e \in Uncleared(events) : e.lifecycle = "ACKED" <=> Id(e) \in acked

\* The id of an acknowledged event that was cleared is never the id of an open
\* event again, however the tag comes and goes and the page with it: an alarm
\* that returns does not inherit the acknowledgement of the one before.  (But for offline,
\* which is dated by the clock before the first reading and by the last reading
\* after it: the two may be the same instant.)
NeverReopened ==
  \A e \in Uncleared(events) : Id(e) \in closed => e.state = "offline"

\* The history of cleared events is bounded by maxClearedRetained and one more
\* for every sensor, those cleared in the last evaluation.
HistoryBounded == Cardinality(Cleared(events)) <= MaxCleared + Cardinality(Mapped)

\* The ring buffers are a log of each tag's last Capacity readings, in order.
Log == INSTANCE ReadingLog
         WITH Values <- AnyValue, log <- [k \in Keys |-> ToArray(rings[k])]
KeepsLastReadings == Log!Spec

\* A sensor that has gone silent is shown so on every page that stays, without
\* any message to say it: the clock of the page alone must bring it.
Silent(k) == Status(k, Latest(rings[k]), now) \in Silences
ShownSilent(k, p) ==
  IF p = "operations"
  THEN tiles[k].state = "no_data" /\ tiles[k].status \in Silences
  ELSE \E e \in Uncleared(events) : e.key = k /\ e.state \in Silences
Behind(p) == p \in pages /\ \E k \in Enabled : Silent(k) /\ ~ShownSilent(k, p)
SilenceSurfaces == \A p \in Pages : []<>~Behind(p)
=============================================================================
