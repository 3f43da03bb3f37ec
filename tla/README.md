# A verification project for RVF Malinois

RVF Malinois is the monitoring platform of a well-testing company: mobile measurement
units send telemetry to a NestJS backend (`apps/backend`, PostgreSQL through Prisma), which
stores every reading, keeps the latest one per channel, raises alarms, records well tests and
fans events out over Socket.IO; a Next.js console (`apps/web`) shows it all. This directory
holds TLA+ models of the parts where state, concurrency and failure meet, the TLC
configurations that check them on small instances, and TLAPS proofs that hold for instances
of any size. All paths below are relative to the repository; `PROJECT.json` maps every
definition to the lines it stands for.

## 1. The system

### Components, their state and their operations

| Component | State | Operations | What makes it correct |
|---|---|---|---|
| Well-test service (`well-tests.service.ts`, table `well_tests`) | one row per test: status, six time stamps | create, connect, start-stabilization, start-official, end-official, abort, close | a test walks the lifecycle diagram; a unit has one active test; the certified window is never rewritten |
| Ingestion (`telemetry-ingestion.service.ts`) | `telemetry_readings`, `telemetry_ingestion_errors`, the locals of each request | one batch: gates, insert, projection, alarms, commit, fan-out, dedup, quarantine, answer | a reading is stored once; answers are true of the tables; failures leave nothing half done; every request ends |
| Live projection (`live-readings-projection.service.ts`) | `live_readings` | update, find, create, retry | the row of a channel is its newest good reading and never moves back |
| Alarm evaluator (`alarm-evaluation.service.ts`) | `alarm_events` | evaluate a reading against the rules | one active event per rule, none without its reading |
| Realtime emitter, gateway (`realtime-emitter.service.ts`, `realtime.gateway.ts`) | rooms and the sockets in them | emitMany, subscribe, unsubscribe | nothing is announced that is not committed; subscribers get what they joined for |
| WebSocket telemetry adapter (`adapters/websocket.ts`) | the socket held, two timers, two flags | start, stop, socket callbacks, timer callbacks | one live connection, watched and recovered, reported truthfully |
| Operations realtime hook, socket client (`useOperationsRealtimeF4.ts`, `realtime/socket.ts`) | slots, connection state, query cache | effect and its cleanup, event handlers, reconnect | what is shown never goes back and catches up after an outage |
| Telemetry store, ring buffer, simulated adapter (`realtime/telemetryStore.ts`, `ringBuffer.ts`, `adapters/simulated.ts`, `operationsRuntime.ts`) | last N readings per tag, connection status; the adapter's timer; a count of the pages that use it | start, stop, tick, ingest, latest, listeners | one adapter while a page needs it; the last N readings in order; listeners hear what changed |
| Alarm center (`alarms/center/*`, `useAlarmCenter.ts`) | events with a life cycle, acknowledged ids | derive, acknowledge | one open event per sensor, for its present state; acknowledgements stick and are not inherited |
| Freshness and the views (`quality/stale.ts`, `alarms/evaluator.ts`, selectors, `alarmSummary.ts`, `useNowTick.ts`) | what hooks cache, the clock of each page | classify, roll up, count | four pieces of code agree; what is cached is current; silence surfaces |
| Trend drawer, well-test window hooks, mock store (`TrendDrawer.tsx`, `useWellTestWindow.ts`, `useActiveWellTest.ts`, `api-data/f4/well-tests.ts`) | the polled active test, the selected pill; the rows of the mock store | open, close, poll, pick; create and six transitions | the selected pill has a window; windows lie between the right stamps; the drawer catches up |
| Trends (`trends.service.ts`, `useOperationsTrendSeries.ts`) | none: reads `telemetry_readings` | one query for a window | every reading of a window counted once; a chart ends at the live value |
| Jobs, tenants, wells, tags, equipment, reads of alarms and latest values | tables this program only reads | queries | - |
| User interface, API client, mock data | - | rendering, fetching | - |

### How they interact

The controller hands a batch to ingestion. For each sample ingestion opens one interactive
transaction in which it inserts the reading, calls the projection and the evaluator **with the
transaction's client**, and collects the events to send; after the commit it hands these to
the emitter, which sends them to the tenant's room of the gateway. The projection, the
evaluator and the well-test service know of other requests only through the database. The
console listens through the socket client (hook) and, in the telemetry runtime, through the
WebSocket adapter; it reads the tables again over REST every 30 seconds and after a
reconnect. Built on simulated data, its pages share one adapter, counted by
`operationsRuntime.ts`: every page that mounts starts it or adds one, the last to leave stops it;
the adapter hands each tick's frame to the store, which tells the listeners of the tag and of the
job after every reading. The trend drawer polls the active test of its unit, from the well-test
service or from the mock store, and asks the trends service for the window it derives from it.

### Which behaviours are hard

Check-then-act over separate awaited statements (well tests, alarms, projection); PostgreSQL at
read committed; a P2002 that aborts the transaction it was expected to survive; acknowledgements
lost after the commit; batches sent again; late and reordered samples; a clock that steps
back; close events of sockets already replaced; one watchdog for several sockets; subscriptions
lost on reconnect or by the unmount of a neighbour; answers that race events and outages;
pages that mount and leave in any order; caches that only a listener or a clock renews; ids derived
again at every evaluation; silence, which no message announces; stamps that may be missing;
buckets cut by the edge of a window. `PROJECT.json` lists them at their lines with the properties
that cover them.

## 2. Modules

| Module | Models | Extends or instantiates |
|---|---|---|
| `WellTestLifecycle` | abstract: one arrow of the diagram at a time, one active test per unit | |
| `WellTests` | `well-tests.service.ts` and the CHECK constraints of its table | instance of `WellTestLifecycle` |
| `IngestGates` | decisions about one sample: gates, keys, comparison of duplicates, bands | |
| `Ingest` | requests, transactions, projection, evaluator, emission, failures | extends `IngestGates`, instance of `ReadingLedger` |
| `ReadingLedger` | abstract: what ingestion promises callers and readers | |
| `WebSocketAdapter` | `BackendWebSocketTelemetryAdapter` | |
| `RealtimeFanout` | emission to the tenant's room, Socket.IO client, realtime hook, latest-value query, what a tile shows | |
| `Trends` | the chart query, what is admitted, the answer of `trends.service.ts`, the latest point | extends `Ingest` |
| `Freshness` | freshness and thresholds of a reading, and four views built from them | |
| `AlarmCenter` | the next list of events from the previous one | extends `Freshness` |
| `RingBuffer` | `ringBuffer.ts` | |
| `ReadingLog` | abstract: the last N readings of each tag, in order | |
| `Console` | one tab on the simulated stream: runtime, adapter, store, the two pages that watch it | extends `AlarmCenter`, `RingBuffer`; instance of `ReadingLog` |
| `TrendDrawer` | the drawer over the tests of the service or of the mock store | extends `WellTests` |
| `WellTestsMC`, `TrendDrawerMC`, `IngestMC`, `TrendsMC`, `WebSocketAdapterMC`, `RealtimeFanoutMC`, `ConsoleMC` | instances for TLC | extend the above |
| `WellTestsProofs`, `IngestProofs`, `IngestLedgerProofs`, `IngestProgressProofs`, `WebSocketAdapterProofs`, `RealtimeFanoutProofs`, `ConsoleDataProofs` (rings and lists of events), `ConsoleProofs` | theorems | extend the above, and TLAPS |

In a component's module, operators commented `Variant:` are not part of the model. Each is a
plausible mistake in the definition that follows it, put in its place to see that a property
notices.

### WellTests

`row` is the table; `op[o]` is what a request has read and which await it is at. `Load` is
`loadForTransition` with `assertTransition` (a request refused with 404 or 409 has no effect, so
it is no step), `PassGuard` and `RefuseConnect` are the `findFirst` of `connect`, and `Write` is
`applyUpdate`: an update **by id**, of the row as it is by then, which PostgreSQL refuses when the
new row fails a CHECK (`TableChecks`). `Date.now()` may return anything in `Times`, also less than
before. `Fail` is a database error or the end of the process between two awaits. Rows are
never deleted, and columns no decision depends on are left out. Two history variables say why
something happened: `raced[o]` (a write since `o` read has made the read stale) and `tainted`
(tests written by such requests).

The service promises that a unit never has two active tests and that a test follows the
diagram. With overlapping requests neither holds (run `wt_overlap`), so the properties say
exactly **when** they may fail: `OverlapNeedsRace`, `DiagramUnlessRaced` and
`OfficialWindowUnlessRaced` allow a deviation only as the work of a stale write. With one
request at a time, `WellTests` implements `WellTestLifecycle`.

### Ingest

`req[q]` is a handler between two awaits: the samples left, the results so far, what its open
transaction has written (`wrote`, `raised`) and the rules it has still to look at (`due`). A
transaction's writes become visible in `Commit` and are dropped by every failure. PostgreSQL at
read committed is modelled by what it does here:

- a statement sees what is committed when it runs, nothing of open transactions;
- an insert waits for an open transaction that inserted the same identity or the same live
  row, and then fails if that one has committed (`DuplicateReading`, `LoseCreate`);
- an update waits for a transaction that has written the row, and looks at the row again;
- a failed statement aborts the transaction. `ConflictOutcomes` adds, beside that, the behaviour
  the retry of the projection was written for (a P2002 that leaves the transaction usable).

`Gate` stands for all reads before the transaction (their tables have no writer in the program),
`EvaluateRule` for one round of the evaluator's loop, and `Emit` for the fan-out, in which each
event may fail and is then only logged. Failures: the lookup of the source (`LookupFails`: before
the `try`, so the request ends with nothing answered or quarantined), any statement of a sample
(`StatementFails`, which is also how a timeout or a deadlock ends), the quarantine write itself
(`QuarantineFails`: inside the `try` it is quarantined again, in the `catch` and for an unusable
source it fails the request), the acknowledgement of a commit (`CommitUnacknowledged`), the answer
(`Reply`), the process (`Crash`). `Receive` may take any batch at any time, so a resend is nothing
special.

`ReadingLedger` is the promise: readings recorded once per identity, together with an alarm of
each rule they alert to, unless one is active, and of no other, and with their effect on the
latest reading; a latest reading that only moves forward; answers that the tables justify.
`Ingest` implements it with faults, resends and crashes included. What the ledger does not promise
is where the code is exposed. `LatestUnlessRaced` and `OneAlarmUnlessOverlap` name the only ways
in which the projection may lag behind and a rule may have two active events. `CreateRaceCostsFew`
says what the retry after a lost create may cost: a channel loses at most one good sample, ever,
to each request other than the one that wrote its first row, and one to each fault.

### WebSocketAdapter

One action per method or callback; `link[s]` is the state of a socket in the browser, whether
the adapter still holds it or not. Handlers stay attached to a socket after `closeSocket`, so
`OnOpen(s)`, `OnMessage(s)` and `Closed(s)` act for **any** socket. Close events: `OnClose` ends a
closing handshake, `Dropped` is the server or the network. `FallsSilent` is a connection that
is open and dead. A timer that is armed may fire at any time, except that the heartbeat of an
adapter that still receives messages fires only when these are late (`Delay`, which counts as a
fault). `orphaned` is a history variable: the sockets that were held when the close event of
another one cleared the field.

### RealtimeFanout

One browser tab and the backend it talks to. `live` is `live_readings` (time stamps stand for
values), `Commit` is all that `Ingest` does to it, `unsent` what is committed and not yet handed
to `emitMany`. `joined` is whether the tab's socket is in the tenant's room, which is a set: a
second join changes nothing and one leave is enough. `toServer` holds subscribe and unsubscribe,
buffered by the client while the link is down. `Subscribed` is derived: the provider hands out
its client with the first change of state, and from then on every mounted hook has its effect
in place. A card has a query (`cache`, `fetch`), and `Ask`, `Read`, `Arrive` are its three moments; a
panel is a component that uses the hook alone. `Arrive` also subscribes anew: a response is a
new object, so the tracked slots, and with them the dependencies of the effect, are new. The rules of
TanStack Query are taken from its documentation: an invalidation cancels the fetch under way if
the query has data, an unmounted query is cancelled, `retry` starts over.

The gateway's events come in one form (`Wires` = {"envelope"}), which the hook drops (run
`fanout_envelope`), so that slots would never hold anything. The other runs use the form the hook is
written and tested for ("payload"), in which there is more to go wrong; the theorems hold for both.

`ShowsAtLeast` is the tile: the newer of the slot and the REST row of the tag. Of several sensors
with the same tag `valuesByTagName` keeps the row that comes last, the oldest, so that a sensor
that reports for the first time may set a tile back; `ShownNeverBack` excuses that and nothing
else.

### Console, AlarmCenter, Freshness, RingBuffer

JavaScript runs one callback at a time, so an action is a callback: `Mount` and `Unmount` are a
page's first drawing with its effects and their cleanups, `NowTick` the interval of `useNowTick`,
`SimTick` the timer of the adapter, `Acknowledge` a click, `Redraw` a drawing for a reason of the
page's own. Only the frame of a tick is taken apart: `IngestReading` hands the store one reading
at a time, as `ingest` does, and the listeners run after each (`Notify`); until the frame is empty
nothing else runs (`Quiet`). `StartTelemetry` and `StopTelemetry` count the pages; `connection` is
what the store shows of it. `rings` is the store, one `RingBuffer` per tag, in the array, `head`
and `size` of the code; `ReadingLog` is what it promises, and `Console` implements it with
`ToArray` as the refinement mapping.

`tiles` and `unit` are what the hooks of Operations have cached and `events` what
`useAlarmCenter` has; each changes only where the code recomputes it. A first drawing is at time 0,
until the page's first tick (`clock[p] = 0`), and the alarm center keeps its empty list till then.
A reading of bad quality has no value (`NoValue`): the code shows and evaluates the two alike.
`AlarmCenter!Derivations` is `deriveAlarmCenterSnapshot`; it is a set because events cleared at
the same time are kept in any order. `Freshness` has the four views as they are written, each
with its own questions in its own order. `closed` is a history variable: ids that were
acknowledged when their event was cleared.

### TrendDrawer

`source` is fixed when the app is built: either the service of `WellTests` (`Serve`) or the mock
store, whose transitions read, check and write without an await (`MockTransition`) and do not look
at the clock. `cache`, `fetch` and `answer` are the query of `useActiveWellTest` between its
awaits; the data outlives the drawer (`Close`) until it is collected. `selection` is set by a
click (`Pick`) and by the effect, whose dependencies are the test's id and status (`Identity`).
The effect runs after the drawing that shows the new test: until then (`Arrive` to `Resync`) that
drawing has the pill of before, `selection` is `"outdated"`, and a click is undone by the effect.
So `SelectionHasWindow` excepts the one drawing the effect has still to follow, and fairness of
`Resync` says that it does follow. A window is the pair of stamps it lies between, with `"now"`
for the end that slides, so that `SoundWindows` can compare recorded stamps.

### Trends

A read changes nothing, so `Trends` adds no action: a chart is a function of the tables of
`Ingest`, and its properties are invariants of `Ingest`'s behaviours, evaluated at every moment a
query may run. A bucket is the set of the readings it aggregates.

## 3. Runs

| Run | Instance | Shows |
|---|---|---|
| `wt_races` | 2 tests, 2 jobs of a unit each, 2 requests in flight, clock 1..2 | type invariant; every deviation is a stale write |
| `wt_serial` | 2 tests of one unit, 1 request or the mock store, the drawer of the unit, clock 1..2 | the service implements the lifecycle, and so does the mock store; windows sound, the pill selected has one, the drawer catches up |
| `wt_overlap` | as `wt_races` | **violation** of `OneActivePerUnit`: two connects pass the guard |
| `ingest_faults` | 2 handlers, 3 requests, 5 samples in 3 batches, 1 fault; 3 charts | ledger, latest reading, alarms, events, lost creates, resends, charts, termination |
| `ingest_latest` | 2 handlers, 3 samples, no fault | **violation** of `LatestIsNewest`: a newer reading is skipped as stale |
| `ingest_alarms` | 2 handlers, 3 samples, no fault | **violation** of `OneActiveAlarm`: two open transactions raise one rule |
| `ws_adapter` | sockets as needed, 2 stops, 3 faults | timers, watchdog, orphans, status, recovery |
| `ws_zombie` | sockets as needed, 1 stop, no fault | **violation** of `NoZombies`: start, stop, start, late close event |
| `fanout` | a card and a panel, 2 sensors, times 1..2, 1 outage or failed fetch, 1 unmount | room, resync, what is shown, catching up, rejoining |
| `fanout_envelope` | a card, the emitter's envelope, no fault | **violation** of `MatchingEventsUpdate`: a delivered event changes nothing |
| `fanout_room` | a card and a panel, no fault | **violation** of `SubscribersAreJoined`: one unmounts, the other is out of the room |
| `console` | 2 units, 4 tiles (two sensors that emit, one disabled, one tile without a sensor), clock 1..4, rings of 2, 1 cleared event kept, 1 acknowledged id | runtime, caches, agreement of the views, alarm life cycle, acknowledgements, the log of readings, silence |

A violation run checks one statement that a comment or a document of the repository makes; the
findings in `PROJECT.json` quote it. Deadlock is checked in `fanout` and in `console`, which go on
for ever (polling; pages that come and go). It is not checked in the other models, which end when
their bounds are used up; that requests end is the property `RequestsEnd`.

**Bounds.** `MaxTime`: 2 readings of the clock tell earlier, equal and later stamps apart. Two
requests are what it takes for every race found (each is about a read and one foreign write), and
the theorems hold for any number. `MaxSends` 3: two requests that race and one that resends or
comes late; `MaxFaults` 1: each failure at each step, and a resend after it. `Clock` is a single
reading and the windows are wide open, so the two time gates of `IngestGates` are not decided by
these runs. The samples of `IngestMC` collide in each way the keys allow: same time and other
value, newer, older, not good, unmapped, and one with a sequence number at a time that is taken;
two of the three batches hold two samples, so that a handler has one behind it and one before it.
`Sockets` are numbered and used in order (`Fresh`), since a socket is a new one each time; there
are 12, and the stops and faults leave no way to use more than 11. `MaxQueue` 2: the pair a new
answer sends (3 in `fanout_room`: that and a subscription on its way); an action that would send
more waits, which stands for a slower user or poll. The theorems hold for any bound. Two sensors
with two readings each, because the oldest row wins; one outage, since nothing but the query's
data survives it. Symmetry is used only in runs without liveness properties and without a
definition that singles out a value.

In `console`, `MaxTime` 4 lets a sensor be live, delayed, stale and offline one reading of the
clock after the other, and the second sensor has overrides out of order, so that it is offline
before it could be stale. Rings of 2 wrap; one sensor emits a value in alarm and a normal one, the
other a warning; readings of bad quality, which have no value, are left to the proofs, which hold
for any values; the one retained event is outnumbered by those cleared at once, so
that the cap has something to trim; one acknowledged id tells an acknowledged event from the
others. In `wt_serial` the clock may stand still or step back between transitions; of the two tests
of the drawer's unit one follows the other. In `ingest_faults` the
charts are one asked reading by reading and two in buckets of 2 and 3 that start or meet inside a
bucket; `BucketsMax` 2 is met exactly, and `RowLimit` 2 cuts a raw answer.

**Fairness.** `RequestsEnd`: weak fairness of `Work(q)`: the event loop resumes a handler whose
statement has returned, and a statement whose locks are released returns. No fairness is assumed
of faults, and a handler that waits for a lock is not enabled, so that the property also says that
nobody waits for ever. `Recovers`: weak fairness of `OnOpen` and `OnClose` (the browser answers
every connection attempt, by the open or by the close event, and ends or gives up every closing
handshake), of `Reconnect` (a timer that is armed fires) and of `Silence` (so does the watchdog
when nothing comes). An orphan whose messages arrive keeps the watchdog of the socket held from
firing, for there is one for all: `Recovers` excuses the adapter while that goes on
(`ZombieTalks`) and as soon as it ends, or if the orphan never talked, asks for the recovery.
`Start`, `Stop`, messages and faults are never forced. `CatchUp` and `CardsRejoin`: weak fairness
of `Attempt` and `Connect` (the client reconnects without a limit of attempts), of
`ServerHandles`, and of `Ask`, `Read` and `Arrive` (the interval of a mounted query in a visible
tab fires, and is answered); nothing is assumed of events or of failures beyond their bound.
`SilenceSurfaces`: weak fairness of `IngestReading` (a callback runs to its end) and of `NowTick`
(the interval of a mounted page fires); the simulator may stop at any time. `DrawerCatchesUp`:
weak fairness of `Poll` (the interval of an open drawer) and of `Resync` (React runs the effects
of a drawing) and strong fairness of `Read` and `Arrive`: of the polls sent for ever not every one
is lost, for each may be given up. Safety properties assume no fairness.

## 4. Proofs

All theorems are stated of the same `Spec` that TLC checks, for any constants that satisfy the
modules' assumptions (any number of tests, requests, samples, sockets, faults). The assumptions
are the types of the constants and little else: batches are not empty, a duplicate key leaves the
transaction either aborted or usable (`ConflictAssumption`), the alarm rules and the request
handlers are finitely many (`RulesAssumption`, `RequestsAssumption`), the fixture of the mock
store follows the diagram. "One at a time" (`Serial`: all operators, or all request handlers, are
the same one) is a hypothesis of the theorems whose name says so and of the drawer's three that
need it.

- **`WellTestsProofs`.** `OverlapNeedsRace` is not inductive: a request past its guard is about to
  write on the strength of what it read. `ReadsHold` adds it: a request no write has made
  stale still sees the status it read, and a connect past its guard still sees a free unit
  (`Free`). Every `Write` either keeps the reads of the others true or marks them `raced`.
  `WindowFollowsStatus` ties the official stamps to the status of untainted tests and gives
  `OfficialWindowUnlessRaced`. With `\A o1, o2 \in Operators : o1 = o2` nothing is ever
  raced, whence `SerialOneActivePerUnit` and, step by step, `SerialImplementsLifecycle`.
  The drawer: `DrawerInv` says of every row, and of what the query has in hand or has cached, that
  the status implies the stamps the default pill needs, and that stamps are only ever set; it holds
  for any number of operators and gives `DrawerSelectionHasWindow`. `SerialInv` adds, for one
  operator at a time, that rows follow the diagram, that on the service their stamps are in order
  (the work of the CHECK constraints), and that nothing is raced: `DrawerWindowsSound`,
  `DrawerOneActivePerUnit` and `DrawerImplementsLifecycle`, for the mock store too.
  `DrawerComesNearer` is the safety half of `DrawerCatchesUp`: `DrawerLag` counts the steps of the
  poll to the unit's active test (four when an answer the table has overtaken must arrive first);
  only a write or a poll given up raises it, and every step of a poll lowers it.
- **`IngestProofs`.** The invariant is a conjunction: types; every handler's place fits what it
  carries (`AllPlaced`); rows have distinct identities and keys in range (`Rows`); open
  transactions hold what they wrote to themselves (`Locks`); what an open transaction will
  commit keeps the projection in front (`Latest`); raised events are of rules nobody else has
  committed, or overlap (`Alarms`); events in hand are of committed rows (`Events`).
  `IngestTypeOK`, `IngestLatestUnlessRaced`, `IngestOneAlarmUnlessOverlap` and
  `IngestNoGhostEvents` follow. `IngestNoMissedAlarm` is the other side of the duplicate guard: no
  committed reading slips past a rule it violates. It needs `Evaluated`: of the rules a transaction
  has looked at, each is one it raises or one that has an event, and that remains so whoever
  commits meanwhile, because events are never deleted.
  The last section is about requests handled one at a time. `Undisturbed` says that nobody moves the
  row between the projection's statements, hence no reading is ever skipped or lost to a retry and
  no rule raised twice: `SerialLatestIsNewest` and `SerialOneActiveAlarm` prove for one handler what
  `ingest_latest` and `ingest_alarms` refute for two, and `SerialNoFalseQuarantine` that, until
  something fails, no sample the gates let through is filed as an engine failure. So each of the
  three flaws takes two overlapping requests.
- **`IngestLedgerProofs`.** Adds that results in hand are already justified (`AllTold`) and maps each
  step to `Record`, `Refuse`, `Tell` or a stutter: `IngestImplementsLedger`. `IngestAnswersStayTrue`
  follows for what was answered: an answer once true stays true, since the tables only grow.
  `IngestResendsNeverConflict` needs that what is filed as a conflict contradicts a reading on
  record (`ConflictsReal`), through the handlers that have compared and not yet filed.
  `IngestTrendsComplete` holds in every state: the bin of a reading is in the grid of exactly the
  half that selects it. `IngestChartEndsAtLive` combines the latest-reading invariant with
  `LiveGood` (a channel shows only good readings).
- **`IngestProgressProofs`.** Why every request ends. `Rank` counts the statements a request may
  still take: those of its current sample (`Stage`, in the order of the code, with one for each
  alarm rule still due) and `PerSample` for each sample left. Every step of a handler lowers it, a
  failing statement too, and no step of another raises it (`IngestRanked`, `IngestWindsDown`).
  What could still stop a request is a lock, so `IngestNobodyWaitsInVain` goes through the waits: a
  handler waits either for the identity of a reading or for a live row; whoever holds the live row
  is in its alarm loop and waits for nothing; whoever holds an identity waits for such a holder at
  most. Hence there is no circle, and `RequestsEnd` is left to fairness alone.
  `IngestAnnounced` is about the fan-out: until something fails, what is committed has been
  published or is in the hands of the handler that commits it. `IngestCreateRaceCostsFew` counts
  what is lost and the handlers that are `Losing`: about to put a good sample down to the engine, or
  to create a row that is there already. While the channel has no row, only faults make losers; the
  commit that writes the first row makes at most all the other requests losers at once, which is
  what `Allowed` then adds; afterwards no handler gets as far as the create.
- **`WebSocketAdapterProofs`.** The five safety properties together are almost inductive; `Flags`
  adds what `running` and `intentionallyStopped` say of the socket and the timers. The safety half
  of `Recovers` is a distance to a working connection: 1 connecting, 2 waiting to reconnect, 3 open
  and mute. A started adapter with a URL always has a socket or a reconnect pending
  (`AdapterNeverStranded`), and the callback that leads on is due at each distance
  (`AdapterHelpAtHand`), both with orphans or without; only an orphan that talks can put off the
  watchdog. Until a socket is orphaned the callback leads nearer, and nothing but a fault leads away
  (`AdapterComesNearer`).
- **`RealtimeFanoutProofs`.** `Debts` (nothing is owed beyond what is stored, nothing to a card
  without data) makes `ResyncAfterOutage` inductive. `NoLeakedRoom` needs `Silent` (nothing is sent
  before the hooks have a client) and `Fetching` (only mounted cards fetch, so that no answer
  subscribes for a card that is gone). `Ordered` (what a query has in hand lies between its data and
  the table) gives `ShownNeverBack`. `Sourced` (events under way
  and slots come from stored rows) gives `FanoutNeverAhead`: no tile shows what was not stored. The
  safety halves of `CatchUp` and `CardsRejoin` are two counts of the steps of a card's query, `Lag`
  to what is stored and `Absence` to the room: `FanoutCatchesUp` and `FanoutRejoins` show that each
  step of the query lowers them, and list all that raises them. A connection that comes up does,
  because the invalidation starts the fetch over.
- **`ConsoleDataProofs`.** Lemmas on the data of the console. For every capacity, pushing keeps
  `head` and `size` in range, the array read back is the old one with the value appended and cut to
  the capacity (`PushRemembers`), and `Latest` is its last element (`LatestIsLast`). What one
  evaluation does to any list of events: which open events it leaves, of which state, how they are
  marked, how many cleared ones it keeps.
- **`ConsoleProofs`.** The invariant: types; the runtime counts the mounted pages; a page that is
  not mounted has no clock, and without one no events (`Idle`); the frame holds one reading of
  this tick for each of its tags, later than any in the ring of a tag still to come (`Fed`); the
  caches equal what the hooks would compute now (`ScreenCurrent`); one open event per sensor
  (`Sole`), for its present state (`CenterCurrent`), marked as acknowledged iff it is
  (`AckShown`); the history is bounded; and `Recalled`, from which `NeverReopened` follows: an id
  in `closed` is of a state its sensor has left, and a state a sensor has left does not come back
  while its last reading is the same, so that when it does the event has a later date and another
  id. `ViewsAgree` follows from `ScreenCurrent` by going through what each view asks.
  `ImplementsReadingLog` uses `PushRemembers`. The safety half of `SilenceSurfaces`: a silence is a
  matter of the clock, and what the tiles cache is what they would compute at the page's own clock
  (`Shown`), so a page that has read the time of day shows every silence (`ClockSurfacesSilence`).
  That nothing but time puts it behind (`OnlyTimeHidesSilence`) needs `Prompt`: a frame is handed
  over at the time of its tick, so no reading is silent as it arrives.

Every invariant and every action property or refinement of a passing run is proved. Only
model-checked: `RequestsEnd`, `Recovers`, `CatchUp`, `CardsRejoin`, `SilenceSurfaces` and
`DrawerCatchesUp`. The prover cannot reason about fairness, which needs ENABLED; for each of
the six, what the code contributes (the measure that steps lower, what may raise it, who is waited
for) is proved, and the step from there to "eventually" is TLC's. No module uses a RECURSIVE
operator. Not provable with the installed tools in any case: liveness, ENABLED, and what a
recursive definition computes for every input.

## 5. What is not modelled

- **Abstracted inside the models.** Values and units are small integers and strings; the text of
  a Decimal is the flag `plain` (whether the incoming text is the one the database gives back).
  Validation of request bodies, wording of details, logging and `RVF_REALTIME_EMIT_ENABLED` (taken
  to be on). Backoff delays, parsing of messages, the catch-up hook and the listeners of the
  adapter. Tables without a writer are constants.
- **In `Console`.** The simulator's drift and mix of qualities are a choice of values; its
  connection glitch (`connectionGlitchEveryTicks`) is 0 in the application; it never emits alarm
  messages; the store ignores heartbeats; `reset` and the buffer's `clear` are called by tests only.
  `quality/classifier.ts` has no caller. Thresholds yield no severity LOW, so "acknowledge all of
  low priority" finds nothing. Severity, labels and order of the list are display.
- **In `TrendDrawer`.** The last hour and the diagnostic ranges are arithmetic on the clock. The
  query a window becomes, the chart, and the simulator history it may draw instead are left out.
- **In `Trends`.** The aggregated values, the optional job, source and quality filters that no page
  sends, the lookup of the tag. `UnitConverter` has no caller.
- **Components listed as not modelled** in `PROJECT.json`: read-only services, glue, user interface
  and fixtures keep no state a property could be about.

`PROJECT.json` maps about an eighth of the repository's lines. What is left does not hold more
behaviour of the kind modelled here: most of it is rendering (the diagrams, tables and pages of
`components/`), seed and fixture data (`seed.f4.ts`, `*.mock.ts`, `mock-fixtures.ts`), type
declarations (`types.ts`, `contracts`), schemas, and read-only queries of a few lines each.

### Noticed while modelling

These have no run of their own; they are worth a reader's attention.

- Alarms page: mounted again, it derives its list anew and dates an alarm that has gone on by the
  latest reading (or by the clock, without one), so that an acknowledged event returns with another
  id, unacknowledged. An event of a sensor without a reading may have the id of an
  earlier one: the exception in `NeverReopened`.
- `useNowTick.ts:17-21`: the first drawing after a navigation is at time 0 and shows whatever the
  store has kept as live, until the effect runs. The comment there says that there are no
  readings yet at that moment, which is true of the first mount only.
- A disabled sensor's tile says `no_data`; the branch of `LiveVariableTile` for "Disabled" is
  reached by no state of it. The exception in `ViewsAgree`.
- The retained history can exceed its cap by the events cleared in the same evaluation
  (`HistoryBounded`), until the next one.
- A page's clock is up to five seconds behind the readings, so an event may be cleared at a time
  before it was first seen.
- Trend drawer: the active-test endpoint never returns a test that is completed, closed or aborted,
  so these branches of the window and of the default (`TrendDrawer.tsx:14-16` describes them) are
  not reached through it. A window that slides ends at a clock rounded down to 15 seconds, so that
  right after a phase begins it may end before it starts, and the backend refuses it. The full
  test of an aborted test goes on to now when it has neither end stamp. `abortedAt` has no CHECK
  against `officialStartedAt`.
- Charts: a raw answer is the **first** 1000 rows of its window (`trends.service.ts:92-93`), while
  the page takes its last point for the most recent value (`useOperationsTrendSeries.ts:173`): the
  exception in `ChartEndsAtLive`. Raw answers hold readings of any quality, bucketed ones good
  readings only. A bucketed latest point is stamped with the end of its bucket, which may lie in
  the future. A window not aligned to its buckets has one more than its width suggests, so up to
  `TRENDS_BUCKETS_MAX` + 1. A window beyond 1500 quarters of an hour (15.6 days) is refused.
  Charts select by unit and tag and mix sensors of the same tag.

## 6. Plan

Done: 1 `WellTests`; 2 `Ingest` with its refinement; 3 `WebSocketAdapter`; 4 `RealtimeFanout`;
5 `AlarmCenter`; 6 `RingBuffer` and the store, in `Console`; 7 `Freshness`, `TrendDrawer`, `Trends`;
8 the proofs of all their invariants; 9 the proofs behind the liveness properties, and of one
request at a time.

Left: an instance of `IngestGates` with several mappings and a clock that decides both time gates;
the adapter's catch-up hook and set of listeners; the alarm counter and mock mode of the
realtime hook; the buffer of the socket client while the link is down, whose growth `MaxQueue`
bounds and the model therefore cannot judge; a property of the first drawing at time 0, which the
model has as a state (`clock[p] = 0`) and no property judges.
