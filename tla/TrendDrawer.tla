----------------------------- MODULE TrendDrawer -----------------------------
(***************************************************************************)
(* The trend drawer of the Operations page over the well tests of a unit:  *)
(* the polled query for the unit's active test, the windows derived from   *)
(* that test's stamps, and the pill the drawer has selected.  The tests    *)
(* are those of the service or, when the app is built on mock data, those  *)
(* of an in-memory store with transitions of its own.                      *)
(***************************************************************************)
EXTENDS WellTests

CONSTANTS
  Unit,        \* the unit the drawer is opened for
  Fixture      \* the rows of the mock store when the page is loaded

\* A row as the transitions leave it, one after the other.
FollowsLifecycle(r) ==
  /\ StatusStamps(r)
  /\ r.stabilizationEndedAt = r.officialStartedAt
  /\ r.officialStartedAt # NullTime =>
       r.connectedAt # NullTime /\ r.stabilizationStartedAt # NullTime
  /\ r.officialEndedAt # NullTime => r.officialStartedAt # NullTime
  /\ r.status \in {"absent", "scheduled", "connected", "stabilizing"} =>
       r.officialStartedAt = NullTime
  /\ r.status = "measuring" => r.officialEndedAt = NullTime

ASSUME DrawerAssumption ==
  /\ Unit \in Units
  /\ Fixture \in [Tests -> Rows]
  /\ \A t \in Tests : FollowsLifecycle(Fixture[t])
  /\ \A t1, t2 \in Tests :
       /\ t1 # t2
       /\ JobUnit[Fixture[t1].job] = JobUnit[Fixture[t2].job]
       => ~({Fixture[t1].status, Fixture[t2].status} \subseteq ActiveStatuses)

VARIABLES
  source,     \* getDataSource: fixed when the app is built
  open,
  cache,      \* the query's data: what the drawer takes for the active test
  fetch,      \* the poll under way
  answer,     \* what it has read
  selection   \* the pill or range selected, or "outdated": see Arrive

drawer == <<open, cache, fetch, answer, selection>>
drawerVars == <<vars, source, drawer>>

\* The `active' of a response: null, or a test's id with its row.  The query
\* without data shows null too.
NoTest == <<>>
Answers == {NoTest} \cup (Tests \X Rows)

----------------------------------------------------------------------------
\* deriveWellTestWindow: the two stamps a pill's window lies between.

Pills == {"last_hour", "stabilization", "official_window", "full_test"}
Selections == Pills \cup {"diagnostic"}

Off == [from |-> "none", to |-> "none"]
Between(from, to) == [from |-> from, to |-> to]

\* Variant: the window goes on into the measurement.
StabilizationUntilNow(r) ==
  IF r.stabilizationStartedAt = NullTime THEN Off
  ELSE Between("stabilizationStartedAt", "now")

StabilizationWindow(r) ==
  IF r.stabilizationStartedAt = NullTime THEN Off
  ELSE Between("stabilizationStartedAt",
               IF r.stabilizationEndedAt # NullTime THEN "stabilizationEndedAt"
               ELSE IF r.officialStartedAt # NullTime THEN "officialStartedAt"
               ELSE "now")

OfficialWindow(r) ==
  IF r.officialStartedAt = NullTime THEN Off
  ELSE CASE r.status \in {"completed", "closed"} ->
              IF r.officialEndedAt = NullTime
              THEN Off
              ELSE Between("officialStartedAt", "officialEndedAt")
         [] r.status = "aborted" ->
              Between("officialStartedAt",
                      IF r.aborted THEN "abortedAt"
                      ELSE IF r.officialEndedAt # NullTime THEN "officialEndedAt"
                      ELSE "now")
         [] OTHER -> Between("officialStartedAt", "now")

FullTestWindow(r) ==
  IF r.connectedAt = NullTime /\ r.stabilizationStartedAt = NullTime THEN Off
  ELSE Between(IF r.connectedAt # NullTime THEN "connectedAt" ELSE "stabilizationStartedAt",
               IF r.disconnected THEN "disconnectedAt"
               ELSE IF r.officialEndedAt # NullTime THEN "officialEndedAt"
               ELSE "now")

\* The pill's window on an answer of the query; the last hour is always there.
Window(a, pill) ==
  IF pill = "last_hour" THEN Between("hourAgo", "now")
  ELSE IF a = NoTest THEN Off
  ELSE CASE pill = "stabilization" -> StabilizationWindow(a[2])
         [] pill = "official_window" -> OfficialWindow(a[2])
         [] pill = "full_test" -> FullTestWindow(a[2])

\* defaultPillForActiveWellTest, and the diagnostic row without a test
DefaultSelection(a) ==
  IF a = NoTest THEN "diagnostic"
  ELSE CASE a[2].status \in {"measuring", "completed", "closed"} -> "official_window"
         [] a[2].status = "stabilizing" -> "stabilization"
         [] a[2].status = "aborted" ->
              IF a[2].officialStartedAt # NullTime THEN "official_window" ELSE "last_hour"
         [] OTHER -> "last_hour"

\* The dependencies of the effect that selects the default again.
Identity(a) == IF a = NoTest THEN NoTest ELSE <<a[1], a[2].status>>

----------------------------------------------------------------------------
\* The tests behind the drawer

\* getActive: one of the unit's active tests (the newest, should there be two)
ActiveAnswers ==
  LET found == {t \in Tests : UnitOf(t) = Unit /\ Active(t)}
  IN  IF found = {} THEN {NoTest} ELSE {<<t, row[t]>> : t \in found}

----------------------------------------------------------------------------
\* cloneMockStore: no service, and the rows of the fixture.
MockInit ==
  /\ row = Fixture
  /\ op = [o \in Operators |-> Idle]
  /\ raced = [o \in Operators |-> FALSE]
  /\ tainted = {}

DrawerInit ==
  /\ \/ source = "api" /\ Init
     \/ source = "mock" /\ MockInit
  /\ open = FALSE
  /\ cache = NoTest /\ answer = NoTest
  /\ fetch = "idle"
  /\ selection = "diagnostic"

\* A step of the service, or of a caller of it.
Serve ==
  /\ source = "api"
  /\ Next
  /\ UNCHANGED <<source, drawer>>

\* adapterCreateWellTestMock
MockCreate(t, j) ==
  /\ source = "mock"
  /\ Create(t, j)
  /\ UNCHANGED <<source, drawer>>

\* The six transitions of the mock store: read, guard and write without an
\* await between them, and no check of the clock.
MockTransition(t, kind, now) ==
  /\ source = "mock"
  /\ row[t].status \in AllowedFrom(kind)
  /\ kind = "connect" => ~OtherActive(t)
  /\ row' = [row EXCEPT ![t] = Patched(@, kind, now)]
  /\ UNCHANGED <<op, raced, tainted, source, drawer>>

----------------------------------------------------------------------------
\* The drawer

\* It is mounted anew, on what the query kept since it was last open, and fetches
\* unless that is fresh.
Open ==
  /\ ~open
  /\ open' = TRUE
  /\ selection' = DefaultSelection(cache)
  /\ fetch' \in {"idle", "asked"}
  /\ UNCHANGED <<vars, source, cache, answer>>

\* A fetch under way is cancelled, the data stays for the next time...
Close ==
  /\ open
  /\ open' = FALSE
  /\ selection' = "diagnostic"
  /\ fetch' = "idle" /\ answer' = NoTest
  /\ UNCHANGED <<vars, source, cache>>

\* ...until nobody has asked for it for five minutes.
Collect ==
  /\ ~open /\ cache # NoTest
  /\ cache' = NoTest
  /\ UNCHANGED <<vars, source, open, fetch, answer, selection>>

\* Variant: polling stops once there is a test to show.
PollUntilFound ==
  /\ open /\ fetch = "idle" /\ cache = NoTest
  /\ fetch' = "asked"
  /\ UNCHANGED <<vars, source, open, cache, answer, selection>>

\* The interval of the query.
Poll ==
  /\ open /\ fetch = "idle"
  /\ fetch' = "asked"
  /\ UNCHANGED <<vars, source, open, cache, answer, selection>>

Read ==
  /\ fetch = "asked"
  /\ fetch' = "read"
  /\ answer' \in ActiveAnswers
  /\ UNCHANGED <<vars, source, open, cache, selection>>

\* Variant: the effect depends on `open' alone.
ArriveKeepsSelection ==
  /\ fetch = "read" /\ selection # "outdated"
  /\ cache' = answer
  /\ fetch' = "idle" /\ answer' = NoTest
  /\ UNCHANGED <<vars, source, open, selection>>

\* The answer arrives and the drawer is drawn with it.  If it shows another test
\* or another phase, this drawing still has the selection of before, whichever it
\* was, and the effect is due; it runs before the drawer is drawn once more.
Arrive ==
  /\ fetch = "read" /\ selection # "outdated"
  /\ cache' = answer
  /\ selection' = IF Identity(answer) # Identity(cache) THEN "outdated" ELSE selection
  /\ fetch' = "idle" /\ answer' = NoTest
  /\ UNCHANGED <<vars, source, open>>

\* The effect selects the default, whatever was picked.
Resync ==
  /\ selection = "outdated"
  /\ selection' = DefaultSelection(cache)
  /\ UNCHANGED <<vars, source, open, cache, fetch, answer>>

\* The retries are used up: the old data stays.
GiveUp ==
  /\ fetch # "idle"
  /\ fetch' = "idle" /\ answer' = NoTest
  /\ UNCHANGED <<vars, source, open, cache, selection>>

\* A click on a pill that is not disabled, or on a diagnostic range.  One that
\* comes while the effect is due is undone by it.
Pick(choice) ==
  /\ open /\ selection # "outdated"
  /\ choice \in Pills => Window(cache, choice) # Off
  /\ selection' = choice
  /\ UNCHANGED <<vars, source, open, cache, fetch, answer>>

DrawerNext ==
  \/ Serve
  \/ \E t \in Tests, j \in Jobs : MockCreate(t, j)
  \/ \E t \in Tests, kind \in Kinds, now \in Times : MockTransition(t, kind, now)
  \/ Open \/ Close \/ Collect
  \/ Poll \/ Read \/ Arrive \/ Resync \/ GiveUp
  \/ \E choice \in Selections : Pick(choice)

\* The interval of an open drawer fires, an effect that is due runs, and of the
\* fetches that are sent for ever not every one is lost.
DrawerFairness ==
  /\ WF_drawerVars(Poll) /\ WF_drawerVars(Resync)
  /\ SF_drawerVars(Read) /\ SF_drawerVars(Arrive)

DrawerSpec == DrawerInit /\ [][DrawerNext]_drawerVars /\ DrawerFairness

----------------------------------------------------------------------------
\* Properties

DrawerTypeOK ==
  /\ TypeOK
  /\ source \in {"api", "mock"}
  /\ open \in BOOLEAN
  /\ cache \in Answers /\ answer \in Answers
  /\ fetch \in {"idle", "asked", "read"}
  /\ selection \in Selections \cup {"outdated"}

\* The comment beside the query says that the rule for the default normally keeps
\* a disabled pill from being selected.  It does but for the one drawing that the
\* effect still has to follow: through transitions, other tests, lost polls, clicks
\* and data kept from an earlier opening, the selected pill has a window.
SelectionHasWindow == selection \in Pills => Window(cache, selection) # Off

\* The windows a row of the table, or one the drawer still holds, is shown with:
\* stabilization ends where the official measurement begins; the official
\* window does not exist before that, slides while measuring, lies between the
\* two recorded stamps when the test is completed and never slides again; and a
\* window between recorded stamps is not upside down, which on the service is
\* the work of the table's checks, whatever its clock does.
Recorded == {"connectedAt", "stabilizationStartedAt", "stabilizationEndedAt",
         "officialStartedAt", "officialEndedAt"}

Upright(r, w) == w.from \in Recorded /\ w.to \in Recorded => r[w.from] <= r[w.to]

SoundWindows(r) ==
  LET stabilization == StabilizationWindow(r)
      official == OfficialWindow(r)
  IN  /\ official # Off => /\ stabilization.to \in Recorded
                           /\ r[stabilization.to] = r[official.from]
      /\ official = Off <=> \/ r.status \in {"scheduled", "connected", "stabilizing"}
                            \/ r.status = "aborted" /\ r.officialStartedAt = NullTime
      /\ r.status \in {"completed", "closed"} =>
           official = Between("officialStartedAt", "officialEndedAt")
      /\ official.to = "now" <=> r.status = "measuring"
      /\ source = "api" =>
           /\ Upright(r, stabilization) /\ Upright(r, official) /\ Upright(r, FullTestWindow(r))
           /\ stabilization # Off => r[FullTestWindow(r).from] <= r[stabilization.from]

WindowsSound ==
  /\ \A t \in Tests : row[t].status # "absent" => SoundWindows(row[t])
  /\ cache # NoTest => SoundWindows(cache[2])

\* A drawer that stays open comes to show the unit's active test as it is, and
\* nothing once there is none: no test is shown as measuring for ever.
DrawerCatchesUp == []<>(open => cache \in ActiveAnswers)
=============================================================================
