--------------------------- MODULE RealtimeFanout ---------------------------
(***************************************************************************)
(* From a committed reading to the tile that shows it: the emitter, the    *)
(* tenant's room in the gateway, the Socket.IO client of one browser tab,  *)
(* the hook that overlays live readings on the values of the last REST     *)
(* answer, and the query that polls these.  All consumers in the tab share *)
(* one socket, and so one membership of the room.  A card shows one tag of *)
(* one unit, which several sensors may measure.                            *)
(***************************************************************************)
EXTENDS Naturals, FiniteSets, SequencesExt

CONSTANTS
  Cards,        \* mounted with a query and a tracked slot
  Panels,       \* mounted with the hook alone
  Sensors,
  Wires,        \* how the body of an event looks, see Emit
  MaxTime,      \* latest time of a reading
  MaxFaults,    \* lost connections and failed fetches
  MaxUnmounts,
  MaxQueue      \* messages from the browser under way

Consumers == Cards \cup Panels
Times == 1 .. MaxTime

ASSUME WiresAssumption == Wires # {} /\ Wires \subseteq {"envelope", "payload"}
ASSUME ConsumersAssumption == IsFiniteSet(Cards) /\ IsFiniteSet(Panels)
ASSUME BoundsAssumption ==
  /\ MaxTime \in Nat /\ MaxFaults \in Nat /\ MaxUnmounts \in Nat /\ MaxQueue \in Nat

VARIABLES
  live,      \* live_readings: the time of each sensor's latest row, 0 if none
  unsent,    \* committed updates that no emitMany has reached yet
  status,    \* of the client's connection; the link is up iff "connected"
  toServer,  \* subscribe and unsubscribe on their way or buffered
  joined,    \* the socket is in the tenant's room
  toClient,  \* events on their way
  mounted,
  cache,     \* the query's data: rows of the last answer, if there is one
  fetch,     \* the query's fetch
  slot,      \* time of the live reading a card overlays, 0 if none
  owed,      \* history: what a card's query must bring after a reconnect
  faults, unmounts

server == <<live, unsent, joined>>
wire == <<toServer, toClient>>
cards == <<cache, fetch, slot, owed>>
bounds == <<faults, unmounts>>
vars == <<server, status, wire, mounted, cards, bounds>>

Rows == [Sensors -> 0 .. MaxTime]
NoRows == [s \in Sensors |-> 0]
NoData == [loaded |-> FALSE, rows |-> NoRows]
Messages == {"subscribe", "unsubscribe"}
Updates == [card : Cards, time : Times]
Events == [card : Cards, time : Times, wire : Wires]
Fetches == [phase : {"idle", "asked", "read"}, rows : Rows]
Idle == [phase |-> "idle", rows |-> NoRows]
Asked == [phase |-> "asked", rows |-> NoRows]

\* The provider hands out the client from the first change of state on, and
\* the effect of each mounted hook then subscribes and adds its listeners.
HasClient == status # "connecting"
Subscribed == IF HasClient THEN mounted ELSE {}
\* The slot of a card is tracked once an answer had a row for its tag.
Tracking(c) == c \in Subscribed /\ cache[c].rows # NoRows

Init ==
  /\ live = [c \in Cards |-> NoRows]
  /\ unsent = {}
  /\ status = "connecting"
  /\ toServer = <<>>
  /\ joined = FALSE
  /\ toClient = <<>>
  /\ mounted = {}
  /\ cache = [c \in Cards |-> NoData]
  /\ fetch = [c \in Cards |-> Idle]
  /\ slot = [c \in Cards |-> 0]
  /\ owed = [c \in Cards |-> NoRows]
  /\ faults = 0
  /\ unmounts = 0

Fault == faults < MaxFaults /\ faults' = faults + 1

\* socket.emit: at once when connected, else kept until the next connect.
Send(messages) ==
  /\ Len(toServer) + Len(messages) <= MaxQueue
  /\ toServer' = toServer \o messages

----------------------------------------------------------------------------
\* The backend

\* A newer row of a channel is committed (see Ingest).
Commit(c, s, t) ==
  /\ t > live[c][s]
  /\ live' = [live EXCEPT ![c][s] = t]
  /\ unsent' = unsent \cup {[card |-> c, time |-> t]}
  /\ UNCHANGED <<joined, status, wire, mounted, cards, bounds>>

\* emitMany, after the commit and outside any lock: updates of two requests in
\* either order.  The emitter sends the envelope; the hook is written (and
\* tested) for the bare payload.
Emit(u) ==
  /\ unsent' = unsent \ {u}
  /\ IF joined
     THEN \E w \in Wires :
            toClient' = Append(toClient, [card |-> u.card, time |-> u.time, wire |-> w])
     ELSE toClient' = toClient
  /\ UNCHANGED <<live, joined, status, toServer, mounted, cards, bounds>>

\* handleSubscribe, handleUnsubscribe
ServerHandles ==
  /\ status = "connected"
  /\ toServer # <<>>
  /\ joined' = (Head(toServer) = "subscribe")
  /\ toServer' = Tail(toServer)
  /\ UNCHANGED <<live, unsent, status, toClient, mounted, cards, bounds>>

----------------------------------------------------------------------------
\* The connection

\* With the client comes the effect of every mounted hook.
FirstState ==
  IF HasClient
  THEN UNCHANGED toServer
  ELSE Send([i \in 1 .. Cardinality(mounted) |-> "subscribe"])

\* invalidateQueries: a query that has data drops the fetch it is in and
\* starts another; without data a fetch that is under way goes on.
Invalidated(c) ==
  IF c \in mounted /\ (cache[c].loaded \/ fetch[c].phase = "idle")
  THEN Asked
  ELSE fetch[c]

\* Variant: a fetch under way is left to finish (cancelRefetch: false).
ConnectKeepsFetches ==
  /\ status \in {"connecting", "reconnecting"}
  /\ status' = "connected"
  /\ FirstState
  /\ IF status = "reconnecting"
     THEN /\ fetch' = [c \in Cards |-> IF c \in mounted /\ fetch[c].phase = "idle"
                                       THEN Asked ELSE fetch[c]]
          /\ owed' = [c \in Cards |-> IF c \in mounted /\ cache[c].loaded
                                      THEN live[c] ELSE owed[c]]
     ELSE UNCHANGED <<fetch, owed>>
  /\ UNCHANGED <<server, toClient, mounted, cache, slot, bounds>>

\* 'connect'.  Rooms are not part of the new connection.
Connect ==
  /\ status \in {"connecting", "reconnecting"}
  /\ status' = "connected"
  /\ FirstState
  /\ IF status = "reconnecting"
     THEN /\ fetch' = [c \in Cards |-> Invalidated(c)]
          /\ owed' = [c \in Cards |-> IF c \in mounted /\ cache[c].loaded
                                      THEN live[c] ELSE owed[c]]
     ELSE UNCHANGED <<fetch, owed>>
  /\ UNCHANGED <<server, toClient, mounted, cache, slot, bounds>>

\* 'reconnect_attempt', also when the very first connection fails.
Attempt ==
  /\ status \in {"connecting", "disconnected"}
  /\ status' = "reconnecting"
  /\ FirstState
  /\ UNCHANGED <<server, toClient, mounted, cards, bounds>>

\* 'disconnect': what is on its way is lost, and the server's socket leaves its
\* rooms.  It may be the process that ended, with the emits it had left.
Drop ==
  /\ status = "connected"
  /\ Fault
  /\ status' = "disconnected"
  /\ toServer' = <<>>
  /\ toClient' = <<>>
  /\ joined' = FALSE
  /\ unsent' \in {unsent, {}}
  /\ UNCHANGED <<live, mounted, cards, unmounts>>

----------------------------------------------------------------------------
\* The hook

\* handleLiveReading takes its argument for the payload: of an envelope it
\* finds no tenantId, and ignores the event.
Accepted(c, e) == e.wire = "payload" /\ e.card = c /\ Tracking(c)

\* Variant: the last event wins, whatever its timestamp.
DeliverLast ==
  /\ status = "connected"
  /\ toClient # <<>>
  /\ slot' = [c \in Cards |-> IF Accepted(c, Head(toClient))
                              THEN Head(toClient).time ELSE slot[c]]
  /\ toClient' = Tail(toClient)
  /\ UNCHANGED <<server, status, toServer, mounted, cache, fetch, owed, bounds>>

\* A listener takes an event that is newer than what it has.
Deliver ==
  /\ status = "connected"
  /\ toClient # <<>>
  /\ slot' = [c \in Cards |->
                IF Accepted(c, Head(toClient)) /\ slot[c] < Head(toClient).time
                THEN Head(toClient).time
                ELSE slot[c]]
  /\ toClient' = Tail(toClient)
  /\ UNCHANGED <<server, status, toServer, mounted, cache, fetch, owed, bounds>>

\* A card finds the data of its query still cached, or collected; it fetches
\* unless the data are fresh (staleTime).
Mount(u) ==
  /\ u \notin mounted
  /\ mounted' = mounted \cup {u}
  /\ Send(IF HasClient THEN <<"subscribe">> ELSE <<>>)
  /\ IF u \in Cards
     THEN /\ cache' \in {cache, [cache EXCEPT ![u] = NoData]}
          /\ \/ fetch' = [fetch EXCEPT ![u] = Asked]
             \/ cache'[u].loaded /\ UNCHANGED fetch
     ELSE UNCHANGED <<cache, fetch>>
  /\ UNCHANGED <<server, status, toClient, slot, owed, bounds>>

\* The cleanup leaves the room, slots go with the component, and a fetch whose
\* signal is consumed is aborted.
Forgotten(u) ==
  /\ fetch' = [c \in Cards |-> IF c = u THEN Idle ELSE fetch[c]]
  /\ slot' = [c \in Cards |-> IF c = u THEN 0 ELSE slot[c]]
  /\ owed' = [c \in Cards |-> IF c = u THEN NoRows ELSE owed[c]]

\* Variant: an effect without cleanup.
UnmountSilently(u) ==
  /\ u \in mounted
  /\ unmounts < MaxUnmounts
  /\ unmounts' = unmounts + 1
  /\ mounted' = mounted \ {u}
  /\ Forgotten(u)
  /\ UNCHANGED <<server, status, wire, cache, faults>>

\* The effect's cleanup, run when the consumer goes.
Unmount(u) ==
  /\ u \in mounted
  /\ unmounts < MaxUnmounts
  /\ unmounts' = unmounts + 1
  /\ mounted' = mounted \ {u}
  /\ Send(IF HasClient THEN <<"unsubscribe">> ELSE <<>>)
  /\ Forgotten(u)
  /\ UNCHANGED <<server, status, toClient, cache, faults>>

----------------------------------------------------------------------------
\* The query of a card

\* refetchInterval
Ask(c) ==
  /\ c \in mounted
  /\ fetch[c].phase = "idle"
  /\ fetch' = [fetch EXCEPT ![c] = Asked]
  /\ UNCHANGED <<server, status, wire, mounted, cache, slot, owed, bounds>>

\* LatestService.query reads the rows of the unit.
Read(c) ==
  /\ fetch[c].phase = "asked"
  /\ fetch' = [fetch EXCEPT ![c] = [phase |-> "read", rows |-> live[c]]]
  /\ UNCHANGED <<server, status, wire, mounted, cache, slot, owed, bounds>>

\* Variant: tracked slots that keep their identity while they are the same.
ArriveQuietly(c) ==
  /\ fetch[c].phase = "read"
  /\ cache' = [cache EXCEPT ![c] = [loaded |-> TRUE, rows |-> fetch[c].rows]]
  /\ fetch' = [fetch EXCEPT ![c] = Idle]
  /\ Send(IF HasClient /\ ~Tracking(c) /\ fetch[c].rows # NoRows
          THEN <<"unsubscribe", "subscribe">> ELSE <<>>)
  /\ UNCHANGED <<server, status, toClient, mounted, slot, owed, bounds>>

\* A response is a new object, so valuesByTagName and the tracked slots are new
\* as well: the effect cleans up and subscribes once more.
Arrive(c) ==
  /\ fetch[c].phase = "read"
  /\ cache' = [cache EXCEPT ![c] = [loaded |-> TRUE, rows |-> fetch[c].rows]]
  /\ fetch' = [fetch EXCEPT ![c] = Idle]
  /\ Send(IF HasClient THEN <<"unsubscribe", "subscribe">> ELSE <<>>)
  /\ UNCHANGED <<server, status, toClient, mounted, slot, owed, bounds>>

\* Variant: a query that gave up is not polled again.
FetchFailsForGood(c) ==
  /\ fetch[c].phase # "idle"
  /\ Fault
  /\ \/ fetch' = [fetch EXCEPT ![c] = Asked] /\ UNCHANGED owed
     \/ /\ fetch' = [fetch EXCEPT ![c].phase = "error"]
        /\ owed' = [owed EXCEPT ![c] = NoRows]
  /\ UNCHANGED <<server, status, wire, mounted, cache, slot, unmounts>>

\* An attempt fails; the query retries or gives up until the next interval.
FetchFails(c) ==
  /\ fetch[c].phase # "idle"
  /\ Fault
  /\ \/ fetch' = [fetch EXCEPT ![c] = Asked] /\ UNCHANGED owed
     \/ /\ fetch' = [fetch EXCEPT ![c] = Idle]
        /\ owed' = [owed EXCEPT ![c] = NoRows]
  /\ UNCHANGED <<server, status, wire, mounted, cache, slot, unmounts>>

----------------------------------------------------------------------------
Next ==
  \/ \E c \in Cards, s \in Sensors, t \in Times : Commit(c, s, t)
  \/ \E u \in unsent : Emit(u)
  \/ ServerHandles
  \/ Connect
  \/ Attempt
  \/ Drop
  \/ Deliver
  \/ \E u \in Consumers : Mount(u)
  \/ \E u \in Consumers : Unmount(u)
  \/ \E c \in Cards : Ask(c)
  \/ \E c \in Cards : Read(c)
  \/ \E c \in Cards : Arrive(c)
  \/ \E c \in Cards : FetchFails(c)

Spec == Init /\ [][Next]_vars

\* The client tries to connect without end, messages on an open connection are
\* handled, and the interval of a mounted query fires and is answered.
FairSpec ==
  /\ Spec
  /\ WF_vars(Attempt) /\ WF_vars(Connect) /\ WF_vars(ServerHandles)
  /\ \A c \in Cards : WF_vars(Ask(c)) /\ WF_vars(Read(c)) /\ WF_vars(Arrive(c))

----------------------------------------------------------------------------
TypeOK ==
  /\ live \in [Cards -> Rows]
  /\ unsent \subseteq Updates
  /\ status \in {"connecting", "connected", "reconnecting", "disconnected"}
  /\ toServer \in Seq(Messages)
  /\ joined \in BOOLEAN
  /\ toClient \in Seq(Events)
  /\ mounted \subseteq Consumers
  /\ cache \in [Cards -> [loaded : BOOLEAN, rows : Rows]]
  /\ fetch \in [Cards -> Fetches]
  /\ slot \in [Cards -> 0 .. MaxTime]
  /\ owed \in [Cards -> Rows]
  /\ faults \in 0 .. MaxFaults
  /\ unmounts \in 0 .. MaxUnmounts

\* The membership once everything sent is handled.
Membership == IF toServer = <<>> THEN joined ELSE Last(toServer) = "subscribe"

\* The room is not kept for a tab in which nobody listens any more.
NoLeakedRoom == Membership => Subscribed # {}

\* The other way round, which reference counting would give: while the link is
\* up and everything sent is handled, who has subscribed is in the room.
SubscribersAreJoined ==
  status = "connected" /\ toServer = <<>> /\ Subscribed # {} => joined

AtLeast(rows, floor) == \A s \in Sensors : rows[s] >= floor[s]

\* After a reconnect a card that showed data shows everything committed before
\* it as soon as its query rests: no answer that was read during the outage is
\* taken for the resync, unless the query gave up.
ResyncAfterOutage ==
  \A c \in Cards \cap mounted :
    /\ fetch[c].phase = "idle" => AtLeast(cache[c].rows, owed[c])
    /\ fetch[c].phase = "read" => AtLeast(fetch[c].rows, owed[c])

\* What the tile of a card shows is of time t or later.  Of the rows of its tag,
\* newest first, valuesByTagName keeps the last one, the oldest; a live reading
\* replaces it if it is newer.
Measuring(c) == {s \in Sensors : cache[c].rows[s] > 0}
ShowsAtLeast(c, t) ==
  \/ slot[c] >= t
  \/ Measuring(c) # {} /\ \A s \in Measuring(c) : cache[c].rows[s] >= t

\* The reading a card shows is never replaced by an older one, however answers,
\* events and outages interleave, except when one more sensor appears.
ShownNeverBack ==
  [][\A c \in Cards \cap mounted, t \in Times :
       ShowsAtLeast(c, t) /\ c \in mounted'
         => ShowsAtLeast(c, t)' \/ ~(Measuring(c)' \subseteq Measuring(c))]_vars

\* A live reading of a tracked slot that is delivered and newer updates it.
MatchingEventsUpdate ==
  [][\A c \in Cards :
       /\ Len(toClient') < Len(toClient) /\ status' = status
       /\ Tracking(c) /\ Head(toClient).card = c
       => slot'[c] >= Head(toClient).time]_vars

\* When readings stop coming, a mounted card ends up with the latest of every
\* sensor and keeps it, whatever the socket and single fetches do.
CatchUp ==
  \A c \in Cards : <>[](c \in mounted => AtLeast(cache[c].rows, live[c]))

\* Outages and unmounts of others take a card out of the room only until its
\* next answer.
CardsRejoin == []<>(mounted \cap Cards # {} => joined)
=============================================================================
