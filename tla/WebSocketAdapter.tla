-------------------------- MODULE WebSocketAdapter --------------------------
(***************************************************************************)
(* BackendWebSocketTelemetryAdapter: one callback at a time over the       *)
(* adapter's fields, in any order the browser may deliver them.  A socket  *)
(* keeps its handlers after the adapter has let go of it, and the close    *)
(* event of a socket comes when the closing handshake ends or is given up, *)
(* which may be long after close() was called.  Delays are abstracted: an  *)
(* armed timer may fire at any moment.                                     *)
(***************************************************************************)
EXTENDS Naturals

CONSTANTS
  Sockets,    \* sockets the browser may create, numbered as they are
  None,       \* the null of the field `socket'
  MaxStops,   \* calls of stop()
  MaxFaults   \* refused, dropped and silenced connections, messages too late

ASSUME SocketsAssumption == Sockets \subseteq Nat
ASSUME NoneAssumption == None \notin Sockets
ASSUME LimitsAssumption == MaxStops \in Nat /\ MaxFaults \in Nat

VARIABLES
  url,        \* whether the adapter was given one
  running, intentionallyStopped,
  socket,     \* the socket the adapter holds, or None
  link,       \* what each socket is, held or not
  reconnectTimer, heartbeatTimer,   \* armed or not: there is one of each
  status,     \* the connection status listeners were told last
  orphaned,   \* history: sockets the adapter held when another one's close came
  stops, faults

fields == <<running, intentionallyStopped>>
timers == <<reconnectTimer, heartbeatTimer>>
vars == <<url, fields, socket, link, timers, status, orphaned, stops, faults>>

\* `mute': open for the browser, with nothing coming through any more.
Links == {"unused", "connecting", "open", "mute", "closing", "closed"}
Live == {s \in Sockets : link[s] \in {"connecting", "open", "mute"}}

Init ==
  /\ url \in BOOLEAN
  /\ running = FALSE
  /\ intentionallyStopped = FALSE
  /\ socket = None
  /\ link = [s \in Sockets |-> "unused"]
  /\ reconnectTimer = FALSE
  /\ heartbeatTimer = FALSE
  /\ status = "none"
  /\ orphaned = {}
  /\ stops = 0
  /\ faults = 0

Fault == faults < MaxFaults /\ faults' = faults + 1

----------------------------------------------------------------------------
\* The adapter's private methods

\* What `new WebSocket' returns: a socket never used before.
Fresh(s) == link[s] = "unused" /\ \A r \in Sockets : link[r] = "unused" => s <= r

\* Variant: a constructor that throws is not tried again.
OpenSocketGivesUp(armed) ==
  /\ reconnectTimer' = armed
  /\ \/ \E s \in Sockets :
          /\ Fresh(s)
          /\ link' = [link EXCEPT ![s] = "connecting"]
          /\ socket' = s
          /\ UNCHANGED faults
     \/ Fault /\ UNCHANGED <<link, socket>>

\* openSocket; armed is the reconnect timer as the caller leaves it.
OpenSocket(armed) ==
  \/ \E s \in Sockets :
       /\ Fresh(s)
       /\ link' = [link EXCEPT ![s] = "connecting"]
       /\ socket' = s
       /\ reconnectTimer' = armed
       /\ UNCHANGED faults
  \/ /\ reconnectTimer' = TRUE    \* the constructor throws
     /\ Fault
     /\ UNCHANGED <<link, socket>>

\* Variant: the field is cleared and close() is not called.
CloseSocketForgets == socket' = None /\ UNCHANGED link

CloseSocket ==
  /\ link' = IF socket = None THEN link ELSE [link EXCEPT ![socket] = "closing"]
  /\ socket' = None

----------------------------------------------------------------------------
\* start and stop; a second call of either changes nothing

Start ==
  /\ ~running
  /\ running' = TRUE
  /\ intentionallyStopped' = FALSE
  /\ IF url THEN status' = "reconnecting" /\ OpenSocket(reconnectTimer)
     ELSE status' = "disconnected" /\ UNCHANGED <<link, socket, reconnectTimer, faults>>
  /\ UNCHANGED <<url, heartbeatTimer, orphaned, stops>>

\* Variant: the reconnect timer is left to the flag alone.
StopKeepsTimer ==
  /\ running
  /\ stops < MaxStops
  /\ stops' = stops + 1
  /\ running' = FALSE
  /\ intentionallyStopped' = TRUE
  /\ heartbeatTimer' = FALSE
  /\ CloseSocket
  /\ status' = "disconnected"
  /\ UNCHANGED <<url, reconnectTimer, orphaned, faults>>

Stop ==
  /\ running
  /\ stops < MaxStops
  /\ stops' = stops + 1
  /\ running' = FALSE
  /\ intentionallyStopped' = TRUE
  /\ reconnectTimer' = FALSE
  /\ heartbeatTimer' = FALSE
  /\ CloseSocket
  /\ status' = "disconnected"
  /\ UNCHANGED <<url, orphaned, faults>>

----------------------------------------------------------------------------
\* Callbacks of a socket, whoever holds it

\* Variant: the watchdog waits for the first message.
OnOpenUnwatched(s) ==
  /\ link[s] = "connecting"
  /\ link' = [link EXCEPT ![s] = "open"]
  /\ status' = "connected"
  /\ UNCHANGED <<url, fields, socket, timers, orphaned, stops, faults>>

\* Variant: the socket's own state is passed on as the connection status.
OnOpenReadyState(s) ==
  /\ link[s] = "connecting"
  /\ link' = [link EXCEPT ![s] = "open"]
  /\ status' = "open"
  /\ heartbeatTimer' = TRUE
  /\ UNCHANGED <<url, fields, socket, reconnectTimer, orphaned, stops, faults>>

OnOpen(s) ==
  /\ link[s] = "connecting"
  /\ link' = [link EXCEPT ![s] = "open"]
  /\ status' = "connected"
  /\ heartbeatTimer' = TRUE
  /\ UNCHANGED <<url, fields, socket, reconnectTimer, orphaned, stops, faults>>

\* Every message re-arms the watchdog, well formed or not.
OnMessage(s) ==
  /\ link[s] = "open"
  /\ heartbeatTimer' = TRUE
  /\ UNCHANGED <<url, fields, socket, link, reconnectTimer, status, orphaned, stops, faults>>

\* onclose: the handler does not ask whether s is the socket the adapter holds.
Closed(s) ==
  /\ link' = [link EXCEPT ![s] = "closed"]
  /\ heartbeatTimer' = FALSE
  /\ socket' = None
  /\ orphaned' = orphaned \cup ({socket} \ {s, None})
  /\ IF intentionallyStopped THEN UNCHANGED <<status, reconnectTimer>>
     ELSE status' = "reconnecting" /\ reconnectTimer' = TRUE
  /\ UNCHANGED <<url, fields, stops>>

\* The end of a closing handshake.
OnClose(s) == link[s] = "closing" /\ Closed(s) /\ UNCHANGED faults

\* The server or the network refuses the connection or ends it.
Dropped(s) == link[s] \in {"connecting", "open", "mute"} /\ Closed(s) /\ Fault

\* The other side is gone and nothing says so.
FallsSilent(s) ==
  /\ link[s] = "open"
  /\ link' = [link EXCEPT ![s] = "mute"]
  /\ Fault
  /\ UNCHANGED <<url, fields, socket, timers, status, orphaned, stops>>

----------------------------------------------------------------------------
\* Timers

HeartbeatExpired ==
  /\ heartbeatTimer
  /\ heartbeatTimer' = FALSE
  /\ IF intentionallyStopped THEN UNCHANGED <<link, socket, status, reconnectTimer>>
     ELSE /\ status' = "reconnecting"
          /\ CloseSocket
          /\ reconnectTimer' = TRUE
  /\ UNCHANGED <<url, fields, orphaned, stops>>

Talking == \E s \in Sockets : link[s] = "open"

\* Nothing has come for the timeout: no socket talks, or its messages are late.
Silence == ~Talking /\ HeartbeatExpired /\ UNCHANGED faults
Delay == Talking /\ HeartbeatExpired /\ Fault

\* openSocket does nothing when the adapter has been stopped.
Reconnect ==
  /\ reconnectTimer
  /\ IF intentionallyStopped THEN reconnectTimer' = FALSE /\ UNCHANGED <<link, socket, faults>>
     ELSE OpenSocket(FALSE)
  /\ UNCHANGED <<url, fields, heartbeatTimer, status, orphaned, stops>>

Next ==
  \/ Start
  \/ Stop
  \/ \E s \in Sockets : OnOpen(s)
  \/ \E s \in Sockets : OnMessage(s)
  \/ \E s \in Sockets : OnClose(s)
  \/ \E s \in Sockets : Dropped(s)
  \/ \E s \in Sockets : FallsSilent(s)
  \/ Silence
  \/ Delay
  \/ Reconnect

Spec == Init /\ [][Next]_vars

\* The browser answers every connection attempt and ends every closing
\* handshake, and an armed timer fires; the watchdog's only if nothing comes.
FairSpec ==
  /\ Spec
  /\ \A s \in Sockets : WF_vars(OnOpen(s)) /\ WF_vars(OnClose(s))
  /\ WF_vars(Reconnect)
  /\ WF_vars(Silence)

----------------------------------------------------------------------------
TypeOK ==
  /\ url \in BOOLEAN
  /\ running \in BOOLEAN
  /\ intentionallyStopped \in BOOLEAN
  /\ socket \in Sockets \cup {None}
  /\ link \in [Sockets -> Links]
  /\ reconnectTimer \in BOOLEAN
  /\ heartbeatTimer \in BOOLEAN
  /\ status \in {"none", "connected", "reconnecting", "disconnected"}
  /\ orphaned \subseteq Sockets
  /\ stops \in 0 .. MaxStops
  /\ faults \in 0 .. MaxFaults

\* A reconnect is only ever pending for a running adapter that holds no socket:
\* the timer cannot open a second one beside it, nor one after stop().
PendingReconnectAlone ==
  reconnectTimer => running /\ ~intentionallyStopped /\ socket = None

\* The connection the adapter holds is supervised from the moment it is open,
\* whatever close events and messages of other sockets come in between.
HeldIsWatched ==
  socket # None => /\ socket \in Live
                   /\ link[socket] \in {"open", "mute"} => heartbeatTimer

\* No socket lives on unheld (a zombie)...
NoZombies == Live \subseteq {socket}

\* ...or it was held when the close event of an earlier one arrived.
ZombiesWereOrphaned == Live \subseteq {socket} \cup orphaned

\* What listeners were told last is true of the socket held, unless a zombie
\* had its say.
StatusHonestUnlessOrphaned ==
  orphaned = {} =>
    /\ status = "connected" => socket # None /\ link[socket] \in {"open", "mute"}
    /\ status = "disconnected" => socket = None /\ ~reconnectTimer
    /\ status = "reconnecting" => socket # None \/ reconnectTimer

Working == socket # None /\ link[socket] = "open"

\* A forgotten socket whose messages keep the one watchdog quiet.
ZombieTalks == \E s \in orphaned : link[s] = "open"

\* Through refusals, drops and silences, and whatever earlier sockets still do, a
\* started adapter gets a working connection, until it is stopped; only a zombie
\* that goes on talking can hold that up.
Recovers ==
  (running /\ url) ~> (Working \/ ~running \/ ZombieTalks)
=============================================================================
