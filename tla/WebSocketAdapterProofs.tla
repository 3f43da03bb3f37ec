----------------------- MODULE WebSocketAdapterProofs -----------------------
(***************************************************************************)
(* The safety invariants of WebSocketAdapter for any number of sockets,    *)
(* stops and faults.  What they need beyond each other is what the flags   *)
(* running and intentionallyStopped say of the sockets and the timers.     *)
(* Then the steps by which a started adapter comes back to a connection,   *)
(* which is all of its recovery but the fairness of those steps.           *)
(***************************************************************************)
EXTENDS WebSocketAdapter, TLAPS

\* The flags never agree, and before the first start() nothing has happened.
Flags ==
  /\ running => ~intentionallyStopped
  /\ ~running => socket = None
  /\ ~running /\ ~intentionallyStopped =>
       /\ \A s \in Sockets : link[s] = "unused"
       /\ ~heartbeatTimer

IInv ==
  /\ TypeOK
  /\ Flags
  /\ PendingReconnectAlone
  /\ HeldIsWatched
  /\ ZombiesWereOrphaned
  /\ StatusHonestUnlessOrphaned

\* The invariant holds before the first start().
LEMMA InitIInv == Init => IInv
<1> SUFFICES ASSUME Init PROVE IInv
  OBVIOUS
<1>1. 0 \in 0 .. MaxStops /\ 0 \in 0 .. MaxFaults
  BY LimitsAssumption
<1>2. TypeOK
  BY <1>1 DEF Init, TypeOK, Links
<1>3. Flags /\ PendingReconnectAlone /\ HeldIsWatched
  BY DEF Init, Flags, PendingReconnectAlone, HeldIsWatched
<1>4. ZombiesWereOrphaned /\ StatusHonestUnlessOrphaned
  BY DEF Init, ZombiesWereOrphaned, StatusHonestUnlessOrphaned, Live
<1>5. QED
  BY <1>2, <1>3, <1>4 DEF IInv

\* The counters of the model stay in their bounds.
LEMMA FaultType == ASSUME TypeOK, Fault PROVE faults' \in 0 .. MaxFaults
  BY LimitsAssumption DEF TypeOK, Fault

LEMMA StopCountType ==
  ASSUME TypeOK, stops < MaxStops, stops' = stops + 1
  PROVE  stops' \in 0 .. MaxStops
  BY LimitsAssumption DEF TypeOK

\* Whether the socket opens or its constructor throws, the types are kept.
LEMMA OpenSocketType ==
  ASSUME TypeOK, NEW armed \in BOOLEAN, OpenSocket(armed)
  PROVE  /\ socket' \in Sockets \cup {None}
         /\ link' \in [Sockets -> Links]
         /\ reconnectTimer' \in BOOLEAN
         /\ faults' \in 0 .. MaxFaults
  BY FaultType DEF OpenSocket, TypeOK, Links

LEMMA CloseSocketType ==
  ASSUME TypeOK, CloseSocket
  PROVE  socket' \in Sockets \cup {None} /\ link' \in [Sockets -> Links]
  BY DEF CloseSocket, TypeOK, Links

\* Every callback, timer and call of start() or stop() keeps the types.
LEMMA NextTypeOK == TypeOK /\ [Next]_vars => TypeOK'
<1> SUFFICES ASSUME TypeOK, [Next]_vars PROVE TypeOK'
  OBVIOUS
<1> USE DEF TypeOK, fields, timers
<1>1. CASE Start
  BY <1>1, OpenSocketType DEF Start
<1>2. CASE Stop
  BY <1>2, StopCountType, CloseSocketType DEF Stop
<1>3. ASSUME NEW s \in Sockets, OnOpen(s) PROVE TypeOK'
  BY <1>3 DEF OnOpen, Links
<1>4. ASSUME NEW s \in Sockets, OnMessage(s) PROVE TypeOK'
  BY <1>4 DEF OnMessage
<1>5. ASSUME NEW s \in Sockets, OnClose(s) PROVE TypeOK'
  BY <1>5 DEF OnClose, Closed, Links
<1>6. ASSUME NEW s \in Sockets, Dropped(s) PROVE TypeOK'
  BY <1>6, FaultType DEF Dropped, Closed, Links
<1>7. ASSUME NEW s \in Sockets, FallsSilent(s) PROVE TypeOK'
  BY <1>7, FaultType DEF FallsSilent, Links
<1>8. CASE Silence
  BY <1>8, CloseSocketType DEF Silence, HeartbeatExpired
<1>9. CASE Delay
  BY <1>9, FaultType, CloseSocketType DEF Delay, HeartbeatExpired
<1>10. CASE Reconnect
  BY <1>10, OpenSocketType DEF Reconnect
<1>11. CASE UNCHANGED vars
  BY <1>11 DEF vars
<1>12. QED
  BY <1>1, <1>2, <1>3, <1>4, <1>5, <1>6, <1>7, <1>8, <1>9, <1>10, <1>11 DEF Next

\* What is left of IInv to show once the types are.
Untyped ==
  /\ Flags
  /\ PendingReconnectAlone
  /\ HeldIsWatched
  /\ ZombiesWereOrphaned
  /\ StatusHonestUnlessOrphaned

\* Opening a socket when none is held: the one new socket is the one held.
LEMMA OpenSocketKeeps ==
  ASSUME IInv, NEW armed \in BOOLEAN, OpenSocket(armed), socket = None, ~armed
  PROVE  /\ HeldIsWatched'
         /\ Live' \subseteq Live \cup {socket'}
         /\ reconnectTimer' => socket' = None
         /\ socket' = None => reconnectTimer'
         /\ socket' # None => link'[socket'] = "connecting"
<1> USE NoneAssumption DEF IInv, TypeOK
<1>1. CASE \E s \in Sockets :
             /\ link[s] = "unused"
             /\ link' = [link EXCEPT ![s] = "connecting"]
             /\ socket' = s
             /\ reconnectTimer' = armed
             /\ UNCHANGED faults
  BY <1>1 DEF HeldIsWatched, Live
<1>2. CASE reconnectTimer' = TRUE /\ UNCHANGED <<link, socket>>
  BY <1>2 DEF HeldIsWatched, Live
<1>3. QED
  BY <1>1, <1>2 DEF OpenSocket, Fresh

LEMMA StartKeeps == ASSUME IInv, Start PROVE Untyped'
<1>1. /\ socket = None
      /\ ~reconnectTimer
      /\ reconnectTimer \in BOOLEAN
  BY DEF IInv, TypeOK, Start, Flags, PendingReconnectAlone
<1>2. CASE url
  <2>1. OpenSocket(reconnectTimer) /\ status' = "reconnecting"
    BY <1>2 DEF Start
  <2>2. /\ HeldIsWatched'
        /\ Live' \subseteq Live \cup {socket'}
        /\ reconnectTimer' => socket' = None
        /\ socket' = None => reconnectTimer'
    BY <1>1, <2>1, OpenSocketKeeps
  <2>3. Flags'
    BY DEF Start, Flags
  <2>4. PendingReconnectAlone'
    BY <2>2 DEF Start, PendingReconnectAlone
  <2>5. ZombiesWereOrphaned'
    BY <1>1, <2>2, NoneAssumption DEF Start, ZombiesWereOrphaned, IInv, Live
  <2>6. StatusHonestUnlessOrphaned'
    BY <2>1, <2>2 DEF StatusHonestUnlessOrphaned
  <2>7. QED
    BY <2>2, <2>3, <2>4, <2>5, <2>6 DEF Untyped
<1>3. CASE ~url
  BY <1>1, <1>3, NoneAssumption
  DEF Untyped, IInv, TypeOK, Start, Flags, PendingReconnectAlone, HeldIsWatched,
      ZombiesWereOrphaned, StatusHonestUnlessOrphaned, Live
<1>4. QED
  BY <1>2, <1>3

LEMMA StopKeeps == ASSUME IInv, Stop PROVE Untyped'
<1> USE NoneAssumption DEF IInv, TypeOK, Stop, CloseSocket
<1>1. Flags' /\ PendingReconnectAlone' /\ HeldIsWatched' /\ StatusHonestUnlessOrphaned'
  BY DEF Flags, PendingReconnectAlone, HeldIsWatched, StatusHonestUnlessOrphaned
<1>2. ZombiesWereOrphaned'
  BY DEF ZombiesWereOrphaned, Live
<1>3. QED
  BY <1>1, <1>2 DEF Untyped

LEMMA OnOpenKeeps == ASSUME IInv, NEW s \in Sockets, OnOpen(s) PROVE Untyped'
<1> USE NoneAssumption DEF IInv, TypeOK, OnOpen, fields
<1>1. Flags' /\ PendingReconnectAlone'
  BY DEF Flags, PendingReconnectAlone
<1>2. HeldIsWatched' /\ ZombiesWereOrphaned'
  BY DEF HeldIsWatched, ZombiesWereOrphaned, Live
<1>3. StatusHonestUnlessOrphaned'
  BY DEF StatusHonestUnlessOrphaned, ZombiesWereOrphaned, Live
<1>4. QED
  BY <1>1, <1>2, <1>3 DEF Untyped

LEMMA OnMessageKeeps == ASSUME IInv, NEW s \in Sockets, OnMessage(s) PROVE Untyped'
  BY DEF IInv, Untyped, OnMessage, fields, Flags, PendingReconnectAlone, HeldIsWatched,
         ZombiesWereOrphaned, StatusHonestUnlessOrphaned, Live

\* The close event of s: a socket held in its stead is one orphan more.
LEMMA ClosedKeeps ==
  ASSUME IInv, NEW s \in Sockets, link[s] # "unused", Closed(s)
  PROVE  Untyped'
<1> USE NoneAssumption DEF IInv, TypeOK, Closed, fields
<1>1. socket' = None /\ (~running => intentionallyStopped)
  BY DEF Flags
<1>2. Flags' /\ PendingReconnectAlone' /\ HeldIsWatched'
  BY <1>1 DEF Flags, PendingReconnectAlone, HeldIsWatched
<1>3. ZombiesWereOrphaned'
  BY <1>1 DEF ZombiesWereOrphaned, Live
<1>4. StatusHonestUnlessOrphaned'
  <2>1. CASE intentionallyStopped
    <3>1. socket = None /\ ~reconnectTimer
      BY <2>1 DEF Flags, PendingReconnectAlone
    <3>2. QED
      BY <1>1, <2>1, <3>1 DEF StatusHonestUnlessOrphaned
  <2>2. CASE ~intentionallyStopped
    BY <2>2 DEF StatusHonestUnlessOrphaned
  <2>3. QED
    BY <2>1, <2>2
<1>5. QED
  BY <1>2, <1>3, <1>4 DEF Untyped

LEMMA FallsSilentKeeps == ASSUME IInv, NEW s \in Sockets, FallsSilent(s) PROVE Untyped'
<1> USE NoneAssumption DEF IInv, TypeOK, FallsSilent, fields, timers
<1>1. Flags' /\ PendingReconnectAlone' /\ HeldIsWatched'
  BY DEF Flags, PendingReconnectAlone, HeldIsWatched, Live
<1>2. ZombiesWereOrphaned' /\ StatusHonestUnlessOrphaned'
  BY DEF ZombiesWereOrphaned, StatusHonestUnlessOrphaned, Live
<1>3. QED
  BY <1>1, <1>2 DEF Untyped

LEMMA HeartbeatExpiredKeeps == ASSUME IInv, HeartbeatExpired PROVE Untyped'
<1> USE NoneAssumption DEF IInv, TypeOK, HeartbeatExpired, fields
<1>1. CASE intentionallyStopped
  <2>1. socket = None
    BY <1>1 DEF Flags
  <2>2. QED
    BY <1>1, <2>1 DEF Untyped, Flags, PendingReconnectAlone, HeldIsWatched,
                      ZombiesWereOrphaned, StatusHonestUnlessOrphaned, Live
<1>2. CASE ~intentionallyStopped
  <2>1. running /\ socket' = None /\ reconnectTimer' /\ status' = "reconnecting"
    BY <1>2 DEF Flags, CloseSocket
  <2>2. Flags' /\ PendingReconnectAlone' /\ HeldIsWatched' /\ StatusHonestUnlessOrphaned'
    BY <1>2, <2>1 DEF Flags, PendingReconnectAlone, HeldIsWatched, StatusHonestUnlessOrphaned
  <2>3. ZombiesWereOrphaned'
    BY <1>2 DEF ZombiesWereOrphaned, Live, CloseSocket
  <2>4. QED
    BY <2>2, <2>3 DEF Untyped
<1>3. QED
  BY <1>1, <1>2

LEMMA ReconnectKeeps == ASSUME IInv, Reconnect PROVE Untyped'
<1> USE DEF Reconnect, fields
<1>1. running /\ ~intentionallyStopped /\ socket = None
  BY DEF IInv, PendingReconnectAlone
<1>2. OpenSocket(FALSE)
  BY <1>1
<1>3. /\ HeldIsWatched'
      /\ Live' \subseteq Live \cup {socket'}
      /\ reconnectTimer' => socket' = None
      /\ socket' = None => reconnectTimer'
      /\ socket' # None => link'[socket'] = "connecting"
  BY <1>1, <1>2, OpenSocketKeeps
<1>4. Flags' /\ PendingReconnectAlone'
  BY <1>1, <1>3 DEF Flags, PendingReconnectAlone
<1>5. ZombiesWereOrphaned'
  BY <1>1, <1>3, NoneAssumption DEF IInv, ZombiesWereOrphaned, Live
<1>6. StatusHonestUnlessOrphaned'
  BY <1>1, <1>3 DEF IInv, StatusHonestUnlessOrphaned
<1>7. QED
  BY <1>3, <1>4, <1>5, <1>6 DEF Untyped

\* Every step keeps the invariant.
LEMMA NextIInv == IInv /\ [Next]_vars => IInv'
<1> SUFFICES ASSUME IInv, [Next]_vars PROVE IInv'
  OBVIOUS
<1>1. TypeOK'
  BY NextTypeOK DEF IInv
<1>2. Untyped'
  <2>1. ASSUME NEW s \in Sockets, OnClose(s) PROVE Untyped'
    BY <2>1, ClosedKeeps DEF OnClose
  <2>2. ASSUME NEW s \in Sockets, Dropped(s) PROVE Untyped'
    BY <2>2, ClosedKeeps DEF Dropped
  <2>3. CASE Silence \/ Delay
    BY <2>3, HeartbeatExpiredKeeps DEF Silence, Delay
  <2>4. CASE UNCHANGED vars
    BY <2>4 DEF vars, fields, timers, IInv, Untyped, Flags, PendingReconnectAlone,
                HeldIsWatched, ZombiesWereOrphaned, StatusHonestUnlessOrphaned, Live
  <2>5. QED
    BY <2>1, <2>2, <2>3, <2>4, StartKeeps, StopKeeps, OnOpenKeeps, OnMessageKeeps,
       FallsSilentKeeps, ReconnectKeeps DEF Next
<1>3. QED
  BY <1>1, <1>2 DEF IInv, Untyped

LEMMA InductiveInvariant == Spec => []IInv
  BY InitIInv, NextIInv, PTL DEF Spec

\* The fields, timers and sockets of the adapter keep their types.
THEOREM AdapterTypeOK == Spec => []TypeOK
<1>1. IInv => TypeOK
  BY DEF IInv
<1>2. QED
  BY <1>1, InductiveInvariant, PTL

\* No reconnect is pending beside a held socket or after stop(): the timer of
\* scheduleReconnect cannot open a second socket.
THEOREM AdapterPendingReconnectAlone == Spec => []PendingReconnectAlone
<1>1. IInv => PendingReconnectAlone
  BY DEF IInv
<1>2. QED
  BY <1>1, InductiveInvariant, PTL

\* The socket the adapter holds is alive, and supervised once it is open.
THEOREM AdapterHeldIsWatched == Spec => []HeldIsWatched
<1>1. IInv => HeldIsWatched
  BY DEF IInv
<1>2. QED
  BY <1>1, InductiveInvariant, PTL

\* A socket lives on unheld only if the close event of another one came while
\* it was held: onclose clears the field without asking whose event it is.
THEOREM AdapterZombiesWereOrphaned == Spec => []ZombiesWereOrphaned
<1>1. IInv => ZombiesWereOrphaned
  BY DEF IInv
<1>2. QED
  BY <1>1, InductiveInvariant, PTL

\* As long as that has not happened, the status told last is true.
THEOREM AdapterStatusHonest == Spec => []StatusHonestUnlessOrphaned
<1>1. IInv => StatusHonestUnlessOrphaned
  BY DEF IInv
<1>2. QED
  BY <1>1, InductiveInvariant, PTL

----------------------------------------------------------------------------
\* The way back to a working connection

\* A started adapter is never left without a socket and without a timer that
\* will open one, whichever callbacks of whichever sockets come in between.
NeverStranded == running /\ url => socket # None \/ reconnectTimer

\* How far the adapter is from a working connection: one step when it connects,
\* two when a reconnect is pending, three when its connection has gone mute.
Distance ==
  IF socket = None THEN 2
  ELSE IF link[socket] = "open" THEN 0
  ELSE IF link[socket] = "connecting" THEN 1
  ELSE 3

\* At every distance the step that brings the adapter nearer is pending; only a
\* zombie that talks can keep the watchdog of a mute connection from it.
HelpAtHand ==
  running /\ url =>
    \/ Distance = 0 /\ Working
    \/ Distance = 1 /\ socket # None /\ link[socket] = "connecting"
    \/ Distance = 2 /\ reconnectTimer
    \/ Distance = 3 /\ heartbeatTimer /\ (~Talking \/ ZombieTalks)

\* Nothing but a fault, a stop or an orphaned socket takes the adapter further
\* away, and each of the three pending steps takes it nearer.
ComesNearer ==
  running /\ running' /\ url /\ orphaned' = {} /\ UNCHANGED faults =>
    \/ Distance' < Distance
    \/ /\ Distance' = Distance
       /\ ~(Silence \/ Reconnect \/ \E s \in Sockets : OnOpen(s))

\* A socket is orphaned once, and until one is, the watchdog watches the socket
\* held.
Alone ==
  /\ \A s \in orphaned : link[s] # "unused" /\ s # socket
  /\ orphaned = {} /\ heartbeatTimer => socket # None /\ link[socket] \in {"open", "mute"}

Way == IInv /\ NeverStranded /\ Alone

LEMMA InitWay == Init => Way
BY InitIInv, NoneAssumption DEF Way, Init, NeverStranded, Alone

LEMMA NextNeverStranded == Way /\ [Next]_vars => NeverStranded'
<1> SUFFICES ASSUME Way, [Next]_vars PROVE NeverStranded'
  OBVIOUS
<1> USE NoneAssumption DEF NeverStranded, fields, timers
<1>1. TypeOK /\ Flags /\ NeverStranded
  BY DEF Way, IInv
<1>2. CASE Start
  BY <1>1, <1>2 DEF Start, OpenSocket
<1>3. CASE Stop
  BY <1>3 DEF Stop
<1>4. ASSUME NEW s \in Sockets, Closed(s) PROVE NeverStranded'
  BY <1>1, <1>4 DEF Closed, Flags
<1>5. CASE HeartbeatExpired
  BY <1>1, <1>5 DEF HeartbeatExpired, Flags
<1>6. CASE Reconnect
  BY <1>1, <1>6 DEF Reconnect, OpenSocket, Flags
<1>7. CASE UNCHANGED <<url, fields, socket, reconnectTimer>>
  BY <1>1, <1>7
<1>8. QED
  BY <1>2, <1>3, <1>4, <1>5, <1>6, <1>7
  DEF Next, OnOpen, OnMessage, OnClose, Dropped, FallsSilent, Silence, Delay, vars

LEMMA NextAlone == Way /\ [Next]_vars => Alone'
<1> SUFFICES ASSUME Way, [Next]_vars PROVE Alone'
  OBVIOUS
<1> USE NoneAssumption DEF Alone, fields, timers
<1>1. TypeOK /\ Flags /\ Alone /\ HeldIsWatched /\ ZombiesWereOrphaned
  BY DEF Way, IInv
<1>2. ASSUME NEW armed \in BOOLEAN, OpenSocket(armed), socket = None,
             UNCHANGED <<heartbeatTimer, orphaned>>
      PROVE  Alone'
  BY <1>1, <1>2 DEF OpenSocket, Fresh, TypeOK
<1>3. CASE Start
  <2>1. socket = None /\ reconnectTimer \in BOOLEAN
    BY <1>1, <1>3 DEF Start, Flags, TypeOK
  <2>2. CASE url
    BY <1>2, <1>3, <2>1, <2>2 DEF Start
  <2>3. CASE ~url
    BY <1>1, <1>3, <2>3 DEF Start
  <2>4. QED
    BY <2>2, <2>3
<1>4. CASE Stop
  BY <1>1, <1>4 DEF Stop, CloseSocket, TypeOK
<1>5. ASSUME NEW s \in Sockets, OnOpen(s) \/ OnMessage(s) PROVE Alone'
  <2>1. orphaned = {} => s = socket
    BY <1>1, <1>5 DEF OnOpen, OnMessage, ZombiesWereOrphaned, Live
  <2>2. QED
    BY <1>1, <1>5, <2>1 DEF OnOpen, OnMessage, TypeOK
<1>6. ASSUME NEW s \in Sockets, Closed(s) PROVE Alone'
  <2>1. socket' = None /\ ~heartbeatTimer'
    BY <1>6 DEF Closed
  <2>2. ASSUME NEW o \in orphaned' PROVE link'[o] # "unused" /\ o \in Sockets
    <3>1. o \in Sockets /\ link[o] # "unused"
      BY <1>1, <1>6 DEF Closed, HeldIsWatched, Live, TypeOK
    <3>2. QED
      BY <1>1, <1>6, <3>1 DEF Closed, TypeOK
  <2>3. QED
    BY <2>1, <2>2
<1>7. ASSUME NEW s \in Sockets, FallsSilent(s) PROVE Alone'
  BY <1>1, <1>7 DEF FallsSilent, TypeOK
<1>8. CASE HeartbeatExpired
  <2>1. ~heartbeatTimer' /\ orphaned' = orphaned
    BY <1>8 DEF HeartbeatExpired
  <2>2. \A s \in orphaned : link'[s] # "unused" /\ s # socket'
    BY <1>1, <1>8 DEF HeartbeatExpired, CloseSocket, TypeOK
  <2>3. QED
    BY <2>1, <2>2
<1>9. CASE Reconnect
  BY <1>1, <1>2, <1>9 DEF Reconnect, Way, IInv, PendingReconnectAlone
<1>10. CASE UNCHANGED vars
  BY <1>1, <1>10 DEF vars
<1>11. QED
  BY <1>3, <1>4, <1>5, <1>6, <1>7, <1>8, <1>9, <1>10
  DEF Next, OnClose, Dropped, Silence, Delay

LEMMA WayInvariant == Spec => []Way
<1>1. Way /\ [Next]_vars => Way'
  BY NextIInv, NextNeverStranded, NextAlone DEF Way
<1>2. QED
  BY <1>1, InitWay, PTL DEF Spec

LEMMA WayHelps == Way => HelpAtHand
<1> SUFFICES ASSUME Way, running, url
             PROVE  \/ Distance = 0 /\ Working
                    \/ Distance = 1 /\ socket # None /\ link[socket] = "connecting"
                    \/ Distance = 2 /\ reconnectTimer
                    \/ Distance = 3 /\ heartbeatTimer /\ (~Talking \/ ZombieTalks)
  BY DEF HelpAtHand
<1>1. CASE socket = None
  BY <1>1 DEF Way, NeverStranded, Distance
<1>2. CASE socket # None
  <2>1. /\ link[socket] \in {"connecting", "open", "mute"}
        /\ link[socket] \in {"open", "mute"} => heartbeatTimer
    BY <1>2 DEF Way, IInv, HeldIsWatched, Live
  <2>2. \A s \in Sockets : link[s] = "open" => s = socket \/ s \in orphaned
    BY DEF Way, IInv, ZombiesWereOrphaned, Live
  <2>3. QED
    BY <1>2, <2>1, <2>2 DEF Distance, Working, Talking, ZombieTalks
<1>3. QED
  BY <1>1, <1>2

LEMMA StepComesNearer == Way /\ [Next]_vars => ComesNearer
<1> SUFFICES ASSUME Way, [Next]_vars, running, running', url, orphaned' = {}, UNCHANGED faults
             PROVE  \/ Distance' < Distance
                    \/ /\ Distance' = Distance
                       /\ ~(Silence \/ Reconnect \/ \E s \in Sockets : OnOpen(s))
  BY DEF ComesNearer
<1> USE NoneAssumption DEF fields, timers
<1>1. TypeOK /\ Flags /\ HeldIsWatched /\ ZombiesWereOrphaned /\ PendingReconnectAlone /\ Alone
  BY DEF Way, IInv
<1>2. ~Fault /\ ~intentionallyStopped
  BY <1>1 DEF Fault, TypeOK, Flags
<1>3. orphaned = {}
  BY DEF Next, Start, Stop, OnOpen, OnMessage, OnClose, Dropped, Closed, FallsSilent, Silence, Delay,
     HeartbeatExpired, Reconnect, vars
<1>4. \A s \in Live : s = socket
  BY <1>1, <1>3 DEF ZombiesWereOrphaned
<1>5. ASSUME NEW s \in Sockets, OnOpen(s) PROVE Distance' < Distance
  BY <1>1, <1>4, <1>5 DEF OnOpen, Live, Distance, TypeOK
<1>6. CASE Silence
  <2>1. socket # None /\ link[socket] = "mute"
    BY <1>1, <1>3, <1>6 DEF Silence, HeartbeatExpired, Talking, Alone, TypeOK
  <2>2. socket' = None
    BY <1>2, <1>6 DEF Silence, HeartbeatExpired, CloseSocket
  <2>3. QED
    BY <2>1, <2>2 DEF Distance
<1>7. CASE Reconnect
  <2>1. socket = None
    BY <1>1, <1>7 DEF Reconnect, PendingReconnectAlone
  <2>2. PICK s \in Sockets : link' = [link EXCEPT ![s] = "connecting"] /\ socket' = s
    BY <1>2, <1>7 DEF Reconnect, OpenSocket
  <2>3. QED
    BY <1>1, <2>1, <2>2 DEF Distance, TypeOK
<1>8. ASSUME ~Silence, ~Reconnect, \A s \in Sockets : ~OnOpen(s)
      PROVE  Distance' = Distance
  <2>1. ASSUME NEW s \in Sockets, OnClose(s) PROVE Distance' = Distance
    <3>1. socket = None
      BY <1>1, <2>1 DEF OnClose, Closed, HeldIsWatched, Live, TypeOK
    <3>2. QED
      BY <2>1, <3>1 DEF OnClose, Closed, Distance
  <2>2. ASSUME NEW s \in Sockets, OnMessage(s) PROVE Distance' = Distance
    BY <2>2 DEF OnMessage, Distance
  <2>3. CASE UNCHANGED vars
    BY <2>3 DEF vars, Distance
  <2>4. QED
    BY <1>2, <1>8, <2>1, <2>2, <2>3 DEF Next, Start, Stop, Dropped, FallsSilent, Delay
<1>9. QED
  BY <1>5, <1>6, <1>7, <1>8

\* scheduleReconnect is reached from every way a connection can end: a started
\* adapter always holds a socket or is about to open one.
THEOREM AdapterNeverStranded == Spec => []NeverStranded
<1>1. Way => NeverStranded
  BY DEF Way
<1>2. QED
  BY <1>1, WayInvariant, PTL

\* Wherever it is on its way to a working connection, the callback or timer that
\* takes a started adapter on is due; only the messages of a zombie can put off
\* the watchdog of a mute connection.
THEOREM AdapterHelpAtHand == Spec => []HelpAtHand
BY WayHelps, WayInvariant, PTL

\* And no other callback undoes what the one before has reached: at most three
\* of those steps lead from a lost connection to a working one.
THEOREM AdapterComesNearer == Spec => [][ComesNearer]_vars
<1>1. Way /\ [Next]_vars => [ComesNearer]_vars
  BY StepComesNearer
<1>2. QED
  BY <1>1, WayInvariant, PTL DEF Spec
=============================================================================
