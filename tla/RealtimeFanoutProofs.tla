------------------------ MODULE RealtimeFanoutProofs ------------------------
(***************************************************************************)
(* Theorems about RealtimeFanout, for any cards, panels, sensors and       *)
(* bounds, and for both forms of the events.                               *)
(***************************************************************************)
EXTENDS RealtimeFanout, FiniteSetTheorems, SequenceTheorems, TLAPS

LEMMA NoRowsType == NoRows \in Rows
BY BoundsAssumption DEF NoRows, Rows

\* As many subscribe messages as there are hooks mounted.
LEMMA JoinsType ==
  ASSUME NEW S \in SUBSET Consumers
  PROVE  /\ Cardinality(S) \in Nat
         /\ S = {} => Cardinality(S) = 0
         /\ [i \in 1 .. Cardinality(S) |-> "subscribe"] \in Seq(Messages)
         /\ Len([i \in 1 .. Cardinality(S) |-> "subscribe"]) = Cardinality(S)
<1>1. IsFiniteSet(Consumers)
  BY ConsumersAssumption, FS_Union DEF Consumers
<1>2. IsFiniteSet(S)
  BY <1>1, FS_Subset
<1>3. Cardinality(S) \in Nat
  BY <1>2, FS_CardinalityType
<1>4. S = {} => Cardinality(S) = 0
  BY FS_EmptySet
<1>. QED  BY <1>3, <1>4 DEF Messages

LEMMA SendType ==
  ASSUME toServer \in Seq(Messages), NEW m \in Seq(Messages), Send(m)
  PROVE  toServer' \in Seq(Messages)
BY ConcatProperties DEF Send

LEMMA LiteralsType ==
  /\ <<>> \in Seq(Messages)
  /\ <<"subscribe">> \in Seq(Messages)
  /\ <<"unsubscribe">> \in Seq(Messages)
  /\ <<"unsubscribe", "subscribe">> \in Seq(Messages)
BY DEF Messages

----------------------------------------------------------------------------
\* Every variable keeps its type, whatever the interleaving.
LEMMA TypeInit == Init => TypeOK
<1>. SUFFICES ASSUME Init PROVE TypeOK
  OBVIOUS
<1>1. toServer \in Seq(Messages) /\ toClient \in Seq(Events)
  BY DEF Init
<1>2. Idle \in Fetches /\ NoData \in [loaded : BOOLEAN, rows : Rows]
  BY NoRowsType DEF Idle, Fetches, NoData
<1>3. /\ 0 \in 0 .. MaxTime /\ 0 \in 0 .. MaxFaults /\ 0 \in 0 .. MaxUnmounts
  BY BoundsAssumption
<1>. QED  BY <1>1, <1>2, <1>3, NoRowsType DEF Init, TypeOK

LEMMA TypeNext == TypeOK /\ [Next]_vars => TypeOK'
<1>. SUFFICES ASSUME TypeOK, [Next]_vars PROVE TypeOK'
  OBVIOUS
<1>. USE NoRowsType, BoundsAssumption
<1>1. ASSUME NEW c \in Cards, NEW s \in Sensors, NEW t \in Times, Commit(c, s, t)
      PROVE  TypeOK'
  <2>1. live' \in [Cards -> Rows]
    BY <1>1 DEF Commit, TypeOK, Rows, Times
  <2>2. [card |-> c, time |-> t] \in Updates
    BY DEF Updates
  <2>. QED  BY <1>1, <2>1, <2>2 DEF Commit, TypeOK, server, wire, cards, bounds
<1>2. ASSUME NEW u \in unsent, Emit(u) PROVE TypeOK'
  <2>1. toClient' \in Seq(Events)
    <3>. toClient \in Seq(Events)
      BY DEF TypeOK
    <3>1. u \in Updates
      BY DEF TypeOK
    <3>2. \A w \in Wires : [card |-> u.card, time |-> u.time, wire |-> w] \in Events
      BY <3>1 DEF Updates, Events
    <3>3. CASE joined
      <4>1. PICK w \in Wires : toClient' = Append(toClient,
                [card |-> u.card, time |-> u.time, wire |-> w])
        BY <1>2, <3>3 DEF Emit
      <4>. QED  BY <4>1, <3>2, AppendProperties
    <3>4. CASE ~joined
      BY <1>2, <3>4 DEF Emit
    <3>. QED  BY <3>3, <3>4
  <2>. QED  BY <1>2, <2>1 DEF Emit, TypeOK, cards, bounds
<1>3. CASE ServerHandles
  BY <1>3 DEF ServerHandles, TypeOK, cards, bounds
<1>. toServer \in Seq(Messages)
  BY DEF TypeOK
<1>4. ASSUME FirstState PROVE toServer' \in Seq(Messages)
  <2>1. mounted \in SUBSET Consumers
    BY DEF TypeOK
  <2>. QED  BY <1>4, <2>1, JoinsType, SendType DEF FirstState
<1>5. CASE Connect
  <2>1. Asked \in Fetches
    BY DEF Asked, Fetches
  <2>2. fetch' \in [Cards -> Fetches]
    BY <1>5, <2>1 DEF Connect, TypeOK, Invalidated
  <2>3. owed' \in [Cards -> Rows]
    BY <1>5 DEF Connect, TypeOK
  <2>. QED  BY <1>4, <1>5, <2>2, <2>3 DEF Connect, TypeOK, server, bounds
<1>6. CASE Attempt
  BY <1>4, <1>6 DEF Attempt, TypeOK, server, cards, bounds
<1>0. ASSUME Fault PROVE faults' \in 0 .. MaxFaults
  BY <1>0 DEF Fault, TypeOK
<1>7. CASE Drop
  <2>1. toServer' \in Seq(Messages) /\ toClient' \in Seq(Events)
    BY <1>7, LiteralsType DEF Drop
  <2>2. unsent' \subseteq Updates
    BY <1>7 DEF Drop, TypeOK
  <2>. QED  BY <1>7, <1>0, <2>1, <2>2 DEF Drop, TypeOK, cards
<1>8. CASE Deliver
  <2>1. Head(toClient) \in Events /\ Tail(toClient) \in Seq(Events)
    BY <1>8 DEF Deliver, TypeOK
  <2>2. Head(toClient).time \in 0 .. MaxTime
    BY <2>1 DEF Events, Times
  <2>. QED  BY <1>8, <2>1, <2>2 DEF Deliver, TypeOK, server, bounds
<1>9. ASSUME NEW u \in Consumers, Mount(u) PROVE TypeOK'
  <2>1. Asked \in Fetches /\ NoData \in [loaded : BOOLEAN, rows : Rows]
    BY DEF Asked, Fetches, NoData
  <2>2. /\ cache' \in [Cards -> [loaded : BOOLEAN, rows : Rows]]
        /\ fetch' \in [Cards -> Fetches]
    BY <1>9, <2>1 DEF Mount, TypeOK
  <2>3. toServer' \in Seq(Messages)
    BY <1>9, SendType, LiteralsType DEF Mount
  <2>. QED  BY <1>9, <2>2, <2>3 DEF Mount, TypeOK, server, bounds
<1>10. ASSUME NEW u \in Consumers, Unmount(u) PROVE TypeOK'
  <2>1. Idle \in Fetches
    BY DEF Idle, Fetches
  <2>2. /\ fetch' \in [Cards -> Fetches]
        /\ slot' \in [Cards -> 0 .. MaxTime]
        /\ owed' \in [Cards -> Rows]
    BY <1>10, <2>1 DEF Unmount, Forgotten, TypeOK
  <2>3. toServer' \in Seq(Messages)
    BY <1>10, SendType, LiteralsType DEF Unmount
  <2>. QED  BY <1>10, <2>2, <2>3 DEF Unmount, TypeOK, server
<1>11. ASSUME NEW c \in Cards, Ask(c) PROVE TypeOK'
  BY <1>11 DEF Ask, Asked, Fetches, TypeOK, server, wire, bounds
<1>12. ASSUME NEW c \in Cards, Read(c) PROVE TypeOK'
  <2>1. [phase |-> "read", rows |-> live[c]] \in Fetches
    BY DEF Fetches, TypeOK
  <2>. QED  BY <1>12, <2>1 DEF Read, TypeOK, server, wire, bounds
<1>13. ASSUME NEW c \in Cards, Arrive(c) PROVE TypeOK'
  <2>1. fetch[c].rows \in Rows /\ Idle \in Fetches
    BY DEF Idle, Fetches, TypeOK
  <2>2. toServer' \in Seq(Messages)
    BY <1>13, SendType, LiteralsType DEF Arrive
  <2>. QED  BY <1>13, <2>1, <2>2 DEF Arrive, TypeOK, server, bounds
<1>14. ASSUME NEW c \in Cards, FetchFails(c) PROVE TypeOK'
  <2>1. Idle \in Fetches /\ Asked \in Fetches
    BY DEF Idle, Asked, Fetches
  <2>2. fetch' \in [Cards -> Fetches] /\ owed' \in [Cards -> Rows]
    BY <1>14, <2>1 DEF FetchFails, TypeOK
  <2>. QED  BY <1>14, <1>0, <2>2 DEF FetchFails, TypeOK, server, wire
<1>15. CASE UNCHANGED vars
  BY <1>15 DEF vars, server, wire, cards, bounds, TypeOK
<1>. QED  BY <1>1, <1>2, <1>3, <1>5, <1>6, <1>7, <1>8, <1>9, <1>10, <1>11,
             <1>12, <1>13, <1>14, <1>15 DEF Next

\* Rows, messages, queries and slots keep their types in every behaviour.
THEOREM FanoutTypeOK == Spec => []TypeOK
BY TypeInit, TypeNext, PTL DEF Spec

----------------------------------------------------------------------------
\* ResyncAfterOutage is inductive once it is known that nothing is owed beyond
\* what is stored, and nothing to a card without data.
Debts ==
  \A c \in Cards :
    /\ AtLeast(live[c], owed[c])
    /\ c \notin mounted \/ ~cache[c].loaded => owed[c] = NoRows

LEMMA AtLeastNoRows ==
  ASSUME NEW rows \in Rows
  PROVE  AtLeast(rows, NoRows) /\ AtLeast(rows, rows)
BY BoundsAssumption DEF AtLeast, NoRows, Rows

LEMMA DebtsInit == Init => Debts /\ ResyncAfterOutage
<1>. SUFFICES ASSUME Init PROVE Debts /\ ResyncAfterOutage
  OBVIOUS
<1>. QED  BY AtLeastNoRows, NoRowsType DEF Init, Debts, ResyncAfterOutage, Idle, NoData

LEMMA DebtsNext ==
  TypeOK /\ TypeOK' /\ Debts /\ ResyncAfterOutage /\ [Next]_vars
    => Debts' /\ ResyncAfterOutage'
<1>. SUFFICES ASSUME TypeOK, TypeOK', Debts, ResyncAfterOutage, [Next]_vars
              PROVE  Debts' /\ ResyncAfterOutage'
  OBVIOUS
<1>. DEFINE Kept(c) == /\ AtLeast(live[c], owed[c])
                       /\ c \notin mounted \/ ~cache[c].loaded => owed[c] = NoRows
                       /\ c \in mounted =>
                            /\ fetch[c].phase = "idle" => AtLeast(cache[c].rows, owed[c])
                            /\ fetch[c].phase = "read" => AtLeast(fetch[c].rows, owed[c])
<1>a. SUFFICES ASSUME NEW c \in Cards PROVE Kept(c)'
  BY DEF Debts, ResyncAfterOutage
<1>b. Kept(c)
  BY DEF Debts, ResyncAfterOutage
<1>c. /\ live[c] \in Rows /\ cache[c].rows \in Rows /\ fetch[c].rows \in Rows
      /\ live'[c] \in Rows /\ cache'[c].rows \in Rows /\ fetch'[c].rows \in Rows
  BY DEF TypeOK, Fetches
<1>d. /\ AtLeast(live'[c], NoRows) /\ AtLeast(cache'[c].rows, NoRows)
      /\ AtLeast(fetch'[c].rows, NoRows) /\ AtLeast(live[c], live[c])
  BY <1>c, AtLeastNoRows
<1>1. ASSUME NEW d \in Cards, NEW s \in Sensors, NEW t \in Times, Commit(d, s, t)
      PROVE  Kept(c)'
  <2>1. AtLeast(live'[c], owed[c])
    <3>. SUFFICES ASSUME NEW r \in Sensors PROVE live'[c][r] >= owed[c][r]
      BY DEF AtLeast
    <3>1. /\ live[c][r] \in 0 .. MaxTime /\ live'[c][r] \in 0 .. MaxTime
          /\ owed[c][r] \in 0 .. MaxTime
      BY <1>c DEF TypeOK, Rows
    <3>2. live'[c][r] >= live[c][r]
      <4>1. CASE c = d /\ r = s
        <5>1. live'[c][r] = t /\ t > live[c][r]
          BY <1>1, <4>1 DEF Commit, TypeOK, Rows
        <5>. QED  BY <5>1, <3>1, BoundsAssumption DEF Times
      <4>2. CASE ~(c = d /\ r = s)
        <5>1. live'[c][r] = live[c][r]
          BY <1>1, <4>2 DEF Commit, TypeOK, Rows
        <5>. QED  BY <5>1, <3>1, BoundsAssumption
      <4>. QED  BY <4>1, <4>2
    <3>3. live[c][r] >= owed[c][r]
      BY <1>b DEF AtLeast
    <3>. QED  BY <3>1, <3>2, <3>3, BoundsAssumption
  <2>. QED  BY <1>1, <1>b, <2>1 DEF Commit, cards
<1>2. ASSUME NEW u \in unsent, Emit(u) PROVE Kept(c)'
  BY <1>2, <1>b DEF Emit, cards
<1>3. CASE ServerHandles
  BY <1>3, <1>b DEF ServerHandles, cards
<1>4. CASE Connect
  <2>1. CASE status = "reconnecting" /\ c \in mounted /\ cache[c].loaded
    <3>1. fetch'[c] = Asked /\ owed'[c] = live[c] /\ live' = live /\ cache' = cache
          /\ mounted' = mounted
      BY <1>4, <2>1 DEF Connect, Invalidated, server
    <3>. QED  BY <3>1, <2>1, <1>d DEF Asked
  <2>2. CASE ~(status = "reconnecting" /\ c \in mounted /\ cache[c].loaded)
    <3>1. owed'[c] = owed[c] /\ live' = live /\ cache' = cache /\ mounted' = mounted
      BY <1>4, <2>2 DEF Connect, server
    <3>2. fetch'[c] = fetch[c] \/ fetch'[c] = Asked
      BY <1>4 DEF Connect, Invalidated
    <3>. QED  BY <3>1, <3>2, <1>b DEF Asked
  <2>. QED  BY <2>1, <2>2
<1>5. CASE Attempt
  BY <1>5, <1>b DEF Attempt, cards, server
<1>6. CASE Drop
  BY <1>6, <1>b DEF Drop, cards
<1>7. CASE Deliver
  BY <1>7, <1>b DEF Deliver, server
<1>8. ASSUME NEW u \in Consumers, Mount(u) PROVE Kept(c)'
  <2>1. CASE u = c
    <3>1. owed'[c] = NoRows
      BY <1>8, <1>b, <2>1 DEF Mount
    <3>. QED  BY <3>1, <1>d
  <2>2. CASE u # c
    <3>1. /\ cache'[c] = cache[c] /\ fetch'[c] = fetch[c] /\ owed' = owed
          /\ live' = live /\ (c \in mounted' <=> c \in mounted)
      BY <1>8, <2>2 DEF Mount, TypeOK, server
    <3>. QED  BY <3>1, <1>b
  <2>. QED  BY <2>1, <2>2
<1>9. ASSUME NEW u \in Consumers, Unmount(u) PROVE Kept(c)'
  <2>1. CASE u = c
    BY <1>9, <2>1, <1>d DEF Unmount, Forgotten
  <2>2. CASE u # c
    <3>1. /\ cache' = cache /\ fetch'[c] = fetch[c] /\ owed'[c] = owed[c]
          /\ live' = live /\ (c \in mounted' <=> c \in mounted)
      BY <1>9, <2>2 DEF Unmount, Forgotten, server
    <3>. QED  BY <3>1, <1>b
  <2>. QED  BY <2>1, <2>2
<1>10. ASSUME NEW d \in Cards, Ask(d) PROVE Kept(c)'
  <2>1. /\ cache' = cache /\ owed' = owed /\ live' = live /\ mounted' = mounted
        /\ fetch'[c] = fetch[c] \/ fetch'[c] = Asked
    BY <1>10 DEF Ask, TypeOK, server
  <2>. QED  BY <2>1, <1>b DEF Asked
<1>11. ASSUME NEW d \in Cards, Read(d) PROVE Kept(c)'
  <2>1. /\ cache' = cache /\ owed' = owed /\ live' = live /\ mounted' = mounted
        /\ \/ fetch'[c] = fetch[c]
           \/ fetch'[c] = [phase |-> "read", rows |-> live[c]]
    BY <1>11 DEF Read, TypeOK, server
  <2>. QED  BY <2>1, <1>b
<1>12. ASSUME NEW d \in Cards, Arrive(d) PROVE Kept(c)'
  <2>1. owed' = owed /\ live' = live /\ mounted' = mounted
    BY <1>12 DEF Arrive, server
  <2>2. CASE d = c
    <3>1. /\ fetch[c].phase = "read" /\ fetch'[c] = Idle
          /\ cache'[c] = [loaded |-> TRUE, rows |-> fetch[c].rows]
      BY <1>12, <2>2 DEF Arrive, TypeOK
    <3>. QED  BY <3>1, <2>1, <1>b DEF Idle
  <2>3. CASE d # c
    <3>1. fetch'[c] = fetch[c] /\ cache'[c] = cache[c]
      BY <1>12, <2>3 DEF Arrive, TypeOK
    <3>. QED  BY <3>1, <2>1, <1>b
  <2>. QED  BY <2>2, <2>3
<1>13. ASSUME NEW d \in Cards, FetchFails(d) PROVE Kept(c)'
  <2>1. /\ cache' = cache /\ live' = live /\ mounted' = mounted
        /\ \/ fetch'[c] = fetch[c] /\ owed'[c] = owed[c]
           \/ fetch'[c] = Asked /\ owed'[c] = owed[c]
           \/ fetch'[c] = Idle /\ owed'[c] = NoRows
    BY <1>13 DEF FetchFails, TypeOK, server
  <2>. QED  BY <2>1, <1>b, <1>d DEF Asked, Idle
<1>14. CASE UNCHANGED vars
  BY <1>14, <1>b DEF vars, server, cards
<1>. QED  BY <1>1, <1>2, <1>3, <1>4, <1>5, <1>6, <1>7, <1>8, <1>9, <1>10, <1>11,
             <1>12, <1>13, <1>14 DEF Next

\* No answer read during an outage passes for the resync after it, and a query
\* at rest has brought what was committed before the reconnect.
THEOREM FanoutResyncAfterOutage == Spec => []ResyncAfterOutage
<1>1. Init => TypeOK /\ Debts /\ ResyncAfterOutage
  BY TypeInit, DebtsInit
<1>2. TypeOK /\ Debts /\ ResyncAfterOutage /\ [Next]_vars
        => TypeOK' /\ Debts' /\ ResyncAfterOutage'
  BY TypeNext, DebtsNext
<1>. QED  BY <1>1, <1>2, PTL DEF Spec

----------------------------------------------------------------------------
\* Before the hooks have a client, nothing was sent.
Silent == status = "connecting" => toServer = <<>> /\ ~joined

\* Only a mounted card's query is fetching: no answer subscribes for a card that
\* is gone.
Fetching == \A c \in Cards : fetch[c].phase # "idle" => c \in mounted

LEMMA FetchingNext == TypeOK /\ Fetching /\ [Next]_vars => Fetching'
<1>. SUFFICES ASSUME TypeOK, Fetching, [Next]_vars, NEW c \in Cards,
                     fetch'[c].phase # "idle"
              PROVE  c \in mounted'
  BY DEF Fetching
<1>1. fetch[c].phase # "idle" => c \in mounted
  BY DEF Fetching
<1>2. CASE Connect
  BY <1>1, <1>2 DEF Connect, Invalidated
<1>3. ASSUME NEW u \in Consumers, Mount(u) PROVE c \in mounted'
  BY <1>1, <1>3 DEF Mount, TypeOK
<1>4. ASSUME NEW u \in Consumers, Unmount(u) PROVE c \in mounted'
  BY <1>1, <1>4 DEF Unmount, Forgotten, Idle
<1>5. ASSUME NEW d \in Cards, Ask(d) \/ Read(d) \/ Arrive(d) \/ FetchFails(d)
      PROVE  c \in mounted'
  <2>1. CASE d = c
    BY <1>1, <1>5, <2>1 DEF Ask, Read, Arrive, FetchFails, TypeOK
  <2>2. CASE d # c
    BY <1>1, <1>5, <2>2 DEF Ask, Read, Arrive, FetchFails, TypeOK
  <2>. QED  BY <2>1, <2>2
<1>6. ASSUME UNCHANGED <<mounted, fetch>> PROVE c \in mounted'
  BY <1>1, <1>6
<1>. QED
  BY <1>2, <1>3, <1>4, <1>5, <1>6 DEF Next, vars, cards, Commit, Emit, ServerHandles,
     Attempt, Drop, Deliver

\* Of the messages under way the last one decides.
LEMMA LastDecides ==
  ASSUME toServer \in Seq(Messages), NEW m \in Seq(Messages), m # <<>>, Send(m)
  PROVE  Membership' <=> m[Len(m)] = "subscribe"
<1>1. toServer' = toServer \o m
  BY DEF Send
<1>2. /\ toServer' \in Seq(Messages) /\ Len(toServer') = Len(toServer) + Len(m)
      /\ Len(m) > 0 /\ Len(m) \in Nat /\ Len(toServer) \in Nat
  BY <1>1, ConcatProperties, EmptySeq
<1>3. toServer' # <<>> /\ toServer'[Len(toServer')] = m[Len(m)]
  BY <1>1, <1>2, ConcatProperties
<1>. QED  BY <1>3 DEF Membership, Last

LEMMA HandlingKeeps ==
  ASSUME TypeOK, ServerHandles
  PROVE  Membership' <=> Membership
<1>0. toServer \in Seq(Messages)
  BY DEF TypeOK
<1>1. /\ toServer # <<>> /\ toServer' = Tail(toServer)
      /\ joined' = (Head(toServer) = "subscribe")
  BY DEF ServerHandles
<1>2. CASE Len(toServer) = 1
  <2>1. toServer' = <<>> /\ Last(toServer) = Head(toServer)
    BY <1>0, <1>1, <1>2 DEF Last
  <2>. QED  BY <1>1, <2>1 DEF Membership
<1>3. CASE Len(toServer) # 1
  <2>1. Len(toServer) \in Nat /\ Len(toServer) # 0
    BY <1>0, <1>1, EmptySeq, LenProperties
  <2>2. /\ Len(toServer) > 1 /\ Len(toServer') = Len(toServer) - 1
        /\ \A i \in 1 .. Len(toServer') : toServer'[i] = toServer[i + 1]
    <3>1. /\ Len(Tail(toServer)) = Len(toServer) - 1
          /\ \A i \in 1 .. Len(Tail(toServer)) : Tail(toServer)[i] = toServer[i + 1]
      BY <1>0, <1>1, HeadTailProperties
    <3>. QED  BY <1>1, <1>3, <2>1, <3>1
  <2>3. toServer'[Len(toServer')] = toServer[Len(toServer)] /\ toServer' # <<>>
    BY <2>1, <2>2
  <2>. QED  BY <1>1, <2>3 DEF Membership, Last
<1>. QED  BY <1>2, <1>3

LEMMA RoomNext ==
  TypeOK /\ Silent /\ Fetching /\ NoLeakedRoom /\ [Next]_vars
    => Silent' /\ NoLeakedRoom'
<1>. SUFFICES ASSUME TypeOK, Silent, Fetching, NoLeakedRoom, [Next]_vars
              PROVE  Silent' /\ NoLeakedRoom'
  OBVIOUS
<1>. USE DEF Silent, NoLeakedRoom, Subscribed, HasClient
<1>a. toServer \in Seq(Messages) /\ mounted \in SUBSET Consumers
  BY DEF TypeOK
<1>b. ASSUME NEW m \in Seq(Messages), m # <<>>, Send(m), Membership'
      PROVE  m[Len(m)] = "subscribe"
  BY <1>a, <1>b, LastDecides
<1>c. ASSUME Send(<<>>) PROVE toServer' = toServer
  BY <1>a, <1>c, LiteralsType, ConcatEmptySeq DEF Send
<1>d. ASSUME FirstState, joined' = joined, mounted' = mounted, status' # "connecting"
      PROVE  Silent' /\ NoLeakedRoom'
  <2>1. CASE HasClient
    BY <1>d, <2>1 DEF FirstState, Membership
  <2>2. CASE ~HasClient
    <3>. DEFINE m == [i \in 1 .. Cardinality(mounted) |-> "subscribe"]
    <3>1. m \in Seq(Messages) /\ Len(m) = Cardinality(mounted) /\ Cardinality(mounted) \in Nat
      BY <1>a, JoinsType
    <3>2. Send(m)
      BY <1>d, <2>2 DEF FirstState
    <3>3. CASE mounted = {}
      <4>1. Len(m) = 0 /\ m = <<>>
        BY <3>1, <3>3, <1>a, JoinsType, EmptySeq
      <4>. HIDE DEF m
      <4>2. toServer' = toServer
        BY <3>2, <4>1, <1>c
      <4>. QED  BY <4>2, <1>d, <2>2 DEF Membership
    <3>4. CASE mounted # {}
      BY <1>d, <3>4
    <3>. QED  BY <3>3, <3>4
  <2>. QED  BY <2>1, <2>2
<1>1. ASSUME NEW c \in Cards, NEW s \in Sensors, NEW t \in Times, Commit(c, s, t)
      PROVE  Silent' /\ NoLeakedRoom'
  BY <1>1 DEF Commit, wire, Membership
<1>2. ASSUME NEW u \in unsent, Emit(u) PROVE Silent' /\ NoLeakedRoom'
  BY <1>2 DEF Emit, Membership
<1>3. CASE ServerHandles
  BY <1>3, HandlingKeeps DEF ServerHandles
<1>4. CASE Connect
  BY <1>4, <1>d DEF Connect, server
<1>5. CASE Attempt
  BY <1>5, <1>d DEF Attempt, server
<1>6. CASE Drop
  BY <1>6 DEF Drop, Membership
<1>7. CASE Deliver
  BY <1>7 DEF Deliver, server, Membership
<1>8. ASSUME NEW u \in Consumers, Mount(u) PROVE Silent' /\ NoLeakedRoom'
  <2>1. CASE HasClient
    BY <1>8, <2>1 DEF Mount
  <2>2. CASE ~HasClient
    <3>1. toServer' = toServer /\ joined' = joined
      BY <1>8, <2>2, <1>c DEF Mount, server
    <3>. QED  BY <1>8, <2>2, <3>1 DEF Mount, Membership
  <2>. QED  BY <2>1, <2>2
<1>9. ASSUME NEW u \in Consumers, Unmount(u) PROVE Silent' /\ NoLeakedRoom'
  <2>1. CASE HasClient
    <3>1. Send(<<"unsubscribe">>)
      BY <1>9, <2>1 DEF Unmount
    <3>2. ~Membership'
      BY <3>1, <1>b, LiteralsType
    <3>. QED  BY <1>9, <2>1, <3>2 DEF Unmount
  <2>2. CASE ~HasClient
    <3>1. toServer' = toServer /\ joined' = joined
      BY <1>9, <2>2, <1>c DEF Unmount, server
    <3>. QED  BY <1>9, <2>2, <3>1 DEF Unmount, Membership
  <2>. QED  BY <2>1, <2>2
<1>10. ASSUME NEW c \in Cards, Ask(c) PROVE Silent' /\ NoLeakedRoom'
  BY <1>10 DEF Ask, server, wire, Membership
<1>11. ASSUME NEW c \in Cards, Read(c) PROVE Silent' /\ NoLeakedRoom'
  BY <1>11 DEF Read, server, wire, Membership
<1>12. ASSUME NEW c \in Cards, Arrive(c) PROVE Silent' /\ NoLeakedRoom'
  <2>1. CASE HasClient
    BY <1>12, <2>1 DEF Arrive, Fetching
  <2>2. CASE ~HasClient
    <3>1. toServer' = toServer /\ joined' = joined
      BY <1>12, <2>2, <1>c DEF Arrive, server
    <3>. QED  BY <1>12, <2>2, <3>1 DEF Arrive, Membership
  <2>. QED  BY <2>1, <2>2
<1>13. ASSUME NEW c \in Cards, FetchFails(c) PROVE Silent' /\ NoLeakedRoom'
  BY <1>13 DEF FetchFails, server, wire, Membership
<1>14. CASE UNCHANGED vars
  BY <1>14 DEF vars, server, wire, Membership
<1>. QED  BY <1>1, <1>2, <1>3, <1>4, <1>5, <1>6, <1>7, <1>8, <1>9, <1>10, <1>11,
             <1>12, <1>13, <1>14 DEF Next

\* A tab in which nobody listens is out of the room, or about to leave it.
THEOREM FanoutNoLeakedRoom == Spec => []NoLeakedRoom
<1>1. Init => TypeOK /\ Silent /\ Fetching /\ NoLeakedRoom
  BY TypeInit DEF Init, Silent, Fetching, Idle, NoLeakedRoom, Membership
<1>2. TypeOK /\ Silent /\ Fetching /\ NoLeakedRoom /\ [Next]_vars
        => TypeOK' /\ Silent' /\ Fetching' /\ NoLeakedRoom'
  BY TypeNext, RoomNext, FetchingNext
<1>. QED  BY <1>1, <1>2, PTL DEF Spec

----------------------------------------------------------------------------
\* What a query has in hand is not older than its data, nor newer than the
\* table.
Ordered ==
  \A c \in Cards :
    /\ AtLeast(live[c], cache[c].rows)
    /\ fetch[c].phase = "read" => /\ AtLeast(live[c], fetch[c].rows)
                                  /\ AtLeast(fetch[c].rows, cache[c].rows)

\* Stored rows only get newer.
LEMMA LiveGrows ==
  ASSUME TypeOK, [Next]_vars, NEW c \in Cards, NEW rows \in Rows, AtLeast(live[c], rows)
  PROVE  AtLeast(live'[c], rows)
<1>. SUFFICES ASSUME NEW r \in Sensors PROVE live'[c][r] >= rows[r]
  BY DEF AtLeast
<1>1. /\ live[c][r] \in 0 .. MaxTime /\ rows[r] \in 0 .. MaxTime
      /\ live[c][r] >= rows[r]
  BY DEF TypeOK, Rows, AtLeast
<1>2. ASSUME NEW d \in Cards, NEW s \in Sensors, NEW t \in Times, Commit(d, s, t)
      PROVE  live'[c][r] >= rows[r]
  <2>1. CASE c = d /\ r = s
    <3>1. live'[c][r] = t /\ t > live[c][r]
      BY <1>2, <2>1 DEF Commit, TypeOK, Rows
    <3>. QED  BY <3>1, <1>1, BoundsAssumption DEF Times
  <2>2. CASE ~(c = d /\ r = s)
    BY <1>1, <1>2, <2>2 DEF Commit, TypeOK, Rows
  <2>. QED  BY <2>1, <2>2
<1>3. CASE live' = live
  BY <1>1, <1>3
<1>. QED
  BY <1>2, <1>3 DEF Next, vars, server, Emit, ServerHandles, Connect, Attempt, Drop,
     Deliver, Mount, Unmount, Ask, Read, Arrive, FetchFails

LEMMA OrderedNext ==
  TypeOK /\ TypeOK' /\ Fetching /\ Ordered /\ [Next]_vars => Ordered'
<1>. SUFFICES ASSUME TypeOK, TypeOK', Fetching, Ordered, [Next]_vars PROVE Ordered'
  OBVIOUS
<1>. DEFINE Kept(c) == /\ AtLeast(live[c], cache[c].rows)
                       /\ fetch[c].phase = "read" =>
                            /\ AtLeast(live[c], fetch[c].rows)
                            /\ AtLeast(fetch[c].rows, cache[c].rows)
<1>a. SUFFICES ASSUME NEW c \in Cards PROVE Kept(c)'
  BY DEF Ordered
<1>b. /\ live[c] \in Rows /\ cache[c].rows \in Rows /\ fetch[c].rows \in Rows
      /\ live'[c] \in Rows
  BY DEF TypeOK, Fetches
<1>c. /\ AtLeast(live'[c], cache[c].rows)
      /\ fetch[c].phase = "read" => /\ AtLeast(live'[c], fetch[c].rows)
                                    /\ AtLeast(fetch[c].rows, cache[c].rows)
  BY <1>b, LiveGrows DEF Ordered
<1>d. AtLeast(live'[c], NoRows) /\ AtLeast(live[c], live[c])
  BY <1>b, AtLeastNoRows
<1>e. Asked.phase # "read" /\ Idle.phase # "read"
  BY DEF Asked, Idle
<1>1. CASE cache'[c] = cache[c] /\ (fetch'[c] = fetch[c] \/ fetch'[c].phase # "read")
  BY <1>1, <1>c
<1>2. CASE Connect
  <2>1. cache' = cache /\ (fetch'[c] = fetch[c] \/ fetch'[c] = Asked)
    BY <1>2 DEF Connect, Invalidated
  <2>. QED  BY <2>1, <1>1, <1>e
<1>3. ASSUME NEW u \in Consumers, Mount(u) PROVE Kept(c)'
  <2>1. CASE u = c
    <3>1. /\ fetch[c].phase = "idle" /\ cache'[c] \in {cache[c], NoData}
          /\ fetch'[c] = fetch[c] \/ fetch'[c] = Asked
      BY <1>3, <2>1 DEF Mount, Fetching, TypeOK
    <3>. QED  BY <3>1, <1>c, <1>d DEF Asked, NoData
  <2>2. CASE u # c
    <3>1. cache'[c] = cache[c] /\ fetch'[c] = fetch[c]
      BY <1>3, <2>2 DEF Mount, TypeOK
    <3>. QED  BY <3>1, <1>1
  <2>. QED  BY <2>1, <2>2
<1>4. ASSUME NEW u \in Consumers, Unmount(u) PROVE Kept(c)'
  BY <1>4, <1>1, <1>e DEF Unmount, Forgotten
<1>5. ASSUME NEW d \in Cards, Ask(d) \/ FetchFails(d) PROVE Kept(c)'
  <2>1. cache' = cache /\ fetch'[c] \in {fetch[c], Asked, Idle}
    BY <1>5 DEF Ask, FetchFails, TypeOK
  <2>. QED  BY <2>1, <1>1, <1>e
<1>6. ASSUME NEW d \in Cards, Read(d) PROVE Kept(c)'
  <2>1. /\ cache' = cache /\ live' = live
        /\ \/ fetch'[c] = fetch[c]
           \/ fetch'[c] = [phase |-> "read", rows |-> live[c]]
    BY <1>6 DEF Read, TypeOK, server
  <2>. QED  BY <2>1, <1>c, <1>d
<1>7. ASSUME NEW d \in Cards, Arrive(d) PROVE Kept(c)'
  <2>1. CASE d = c
    <3>1. /\ fetch[c].phase = "read" /\ fetch'[c] = Idle
          /\ cache'[c] = [loaded |-> TRUE, rows |-> fetch[c].rows]
      BY <1>7, <2>1 DEF Arrive, TypeOK
    <3>. QED  BY <3>1, <1>c, <1>e
  <2>2. CASE d # c
    BY <1>7, <2>2, <1>1 DEF Arrive, TypeOK
  <2>. QED  BY <2>1, <2>2
<1>8. CASE UNCHANGED <<cache, fetch>>
  BY <1>8, <1>1
<1>. QED
  BY <1>2, <1>3, <1>4, <1>5, <1>6, <1>7, <1>8 DEF Next, vars, cards, Commit, Emit,
     ServerHandles, Attempt, Drop, Deliver

LEMMA OrderedInit == Init => TypeOK /\ Fetching /\ Ordered
<1>. SUFFICES ASSUME Init PROVE TypeOK /\ Fetching /\ Ordered
  OBVIOUS
<1>. QED  BY TypeInit, AtLeastNoRows, NoRowsType DEF Init, Fetching, Ordered, Idle, NoData

LEMMA OrderedInvariance == Spec => [](TypeOK /\ Fetching /\ Ordered)
<1>1. TypeOK /\ Fetching /\ Ordered /\ [Next]_vars => TypeOK' /\ Fetching' /\ Ordered'
  BY TypeNext, FetchingNext, OrderedNext
<1>. QED  BY <1>1, OrderedInit, PTL DEF Spec

LEMMA ShownNext ==
  ASSUME TypeOK, TypeOK', Ordered, [Next]_vars,
         NEW c \in Cards \cap mounted, NEW t \in Times,
         ShowsAtLeast(c, t), c \in mounted', Measuring(c)' \subseteq Measuring(c)
  PROVE  ShowsAtLeast(c, t)'
<1>a. /\ slot[c] \in 0 .. MaxTime /\ slot'[c] \in 0 .. MaxTime
      /\ cache[c].rows \in Rows /\ cache'[c].rows \in Rows
  BY DEF TypeOK
<1>1. CASE cache'[c] = cache[c] /\ slot'[c] >= slot[c]
  <2>1. Measuring(c)' = Measuring(c)
    BY <1>1 DEF Measuring
  <2>2. slot[c] >= t => slot'[c] >= t
    BY <1>1, <1>a, BoundsAssumption DEF Times
  <2>. QED  BY <1>1, <2>1, <2>2 DEF ShowsAtLeast
<1>2. CASE Deliver
  <2>1. slot'[c] = slot[c] \/ slot[c] < slot'[c]
    BY <1>2 DEF Deliver, TypeOK
  <2>. QED  BY <1>1, <1>2, <1>a, <2>1, BoundsAssumption DEF Deliver
<1>3. ASSUME NEW d \in Cards, Arrive(d) PROVE ShowsAtLeast(c, t)'
  <2>0. slot' = slot
    BY <1>3 DEF Arrive
  <2>1. CASE d = c
    <3>1. AtLeast(cache'[c].rows, cache[c].rows)
      BY <1>3, <2>1 DEF Arrive, Ordered, TypeOK
    <3>2. ASSUME NEW s \in Sensors
          PROVE  /\ cache[c].rows[s] \in 0 .. MaxTime /\ cache'[c].rows[s] \in 0 .. MaxTime
                 /\ cache'[c].rows[s] >= cache[c].rows[s]
      BY <1>a, <3>1 DEF Rows, AtLeast
    <3>3. Measuring(c)' = Measuring(c)
      BY <3>2, BoundsAssumption DEF Measuring
    <3>4. \A s \in Sensors : cache[c].rows[s] >= t => cache'[c].rows[s] >= t
      BY <3>2, BoundsAssumption DEF Times
    <3>. QED  BY <2>0, <3>3, <3>4 DEF ShowsAtLeast, Measuring
  <2>2. CASE d # c
    <3>1. cache'[c] = cache[c]
      BY <1>3, <2>2 DEF Arrive, TypeOK
    <3>. QED  BY <1>1, <1>a, <2>0, <3>1
  <2>. QED  BY <2>1, <2>2
<1>4. ASSUME NEW u \in Consumers, Mount(u) PROVE ShowsAtLeast(c, t)'
  <2>1. u # c
    BY <1>4 DEF Mount
  <2>2. cache'[c] = cache[c] /\ slot' = slot
    BY <1>4, <2>1 DEF Mount, TypeOK
  <2>. QED  BY <1>1, <1>a, <2>2
<1>5. ASSUME NEW u \in Consumers, Unmount(u) PROVE ShowsAtLeast(c, t)'
  <2>1. u # c
    BY <1>5 DEF Unmount
  <2>2. cache' = cache /\ slot'[c] = slot[c]
    BY <1>5, <2>1 DEF Unmount, Forgotten
  <2>. QED  BY <1>1, <1>a, <2>2
<1>6. CASE UNCHANGED <<cache, slot>>
  BY <1>1, <1>6, <1>a
<1>. QED
  BY <1>2, <1>3, <1>4, <1>5, <1>6 DEF Next, vars, cards, Commit, Emit, ServerHandles,
     Connect, Attempt, Drop, Ask, Read, FetchFails

\* No interleaving of answers, events and outages brings back an older reading
\* on a tile, unless another sensor joins in.
THEOREM FanoutShownNeverBack == Spec => ShownNeverBack
<1>. DEFINE Forward == \A c \in Cards \cap mounted, t \in Times :
               ShowsAtLeast(c, t) /\ c \in mounted'
                 => ShowsAtLeast(c, t)' \/ ~(Measuring(c)' \subseteq Measuring(c))
<1>1. TypeOK /\ TypeOK' /\ Ordered /\ [Next]_vars => [Forward]_vars
  BY ShownNext
<1>. QED  BY <1>1, OrderedInvariance, PTL DEF Spec, ShownNeverBack

----------------------------------------------------------------------------
\* Nothing is shown ahead of the table.

\* Some sensor of the card's tag has a stored reading as late as t.
Committed(c, t) == \E s \in Sensors : live[c][s] >= t

\* Every update under way, and every live reading shown, was committed.
Sourced ==
  /\ \A u \in unsent : Committed(u.card, u.time)
  /\ \A i \in 1 .. Len(toClient) : Committed(toClient[i].card, toClient[i].time)
  /\ \A c \in Cards : slot[c] # 0 => Committed(c, slot[c])

LEMMA CommittedLasts ==
  ASSUME TypeOK, TypeOK', [Next]_vars, NEW c \in Cards, NEW t \in Times, Committed(c, t)
  PROVE  Committed(c, t)'
<1>1. live[c] \in Rows /\ live'[c] \in Rows
  BY DEF TypeOK
<1>2. AtLeast(live'[c], live[c])
  BY <1>1, AtLeastNoRows, LiveGrows
<1>3. PICK s \in Sensors : live[c][s] >= t
  BY DEF Committed
<1>4. /\ live[c][s] \in 0 .. MaxTime /\ live'[c][s] \in 0 .. MaxTime
      /\ live'[c][s] >= live[c][s]
  BY <1>1, <1>2 DEF Rows, AtLeast
<1>5. live'[c][s] >= t
  BY <1>3, <1>4, BoundsAssumption DEF Times
<1>. QED  BY <1>5 DEF Committed

LEMMA EventsTyped ==
  ASSUME TypeOK
  PROVE  /\ \A i \in 1 .. Len(toClient) : toClient[i].card \in Cards /\ toClient[i].time \in Times
         /\ \A u \in unsent : u.card \in Cards /\ u.time \in Times
<1>1. \A i \in 1 .. Len(toClient) : toClient[i] \in Events
  BY DEF TypeOK
<1>. QED  BY <1>1 DEF TypeOK, Events, Updates

LEMMA SourcedNext == TypeOK /\ TypeOK' /\ Sourced /\ [Next]_vars => Sourced'
<1>. SUFFICES ASSUME TypeOK, TypeOK', Sourced, [Next]_vars PROVE Sourced'
  OBVIOUS
<1>. DEFINE Stored(c, t) == \E s \in Sensors : live'[c][s] >= t
<1>a. /\ \A u \in unsent : Stored(u.card, u.time)
      /\ \A i \in 1 .. Len(toClient) :
           \E c \in Cards, t \in Times :
             c = toClient[i].card /\ t = toClient[i].time /\ Stored(c, t)
      /\ \A c \in Cards : slot[c] # 0 => \E t \in Times : t = slot[c] /\ Stored(c, t)
  <2>1. ASSUME NEW u \in unsent PROVE Stored(u.card, u.time)
    <3>1. PICK c \in Cards, t \in Times : c = u.card /\ t = u.time
      BY EventsTyped
    <3>. QED  BY <3>1, CommittedLasts DEF Sourced, Committed
  <2>2. ASSUME NEW i \in 1 .. Len(toClient)
        PROVE  \E c \in Cards, t \in Times :
                 c = toClient[i].card /\ t = toClient[i].time /\ Stored(c, t)
    <3>1. PICK c \in Cards, t \in Times : c = toClient[i].card /\ t = toClient[i].time
      BY EventsTyped
    <3>. QED  BY <3>1, CommittedLasts DEF Sourced, Committed
  <2>3. ASSUME NEW c \in Cards, slot[c] # 0
        PROVE  \E t \in Times : t = slot[c] /\ Stored(c, t)
    <3>1. slot[c] \in Times
      BY <2>3, BoundsAssumption DEF TypeOK, Times
    <3>. QED  BY <2>3, <3>1, CommittedLasts DEF Sourced, Committed
  <2>. QED  BY <2>1, <2>2, <2>3
<1>1. CASE unsent' \subseteq unsent /\ toClient' = toClient /\ \A c \in Cards : slot'[c] \in {0, slot[c]}
  BY <1>1, <1>a DEF Sourced, Committed
<1>2. ASSUME NEW c \in Cards, NEW s \in Sensors, NEW t \in Times, Commit(c, s, t)
      PROVE  Sourced'
  <2>1. live'[c][s] = t
    BY <1>2 DEF Commit, TypeOK, Rows
  <2>2. live'[c][s] >= t
    BY <2>1, BoundsAssumption DEF Times
  <2>3. \A u \in unsent' : u \in unsent \/ (u.card = c /\ u.time = t)
    BY <1>2 DEF Commit
  <2>. QED  BY <1>2, <1>a, <2>2, <2>3 DEF Commit, wire, cards, Sourced, Committed
<1>3. ASSUME NEW u \in unsent, Emit(u) PROVE Sourced'
  <2>1. unsent' \subseteq unsent /\ slot' = slot
    BY <1>3 DEF Emit, cards
  <2>2. CASE toClient' = toClient
    BY <1>1, <2>1, <2>2
  <2>3. CASE toClient' # toClient
    <3>1. PICK e \in Events : /\ toClient' = Append(toClient, e)
                              /\ e.card = u.card /\ e.time = u.time
      <4>1. PICK w \in Wires :
              toClient' = Append(toClient, [card |-> u.card, time |-> u.time, wire |-> w])
        BY <1>3, <2>3 DEF Emit
      <4>2. [card |-> u.card, time |-> u.time, wire |-> w] \in Events
        BY EventsTyped, WiresAssumption DEF Events
      <4>. QED  BY <4>1, <4>2
    <3>2. /\ toClient \in Seq(Events) /\ Len(toClient) \in Nat
          /\ Len(toClient') = Len(toClient) + 1
          /\ \A i \in 1 .. Len(toClient) : toClient'[i] = toClient[i]
          /\ toClient'[Len(toClient) + 1] = e
      BY <3>1, AppendProperties DEF TypeOK
    <3>3. ASSUME NEW i \in 1 .. Len(toClient')
          PROVE  Stored(toClient'[i].card, toClient'[i].time)
      <4>1. CASE i \in 1 .. Len(toClient)
        BY <1>a, <3>2, <4>1
      <4>2. CASE i = Len(toClient) + 1
        BY <1>a, <3>1, <3>2, <4>2
      <4>. QED  BY <3>2, <4>1, <4>2
    <3>. QED  BY <1>a, <2>1, <3>3 DEF Sourced, Committed
  <2>. QED  BY <2>2, <2>3
<1>4. CASE Drop
  <2>1. unsent' \subseteq unsent /\ slot' = slot /\ Len(toClient') = 0
    BY <1>4 DEF Drop, cards
  <2>. QED  BY <1>a, <2>1 DEF Sourced, Committed
<1>5. CASE Deliver
  <2>1. /\ toClient \in Seq(Events) /\ toClient # <<>> /\ toClient' = Tail(toClient)
        /\ unsent' = unsent
    BY <1>5 DEF Deliver, TypeOK, server
  <2>2. /\ Len(toClient) \in Nat /\ Len(toClient) > 0 /\ Head(toClient) = toClient[1]
        /\ Len(toClient') = Len(toClient) - 1
        /\ \A i \in 1 .. Len(toClient') : toClient'[i] = toClient[i + 1]
    BY <2>1, HeadTailProperties, EmptySeq
  <2>3. \A i \in 1 .. Len(toClient') : i + 1 \in 1 .. Len(toClient)
    BY <2>2
  <2>4. \A c \in Cards : \/ slot'[c] = slot[c]
                         \/ /\ c = toClient[1].card
                            /\ slot'[c] = toClient[1].time
    BY <1>5, <2>2 DEF Deliver, Accepted
  <2>5. 1 \in 1 .. Len(toClient)
    BY <2>2
  <2>6. ASSUME NEW i \in 1 .. Len(toClient')
        PROVE  Stored(toClient'[i].card, toClient'[i].time)
    <3>1. toClient'[i] = toClient[i + 1]
      BY <2>2
    <3>. QED  BY <1>a, <2>3, <3>1
  <2>7. ASSUME NEW c \in Cards, slot'[c] # 0 PROVE Stored(c, slot'[c])
    <3>1. CASE slot'[c] = slot[c]
      BY <1>a, <2>7, <3>1
    <3>2. CASE c = toClient[1].card /\ slot'[c] = toClient[1].time
      BY <1>a, <2>5, <3>2
    <3>. QED  BY <2>4, <3>1, <3>2
  <2>. QED  BY <1>a, <2>1, <2>6, <2>7 DEF Sourced, Committed
<1>6. ASSUME NEW u \in Consumers, Unmount(u) PROVE Sourced'
  BY <1>6, <1>1 DEF Unmount, Forgotten, server
<1>7. CASE UNCHANGED <<unsent, toClient, slot>>
  BY <1>7, <1>1
<1>. QED
  BY <1>2, <1>3, <1>4, <1>5, <1>6, <1>7 DEF Next, vars, server, wire, cards, ServerHandles,
     Connect, Attempt, Mount, Ask, Read, Arrive, FetchFails

\* What a tile shows, from an answer or an event, is not later than the latest
\* stored reading of its tag.
NeverAhead == \A c \in Cards, t \in Times : ShowsAtLeast(c, t) => Committed(c, t)

\* emitMany runs after the commit, and LatestService.query and the socket client
\* invent nothing: a card never shows a reading that was not stored, however
\* late events and answers come.
THEOREM FanoutNeverAhead == Spec => []NeverAhead
<1>1. Init => Sourced
  BY DEF Init, Sourced
<1>2. TypeOK /\ Sourced /\ [Next]_vars => Sourced'
  BY TypeNext, SourcedNext
<1>3. TypeOK /\ Ordered /\ Sourced => NeverAhead
  <2>. SUFFICES ASSUME TypeOK, Ordered, Sourced, NEW c \in Cards, NEW t \in Times,
                       ShowsAtLeast(c, t)
                PROVE  Committed(c, t)
    BY DEF NeverAhead
  <2>1. ASSUME NEW s \in Sensors
        PROVE  live[c][s] \in 0 .. MaxTime /\ cache[c].rows[s] \in 0 .. MaxTime
    BY DEF TypeOK, Rows
  <2>2. CASE slot[c] >= t
    <3>1. slot[c] \in 0 .. MaxTime /\ slot[c] # 0
      BY <2>2, BoundsAssumption DEF TypeOK, Times
    <3>2. PICK s \in Sensors : live[c][s] >= slot[c]
      BY <3>1 DEF Sourced, Committed
    <3>3. live[c][s] >= t
      BY <2>1, <2>2, <3>1, <3>2, BoundsAssumption DEF Times
    <3>. QED  BY <3>3 DEF Committed
  <2>3. CASE ~(slot[c] >= t)
    <3>1. PICK s \in Sensors : cache[c].rows[s] >= t
      BY <2>3 DEF ShowsAtLeast, Measuring
    <3>2. live[c][s] >= cache[c].rows[s]
      BY DEF Ordered, AtLeast
    <3>3. live[c][s] >= t
      BY <2>1, <3>1, <3>2, BoundsAssumption DEF Times
    <3>. QED  BY <3>3 DEF Committed
  <2>. QED  BY <2>2, <2>3
<1>. QED  BY <1>1, <1>2, <1>3, OrderedInvariance, PTL DEF Spec

----------------------------------------------------------------------------
\* What CatchUp and CardsRejoin rest on besides fairness.

Staying == Cards \cap mounted \cap mounted'
Linked == status # "connected" /\ status' = "connected"
Cycle(c) == Ask(c) \/ Read(c) \/ Arrive(c)

\* How many steps of its query a card is away from what is stored.
Caught(c) == AtLeast(cache[c].rows, live[c])
Lag(c) ==
  IF Caught(c) THEN 0
  ELSE IF fetch[c].phase = "asked" THEN 2
  ELSE IF fetch[c].phase = "idle" THEN 3
  ELSE IF AtLeast(fetch[c].rows, live[c]) THEN 1 ELSE 4

\* Only a commit, a fault or a new connection sets a mounted card back, and
\* every step of its query brings it nearer.
CatchesUp ==
  \A c \in Staying :
    /\ Lag(c)' > Lag(c) => live'[c] # live[c] \/ faults' # faults \/ Linked
    /\ Cycle(c) => Lag(c)' < Lag(c) \/ Lag(c)' = 0

LEMMA StepLag ==
  ASSUME TypeOK, TypeOK', Ordered, [Next]_vars, NEW c \in Staying
  PROVE  /\ Lag(c)' > Lag(c) => live'[c] # live[c] \/ faults' # faults \/ Linked
         /\ Cycle(c) => Lag(c)' < Lag(c) \/ Lag(c)' = 0
<1>0. c \in Cards /\ c \in mounted /\ c \in mounted'
  BY DEF Staying
<1>a. /\ live[c] \in Rows /\ cache[c].rows \in Rows /\ fetch[c].rows \in Rows
      /\ fetch[c].phase \in {"idle", "asked", "read"}
  BY <1>0 DEF TypeOK, Fetches
<1>b. Lag(c) \in 0 .. 4
  BY DEF Lag
<1>1. ASSUME Ask(c) PROVE Lag(c)' < Lag(c) \/ Lag(c)' = 0
  <2>1. /\ fetch[c].phase = "idle" /\ fetch'[c].phase = "asked"
        /\ cache' = cache /\ live' = live
    BY <1>0, <1>1 DEF Ask, Asked, TypeOK, server
  <2>. QED  BY <2>1 DEF Lag, Caught
<1>2. ASSUME Read(c) PROVE Lag(c)' < Lag(c) \/ Lag(c)' = 0
  <2>1. /\ fetch[c].phase = "asked" /\ cache' = cache /\ live' = live
        /\ fetch'[c] = [phase |-> "read", rows |-> live[c]]
    BY <1>0, <1>2 DEF Read, TypeOK, server
  <2>2. fetch'[c].phase = "read" /\ AtLeast(fetch'[c].rows, live[c])
    BY <1>a, <2>1, AtLeastNoRows
  <2>. QED  BY <2>1, <2>2 DEF Lag, Caught
<1>3. ASSUME Arrive(c) PROVE Lag(c)' < Lag(c) \/ Lag(c)' = 0
  <2>1. /\ fetch[c].phase = "read" /\ fetch'[c].phase = "idle"
        /\ cache'[c].rows = fetch[c].rows /\ live' = live
    BY <1>0, <1>3 DEF Arrive, Idle, TypeOK, server
  <2>2. CASE AtLeast(fetch[c].rows, live[c])
    BY <2>1, <2>2 DEF Lag, Caught
  <2>3. CASE ~AtLeast(fetch[c].rows, live[c])
    <3>1. ~Caught(c)
      <4>1. AtLeast(fetch[c].rows, cache[c].rows)
        BY <1>0, <2>1 DEF Ordered
      <4>2. ASSUME Caught(c), NEW s \in Sensors PROVE fetch[c].rows[s] >= live[c][s]
        <5>1. /\ live[c][s] \in 0 .. MaxTime /\ cache[c].rows[s] \in 0 .. MaxTime
              /\ fetch[c].rows[s] \in 0 .. MaxTime
          BY <1>a DEF Rows
        <5>. QED  BY <4>1, <4>2, <5>1, BoundsAssumption DEF Caught, AtLeast
      <4>. QED  BY <2>3, <4>2 DEF AtLeast
    <3>. QED  BY <2>1, <2>3, <3>1 DEF Lag, Caught
  <2>. QED  BY <2>2, <2>3
<1>4. ASSUME ~Cycle(c), live'[c] = live[c], faults' = faults, ~Linked
      PROVE  Lag(c)' = Lag(c)
  <2>1. cache'[c] = cache[c] /\ fetch'[c] = fetch[c]
    <3>1. ASSUME NEW u \in Consumers, Mount(u) \/ Unmount(u)
          PROVE  cache'[c] = cache[c] /\ fetch'[c] = fetch[c]
      <4>1. u # c
        BY <1>0, <3>1 DEF Mount, Unmount
      <4>. QED  BY <1>0, <3>1, <4>1 DEF Mount, Unmount, Forgotten, TypeOK
    <3>2. ASSUME NEW d \in Cards, Ask(d) \/ Read(d) \/ Arrive(d)
          PROVE  cache'[c] = cache[c] /\ fetch'[c] = fetch[c]
      <4>1. d # c
        BY <1>4, <3>2 DEF Cycle
      <4>. QED  BY <1>0, <3>2, <4>1 DEF Ask, Read, Arrive, TypeOK
    <3>3. ~Connect
      BY <1>4 DEF Connect, Linked
    <3>4. faults \in Nat
      BY BoundsAssumption DEF TypeOK
    <3>5. \A d \in Cards : ~FetchFails(d)
      BY <1>4, <3>4 DEF FetchFails, Fault
    <3>6. CASE UNCHANGED <<cache, fetch>>
      BY <3>6
    <3>. QED
      BY <3>1, <3>2, <3>3, <3>5, <3>6 DEF Next, vars, cards, Commit, Emit, ServerHandles,
         Attempt, Drop, Deliver
  <2>. QED  BY <1>4, <2>1 DEF Lag, Caught
<1>5. Cycle(c) => Lag(c)' < Lag(c) \/ Lag(c)' = 0
  BY <1>1, <1>2, <1>3 DEF Cycle
<1>6. Lag(c)' \in 0 .. 4
  BY DEF Lag
<1>. QED  BY <1>b, <1>4, <1>5, <1>6

\* useLatestValues, with the invalidation at a reconnect: four steps of its
\* query bring a mounted card to what is stored, and once there it stays there
\* until the next commit, however answers overlap, the room is lost and other
\* cards come and go.  CatchUp follows if the query is polled and answered.
THEOREM FanoutCatchesUp == Spec => [][CatchesUp]_vars
<1>1. TypeOK /\ TypeOK' /\ Ordered /\ [Next]_vars => [CatchesUp]_vars
  BY StepLag DEF CatchesUp
<1>. QED  BY <1>1, OrderedInvariance, PTL DEF Spec

\* How many steps of its query a card is away from the room.
Absence(c) ==
  IF Membership THEN 0
  ELSE IF fetch[c].phase = "asked" THEN 2
  ELSE IF fetch[c].phase = "idle" THEN 3 ELSE 1

\* With a client, only a consumer that unmounts or a fault takes the tab out of
\* the room or sets back the query of a card that stays, but for the connection
\* coming up; every step of this query brings the tab nearer to the room.
Rejoins ==
  HasClient =>
    \A c \in Staying :
      /\ Absence(c)' > Absence(c) =>
           unmounts' # unmounts \/ faults' # faults \/ Linked
      /\ Cycle(c) => Absence(c)' < Absence(c) \/ Absence(c)' = 0

LEMMA StepAbsence ==
  ASSUME TypeOK, TypeOK', HasClient, [Next]_vars, NEW c \in Staying
  PROVE  /\ Absence(c)' > Absence(c) =>
              unmounts' # unmounts \/ faults' # faults \/ Linked
         /\ Cycle(c) => Absence(c)' < Absence(c) \/ Absence(c)' = 0
<1>0. /\ c \in Cards /\ c \in mounted /\ c \in mounted'
      /\ toServer \in Seq(Messages)
  BY DEF Staying, TypeOK
<1>a. Absence(c) \in 0 .. 3 /\ Absence(c)' \in 0 .. 3
  BY DEF Absence
<1>b. ASSUME NEW m \in Seq(Messages), Send(m), m # <<>>, m[Len(m)] = "subscribe"
      PROVE  Membership'
  BY <1>0, <1>b, LastDecides
<1>c. ASSUME NEW d \in Cards, Arrive(d) PROVE Membership'
  <2>1. Send(<<"unsubscribe", "subscribe">>)
    BY <1>c DEF Arrive
  <2>2. /\ <<"unsubscribe", "subscribe">> # <<>>
        /\ Len(<<"unsubscribe", "subscribe">>) = 2
        /\ <<"unsubscribe", "subscribe">>[2] = "subscribe"
    OBVIOUS
  <2>. QED  BY <1>b, <2>1, <2>2, LiteralsType
<1>1. ASSUME Ask(c) PROVE Absence(c)' < Absence(c) \/ Absence(c)' = 0
  <2>1. fetch[c].phase = "idle" /\ fetch'[c].phase = "asked"
    BY <1>0, <1>1 DEF Ask, Asked, TypeOK
  <2>2. Membership' <=> Membership
    BY <1>1 DEF Ask, wire, server, Membership
  <2>. QED  BY <2>1, <2>2 DEF Absence
<1>2. ASSUME Read(c) PROVE Absence(c)' < Absence(c) \/ Absence(c)' = 0
  <2>1. fetch[c].phase = "asked" /\ fetch'[c].phase = "read"
    BY <1>0, <1>2 DEF Read, TypeOK
  <2>2. Membership' <=> Membership
    BY <1>2 DEF Read, wire, server, Membership
  <2>. QED  BY <2>1, <2>2 DEF Absence
<1>3. ASSUME Arrive(c) PROVE Absence(c)' = 0
  BY <1>0, <1>3, <1>c DEF Absence
<1>4. ASSUME ~Cycle(c), unmounts' = unmounts, faults' = faults, ~Linked
      PROVE  Absence(c)' = 0 \/ Absence(c)' = Absence(c)
  <2>0. faults \in Nat /\ unmounts \in Nat
    BY BoundsAssumption DEF TypeOK
  <2>1. ASSUME NEW d \in Cards, Arrive(d) PROVE Absence(c)' = 0
    BY <2>1, <1>c DEF Absence
  <2>2. ASSUME NEW u \in Consumers, Mount(u) PROVE Absence(c)' = 0
    <3>1. Send(<<"subscribe">>)
      BY <2>2 DEF Mount
    <3>2. /\ <<"subscribe">> # <<>> /\ Len(<<"subscribe">>) = 1
          /\ <<"subscribe">>[1] = "subscribe"
      OBVIOUS
    <3>3. Membership'
      BY <1>b, <3>1, <3>2, LiteralsType
    <3>. QED  BY <3>3 DEF Absence
  <2>3. /\ ~Connect /\ ~Drop
        /\ \A u \in Consumers : ~Unmount(u)
        /\ \A d \in Cards : ~FetchFails(d)
    <3>1. ~Connect
      BY <1>4 DEF Connect, Linked
    <3>2. ~Drop /\ \A d \in Cards : ~FetchFails(d)
      BY <1>4, <2>0 DEF Drop, FetchFails, Fault
    <3>3. \A u \in Consumers : ~Unmount(u)
      BY <1>4, <2>0 DEF Unmount
    <3>. QED  BY <3>1, <3>2, <3>3
  <2>4. ASSUME fetch'[c] = fetch[c], Membership' <=> Membership
        PROVE  Absence(c)' = Absence(c)
    BY <2>4 DEF Absence
  <2>5. CASE ServerHandles
    <3>1. fetch' = fetch
      BY <2>5 DEF ServerHandles, cards
    <3>. QED  BY <2>4, <2>5, <3>1, HandlingKeeps
  <2>6. ASSUME NEW d \in Cards, Ask(d) \/ Read(d) PROVE Absence(c)' = Absence(c)
    <3>1. d # c
      BY <1>4, <2>6 DEF Cycle
    <3>2. fetch'[c] = fetch[c]
      BY <1>0, <2>6, <3>1 DEF Ask, Read, TypeOK
    <3>3. Membership' <=> Membership
      BY <2>6 DEF Ask, Read, wire, server, Membership
    <3>. QED  BY <2>4, <3>2, <3>3
  <2>7. CASE UNCHANGED <<fetch, toServer, joined>>
    BY <2>4, <2>7 DEF Membership
  <2>8. CASE Attempt
    BY <2>7, <2>8 DEF Attempt, FirstState, cards, server
  <2>. QED
    BY <2>1, <2>2, <2>3, <2>5, <2>6, <2>7, <2>8 DEF Next, vars, server, wire, cards, Commit,
       Emit, Deliver
<1>5. Cycle(c) => Absence(c)' < Absence(c) \/ Absence(c)' = 0
  BY <1>1, <1>2, <1>3 DEF Cycle
<1>. QED  BY <1>a, <1>4, <1>5

\* useOperationsRealtime, socket.ts: nothing but the cleanup of a consumer and a
\* lost connection takes the tab out of the room, and the next answer for any
\* card that stays brings it back.  CardsRejoin follows if answers come.
THEOREM FanoutRejoins == Spec => [][Rejoins]_vars
<1>1. TypeOK /\ TypeOK' /\ [Next]_vars => [Rejoins]_vars
  BY StepAbsence DEF Rejoins
<1>. QED  BY <1>1, OrderedInvariance, PTL DEF Spec
=============================================================================
