------------------------- MODULE ConsoleDataProofs -------------------------
(***************************************************************************)
(* The two algorithms Console is built on.  The ring buffer remembers the  *)
(* last Capacity values pushed, in order, for every capacity; and what one *)
(* evaluation of the alarm center does to a list of events, for any        *)
(* sensors, timings, thresholds and readings.                              *)
(***************************************************************************)
EXTENDS RingBuffer, AlarmCenter, SequenceTheorems, FiniteSetTheorems, TLAPS

----------------------------------------------------------------------------
\* The ring buffer

\* The array holds a value in every slot that is in use.
Filled(ring, Items) == \A i \in 1 .. ring.size : ToArray(ring)[i] \in Items

LEMMA Wrap ==
  ASSUME NEW x \in Nat, x < 2 * Capacity
  PROVE  x % Capacity = IF x < Capacity THEN x ELSE x - Capacity
<1>1. CASE x < Capacity
  BY <1>1, CapacityAssumption, SMTT(30)
<1>2. CASE x >= Capacity
  BY <1>2, CapacityAssumption, SMTT(30)
<1> QED
  BY <1>1, <1>2, CapacityAssumption

\* The slot of the i-th oldest of s values when h is the slot written next.
Slot(h, s, i) ==
  IF h - s + i - 1 < 0 THEN h - s + i - 1 + Capacity ELSE h - s + i - 1

LEMMA SlotOf ==
  ASSUME NEW h \in Slots, NEW s \in 0 .. Capacity, NEW i \in 1 .. s
  PROVE  (((h - s + Capacity) % Capacity) + i - 1) % Capacity = Slot(h, s, i)
<1>1. PICK x \in Nat : x = h - s + Capacity /\ x < 2 * Capacity
  BY CapacityAssumption DEF Slots
<1>2. PICK o \in Int : o = IF x < Capacity THEN x ELSE x - Capacity
  BY CapacityAssumption
<1>3. x % Capacity = o
  BY <1>1, <1>2, Wrap
<1>4. PICK y \in Nat : y = o + i - 1 /\ y < 2 * Capacity
  BY <1>1, <1>2, CapacityAssumption DEF Slots
<1>5. y % Capacity = IF y < Capacity THEN y ELSE y - Capacity
  BY <1>4, Wrap
<1>6. (IF y < Capacity THEN y ELSE y - Capacity) = Slot(h, s, i)
  BY <1>1, <1>2, <1>4, CapacityAssumption DEF Slots, Slot
<1> QED
  BY <1>1, <1>3, <1>4, <1>5, <1>6

LEMMA SlotInUse ==
  ASSUME NEW h \in Slots, NEW s \in 0 .. Capacity, NEW i \in 1 .. s,
         s = Capacity => i # 1
  PROVE  Slot(h, s, i) \in Slots /\ Slot(h, s, i) # h
  BY CapacityAssumption DEF Slots, Slot

\* A push moves no value: the i-th of s becomes the i-th of s + 1, in a full
\* buffer the i-th becomes the one before.  The new value is the last.
LEMMA SlotAfterPush ==
  ASSUME NEW h \in Slots, NEW g \in Slots, g = IF h + 1 = Capacity THEN 0 ELSE h + 1
  PROVE  /\ \A s \in 0 .. Capacity - 1 : \A i \in 1 .. s + 1 :
                Slot(g, s + 1, i) = Slot(h, s, i)
         /\ \A s \in 0 .. Capacity - 1 : Slot(h, s, s + 1) = h
         /\ \A i \in 1 .. Capacity - 1 : Slot(g, Capacity, i) = Slot(h, Capacity, i + 1)
         /\ Slot(g, Capacity, Capacity) = h
  BY CapacityAssumption DEF Slots, Slot

LEMMA NextHead ==
  ASSUME NEW h \in Slots
  PROVE  (h + 1) % Capacity = IF h + 1 = Capacity THEN 0 ELSE h + 1
  BY Wrap, CapacityAssumption DEF Slots

LEMMA PushTyped ==
  ASSUME NEW Items, NEW ring \in Rings(Items), NEW v \in Items
  PROVE  /\ Push(ring, v) \in Rings(Items)
         /\ Push(ring, v).data = [ring.data EXCEPT ![ring.head] = v]
         /\ Push(ring, v).head = IF ring.head + 1 = Capacity THEN 0 ELSE ring.head + 1
         /\ Push(ring, v).size = IF ring.size < Capacity THEN ring.size + 1 ELSE ring.size
<1>1. ring.head \in Slots /\ ring.size \in 0 .. Capacity /\ ring.data \in [Slots -> Items \cup {Undefined}]
  BY DEF Rings
<1>2. (ring.head + 1) % Capacity \in Slots
  BY <1>1, NextHead, CapacityAssumption DEF Slots
<1> QED
  BY <1>1, <1>2, NextHead, CapacityAssumption DEF Rings, Push

\* The value the array of a ring shows in place i.
LEMMA Place ==
  ASSUME NEW Items, NEW ring \in Rings(Items), NEW i \in 1 .. ring.size
  PROVE  ToArray(ring)[i] = ring.data[Slot(ring.head, ring.size, i)]
<1>1. ring.head \in Slots /\ ring.size \in 0 .. Capacity
  BY DEF Rings
<1>2. ToArray(ring)[i]
        = ring.data[(((ring.head - ring.size + Capacity) % Capacity) + i - 1) % Capacity]
  BY DEF ToArray, Oldest
<1> QED
  BY <1>1, <1>2, SlotOf

LEMMA SeqByPlace ==
  ASSUME NEW S, NEW q \in Seq(S), NEW n \in Nat, Len(q) = n
  PROVE  q = [i \in 1 .. n |-> q[i]]
  BY LenProperties

LEMMA ArrayTyped ==
  ASSUME NEW Items, NEW ring \in Rings(Items), Filled(ring, Items)
  PROVE  ToArray(ring) \in Seq(Items) /\ Len(ToArray(ring)) = ring.size
<1>1. ring.size \in Nat
  BY CapacityAssumption DEF Rings
<1>2. ToArray(ring) \in [1 .. ring.size -> Items]
  BY DEF Filled, ToArray
<1> QED
  BY <1>1, <1>2

LEMMA PushBelowCapacity ==
  ASSUME NEW Items, NEW ring \in Rings(Items), Filled(ring, Items),
         NEW v \in Items, ring.size < Capacity
  PROVE  ToArray(Push(ring, v)) = Append(ToArray(ring), v)
<1>1. ring.head \in Slots /\ ring.size \in 0 .. Capacity /\ ring.data \in [Slots -> Items \cup {Undefined}]
  BY DEF Rings
<1>2. PICK p \in Rings(Items) :
        /\ p = Push(ring, v)
        /\ p.size = ring.size + 1
        /\ p.data = [ring.data EXCEPT ![ring.head] = v]
        /\ p.head = IF ring.head + 1 = Capacity THEN 0 ELSE ring.head + 1
  BY PushTyped
<1>3. p.head \in Slots /\ ring.size \in 0 .. Capacity - 1
  BY <1>1, <1>2, CapacityAssumption DEF Slots
<1> DEFINE long == Append(ToArray(ring), v)
<1>4. /\ long \in Seq(Items)
      /\ Len(long) = ring.size + 1
      /\ \A i \in 1 .. ring.size : long[i] = ToArray(ring)[i]
      /\ long[ring.size + 1] = v
  BY ArrayTyped, AppendProperties
<1> HIDE DEF long
<1>5. ASSUME NEW i \in 1 .. ring.size + 1
      PROVE  ToArray(p)[i] = long[i]
  <2>1. ToArray(p)[i] = p.data[Slot(ring.head, ring.size, i)]
    <3>1. ToArray(p)[i] = p.data[Slot(p.head, p.size, i)]
      <4>1. i \in 1 .. p.size
        BY <1>2
      <4> QED
        BY <4>1, Place
    <3>2. Slot(p.head, p.size, i) = Slot(ring.head, ring.size, i)
      BY <1>1, <1>2, <1>3, SlotAfterPush
    <3> QED
      BY <3>1, <3>2
  <2>2. CASE i = ring.size + 1
    <3>1. Slot(ring.head, ring.size, i) = ring.head
      BY <2>2, <1>1, <1>2, <1>3, SlotAfterPush
    <3> QED
      BY <3>1, <2>1, <2>2, <1>1, <1>2, <1>4
  <2>3. CASE i \in 1 .. ring.size
    <3>1. Slot(ring.head, ring.size, i) \in Slots /\ Slot(ring.head, ring.size, i) # ring.head
      BY <2>3, <1>1, SlotInUse
    <3>2. p.data[Slot(ring.head, ring.size, i)] = ring.data[Slot(ring.head, ring.size, i)]
      BY <3>1, <1>1, <1>2
    <3> QED
      BY <3>2, <2>1, <2>3, <1>4, Place
  <2> QED
    BY <2>2, <2>3, <1>3
<1>6. ToArray(p) = [i \in 1 .. ring.size + 1 |-> ToArray(p)[i]]
  BY <1>2 DEF ToArray
<1>7. long = [i \in 1 .. ring.size + 1 |-> long[i]]
  BY <1>3, <1>4, SeqByPlace
<1>8. ToArray(p) = long
  BY <1>5, <1>6, <1>7
<1> QED
  BY <1>2, <1>8 DEF long

LEMMA PushAtCapacity ==
  ASSUME NEW Items, NEW ring \in Rings(Items), Filled(ring, Items),
         NEW v \in Items, ring.size = Capacity
  PROVE  ToArray(Push(ring, v)) = Tail(Append(ToArray(ring), v))
<1>1. ring.head \in Slots /\ ring.data \in [Slots -> Items \cup {Undefined}]
  BY DEF Rings
<1>2. PICK p \in Rings(Items) :
        /\ p = Push(ring, v)
        /\ p.size = Capacity
        /\ p.data = [ring.data EXCEPT ![ring.head] = v]
        /\ p.head = IF ring.head + 1 = Capacity THEN 0 ELSE ring.head + 1
  BY PushTyped, CapacityAssumption
<1>3. p.head \in Slots
  BY <1>1, <1>2, CapacityAssumption DEF Slots
<1> DEFINE long == Append(ToArray(ring), v)
<1>4. /\ long \in Seq(Items)
      /\ Len(long) = Capacity + 1
      /\ \A i \in 1 .. Capacity : long[i] = ToArray(ring)[i]
      /\ long[Capacity + 1] = v
  BY ArrayTyped, AppendProperties
<1> HIDE DEF long
<1>5. long # <<>>
  BY <1>4, CapacityAssumption
<1> DEFINE short == Tail(long)
<1>6. /\ short \in Seq(Items)
      /\ Len(short) = Capacity
      /\ \A i \in 1 .. Capacity : short[i] = long[i + 1]
  BY <1>4, <1>5, HeadTailProperties, CapacityAssumption
<1> HIDE DEF short
<1>7. ASSUME NEW i \in 1 .. Capacity
      PROVE  ToArray(p)[i] = short[i]
  <2>1. ToArray(p)[i] = p.data[Slot(p.head, Capacity, i)]
    <3>1. i \in 1 .. p.size
      BY <1>2
    <3>2. ToArray(p)[i] = p.data[Slot(p.head, p.size, i)]
      BY <3>1, Place
    <3> QED
      BY <3>2, <1>2
  <2>2. CASE i = Capacity
    <3>1. Slot(p.head, Capacity, i) = ring.head
      BY <2>2, <1>1, <1>2, <1>3, SlotAfterPush
    <3> QED
      BY <3>1, <2>1, <2>2, <1>1, <1>2, <1>4, <1>6
  <2>3. CASE i \in 1 .. Capacity - 1
    <3> DEFINE at == Slot(ring.head, ring.size, i + 1)
    <3>1. i + 1 \in 1 .. ring.size /\ i + 1 # 1 /\ ring.size \in 0 .. Capacity
      BY <2>3, CapacityAssumption
    <3>2. Slot(p.head, Capacity, i) = at
      BY <2>3, <1>1, <1>2, <1>3, SlotAfterPush
    <3>3. at \in Slots /\ at # ring.head
      BY <3>1, <1>1, SlotInUse
    <3>4. p.data[at] = ring.data[at]
      BY <3>3, <1>1, <1>2
    <3>5. ToArray(ring)[i + 1] = ring.data[at]
      BY <3>1, Place
    <3>6. short[i] = ToArray(ring)[i + 1]
      BY <1>4, <1>6, <2>3, CapacityAssumption
    <3> QED
      BY <3>2, <3>4, <3>5, <3>6, <2>1
  <2> QED
    BY <2>2, <2>3, CapacityAssumption
<1>8. ToArray(p) = [i \in 1 .. Capacity |-> ToArray(p)[i]]
  BY <1>2 DEF ToArray
<1>9. short = [i \in 1 .. Capacity |-> short[i]]
  BY <1>6, SeqByPlace, CapacityAssumption
<1>10. ToArray(p) = short
  BY <1>7, <1>8, <1>9
<1> QED
  BY <1>2, <1>10 DEF short, long

\* For every capacity, from one on: a push appends to what the buffer shows,
\* drops the oldest value if that makes it too long, and forgets no other
\* (ringBuffer.ts, push and toArray, over the wrap of head).
THEOREM PushRemembers ==
  ASSUME NEW Items, NEW ring \in Rings(Items), Filled(ring, Items), NEW v \in Items
  PROVE  LET longer == Append(ToArray(ring), v)
         IN  /\ ToArray(Push(ring, v))
                  = IF Len(longer) > Capacity THEN Tail(longer) ELSE longer
             /\ Push(ring, v) \in Rings(Items)
             /\ Filled(Push(ring, v), Items)
<1>1. ring.size \in 0 .. Capacity
  BY DEF Rings
<1>2. ToArray(ring) \in Seq(Items) /\ Len(ToArray(ring)) = ring.size
  BY ArrayTyped
<1>3. PICK longer \in Seq(Items) :
        longer = Append(ToArray(ring), v) /\ Len(longer) = ring.size + 1
  <2>1. Append(ToArray(ring), v) \in Seq(Items) /\ Len(Append(ToArray(ring), v)) = ring.size + 1
    BY <1>2, AppendProperties
  <2> QED BY <2>1
<1>4. PICK p \in Rings(Items) :
        p = Push(ring, v) /\ p.size = IF ring.size < Capacity THEN ring.size + 1 ELSE ring.size
  BY PushTyped
<1>5. ToArray(p) = IF Len(longer) > Capacity THEN Tail(longer) ELSE longer
  <2>1. CASE ring.size < Capacity
    BY <2>1, <1>1, <1>3, <1>4, PushBelowCapacity, CapacityAssumption
  <2>2. CASE ring.size = Capacity
    BY <2>2, <1>1, <1>3, <1>4, PushAtCapacity, CapacityAssumption
  <2> QED
    BY <2>1, <2>2, <1>1, CapacityAssumption
<1>6. Filled(p, Items)
  <2>1. longer # <<>>
    BY <1>3, <1>1, CapacityAssumption
  <2>2. Tail(longer) \in Seq(Items) /\ Len(Tail(longer)) = Len(longer) - 1
    BY <1>3, <2>1, HeadTailProperties
  <2>3. ToArray(p) \in Seq(Items) /\ Len(ToArray(p)) = p.size
    BY <1>1, <1>3, <1>4, <1>5, <2>2, CapacityAssumption
  <2> QED
    BY <2>3 DEF Filled
<1> QED
  BY <1>3, <1>4, <1>5, <1>6

\* For every capacity: the latest value is the last that the buffer shows, and
\* undefined exactly when it shows none (ringBuffer.ts, latest).
THEOREM LatestIsLast ==
  ASSUME NEW Items, NEW ring \in Rings(Items), Filled(ring, Items)
  PROVE  Latest(ring) = IF ToArray(ring) = <<>> THEN Undefined ELSE ToArray(ring)[Len(ToArray(ring))]
<1>1. ring.head \in Slots /\ ring.size \in 0 .. Capacity
  BY DEF Rings
<1>2. ToArray(ring) \in Seq(Items) /\ Len(ToArray(ring)) = ring.size
  BY ArrayTyped
<1>3. CASE ring.size = 0
  <2>1. ToArray(ring) = <<>>
    BY <1>2, <1>3, EmptySeq
  <2> QED
    BY <2>1, <1>3 DEF Latest
<1>4. CASE ring.size # 0
  <2>1. ToArray(ring) # <<>>
    BY <1>2, <1>4, EmptySeq
  <2>2. ring.size \in 1 .. ring.size
    BY <1>1, <1>4, CapacityAssumption
  <2>3. (ring.head - 1 + Capacity) % Capacity = Slot(ring.head, ring.size, ring.size)
    <3>1. PICK x \in Nat : x = ring.head - 1 + Capacity /\ x < 2 * Capacity
      BY <1>1, CapacityAssumption DEF Slots
    <3>2. x % Capacity = IF x < Capacity THEN x ELSE x - Capacity
      BY <3>1, Wrap
    <3>3. Slot(ring.head, ring.size, ring.size) = IF x < Capacity THEN x ELSE x - Capacity
      BY <1>1, <3>1, CapacityAssumption DEF Slot, Slots
    <3> QED
      BY <3>1, <3>2, <3>3
  <2>4. ToArray(ring)[ring.size] = ring.data[Slot(ring.head, ring.size, ring.size)]
    BY <2>2, Place
  <2>5. ToArray(ring)[ring.size] = ring.data[(ring.head - 1 + Capacity) % Capacity]
    BY <2>3, <2>4
  <2> QED
    BY <2>1, <2>5, <1>2, <1>4 DEF Latest
<1> QED
  BY <1>3, <1>4

----------------------------------------------------------------------------
\* Freshness

LEMMA TimingTyped ==
  ASSUME NEW k \in Keys, NEW f \in Fields
  PROVE  Timing(k, f) \in Nat /\ Timing(k, f) # 0
  BY TimingsAssumption DEF Timing

\* A silence lasts as long as no reading ends it.
LEMMA SilenceLasts ==
  ASSUME NEW k \in Keys, NEW x \in Nat, NEW y \in Nat, x <= y
  PROVE  /\ AgeStatus(k, x) \in Silences => AgeStatus(k, y) \in Silences
         /\ AgeStatus(k, x) = "offline" => AgeStatus(k, y) = "offline"
<1>1. /\ Timing(k, "offlineAfter") \in Nat
      /\ Timing(k, "staleAfter") \in Nat
      /\ Timing(k, "delayedAfter") \in Nat
  BY TimingTyped DEF Fields
<1> QED
  BY <1>1 DEF AgeStatus, Silences

LEMMA AgeGrows ==
  ASSUME NEW r, r.ts \in Nat, NEW x \in Nat, NEW y \in Nat, x <= y
  PROVE  Age(r, x) \in Nat /\ Age(r, y) \in Nat /\ Age(r, x) <= Age(r, y)
  BY DEF Age

LEMMA StatusTyped ==
  ASSUME NEW k, NEW r, NEW at
  PROVE  Status(k, r, at) \in Statuses
  BY DEF Status, AgeStatus, Statuses, Silences

LEMMA EvaluateTyped ==
  ASSUME NEW k, NEW r
  PROVE  /\ Evaluate(k, r) \in AlarmStates
         /\ Evaluate(k, r) \notin Silences /\ Evaluate(k, r) # "none"
  BY DEF Evaluate, AlarmStates, Alarms, Warnings, Silences

LEMMA FindingTyped ==
  ASSUME NEW k, NEW r, NEW at, Finding(k, r, at) # "none"
  PROVE  /\ k \in Enabled /\ Finding(k, r, at) \in EventStates
         /\ Finding(k, r, at) # "offline" => r # NoReading
<1>1. CASE Status(k, r, at) \in Silences
  BY <1>1 DEF Finding, EventStates, Silences, Status
<1>2. CASE Status(k, r, at) \notin Silences
  BY <1>2, EvaluateTyped DEF Finding, EventStates, AlarmStates
<1> QED
  BY <1>1, <1>2

\* While the last reading is the same, a state the sensor has left does not
\* come back: the crossing ends in a silence, staleness in being offline.
LEMMA NoReturn ==
  ASSUME NEW k \in Keys, NEW r, r # NoReading, r.ts \in Nat,
         NEW x \in Nat, NEW y \in Nat, NEW z \in Nat, x <= y, y <= z,
         Finding(k, r, x) # "none", Finding(k, r, y) # Finding(k, r, x)
  PROVE  Finding(k, r, z) # Finding(k, r, x)
<1>1. /\ Age(r, x) \in Nat /\ Age(r, y) \in Nat /\ Age(r, z) \in Nat
      /\ Age(r, x) <= Age(r, y) /\ Age(r, y) <= Age(r, z)
  BY AgeGrows
<1>2. \A at : Status(k, r, at) = AgeStatus(k, Age(r, at))
  BY DEF Status
<1>3. \A at : Finding(k, r, at) =
        IF Status(k, r, at) \in Silences THEN Status(k, r, at)
        ELSE IF Evaluate(k, r) \in {"normal", "disabled"} THEN "none" ELSE Evaluate(k, r)
  BY FindingTyped DEF Finding
<1>4. /\ Status(k, r, x) \in Silences => Status(k, r, y) \in Silences
      /\ Status(k, r, y) \in Silences => Status(k, r, z) \in Silences
      /\ Status(k, r, x) = "offline" => Status(k, r, y) = "offline"
      /\ Status(k, r, y) = "offline" => Status(k, r, z) = "offline"
  BY <1>1, <1>2, SilenceLasts
<1>5. Evaluate(k, r) \notin Silences
  BY EvaluateTyped
<1> QED
  BY <1>3, <1>4, <1>5 DEF Silences

----------------------------------------------------------------------------
\* One evaluation

Going(events, latest, at) == {e \in Uncleared(events) : GoesOn(e, latest, at)}
Fresh(events, latest, at) ==
  {k \in Mapped : /\ Finding(k, latest[k], at) # "none"
                  /\ \A e \in Going(events, latest, at) : e.key # k}
Ended(e, at) == [e EXCEPT !.lifecycle = "CLEARED", !.cleared = at]

OnePerKey(events) == \A e, f \in Uncleared(events) : e.key = f.key => e = f

\* A reading, or none.
Dated(T, r) == r = NoReading \/ r.ts \in T

LEMMA Derived ==
  ASSUME NEW events, NEW latest, NEW acked, NEW at,
         NEW next \in Derivations(events, latest, acked, at)
  PROVE  \E kept \in Trims(Cleared(events)) :
           next = {Merged(e, acked) : e \in Going(events, latest, at)}
                  \cup {Ended(e, at) : e \in Uncleared(events) \ Going(events, latest, at)}
                  \cup {NewEvent(k, latest, acked, at) : k \in Fresh(events, latest, at)}
                  \cup kept
  BY DEF Derivations, Going, Fresh, Ended

LEMMA TrimsSubset ==
  ASSUME NEW cleared, NEW kept \in Trims(cleared)
  PROVE  kept \subseteq cleared
  BY DEF Trims

LEMMA NewEventTyped ==
  ASSUME NEW T, 0 \in T, NEW k \in Mapped, NEW latest, Dated(T, latest[k]), NEW acked,
         NEW at \in T, Finding(k, latest[k], at) # "none"
  PROVE  /\ NewEvent(k, latest, acked, at) \in Events(T)
         /\ NewEvent(k, latest, acked, at).key = k
         /\ NewEvent(k, latest, acked, at).state = Finding(k, latest[k], at)
         /\ NewEvent(k, latest, acked, at).lifecycle # "CLEARED"
         /\ NewEvent(k, latest, acked, at).lifecycle = "ACKED"
              <=> Id(NewEvent(k, latest, acked, at)) \in acked
         /\ latest[k] # NoReading =>
              NewEvent(k, latest, acked, at).first = latest[k].ts
<1>1. PICK state \in EventStates : state = Finding(k, latest[k], at)
  BY FindingTyped
<1>2. PICK first \in T : first = IF latest[k] = NoReading THEN at ELSE latest[k].ts
  BY DEF Dated
<1>3. PICK lifecycle \in {"ACTIVE", "ACKED"} :
        lifecycle = IF <<k, state, first>> \in acked THEN "ACKED" ELSE "ACTIVE"
  OBVIOUS
<1>4. NewEvent(k, latest, acked, at)
        = [key |-> k, state |-> state, first |-> first, lifecycle |-> lifecycle, cleared |-> 0]
  BY <1>1, <1>2, <1>3 DEF NewEvent
<1> QED
  BY <1>1, <1>2, <1>3, <1>4 DEF Events, Id

LEMMA MergedTyped ==
  ASSUME NEW T, NEW e \in Events(T), e.lifecycle # "CLEARED", NEW acked
  PROVE  /\ Merged(e, acked) \in Events(T)
         /\ Id(Merged(e, acked)) = Id(e)
         /\ Merged(e, acked).key = e.key /\ Merged(e, acked).state = e.state
         /\ Merged(e, acked).first = e.first
         /\ Merged(e, acked).lifecycle # "CLEARED"
         /\ Merged(e, acked).lifecycle = "ACKED" <=> (e.lifecycle = "ACKED" \/ Id(e) \in acked)
  BY DEF Merged, Events, Id

LEMMA EndedTyped ==
  ASSUME NEW T, NEW e \in Events(T), NEW at \in T
  PROVE  /\ Ended(e, at) \in Events(T)
         /\ Id(Ended(e, at)) = Id(e)
         /\ Ended(e, at).key = e.key
         /\ Ended(e, at).state = e.state /\ Ended(e, at).first = e.first
         /\ Ended(e, at).lifecycle = "CLEARED"
  BY DEF Ended, Events, Id

\* The open events of the next list go on or are new, the cleared ones have
\* ended or are kept.
LEMMA Parts ==
  ASSUME NEW T, 0 \in T, NEW events \in SUBSET Events(T), NEW latest,
         \A k \in Mapped : Dated(T, latest[k]), NEW acked, NEW at \in T,
         NEW next \in Derivations(events, latest, acked, at)
  PROVE  /\ next \subseteq Events(T)
         /\ Uncleared(next) = {Merged(e, acked) : e \in Going(events, latest, at)}
                \cup {NewEvent(k, latest, acked, at) : k \in Fresh(events, latest, at)}
         /\ \E kept \in Trims(Cleared(events)) :
              Cleared(next) = {Ended(e, at) : e \in Uncleared(events) \ Going(events, latest, at)}
                              \cup kept
<1> DEFINE merged == {Merged(e, acked) : e \in Going(events, latest, at)}
           ended == {Ended(e, at) : e \in Uncleared(events) \ Going(events, latest, at)}
           new == {NewEvent(k, latest, acked, at) : k \in Fresh(events, latest, at)}
<1>1. PICK kept \in Trims(Cleared(events)) : next = merged \cup ended \cup new \cup kept
  BY Derived
<1>2. kept \subseteq events /\ \A e \in kept : e.lifecycle = "CLEARED"
  BY TrimsSubset DEF Cleared, Uncleared
<1>3. \A e \in merged : e \in Events(T) /\ e.lifecycle # "CLEARED"
  BY MergedTyped DEF Going, Uncleared
<1>4. \A e \in ended : e \in Events(T) /\ e.lifecycle = "CLEARED"
  BY EndedTyped DEF Uncleared
<1>5. \A e \in new : e \in Events(T) /\ e.lifecycle # "CLEARED"
  BY NewEventTyped DEF Fresh
<1> HIDE DEF merged, ended, new
<1>6. Uncleared(next) = merged \cup new
  BY <1>1, <1>2, <1>3, <1>4, <1>5 DEF Uncleared
<1>7. Cleared(next) = ended \cup kept
  BY <1>1, <1>2, <1>3, <1>4, <1>5 DEF Cleared, Uncleared
<1>8. next \subseteq Events(T)
  BY <1>1, <1>2, <1>3, <1>4, <1>5
<1> QED
  BY <1>6, <1>7, <1>8 DEF merged, ended, new

\* One open event for a sensor with a finding, for that finding.
LEMMA EvaluationCurrent ==
  ASSUME NEW T, 0 \in T, NEW events \in SUBSET Events(T), NEW latest,
         \A k \in Mapped : Dated(T, latest[k]), NEW acked, NEW at \in T,
         NEW next \in Derivations(events, latest, acked, at), OnePerKey(events)
  PROVE  /\ OnePerKey(next)
         /\ \A k \in Mapped : {e.state : e \in {f \in Uncleared(next) : f.key = k}}
                                = {Finding(k, latest[k], at)} \ {"none"}
<1> DEFINE going == Going(events, latest, at)
           fresh == Fresh(events, latest, at)
<1>0. Uncleared(next) = {Merged(f, acked) : f \in going}
                        \cup {NewEvent(k, latest, acked, at) : k \in fresh}
  BY Parts
<1>1. \A e \in Uncleared(next) :
        \/ \E f \in going : e = Merged(f, acked)
        \/ \E k \in fresh : e = NewEvent(k, latest, acked, at)
  BY <1>0
<1>2. /\ \A f \in going : Merged(f, acked) \in Uncleared(next)
      /\ \A k \in fresh : NewEvent(k, latest, acked, at) \in Uncleared(next)
  BY <1>0
<1>3. \A f \in going : /\ Merged(f, acked).key = f.key
                       /\ Merged(f, acked).state = Finding(f.key, latest[f.key], at)
                       /\ f.key \in Mapped /\ f \in Uncleared(events)
                       /\ Finding(f.key, latest[f.key], at) # "none"
  BY MergedTyped DEF Going, GoesOn, Uncleared, Events, EventStates, Alarms, Warnings, Silences
<1>4. \A k \in fresh : /\ NewEvent(k, latest, acked, at).key = k
                       /\ NewEvent(k, latest, acked, at).state = Finding(k, latest[k], at)
                       /\ k \in Mapped /\ \A f \in going : f.key # k
                       /\ Finding(k, latest[k], at) # "none"
  BY NewEventTyped DEF Fresh
<1>5. \A k \in Mapped : Finding(k, latest[k], at) # "none" /\ k \notin fresh
                          => \E f \in going : f.key = k
  BY DEF Fresh
<1> HIDE DEF going, fresh
<1>6. OnePerKey(next)
  <2> SUFFICES ASSUME NEW e \in Uncleared(next), NEW f \in Uncleared(next), e.key = f.key
               PROVE  e = f
    BY DEF OnePerKey
  <2>1. CASE \E x \in going : e = Merged(x, acked)
    BY <2>1, <1>1, <1>3, <1>4 DEF OnePerKey
  <2>2. CASE \E k \in fresh : e = NewEvent(k, latest, acked, at)
    BY <2>2, <1>1, <1>3, <1>4
  <2> QED
    BY <2>1, <2>2, <1>1
<1>7. ASSUME NEW k \in Mapped
      PROVE  {e.state : e \in {f \in Uncleared(next) : f.key = k}}
               = {Finding(k, latest[k], at)} \ {"none"}
  <2>1. \A e \in Uncleared(next) : e.key = k =>
          e.state = Finding(k, latest[k], at) /\ e.state # "none"
    BY <1>1, <1>3, <1>4
  <2>2. Finding(k, latest[k], at) # "none" => \E e \in Uncleared(next) : e.key = k
    BY <1>2, <1>3, <1>4, <1>5
  <2> QED
    BY <2>1, <2>2
<1> QED
  BY <1>6, <1>7

\* An open event is acknowledged iff its id was.
LEMMA EvaluationAcked ==
  ASSUME NEW T, 0 \in T, NEW events \in SUBSET Events(T), NEW latest,
         \A k \in Mapped : Dated(T, latest[k]), NEW acked, NEW at \in T,
         NEW next \in Derivations(events, latest, acked, at),
         \A e \in Uncleared(events) : e.lifecycle = "ACKED" => Id(e) \in acked
  PROVE  \A e \in Uncleared(next) : e.lifecycle = "ACKED" <=> Id(e) \in acked
<1> SUFFICES ASSUME NEW e \in Uncleared(next)
             PROVE  e.lifecycle = "ACKED" <=> Id(e) \in acked
  OBVIOUS
<1>1. CASE \E f \in Going(events, latest, at) : e = Merged(f, acked)
  BY <1>1, MergedTyped DEF Going, Uncleared
<1>2. CASE \E k \in Fresh(events, latest, at) : e = NewEvent(k, latest, acked, at)
  BY <1>2, NewEventTyped DEF Fresh
<1> QED
  BY <1>1, <1>2, Parts

\* At most one event of a sensor is cleared in an evaluation, and what is
\* carried over is trimmed.
LEMMA EvaluationBounded ==
  ASSUME NEW T, 0 \in T, NEW events \in SUBSET Events(T), NEW latest,
         \A k \in Mapped : Dated(T, latest[k]), NEW acked, NEW at \in T,
         NEW next \in Derivations(events, latest, acked, at), OnePerKey(events),
         IsFiniteSet(events), IsFiniteSet(Mapped)
  PROVE  /\ IsFiniteSet(next)
         /\ Cardinality(Cleared(next)) <= MaxCleared + Cardinality(Mapped)
<1> DEFINE ended == {Ended(e, at) : e \in Uncleared(events) \ Going(events, latest, at)}
           keyOf == [e \in ended |-> e.key]
           keyNext == [e \in Uncleared(next) |-> e.key]
<1>1. PICK kept \in Trims(Cleared(events)) : Cleared(next) = ended \cup kept
  BY Parts
<1>2. IsFiniteSet(ended) /\ Cardinality(ended) <= Cardinality(Mapped)
  <2>1. keyOf \in [ended -> Mapped]
    BY EndedTyped DEF Uncleared, Events
  <2>2. \A x, y \in ended : keyOf[x] = keyOf[y] => x = y
    BY EndedTyped DEF Uncleared, OnePerKey
  <2>3. keyOf \in Injection(ended, Mapped)
    <3> HIDE DEF keyOf, ended
    <3> QED BY <2>1, <2>2 DEF Injection, IsInjective
  <2> HIDE DEF keyOf, ended
  <2> QED
    BY <2>3, FS_Injection
<1>3. IsFiniteSet(kept) /\ Cardinality(kept) <= MaxCleared
  <2>1. kept \subseteq events
    BY TrimsSubset DEF Cleared, Uncleared
  <2>2. IsFiniteSet(kept) /\ Cardinality(kept) \in Nat
    BY <2>1, FS_Subset, FS_CardinalityType
  <2> QED
    BY <2>2, MaxClearedAssumption DEF Trims
<1>4. IsFiniteSet(Uncleared(next))
  <2>1. OnePerKey(next) /\ next \subseteq Events(T)
    BY EvaluationCurrent, Parts
  <2>2. keyNext \in [Uncleared(next) -> Mapped]
    BY <2>1 DEF Uncleared, Events
  <2>3. keyNext \in Injection(Uncleared(next), Mapped)
    BY <2>1, <2>2 DEF Injection, IsInjective, OnePerKey
  <2> HIDE DEF keyNext
  <2> QED
    BY <2>3, FS_Injection
<1> HIDE DEF ended
<1>5. IsFiniteSet(ended \cup kept)
  BY <1>2, <1>3, FS_Union
<1>6. Cardinality(ended \cup kept) <= Cardinality(ended) + Cardinality(kept)
  <2>1. /\ Cardinality(ended) \in Nat /\ Cardinality(kept) \in Nat
        /\ Cardinality(ended \cap kept) \in Nat
    BY <1>2, <1>3, FS_CardinalityType, FS_Intersection
  <2>2. Cardinality(ended \cup kept)
          = Cardinality(ended) + Cardinality(kept) - Cardinality(ended \cap kept)
    BY <1>2, <1>3, FS_Union
  <2> QED
    BY <2>1, <2>2
<1>7. IsFiniteSet(next)
  <2>1. next = Uncleared(next) \cup (ended \cup kept)
    BY <1>1 DEF Cleared, Uncleared
  <2> HIDE DEF ended
  <2>2. IsFiniteSet(Uncleared(next) \cup (ended \cup kept))
    BY <1>4, <1>5, FS_Union
  <2> QED
    BY <2>1, <2>2
<1>8. /\ Cardinality(ended) \in Nat /\ Cardinality(kept) \in Nat
      /\ Cardinality(Mapped) \in Nat /\ Cardinality(ended \cup kept) \in Nat
  BY <1>2, <1>3, <1>5, FS_CardinalityType
<1>9. Cardinality(Cleared(next)) <= MaxCleared + Cardinality(Mapped)
  BY <1>1, <1>2, <1>3, <1>6, <1>8, MaxClearedAssumption
<1> QED
  BY <1>7, <1>9

----------------------------------------------------------------------------
\* Identities

\* What was cleared under id is over: no later clock brings it back while the
\* reading it is dated by is the last.
Passed(id, r, at) ==
  id[2] # "offline" =>
    /\ r # NoReading /\ r.ts >= id[3]
    /\ r.ts = id[3] => \A later \in Nat : later >= at => Finding(id[1], r, later) # id[2]

\* An open event was found when it was opened.
Opened(e, r, at) ==
  e.state # "offline" =>
    /\ r # NoReading /\ r.ts >= e.first
    /\ r.ts = e.first =>
         \E before \in Nat : before <= at /\ Finding(e.key, r, before) = e.state

Told(events, ids, latest, at) ==
  /\ \A id \in ids : Passed(id, latest[id[1]], at)
  /\ \A e \in Uncleared(events) :
       /\ Opened(e, latest[e.key], at)
       /\ Id(e) \in ids => e.state = "offline"

ClearedIds(events) == {Id(e) : e \in Cleared(events)}

LEMMA EvaluationTold ==
  ASSUME NEW T, 0 \in T, T \subseteq Nat, NEW events \in SUBSET Events(T), NEW latest,
         \A k \in Mapped : Dated(T, latest[k]), NEW acked, NEW at \in T,
         NEW next \in Derivations(events, latest, acked, at), OnePerKey(events),
         NEW ids, ClearedIds(events) \subseteq ids,
         NEW floor \in Nat, floor <= at, Told(events, ids, latest, floor)
  PROVE  Told(next, ids \cup ClearedIds(next), latest, at)
<1> DEFINE going == Going(events, latest, at)
           fresh == Fresh(events, latest, at)
<1>1. \A e \in Uncleared(events) : /\ e \in Events(T) /\ e.lifecycle # "CLEARED"
                                   /\ e.key \in Mapped /\ e.state \in EventStates
                                   /\ e.first \in T /\ e.first \in Nat
                                   /\ e.state # "none"
                                   /\ Id(e) = <<e.key, e.state, e.first>>
  BY DEF Uncleared, Events, Id, EventStates, Alarms, Warnings, Silences
<1>2. \A id \in ids : Passed(id, latest[id[1]], at)
  <2> SUFFICES ASSUME NEW id \in ids PROVE Passed(id, latest[id[1]], at)
    OBVIOUS
  <2>1. Passed(id, latest[id[1]], floor)
    BY DEF Told
  <2> QED
    BY <2>1 DEF Passed
<1>3. ASSUME NEW e \in Uncleared(events) \ going
      PROVE  Passed(Id(e), latest[e.key], at)
  <2>1. Opened(e, latest[e.key], floor)
    BY DEF Told
  <2>2. Finding(e.key, latest[e.key], at) # e.state
    BY DEF Going, GoesOn
  <2>3. ASSUME e.state # "offline", latest[e.key].ts = e.first, NEW later \in Nat, later >= at
        PROVE  Finding(e.key, latest[e.key], later) # e.state
    <3>1. latest[e.key] # NoReading /\ latest[e.key].ts \in Nat
      BY <1>1, <2>1, <2>3 DEF Opened
    <3>2. PICK before \in Nat : before <= floor /\ Finding(e.key, latest[e.key], before) = e.state
      BY <2>1, <2>3 DEF Opened
    <3>3. before <= at /\ at \in Nat /\ e.key \in Keys
      BY <3>2, <1>1, SensorsAssumption
    <3> QED
      BY <3>1, <3>2, <3>3, <2>2, <2>3, <1>1, NoReturn
  <2>4. Id(e)[1] = e.key /\ Id(e)[2] = e.state /\ Id(e)[3] = e.first
    BY DEF Id
  <2> QED
    BY <2>1, <2>3, <2>4 DEF Passed, Opened
<1>4. \A id \in ClearedIds(next) :
        id \in ids \/ \E e \in Uncleared(events) \ going : id = Id(e)
  <2>1. PICK kept \in Trims(Cleared(events)) :
          Cleared(next) = {Ended(e, at) : e \in Uncleared(events) \ going} \cup kept
    BY Parts
  <2>2. \A c \in Cleared(next) : c \in Cleared(events)
                                 \/ \E e \in Uncleared(events) \ going : c = Ended(e, at)
    BY <2>1, TrimsSubset
  <2>3. \A e \in Uncleared(events) : Id(Ended(e, at)) = Id(e)
    BY <1>1, EndedTyped
  <2> QED
    BY <2>2, <2>3 DEF ClearedIds
<1>5. \A id \in ids \cup ClearedIds(next) : Passed(id, latest[id[1]], at)
  <2>1. \A e \in Uncleared(events) : Id(e)[1] = e.key
    BY DEF Id
  <2> QED
    BY <2>1, <1>2, <1>3, <1>4
<1>6. ASSUME NEW f \in going
      PROVE  /\ Opened(Merged(f, acked), latest[f.key], at)
             /\ Id(f) \in ids \cup ClearedIds(next) => f.state = "offline"
  <2>1. f \in Uncleared(events)
    BY DEF Going
  <2>2. Opened(f, latest[f.key], floor) /\ (Id(f) \in ids => f.state = "offline")
    BY <2>1 DEF Told
  <2>3. /\ Merged(f, acked).state = f.state /\ Merged(f, acked).key = f.key
        /\ Merged(f, acked).first = f.first
    BY <2>1, <1>1, MergedTyped
  <2>4. Opened(Merged(f, acked), latest[f.key], at)
    BY <2>2, <2>3 DEF Opened
  <2>5. \A e \in Uncleared(events) \ going : Id(e) # Id(f)
    BY <2>1, <1>1 DEF OnePerKey
  <2> QED
    BY <2>2, <2>4, <2>5, <1>4
<1>7. ASSUME NEW k \in fresh
      PROVE  LET e == NewEvent(k, latest, acked, at)
             IN  /\ Opened(e, latest[k], at)
                 /\ Id(e) \in ids \cup ClearedIds(next) => e.state = "offline"
  <2>1. k \in Mapped /\ Finding(k, latest[k], at) # "none"
    BY DEF Fresh
  <2>2. PICK e \in Events(T) :
          /\ e = NewEvent(k, latest, acked, at)
          /\ e.key = k /\ e.state = Finding(k, latest[k], at)
          /\ latest[k] # NoReading => e.first = latest[k].ts
    BY <2>1, NewEventTyped
  <2>3. e.state # "offline" => latest[k] # NoReading /\ latest[k].ts \in Nat
    BY <2>1, <2>2, FindingTyped DEF Dated
  <2>4. Opened(e, latest[k], at)
    BY <2>2, <2>3 DEF Opened
  <2>5. Id(e) \in ids \cup ClearedIds(next) => e.state = "offline"
    <3>1. Id(e)[1] = k /\ Id(e)[2] = e.state /\ Id(e)[3] = e.first
      BY <2>2 DEF Id
    <3>2. SUFFICES ASSUME Passed(Id(e), latest[k], at), e.state # "offline" PROVE FALSE
      BY <3>1, <1>5
    <3> QED
      BY <3>1, <3>2, <2>2, <2>3 DEF Passed
  <2> QED
    BY <2>2, <2>4, <2>5
<1>8. ASSUME NEW e \in Uncleared(next)
      PROVE  /\ Opened(e, latest[e.key], at)
             /\ Id(e) \in ids \cup ClearedIds(next) => e.state = "offline"
  <2>1. CASE \E f \in going : e = Merged(f, acked)
    <3>1. PICK f \in going : e = Merged(f, acked)
      BY <2>1
    <3>2. Id(e) = Id(f) /\ e.key = f.key /\ e.state = f.state
      BY <3>1, <1>1, MergedTyped DEF Going
    <3> QED
      BY <3>1, <3>2, <1>6
  <2>2. CASE \E k \in fresh : e = NewEvent(k, latest, acked, at)
    <3>1. PICK k \in fresh : e = NewEvent(k, latest, acked, at)
      BY <2>2
    <3>2. e.key = k
      BY <3>1, NewEventTyped DEF Fresh
    <3> QED
      BY <3>1, <3>2, <1>7
  <2> QED
    BY <2>1, <2>2, Parts
<1> QED
  BY <1>5, <1>8 DEF Told
=============================================================================
