----------------------------- MODULE AlarmCenter -----------------------------
(***************************************************************************)
(* alarms/center/derive.ts: the alarm center's next list of events from    *)
(* its previous one, the latest readings, the acknowledged ids and the     *)
(* clock of the page.  The list is a set here: its order is display only.  *)
(***************************************************************************)
EXTENDS Freshness

CONSTANT MaxCleared   \* maxClearedRetained

ASSUME MaxClearedAssumption == MaxCleared \in Nat

EventStates == Alarms \cup Warnings \cup Silences \cup {"no_data"}
Events(Times) ==
  [key : Mapped, state : EventStates, first : Times,
   lifecycle : {"ACTIVE", "ACKED", "CLEARED"}, cleared : Times]

\* eventId
Id(e) == <<e.key, e.state, e.first>>

Uncleared(events) == {e \in events : e.lifecycle # "CLEARED"}
Cleared(events) == events \ Uncleared(events)

\* Variant: an event is named for its sensor and its state alone.
NewEventUndated(k, latest, acked, now) ==
  LET state == Finding(k, latest[k], now)
  IN  [key |-> k, state |-> state, first |-> 0,
       lifecycle |-> IF <<k, state, 0>> \in acked THEN "ACKED" ELSE "ACTIVE",
       cleared |-> 0]

\* Variant: the acknowledged ids are not asked.
NewEventActive(k, latest, acked, now) ==
  LET reading == latest[k]
  IN  [key |-> k, state |-> Finding(k, reading, now),
       first |-> IF reading = NoReading THEN now ELSE reading.ts,
       lifecycle |-> "ACTIVE", cleared |-> 0]

\* buildNewEvent: dated by the latest reading, or by the clock without one.
NewEvent(k, latest, acked, now) ==
  LET reading == latest[k]
      state == Finding(k, reading, now)
      first == IF reading = NoReading THEN now ELSE reading.ts
  IN  [key |-> k, state |-> state, first |-> first,
       lifecycle |-> IF <<k, state, first>> \in acked THEN "ACKED" ELSE "ACTIVE",
       cleared |-> 0]

\* mergeActiveEvent
Merged(e, acked) ==
  [e EXCEPT !.lifecycle = IF Id(e) \in acked THEN "ACKED" ELSE @]

\* Variant: an event whose sensor is in any alarm or silence goes on.
GoesOnAnyhow(e, latest, now) == Finding(e.key, latest[e.key], now) # "none"

GoesOn(e, latest, now) == Finding(e.key, latest[e.key], now) = e.state

\* Variant: nothing is dropped.
TrimsAll(cleared) == {cleared}

\* The cleared events carried over, the most recently cleared first; events
\* cleared at the same time come in any order.
Trims(cleared) ==
  IF Cardinality(cleared) <= MaxCleared
  THEN {cleared}
  ELSE {kept \in SUBSET cleared :
          /\ Cardinality(kept) = MaxCleared
          /\ \A e \in kept, f \in cleared \ kept : e.cleared >= f.cleared}

\* deriveAlarmCenterSnapshot
Derivations(events, latest, acked, now) ==
  LET going == {e \in Uncleared(events) : GoesOn(e, latest, now)}
      new == {k \in Mapped : /\ Finding(k, latest[k], now) # "none"
                             /\ \A e \in going : e.key # k}
      current ==
        {Merged(e, acked) : e \in going}
        \cup {[e EXCEPT !.lifecycle = "CLEARED", !.cleared = now] :
                e \in Uncleared(events) \ going}
        \cup {NewEvent(k, latest, acked, now) : k \in new}
  IN  {current \cup kept : kept \in Trims(Cleared(events))}
=============================================================================
