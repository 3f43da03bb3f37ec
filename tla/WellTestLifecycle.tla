------------------------- MODULE WellTestLifecycle -------------------------
(***************************************************************************)
(* What the well-test component promises: every test walks the lifecycle   *)
(* diagram one edge at a time, and a unit carries at most one test between *)
(* `connected' and `measuring'.  WellTests is shown to implement it when   *)
(* its requests do not overlap.                                            *)
(***************************************************************************)
CONSTANTS Tests, Units

VARIABLES
  status,   \* lifecycle status of every test, "absent" before it is created
  unitOf    \* the unit a test was created for

lifecycleVars == <<status, unitOf>>

ActiveBand == {"connected", "stabilizing", "measuring"}

\* The arrows of the diagram; a status with no outgoing arrow is final.
Arrows ==
  { <<"scheduled", "connected">>, <<"connected", "stabilizing">>,
    <<"stabilizing", "measuring">>, <<"measuring", "completed">>,
    <<"completed", "closed">> }
  \cup { <<s, "aborted">> : s \in ActiveBand \cup {"scheduled"} }

Reachable == ActiveBand \cup {"completed", "closed", "aborted"}

Occupied(u) == \E t \in Tests : unitOf[t] = u /\ status[t] \in ActiveBand

\* Any tests may exist already, one active on a unit.
LifecycleInit ==
  /\ status \in [Tests -> {"absent", "scheduled"} \cup Reachable]
  /\ unitOf \in [Tests -> Units]
  /\ \A t1, t2 \in Tests :
       unitOf[t1] = unitOf[t2] /\ {status[t1], status[t2]} \subseteq ActiveBand => t1 = t2

Schedule(t, u) ==
  /\ status[t] = "absent"
  /\ status' = [status EXCEPT ![t] = "scheduled"]
  /\ unitOf' = [unitOf EXCEPT ![t] = u]

\* Entering the active band claims the unit.
Advance(t, next) ==
  /\ <<status[t], next>> \in Arrows
  /\ next = "connected" => ~Occupied(unitOf[t])
  /\ status' = [status EXCEPT ![t] = next]
  /\ UNCHANGED unitOf

LifecycleNext ==
  \/ \E t \in Tests, u \in Units : Schedule(t, u)
  \/ \E t \in Tests, next \in Reachable : Advance(t, next)

LifecycleSpec == LifecycleInit /\ [][LifecycleNext]_lifecycleVars
=============================================================================
