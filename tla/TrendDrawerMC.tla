---------------------------- MODULE TrendDrawerMC ----------------------------
(***************************************************************************)
(* The drawer of a unit over two tests of it.                              *)
(***************************************************************************)
EXTENDS TrendDrawer

CONSTANTS j1, u1, t1, t2

MCJobUnit == [j \in Jobs |-> u1]

\* The fixture's test in measurement.  Its other test, planned and never moved, is
\* what MockCreate(t2, j1) makes.
MCFixture ==
  [t \in Tests |->
     IF t = t1
     THEN [BlankRow(j1) EXCEPT !.status = "measuring", !.connectedAt = 1,
             !.stabilizationStartedAt = 1, !.stabilizationEndedAt = 2,
             !.officialStartedAt = 2]
     ELSE BlankRow(j1)]
=============================================================================
