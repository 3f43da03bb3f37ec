-------------------------- MODULE RealtimeFanoutMC --------------------------
(***************************************************************************)
(* Instances of RealtimeFanout for TLC: a card and a panel share the tab.  *)
(***************************************************************************)
EXTENDS RealtimeFanout

=============================================================================
