---------------------------- MODULE MCVoyageBudget ----------------------------
(* The instance of VoyageBudget that TLC checks. *)
EXTENDS VoyageBudget, TLC
=============================================================================
