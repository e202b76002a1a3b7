----------------------------- MODULE MCRagCache -----------------------------
(* The instance of RagCache that TLC checks; clients are interchangeable. *)
EXTENDS RagCache, TLC

Symmetry == Permutations(Clients)
=============================================================================
