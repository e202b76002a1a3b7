---------------------------- MODULE MCIngestJobs ----------------------------
(* TLC instances of IngestJobs: row ids and workers are interchangeable, BRDs *)
(* too; the safety runs use that symmetry, the liveness run does not.         *)
EXTENDS IngestJobs, TLC

Symmetry == Permutations(Docs) \cup Permutations(Jobs) \cup Permutations(Revs) \cup Permutations(Workers)
=============================================================================
