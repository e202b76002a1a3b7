----------------------------- MODULE MCUseCases -----------------------------
(* The instances of UseCases that TLC checks; cases are interchangeable. *)
EXTENDS UseCases, TLC

CardSymmetry == Permutations(Cards)
=============================================================================
