-------------------------- MODULE MCUseCaseTesting --------------------------
(* The instance of UseCaseTesting that TLC checks; cases, testers, definitions, *)
(* cycles and proofs are interchangeable.                                       *)
EXTENDS UseCaseTesting, TLC

Symmetry == Permutations(Cards) \cup Permutations(Testers) \cup Permutations(Basis)
            \cup Permutations(Cycles) \cup Permutations(Proofs)
=============================================================================
