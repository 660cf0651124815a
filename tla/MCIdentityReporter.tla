-------------------------- MODULE MCIdentityReporter --------------------------
(* Instances of IdentityReporter for TLC. *)
EXTENDS IdentityReporter, TLC

Symmetry ==
    UNION {Permutations(S) : S \in {Callers, Loops, Keys, Fields}}
=============================================================================
