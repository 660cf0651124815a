---------------------------- MODULE MCPolicyCache ----------------------------
(* Instances of PolicyCache for TLC. *)
EXTENDS PolicyCache, TLC

Symmetry == Permutations(Fetchers) \cup Permutations(Readers)
=============================================================================
