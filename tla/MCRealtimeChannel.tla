-------------------------- MODULE MCRealtimeChannel --------------------------
(* Instances of RealtimeChannel for TLC. *)
EXTENDS RealtimeChannel, TLC

Symmetry == Permutations(Pollers)
=============================================================================
