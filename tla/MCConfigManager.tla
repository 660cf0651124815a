--------------------------- MODULE MCConfigManager ---------------------------
(* Instances of ConfigManager for TLC. *)
EXTENDS ConfigManager, TLC

Symmetry == Permutations(Callers)
=============================================================================
