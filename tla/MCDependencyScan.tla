--------------------------- MODULE MCDependencyScan --------------------------
(* An instance of DependencyScan for TLC.                                      *)
EXTENDS DependencyScan
=============================================================================
