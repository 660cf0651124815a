--------------------------- MODULE MCProcessHooks ---------------------------
(* Instances of ProcessHooks for TLC.  Clients differ in nothing but name.    *)
EXTENDS ProcessHooks, TLC

Permuted == Permutations(Clients)
=============================================================================
