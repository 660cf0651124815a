-------------------------- MODULE MCClientLifecycle --------------------------
(* An instance of ClientLifecycle for TLC.                                     *)
EXTENDS ClientLifecycle
=============================================================================
