----------------------------- MODULE FreshCache -----------------------------
(***************************************************************************)
(* What a local copy of something the server keeps promises its readers:   *)
(* the copy is always one the server did publish, and it never goes back   *)
(* to an older one.  Version 0 stands for "nothing loaded yet".            *)
(***************************************************************************)
EXTENDS Naturals

VARIABLES
    latest,     \* the version the server publishes
    held        \* the version a reader of the copy sees

Init == latest \in Nat /\ held = 0

Publish == latest' = latest + 1 /\ UNCHANGED held

Refresh == held' \in held..latest /\ UNCHANGED latest

Next == Publish \/ Refresh

Spec == Init /\ [][Next]_<<latest, held>>
=============================================================================
