--------------------------- MODULE MCEventPipeline ---------------------------
(* Instances of EventPipeline for TLC. *)
EXTENDS EventPipelineProperties, TLC

\* Threads are alike, and so are events.
Symmetry == Permutations(Producers) \cup Permutations(Events)
=============================================================================
