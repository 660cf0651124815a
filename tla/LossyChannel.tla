---------------------------- MODULE LossyChannel ----------------------------
(***************************************************************************)
(* What the event path promises, with no threads, batches or counters: a   *)
(* channel that carries events to the ingest in the order it accepted      *)
(* them, may lose any run of consecutive events, may store events more     *)
(* than once while it is still sending them, and never brings back an      *)
(* event it has finished with.  Once closing, it may overtake itself.      *)
(***************************************************************************)
EXTENDS Naturals, Sequences

CONSTANT Events

VARIABLES
    accepted,   \* events the channel has ever taken
    transit,    \* those it still has, oldest first
    stored,     \* how often the ingest stored each event
    closing     \* the channel was told to stop

cvars == <<accepted, transit, stored, closing>>

CInit ==
    /\ accepted = {} /\ transit = <<>> /\ closing = FALSE
    /\ stored = [e \in Events |-> 0]

Accept(e) ==
    /\ e \notin accepted
    /\ accepted' = accepted \cup {e}
    /\ transit' = Append(transit, e)
    /\ UNCHANGED <<stored, closing>>

Without(s, i, j) == SubSeq(s, 1, i - 1) \o SubSeq(s, j + 1, Len(s))
StoredOnceMore(s, i, j) ==
    [e \in Events |-> IF \E k \in i..j : s[k] = e THEN stored[e] + 1
                                                   ELSE stored[e]]

\* Events i..j reach the ingest: the oldest ones, unless closing.
Arrive(i, j) ==
    /\ i = 1 \/ closing
    /\ stored' = StoredOnceMore(transit, i, j)
    /\ transit' = transit \/ transit' = Without(transit, i, j)
    /\ UNCHANGED <<accepted, closing>>

Lose(i, j) ==
    /\ transit' = Without(transit, i, j)
    /\ UNCHANGED <<accepted, stored, closing>>

Close == closing' = TRUE /\ UNCHANGED <<accepted, transit, stored>>

CNext ==
    \/ \E e \in Events : Accept(e)
    \/ \E i, j \in 1..Len(transit) : i <= j /\ (Arrive(i, j) \/ Lose(i, j))
    \/ Close

CSpec == CInit /\ [][CNext]_cvars
=============================================================================
