-------------------------- MODULE IdentityReporter --------------------------
(***************************************************************************)
(* IdentityReporter (identity_reporter.py): record() on the request        *)
(* threads, the flush loop, and the thread that calls start() and stop().  *)
(* A sighting is an identity key and what it says of each field, if only   *)
(* that it is False.  A record in _pending or in a batch is the set of the *)
(* sightings merged in it, numbered in the order they were accepted: what  *)
(* it holds of a field is what the latest of them says that says anything. *)
(* The API is external.                                                    *)
(***************************************************************************)
EXTENDS Selection, Functions

CONSTANTS
    Callers,        \* threads that call record()
    Loops,          \* flush threads alive at the same time, at most
    None,           \* no thread
    Keys, Fields,   \* identity keys and the fields known of them
    Values, Falsy,  \* what a sighting may say of a field; the falsy of these
    Absent,         \* that it says nothing of it
    MaxBatch, MaxTracked,
    Outcomes,       \* what may become of a POST
    MaxSightings    \* bound: sightings accepted

ASSUME ReporterAssumption ==
    /\ None \notin Loops
    /\ Falsy \subseteq Values /\ Absent \notin Values
    /\ Callers \cap Loops = {} /\ "control" \notin Callers \cup Loops
    /\ MaxBatch \in Nat \ {0} /\ MaxTracked \in Nat \ {0} /\ MaxSightings \in Nat
    /\ Outcomes \subseteq {"stored", "refused", "fault", "lost"}

VARIABLES
    sightings,      \* the sightings accepted, in order
    pending,        \* _pending, in insertion order
    seen,           \* _seen in the order of reported_at: [key, print, aged]
    batch,          \* the batch each thread is sending
    settled,        \* the sightings the API stored, or refused for good
    thread,         \* where each thread is
    loopThread,     \* _thread
    stop,           \* _stop
    past            \* what has happened so far (history): "overlap", two threads sent
                    \* at a time; "retry", a batch was put back; "late", a POST
                    \* outlasted the join of stop()

vars == <<sightings, pending, seen, batch, settled, thread, loopThread, stop, past>>
lifecycle == <<loopThread, stop>>

Threads == Callers \cup Loops \cup {"control"}

KeyOf(record) == sightings[CHOOSE i \in record : TRUE].key
Waiting(key) == {n \in DOMAIN pending : KeyOf(pending[n]) = key}

Init ==
    /\ sightings = <<>> /\ pending = <<>> /\ seen = <<>> /\ settled = {}
    /\ batch = [t \in Threads |-> <<>>]
    /\ thread = [t \in Threads |-> IF t \in Loops THEN "none" ELSE "idle"]
    /\ loopThread = None /\ stop = FALSE /\ past = {}

Goes(t, from, to) == thread[t] = from /\ thread' = [thread EXCEPT ![t] = to]
Remember(what, happens) == past' = IF happens THEN past \cup {what} ELSE past
Home(t) == IF t \in Loops THEN "waiting" ELSE "idle"

-----------------------------------------------------------------------------
(* record() *)

Said == [Fields -> Values \cup {Absent}]
Carried(fields) == {f \in Fields : fields[f] # Absent}     \* is not None

\* str(auth.get(field) or ""): what is falsy looks like what is absent.
Fingerprint(fields) == [f \in Fields |-> IF fields[f] \in Falsy THEN Absent ELSE fields[f]]

Entry(key, fields) == [key |-> key, print |-> Fingerprint(fields), aged |-> FALSE]

Suppressed(key, fields) == Entry(key, fields) \in Range(seen)

\* _trim_seen: the oldest go.
Trimmed(entries) ==
    IF Len(entries) > MaxTracked
    THEN SubSeq(entries, Len(entries) - MaxTracked + 1, Len(entries))
    ELSE entries

\* Fault: a new sighting of a key replaces its record.
Replaced(key, i) ==
    IF Waiting(key) = {} THEN Append(pending, {i})
    ELSE [n \in DOMAIN pending |-> IF n \in Waiting(key) THEN {i} ELSE pending[n]]

\* The pending records with a new sighting of a key: merged into the record of
\* that key where it stands, or appended.
Merged(key, i) ==
    IF Waiting(key) = {} THEN Append(pending, {i})
    ELSE [n \in DOMAIN pending |->
            IF n \in Waiting(key) THEN pending[n] \cup {i} ELSE pending[n]]

\* Fault: the fingerprint of the first sighting stays.
NotedFirst(key, fields) ==
    IF \E n \in DOMAIN seen : seen[n].key = key THEN seen
    ELSE Trimmed(Append(seen, Entry(key, fields)))

Noted(key, fields) ==
    Trimmed(Append(Filtered(seen, LAMBDA e : e.key # key), Entry(key, fields)))

Record(c) ==
    \E key \in Keys, fields \in Said :
        /\ Len(sightings) < MaxSightings
        /\ ~Suppressed(key, fields)
        /\ sightings' = Append(sightings, [key |-> key, fields |-> fields])
        /\ seen' = Noted(key, fields)
        /\ pending' = Merged(key, Len(sightings) + 1)
        /\ Goes(c, "idle", IF Len(pending') >= MaxBatch THEN "flush" ELSE "idle")
        /\ UNCHANGED <<batch, settled, lifecycle, past>>

Age ==                      \* report_interval passes for the oldest entries
    \E n \in DOMAIN seen :
        /\ ~seen[n].aged
        /\ seen' = [m \in DOMAIN seen |->
                      IF m <= n THEN [seen[m] EXCEPT !.aged = TRUE] ELSE seen[m]]
        /\ UNCHANGED <<sightings, pending, batch, settled, thread, lifecycle, past>>

-----------------------------------------------------------------------------
(* flush() *)

NothingPending(t) ==
    /\ pending = <<>> /\ Goes(t, "flush", Home(t))
    /\ UNCHANGED <<sightings, pending, seen, batch, settled, lifecycle, past>>

Detach(t) ==                \* under the lock: the first max_batch records
    /\ pending # <<>> /\ Goes(t, "flush", "posting")
    /\ LET n == IF Len(pending) < MaxBatch THEN Len(pending) ELSE MaxBatch
       IN batch' = [batch EXCEPT ![t] = SubSeq(pending, 1, n)]
          /\ pending' = SubSeq(pending, n + 1, Len(pending))
    /\ Remember("overlap", \E u \in Threads \ {t} : thread[u] = "posting")
    /\ UNCHANGED <<sightings, seen, settled, lifecycle>>

Sent(t) == UNION Range(batch[t])

Stored(t) ==                \* 2xx
    /\ "stored" \in Outcomes /\ Goes(t, "posting", Home(t))
    /\ settled' = settled \cup Sent(t)
    /\ batch' = [batch EXCEPT ![t] = <<>>]
    /\ UNCHANGED <<sightings, pending, seen, lifecycle, past>>

Refused(t) ==               \* 3xx or 4xx: will not succeed on retry
    /\ "refused" \in Outcomes /\ Goes(t, "posting", Home(t))
    /\ settled' = settled \cup Sent(t)
    /\ batch' = [batch EXCEPT ![t] = <<>>]
    /\ UNCHANGED <<sightings, pending, seen, lifecycle, past>>

\* _requeue: a key that is pending again keeps its newer record.
Requeued(t) ==
    pending \o Filtered(batch[t], LAMBDA r : Waiting(KeyOf(r)) = {})

\* Fault: an exception escapes from the flush loop.
FaultedEndsLoop(t) ==
    \E o \in Outcomes \cap {"fault", "lost"} :
        /\ Goes(t, "posting", IF t \in Loops THEN "exited" ELSE "idle")
        /\ settled' = IF o = "lost" THEN settled \cup Sent(t) ELSE settled
        /\ pending' = Requeued(t)
        /\ batch' = [batch EXCEPT ![t] = <<>>]
        /\ Remember("retry", TRUE)
        /\ UNCHANGED <<sightings, seen, lifecycle>>

\* 5xx, or an exception; "lost" is the one after which the API has the batch.
Faulted(t) ==
    \E o \in Outcomes \cap {"fault", "lost"} :
        /\ Goes(t, "posting", Home(t))
        /\ settled' = IF o = "lost" THEN settled \cup Sent(t) ELSE settled
        /\ pending' = Requeued(t)
        /\ batch' = [batch EXCEPT ![t] = <<>>]
        /\ Remember("retry", TRUE)
        /\ UNCHANGED <<sightings, seen, lifecycle>>

Flush(t) ==
    NothingPending(t) \/ Detach(t) \/ Stored(t) \/ Refused(t) \/ Faulted(t)

-----------------------------------------------------------------------------
(* start(), stop() and the flush loop *)

Alive(l) == thread[l] \notin {"none", "exited"}

Start ==
    /\ thread["control"] = "idle"
    /\ \A l \in Loops : loopThread = l => ~Alive(l)
    /\ stop' = FALSE
    /\ \E l \in {l \in Loops : ~Alive(l)} :
         loopThread' = l /\ thread' = [thread EXCEPT ![l] = "waiting"]
    /\ UNCHANGED <<sightings, pending, seen, batch, settled, past>>

Stop ==
    /\ Goes("control", "idle", IF loopThread = None THEN "flush" ELSE "joining")
    /\ stop' = TRUE
    /\ UNCHANGED <<sightings, pending, seen, batch, settled, loopThread, past>>

\* Fault: stop() forgets the thread without waiting for it.
JoinSkipped ==
    /\ Goes("control", "joining", "flush")
    /\ loopThread' = None
    /\ UNCHANGED <<sightings, pending, seen, batch, settled, stop, past>>

Join ==                     \* join(timeout=3)
    /\ Goes("control", "joining", "flush")
    /\ \A l \in Loops : loopThread = l =>
         (~Alive(l) \/ thread[l] = "posting")
    /\ loopThread' = None
    /\ Remember("late", \E l \in Loops : loopThread = l /\ Alive(l))
    /\ UNCHANGED <<sightings, pending, seen, batch, settled, stop>>

LoopStops(l) ==             \* _stop.wait(flush_interval) returns True
    /\ stop /\ Goes(l, "waiting", "exited")
    /\ UNCHANGED <<sightings, pending, seen, batch, settled, lifecycle, past>>

LoopFlushes(l) ==
    /\ ~stop /\ Goes(l, "waiting", "flush")
    /\ UNCHANGED <<sightings, pending, seen, batch, settled, lifecycle, past>>

LoopRuns(l) == LoopStops(l) \/ LoopFlushes(l) \/ Flush(l)

-----------------------------------------------------------------------------
Next ==
    \/ \E c \in Callers : Record(c) \/ Flush(c)
    \/ Age
    \/ \E l \in Loops : LoopRuns(l)
    \/ Start \/ Stop \/ Join \/ Flush("control")

Spec == Init /\ [][Next]_vars

\* Threads run, a POST ends, and of POSTs a loop makes for ever some are answered.
\* Nobody need see an identity, call start() or come back from stop(), and a request
\* thread's POSTs may all fail.
FairSpec ==
    /\ Spec
    /\ \A c \in Callers : WF_vars(Flush(c))
    /\ \A l \in Loops : WF_vars(LoopRuns(l)) /\ SF_vars(Stored(l))

-----------------------------------------------------------------------------
(* Properties *)

Held == (UNION Range(pending)) \cup (UNION {Sent(t) : t \in Threads})

\* The sightings that say as much as sighting i or more recent things.
Since(i) == {j \in i..Len(sightings) : sightings[j].key = sightings[i].key}

\* "A newer sighting queued while we were sending wins" (identity_reporter.py:209): as
\* long as one thread sends at a time, no sighting that record() took is lost
\* altogether: it, or a newer one of the same identity, is pending, being sent, or
\* settled.  (Of two batches that fail, the older may be put back first.)  And "a later
\* sparse sighting merges into the richer earlier one instead of erasing it" (129-132):
\* as long as no batch was put back, no field of a sighting is lost, unless a newer
\* sighting brought the same field.
NothingForgotten ==
    /\ "overlap" \notin past =>
         \A i \in DOMAIN sightings : Since(i) \cap (Held \cup settled) # {}
    /\ "retry" \notin past =>
         \A i \in DOMAIN sightings : \A f \in Carried(sightings[i].fields) :
             \E j \in Since(i) :
                 f \in Carried(sightings[j].fields) /\ j \in Held \cup settled

\* A sighting that record() would suppress now says nothing that is true and that the
\* latest sighting taken of the identity does not say, nor is it silent on what that one
\* says; and that one is on its way or settled, through failures, merges and the trimming
\* of _seen.  (What is falsy is as good as absent here, although the record would carry
\* it: an explicit False may be suppressed.)
SuppressionHonest ==
    {"overlap", "retry"} \subseteq past \/
    \A key \in Keys, fields \in Said : Suppressed(key, fields) =>
        \E i \in Held \cup settled :
            /\ sightings[i].key = key /\ Since(i) = {i}
            /\ \A f \in Fields :
                  LET now == fields[f]
                      then == sightings[i].fields[f]
                  IN now = then \/ {now, then} \subseteq Falsy \cup {Absent}

\* stop() leaves no flush thread behind unless its POST outlasts the join, and a start()
\* never makes a second one.
OneLoop ==
    "late" \notin past =>
        /\ Cardinality({l \in Loops : Alive(l)}) <= 1
        /\ thread["control"] = "flush" => \A l \in Loops : ~Alive(l)

\* While a flush loop runs, every sighting is settled in the end, or a newer one of the
\* identity is, although single POSTs fail.
SightingReported ==
    \A i \in 1..MaxSightings :
        (i \in DOMAIN sightings /\ ~stop /\ \E l \in Loops : Alive(l))
            ~> (stop \/ "overlap" \in past \/ Since(i) \cap settled # {})
=============================================================================
