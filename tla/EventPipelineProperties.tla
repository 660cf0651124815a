----------------------- MODULE EventPipelineProperties -----------------------
(* What EventPipeline is to satisfy. *)
EXTENDS EventPipeline, FiniteSetsExt

-----------------------------------------------------------------------------
\* Type correctness of every variable, with the bounds the code sets on its
\* own structures: the queue on max_queue_size, the drain on batch_size.
TypeOK ==
    /\ queue \in Seq(Events) /\ Len(queue) <= QueueSize
    /\ counts \in [Tallies -> Nat]
    /\ pc \in [Producers -> {"idle", "put", "evict", "refuse", "load", "store"}]
    /\ ev \in [Producers -> Events \cup {NoEvent}]
    /\ tries \in [Producers -> 0..EnqueueTries]
    /\ tally \in [Producers -> Tallies]
    /\ reg \in [Producers -> Nat]
    /\ batch \in Seq(Events)
    /\ stop \in BOOLEAN
    /\ dropped \in Nat
    /\ wpc \in {"unstarted", "loop", "get", "test", "post", "backoff", "load",
                "store", "exited"}
    /\ sending \in Seq(Events)
    /\ attempt \in Nat
    /\ wreg \in Nat
    /\ spc \in {"running", "join", "drain", "qsize", "abandonLoad",
                "abandonStore", "post", "postLoad", "postStore", "reset",
                "stopped"}
    /\ drained \in Seq(Events) /\ Len(drained) <= BatchSize
    /\ abandoned \in Nat
    /\ sreg \in Nat
    /\ stored \in [Events -> Nat]
    /\ fate \in [Events -> Fates]

-----------------------------------------------------------------------------
(* Ownership *)

\* A batch in _send_batch still has to be decided while it is posted.
InFlight == IF wpc \in {"post", "backoff"} THEN sending ELSE <<>>
\* stop() refers to the buffer until it resets it, but the events in it are
\* decided once its one POST has been answered.
StopDecided == spc \in {"postLoad", "postStore", "reset", "stopped"}
Buffered == IF StopDecided THEN <<>> ELSE batch
Drained  == IF StopDecided THEN <<>> ELSE drained

At(s, e) == {i \in DOMAIN s : s[i] = e}
Owners(e) ==
    ({"caller"} \X {p \in Producers : ev[p] = e})
    \cup ({"queue"} \X At(queue, e)) \cup ({"batch"} \X At(Buffered, e))
    \cup ({"worker"} \X At(InFlight, e)) \cup ({"stop"} \X At(Drained, e))

\* An event nobody has decided on is in exactly one place - one caller's hand,
\* one slot of the queue, of the buffer, of the batch in flight or of what
\* stop() drained - and a decided one is in none.  Two threads handing events
\* over to each other, and stop() taking the worker's buffer, never lose one
\* silently and never keep two copies to send.
OneOwner ==
    \A e \in Events :
        Cardinality(Owners(e)) = IF fate[e] = "held" THEN 1 ELSE 0

\* No event is sent again, and its outcome does not change, after the ingest's
\* verdict on it or after it was given up (processor.py: "The caller must not
\* keep a batch the server has refused").
DecidedOnce ==
    [][\A e \in Events : fate[e] \notin {"new", "held"} =>
          fate'[e] = fate[e] /\ stored'[e] = stored[e]]_vars

\* The ingest sees an event at most max_retry times (once if max_retry is 0,
\* from stop()), however answers are lost, however stop() overlaps a POST.
DuplicatesBounded ==
    \A e \in Events : stored[e] <= IF MaxRetry = 0 THEN 1 ELSE MaxRetry

\* "Bounded memory": the worker never has more than batch_size events, filling
\* or in flight, and stop() leaves with less than twice that.
MemoryBounded ==
    /\ Len(Buffered) + Len(InFlight) <= BatchSize
    /\ Len(Remaining) < 2 * BatchSize

-----------------------------------------------------------------------------
(* Accounting *)

Uncounted(p) == tally[p] = "dropped" /\ pc[p] \in {"load", "store"}

\* The handler's dropped_events, with the losses some thread is just about to
\* count, never says more than was lost: two threads that raise the counter at
\* once can only lose an increment.
HandlerCountHonest ==
    counts["dropped"] + Cardinality({p \in Producers : Uncounted(p)})
        <= Cardinality(EventsWith(HandlerLost))

\* Until stop() is called every loss of the processor is counted, exactly once.  Its
\* dropped_events never says more than the events it decided to give up plus those
\* stop() left in the queue, although the worker may still be counting when stop()
\* counts.
ProcessorCountHonest ==
    /\ ~stop => dropped + (IF wpc \in {"load", "store"} THEN Len(sending) ELSE 0)
                  = Cardinality(EventsWith(ProcessorLost))
    /\ dropped <= Cardinality(EventsWith(ProcessorLost)) + abandoned

\* Neither counter ever says that more was lost than was, whoever races on it.
CountersHonest == HandlerCountHonest /\ ProcessorCountHonest

-----------------------------------------------------------------------------
(* The abstract channel it implements *)

Channel == INSTANCE LossyChannel WITH
    accepted <- {e \in Events :
                   /\ fate[e] \in {"held", "delivered", "evicted"} \cup ProcessorLost
                   /\ \A p \in Producers : ev[p] # e},
    transit <- InFlight \o Buffered \o Drained \o queue,
    closing <- stop

\* The event path delivers in the order of acceptance, loses only runs of
\* neighbours, and never resends what it is done with.
ImplementsChannel == Channel!CSpec

-----------------------------------------------------------------------------
(* Liveness *)

\* send_event never blocks: it returns however busy, slow or dead the worker
\* and the ingest are (events.py: "Never blocks").
SendEventReturns ==
    \A p \in Producers : pc[p] # "idle" ~> pc[p] = "idle"

\* With the threads of the SDK scheduled and the processor running, every accepted
\* event is decided, even if the ingest never takes one, and even if no further
\* event comes to fill a batch.
EventsDecided ==
    WorkerFairness =>
        \A e \in Events :
            (fate[e] = "held" /\ wpc # "unstarted") ~> (fate[e] # "held" \/ stop)

\* stop() returns, and the worker exits, whatever the ingest answers.
StopReturns == WorkerFairness => (stop ~> (spc = "stopped" /\ wpc = "exited"))
=============================================================================
