--------------------------- MODULE EventPipeline ---------------------------
(***************************************************************************)
(* One lifetime, start() to stop(), of the SDK's event path.               *)
(*                                                                         *)
(*   application threads --send_event--> bounded queue --> worker thread   *)
(*                                            |                  | POST    *)
(*                                         stop() ---------------+--> ingest*)
(*                                                                         *)
(* Application threads (Producers) run EventHandler.send_event and         *)
(* _enqueue (events.py); the worker runs EventProcessor._process_events and*)
(* _send_batch, and one further thread runs EventProcessor.stop            *)
(* (processor.py).  A step is what the interpreter runs between two points *)
(* at which another of these threads can observe or change shared state;   *)
(* in particular each queue.Queue call is one step, and `counter += n` is  *)
(* two, a load and a store.  A local is reset where it leaves scope.  The  *)
(* ingest service is external.                                             *)
(***************************************************************************)
EXTENDS Naturals, Sequences, FiniteSets, Functions

CONSTANTS
    Producers,      \* application threads that call send_event
    Events,         \* the events they report (one event_id each)
    NoEvent,        \* "this thread holds no event"
    QueueSize,      \* max_queue_size
    BatchSize,      \* batch_size
    MaxRetry,       \* max_retry: POSTs per batch
    EnqueueTries    \* rounds of _enqueue's loop (8 in the code)

ASSUME NoEventAssumption == NoEvent \notin Events
ASSUME SizesAssumption ==
    /\ QueueSize \in Nat \ {0}
    /\ BatchSize \in Nat \ {0}
    /\ MaxRetry \in Nat
    /\ EnqueueTries \in Nat \ {0}
\* A process has finitely many threads and reports finitely many events.
ASSUME FiniteAssumption == IsFiniteSet(Producers) /\ IsFiniteSet(Events)

VARIABLES
    queue,          \* EventHandler._event_queue, shared by everyone
    counts,         \* the handler's sampled/filtered/dropped counters
    pc, ev, tries,  \* each producer: where it is, its event, rounds used
    tally, reg,     \* each producer: the counter it is raising, value loaded
    batch,          \* EventProcessor._event_batch.events
    stop,           \* EventProcessor._stop_event
    dropped,        \* EventProcessor.dropped_events
    wpc, sending,   \* worker: where it is, the batch _send_batch is given
    attempt, wreg,  \* worker: its attempt number, counter value loaded
    spc, drained,   \* stop(): where it is, events taken from the queue
    abandoned, sreg,\* stop(): qsize it found, counter value loaded
    stored,         \* ingest: how often each event was stored
    fate            \* history: what became of each event

queueVars    == <<queue, counts>>
producerVars == <<pc, ev, tries, tally, reg>>
workerVars   == <<wpc, sending, attempt, wreg>>
stopVars     == <<spc, drained, abandoned, sreg>>
vars == <<queueVars, producerVars, batch, stop, dropped, workerVars, stopVars,
          stored, fate>>

Tallies == {"sampled", "filtered", "dropped"}
\* Fates of an event the processor gave up on, and of one the handler lost.
ProcessorLost == {"rejected", "gaveUp", "interrupted"}
HandlerLost   == {"evicted", "refused"}
Fates == {"new", "held", "sampled", "filtered", "unscrubbable", "delivered"}
           \cup ProcessorLost \cup HandlerLost

\* Settle(S, f): the events of S end as f.
Settle(S, f) == fate' = [e \in Events |-> IF e \in S THEN f ELSE fate[e]]
\* The ingest stores every event of S once more.
Store(S) == stored' = [e \in Events |-> IF e \in S THEN stored[e] + 1
                                                  ELSE stored[e]]
EventsWith(F) == {e \in Events : fate[e] \in F}

Init ==
    /\ queue = <<>>
    /\ counts = [t \in Tallies |-> 0]
    /\ pc = [p \in Producers |-> "idle"]
    /\ ev = [p \in Producers |-> NoEvent]
    /\ tries = [p \in Producers |-> 0]
    /\ tally = [p \in Producers |-> "dropped"]
    /\ reg = [p \in Producers |-> 0]
    /\ batch = <<>>
    /\ stop = FALSE
    /\ dropped = 0
    /\ wpc = "unstarted" /\ sending = <<>> /\ attempt = 0 /\ wreg = 0
    /\ spc = "running" /\ drained = <<>> /\ abandoned = 0 /\ sreg = 0
    /\ stored = [e \in Events |-> 0]
    /\ fate = [e \in Events |-> "new"]

-----------------------------------------------------------------------------
(* EventHandler.send_event: normalise, sample, before_send, scrub.  Whether  *)
(* an event survives depends on its content and on the host's hook.          *)

Withhold(p, e, t) ==            \* counted in counter t, send_event -> False
    /\ pc[p] = "idle" /\ fate[e] = "new"
    /\ pc' = [pc EXCEPT ![p] = "load"]
    /\ tally' = [tally EXCEPT ![p] = t]
    /\ Settle({e}, t)
    /\ UNCHANGED <<queueVars, ev, tries, reg, batch, stop, dropped, workerVars,
                   stopVars, stored>>

SampleOut(p, e) == Withhold(p, e, "sampled")
FilterOut(p, e) == Withhold(p, e, "filtered")

ScrubRefuse(p, e) ==            \* a payload the scrubber will not let out
    /\ pc[p] = "idle" /\ fate[e] = "new"
    /\ Settle({e}, "unscrubbable")
    /\ UNCHANGED <<queueVars, producerVars, batch, stop, dropped, workerVars,
                   stopVars, stored>>

Offer(p, e) ==                  \* on to _enqueue, holding the event
    /\ pc[p] = "idle" /\ fate[e] = "new"
    /\ pc' = [pc EXCEPT ![p] = "put"]
    /\ ev' = [ev EXCEPT ![p] = e]
    /\ Settle({e}, "held")
    /\ UNCHANGED <<queueVars, tries, tally, reg, batch, stop, dropped, workerVars,
                   stopVars, stored>>

-----------------------------------------------------------------------------
(* EventHandler._enqueue *)

NextTry(p) == IF tries[p] < EnqueueTries THEN "put" ELSE "refuse"

Put(p) ==                       \* put_nowait succeeds: send_event -> True
    /\ pc[p] = "put" /\ Len(queue) < QueueSize
    /\ queue' = Append(queue, ev[p])
    /\ ev' = [ev EXCEPT ![p] = NoEvent]
    /\ tries' = [tries EXCEPT ![p] = 0]
    /\ pc' = [pc EXCEPT ![p] = "idle"]
    /\ UNCHANGED <<counts, tally, reg, batch, stop, dropped, workerVars,
                   stopVars, stored, fate>>

\* Fault: put() instead of put_nowait() waits for room.
PutWaits(p) == pc[p] = "put" /\ Len(queue) >= QueueSize /\ UNCHANGED vars

PutFull(p) ==
    /\ pc[p] = "put" /\ Len(queue) >= QueueSize
    /\ tries' = [tries EXCEPT ![p] = @ + 1]
    /\ pc' = [pc EXCEPT ![p] = "evict"]
    /\ UNCHANGED <<queueVars, ev, tally, reg, batch, stop, dropped, workerVars,
                   stopVars, stored, fate>>

Evict(p) ==                     \* get_nowait discards the oldest event
    /\ pc[p] = "evict" /\ queue # <<>>
    /\ queue' = Tail(queue)
    /\ Settle({Head(queue)}, "evicted")
    /\ tally' = [tally EXCEPT ![p] = "dropped"]
    /\ pc' = [pc EXCEPT ![p] = "load"]
    /\ UNCHANGED <<counts, ev, tries, reg, batch, stop, dropped, workerVars,
                   stopVars, stored>>

EvictEmpty(p) ==                \* drained meanwhile: try the insert again
    /\ pc[p] = "evict" /\ queue = <<>>
    /\ pc' = [pc EXCEPT ![p] = NextTry(p)]
    /\ UNCHANGED <<queueVars, ev, tries, tally, reg, batch, stop, dropped,
                   workerVars, stopVars, stored, fate>>

Refuse(p) ==                    \* out of rounds: lose the new event itself
    /\ pc[p] = "refuse"
    /\ Settle({ev[p]}, "refused")
    /\ ev' = [ev EXCEPT ![p] = NoEvent]
    /\ tries' = [tries EXCEPT ![p] = 0]
    /\ tally' = [tally EXCEPT ![p] = "dropped"]
    /\ pc' = [pc EXCEPT ![p] = "load"]
    /\ UNCHANGED <<queueVars, reg, batch, stop, dropped, workerVars,
                   stopVars, stored>>

\* `self.<counter> += 1`: not atomic on the interpreters setup.py lists.
LoadCounter(p) ==
    /\ pc[p] = "load"
    /\ reg' = [reg EXCEPT ![p] = counts[tally[p]]]
    /\ pc' = [pc EXCEPT ![p] = "store"]
    /\ UNCHANGED <<queueVars, ev, tries, tally, batch, stop, dropped,
                   workerVars, stopVars, stored, fate>>

StoreCounter(p) ==              \* then another round, or send_event -> False
    /\ pc[p] = "store"
    /\ counts' = [counts EXCEPT ![tally[p]] = reg[p] + 1]
    /\ pc' = [pc EXCEPT ![p] = IF ev[p] = NoEvent THEN "idle" ELSE NextTry(p)]
    /\ reg' = [reg EXCEPT ![p] = 0]
    /\ UNCHANGED <<queue, ev, tries, tally, batch, stop, dropped,
                   workerVars, stopVars, stored, fate>>

Enqueue(p) ==
    \/ Put(p) \/ PutFull(p) \/ Evict(p) \/ EvictEmpty(p) \/ Refuse(p)
    \/ LoadCounter(p) \/ StoreCounter(p)

SendEvent(p) == \E e \in Events :
    SampleOut(p, e) \/ FilterOut(p, e) \/ ScrubRefuse(p, e) \/ Offer(p, e)

-----------------------------------------------------------------------------
(* EventProcessor.start and _process_events *)

StartWorker ==
    /\ wpc = "unstarted"
    /\ wpc' = "loop"
    /\ UNCHANGED <<queueVars, producerVars, batch, stop, dropped, sending,
                   attempt, wreg, stopVars, stored, fate>>

LoopTest ==                     \* while not self._stop_event.is_set()
    /\ wpc = "loop"
    /\ wpc' = IF stop THEN "exited" ELSE "get"
    /\ UNCHANGED <<queueVars, producerVars, batch, stop, dropped, sending,
                   attempt, wreg, stopVars, stored, fate>>

\* Fault: a LIFO queue.
GetNewest ==
    /\ wpc = "get" /\ queue # <<>>
    /\ queue' = SubSeq(queue, 1, Len(queue) - 1)
    /\ batch' = Append(batch, queue[Len(queue)])
    /\ wpc' = "test"
    /\ UNCHANGED <<counts, producerVars, stop, dropped, sending, attempt, wreg,
                   stopVars, stored, fate>>

GetEvent ==                     \* queue.get(timeout=1), append, size += 1
    /\ wpc = "get" /\ queue # <<>>
    /\ queue' = Tail(queue)
    /\ batch' = Append(batch, Head(queue))
    /\ wpc' = "test"
    /\ UNCHANGED <<counts, producerVars, stop, dropped, sending, attempt, wreg,
                   stopVars, stored, fate>>

GetTimeout ==                   \* Empty
    /\ wpc = "get" /\ queue = <<>>
    /\ wpc' = "test"
    /\ UNCHANGED <<queueVars, producerVars, batch, stop, dropped, sending,
                   attempt, wreg, stopVars, stored, fate>>

\* Fault: size > batch_size for size >= batch_size.
KeepOneMore ==
    /\ wpc = "test" /\ Len(batch) <= BatchSize
    /\ wpc' = "loop"
    /\ UNCHANGED <<queueVars, producerVars, batch, stop, dropped, sending,
                   attempt, wreg, stopVars, stored, fate>>

Keep ==                         \* not full, and flush_interval not over
    /\ wpc = "test" /\ Len(batch) < BatchSize
    /\ wpc' = "loop"
    /\ UNCHANGED <<queueVars, producerVars, batch, stop, dropped, sending,
                   attempt, wreg, stopVars, stored, fate>>

\* Fault: no time-based flush.
FlushWhenFull ==
    /\ wpc = "test" /\ Len(batch) >= BatchSize
    /\ sending' = batch /\ batch' = <<>> /\ attempt' = 0
    /\ wpc' = "post"
    /\ UNCHANGED <<queueVars, producerVars, stop, dropped, wreg, stopVars,
                   stored, fate>>

\* Full, or some events and flush_interval over: reset the buffer, then send.
Flush ==
    /\ wpc = "test" /\ batch # <<>>
    /\ sending' = batch
    /\ batch' = <<>>
    /\ attempt' = 0
    /\ IF MaxRetry = 0
         THEN wpc' = "load" /\ Settle(Range(batch), "gaveUp")
         ELSE wpc' = "post" /\ UNCHANGED fate
    /\ UNCHANGED <<queueVars, producerVars, stop, dropped, wreg, stopVars,
                   stored>>

-----------------------------------------------------------------------------
(* EventProcessor._send_batch on the worker.  The worker is at "post" for as *)
(* long as the request takes.                                                *)

PostDelivered ==                \* a 2xx answer
    /\ wpc = "post"
    /\ Store(Range(sending)) /\ Settle(Range(sending), "delivered")
    /\ wpc' = "loop" /\ sending' = <<>>
    /\ UNCHANGED <<queueVars, producerVars, batch, stop, dropped, attempt, wreg,
                   stopVars>>

\* Fault: a rejected batch is counted but kept for another attempt.
PostRejectedRetried ==
    /\ wpc = "post"
    /\ Settle(Range(sending), "rejected")
    /\ wpc' = "backoff"
    /\ UNCHANGED <<queueVars, producerVars, batch, stop, dropped, sending,
                   attempt, wreg, stopVars, stored>>

PostRejected ==                 \* DROP: a 4xx that a resend cannot mend
    /\ wpc = "post"
    /\ Settle(Range(sending), "rejected")
    /\ wpc' = "load"
    /\ UNCHANGED <<queueVars, producerVars, batch, stop, dropped, sending,
                   attempt, wreg, stopVars, stored>>

\* RETRY: no answer, 5xx, 429...  When the answer was lost on its way back
\* the ingest has stored the events all the same.
PostRetry ==
    /\ wpc = "post"
    /\ Store(Range(sending)) \/ UNCHANGED stored
    /\ IF attempt + 1 = MaxRetry
         THEN wpc' = "load" /\ Settle(Range(sending), "gaveUp")
         ELSE wpc' = "backoff" /\ UNCHANGED fate
    /\ UNCHANGED <<queueVars, producerVars, batch, stop, dropped, sending,
                   attempt, wreg, stopVars>>

\* Fault: a `while True` retry loop that forgets to count attempts.
BackoffOverUncounted ==
    /\ wpc = "backoff" /\ ~stop
    /\ wpc' = "post"
    /\ UNCHANGED <<queueVars, producerVars, batch, stop, dropped, sending,
                   attempt, wreg, stopVars, stored, fate>>

BackoffOver ==                  \* _stop_event.wait(delay) times out
    /\ wpc = "backoff" /\ ~stop
    /\ attempt' = attempt + 1
    /\ wpc' = "post"
    /\ UNCHANGED <<queueVars, producerVars, batch, stop, dropped, sending, wreg,
                   stopVars, stored, fate>>

BackoffInterrupted ==           \* return False: no counter is raised
    /\ wpc = "backoff" /\ stop
    /\ Settle(Range(sending), "interrupted")
    /\ wpc' = "loop" /\ sending' = <<>>
    /\ UNCHANGED <<queueVars, producerVars, batch, stop, dropped, attempt, wreg,
                   stopVars, stored>>

LoadDropped ==                  \* self.dropped_events += len(events)
    /\ wpc = "load"
    /\ wreg' = dropped
    /\ wpc' = "store"
    /\ UNCHANGED <<queueVars, producerVars, batch, stop, dropped, sending,
                   attempt, stopVars, stored, fate>>

StoreDropped ==
    /\ wpc = "store"
    /\ dropped' = wreg + Len(sending)
    /\ wpc' = "loop" /\ sending' = <<>> /\ wreg' = 0
    /\ UNCHANGED <<queueVars, producerVars, batch, stop, attempt,
                   stopVars, stored, fate>>

Post == PostDelivered \/ PostRejected \/ PostRetry
Worker ==
    \/ LoopTest \/ GetEvent \/ GetTimeout \/ Keep \/ Flush \/ Post
    \/ BackoffOver \/ BackoffInterrupted \/ LoadDropped \/ StoreDropped

-----------------------------------------------------------------------------
(* EventProcessor.stop *)

StopBegin ==                    \* returns at once when no thread was started
    /\ spc = "running" /\ wpc # "unstarted"
    /\ stop' = TRUE
    /\ spc' = "join"
    /\ UNCHANGED <<queueVars, producerVars, batch, dropped, workerVars, drained,
                   abandoned, sreg, stored, fate>>

\* Fault: stop() does not wait for the worker.
NoJoin ==
    /\ spc = "join"
    /\ spc' = "drain"
    /\ UNCHANGED <<queueVars, producerVars, batch, stop, dropped, workerVars,
                   drained, abandoned, sreg, stored, fate>>

\* Fault: stop() waits for the queue, as queue.join() would, instead of the worker.
JoinQueue ==
    /\ spc = "join" /\ wpc \in {"exited", "post"} /\ queue = <<>>
    /\ spc' = "drain"
    /\ UNCHANGED <<queueVars, producerVars, batch, stop, dropped, workerVars,
                   drained, abandoned, sreg, stored, fate>>

\* join(timeout=5): the worker is gone, or 5 s passed; nothing but a POST can
\* keep it that long (get waits 1 s, and a set stop event ends a backoff).
Join ==
    /\ spc = "join" /\ wpc \in {"exited", "post"}
    /\ spc' = "drain"
    /\ UNCHANGED <<queueVars, producerVars, batch, stop, dropped, workerVars,
                   drained, abandoned, sreg, stored, fate>>

DrainOne ==
    /\ spc = "drain" /\ Len(drained) < BatchSize /\ queue # <<>>
    /\ drained' = Append(drained, Head(queue))
    /\ queue' = Tail(queue)
    /\ UNCHANGED <<counts, producerVars, batch, stop, dropped, workerVars, spc,
                   abandoned, sreg, stored, fate>>

DrainDone ==                    \* room used up, or Empty
    /\ spc = "drain" /\ (Len(drained) = BatchSize \/ queue = <<>>)
    /\ spc' = "qsize"
    /\ UNCHANGED <<queueVars, producerVars, batch, stop, dropped, workerVars,
                   drained, abandoned, sreg, stored, fate>>

Remaining == batch \o drained
AfterAbandon == IF Remaining = <<>> THEN "reset" ELSE "post"

QSize ==                        \* abandoned = self.queue.qsize()
    /\ spc = "qsize"
    /\ abandoned' = Len(queue)
    /\ spc' = IF queue = <<>> THEN AfterAbandon ELSE "abandonLoad"
    /\ UNCHANGED <<queueVars, producerVars, batch, stop, dropped, workerVars,
                   drained, sreg, stored, fate>>

StopLoad ==                     \* self.dropped_events += ..., both places
    /\ spc \in {"abandonLoad", "postLoad"}
    /\ sreg' = dropped
    /\ spc' = IF spc = "abandonLoad" THEN "abandonStore" ELSE "postStore"
    /\ UNCHANGED <<queueVars, producerVars, batch, stop, dropped, workerVars,
                   drained, abandoned, stored, fate>>

\* Fault: qsize() taken before the drain, so drained events count as abandoned.
AbandonStoreAll ==
    /\ spc = "abandonStore"
    /\ dropped' = sreg + abandoned + Len(drained) /\ sreg' = 0
    /\ spc' = AfterAbandon
    /\ UNCHANGED <<queueVars, producerVars, batch, stop, workerVars, drained,
                   abandoned, stored, fate>>

AbandonStore ==                 \* += abandoned; the events stay in the queue
    /\ spc = "abandonStore"
    /\ dropped' = sreg + abandoned /\ sreg' = 0
    /\ spc' = AfterAbandon
    /\ UNCHANGED <<queueVars, producerVars, batch, stop, workerVars, drained,
                   abandoned, stored, fate>>

\* _send_batch(remaining, max_attempts=1): a single POST, whatever the answer.
LastDelivered ==
    /\ spc = "post"
    /\ Store(Range(Remaining)) /\ Settle(Range(Remaining), "delivered")
    /\ spc' = "reset"
    /\ UNCHANGED <<queueVars, producerVars, batch, stop, dropped, workerVars,
                   drained, abandoned, sreg>>

LastFailed ==
    /\ spc = "post"
    /\ \/ Settle(Range(Remaining), "rejected") /\ UNCHANGED stored
       \/ /\ Settle(Range(Remaining), "gaveUp")
          /\ Store(Range(Remaining)) \/ UNCHANGED stored
    /\ spc' = "postLoad"
    /\ UNCHANGED <<queueVars, producerVars, batch, stop, dropped, workerVars,
                   drained, abandoned, sreg>>

LastStore ==                    \* += len(remaining)
    /\ spc = "postStore"
    /\ dropped' = sreg + Len(Remaining) /\ sreg' = 0
    /\ spc' = "reset"
    /\ UNCHANGED <<queueVars, producerVars, batch, stop, workerVars, drained,
                   abandoned, stored, fate>>

StopReset ==                    \* EventBatch(), session.close(), no thread
    /\ spc = "reset"
    /\ batch' = <<>> /\ drained' = <<>>
    /\ spc' = "stopped"
    /\ UNCHANGED <<queueVars, producerVars, stop, dropped, workerVars,
                   abandoned, sreg, stored, fate>>

Stopper ==
    \/ Join \/ DrainOne \/ DrainDone \/ QSize \/ StopLoad \/ AbandonStore
    \/ LastDelivered \/ LastFailed \/ LastStore \/ StopReset

-----------------------------------------------------------------------------
Next ==
    \/ \E p \in Producers : SendEvent(p) \/ Enqueue(p)
    \/ StartWorker \/ Worker
    \/ StopBegin \/ Stopper

Spec == Init /\ [][Next]_vars

\* Fairness.  The interpreter schedules every runnable thread; a POST ends,
\* with an answer or at its timeout; a backoff is finite; the clock advances,
\* so a worker that keeps testing a non-empty buffer finds flush_interval
\* over; somebody who called stop() keeps running it.  Nobody has to call
\* send_event, start or stop.
CallerFairness == \A p \in Producers : WF_vars(Enqueue(p))
WorkerFairness == WF_vars(Worker) /\ SF_vars(Flush) /\ WF_vars(Stopper)
CallerSpec == Spec /\ CallerFairness
=============================================================================
