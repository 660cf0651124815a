------------------------- MODULE EventPipelineProofs -------------------------
(* Proofs about EventPipeline, for every number of threads and events and   *)
(* every queue, batch and retry bound: types, who owns an event, what the   *)
(* handler counts; then, all resting on OwnInv, what is kept in memory, how *)
(* often an event is sent, what the processor counts.                       *)
EXTENDS EventPipelineProperties, SequenceTheorems, FiniteSetTheorems, TLAPS

USE NoEventAssumption, SizesAssumption DEF NoEventAssumption, SizesAssumption

-----------------------------------------------------------------------------
(* Where a caller is in _enqueue says what it holds.  TypeOK needs it: put   *)
(* appends the caller's event, and tries stays within EnqueueTries.          *)

CallerOK ==
    \A p \in Producers :
        /\ pc[p] \in {"put", "evict", "refuse"} => ev[p] # NoEvent
        /\ pc[p] = "put" => tries[p] < EnqueueTries
        /\ ev[p] = NoEvent => tries[p] = 0
        /\ pc[p] = "idle" => ev[p] = NoEvent

TypeInv == TypeOK /\ CallerOK

LEMMA InitTypeInv == Init => TypeInv
<1> SUFFICES ASSUME Init PROVE TypeInv
  OBVIOUS
<1>1. <<>> \in Seq(Events) /\ Len(<<>>) = 0
  BY EmptySeq
<1>2. /\ queue \in Seq(Events) /\ Len(queue) <= QueueSize
      /\ batch \in Seq(Events) /\ sending \in Seq(Events)
      /\ drained \in Seq(Events) /\ Len(drained) <= BatchSize
  BY <1>1 DEF Init
<1>3. /\ pc \in [Producers -> {"idle", "put", "evict", "refuse", "load", "store"}]
      /\ ev \in [Producers -> Events \cup {NoEvent}]
      /\ tries \in [Producers -> 0..EnqueueTries]
      /\ tally \in [Producers -> Tallies]
      /\ reg \in [Producers -> Nat]
  BY DEF Init, Tallies
<1>4. /\ counts \in [Tallies -> Nat]
      /\ stored \in [Events -> Nat]
      /\ fate \in [Events -> Fates]
  BY DEF Init, Fates
<1>5. TypeOK
  BY <1>2, <1>3, <1>4 DEF Init, TypeOK
<1>6. CallerOK
  BY DEF Init, CallerOK
<1> QED BY <1>5, <1>6 DEF TypeInv

LEMMA SendEventTypeInv ==
    ASSUME TypeInv, NEW p \in Producers, SendEvent(p)
    PROVE  TypeInv'
<1>1. PICK e \in Events : SampleOut(p, e) \/ FilterOut(p, e) \/ ScrubRefuse(p, e) \/ Offer(p, e)
  BY DEF SendEvent
<1>2. CASE SampleOut(p, e)
  BY <1>2 DEF SampleOut, Withhold, Settle, TypeInv, TypeOK, CallerOK, Fates,
     Tallies, queueVars, workerVars, stopVars
<1>3. CASE FilterOut(p, e)
  BY <1>3 DEF FilterOut, Withhold, Settle, TypeInv, TypeOK, CallerOK, Fates,
     Tallies, queueVars, workerVars, stopVars
<1>4. CASE ScrubRefuse(p, e)
  BY <1>4 DEF ScrubRefuse, Settle, TypeInv, TypeOK, CallerOK, Fates,
     queueVars, producerVars, workerVars, stopVars
<1>5. CASE Offer(p, e)
  <2>1. /\ TypeOK /\ CallerOK
    BY DEF TypeInv
  <2>2. fate' \in [Events -> Fates]
    BY <1>5, <2>1 DEF Offer, Settle, TypeOK, Fates
  <2>3. TypeOK'
    BY <1>5, <2>1, <2>2 DEF Offer, TypeOK, queueVars, workerVars, stopVars
  <2>4. CallerOK'
    <3>1. /\ pc \in [Producers -> {"idle", "put", "evict", "refuse", "load", "store"}]
          /\ ev \in [Producers -> Events \cup {NoEvent}] /\ pc[p] = "idle"
          /\ pc' = [pc EXCEPT ![p] = "put"] /\ ev' = [ev EXCEPT ![p] = e]
          /\ UNCHANGED tries /\ tries[p] = 0
      BY <1>5, <2>1 DEF Offer, TypeOK, CallerOK
    <3>2. pc'[p] = "put" /\ ev'[p] = e /\ e # NoEvent
      BY <3>1
    <3>3. \A q \in Producers \ {p} : pc'[q] = pc[q] /\ ev'[q] = ev[q]
      BY <3>1
    <3> QED BY <2>1, <3>1, <3>2, <3>3 DEF CallerOK
  <2> QED BY <2>3, <2>4 DEF TypeInv
<1> QED BY <1>1, <1>2, <1>3, <1>4, <1>5

LEMMA EnqueueTypeInv ==
    ASSUME TypeInv, NEW p \in Producers, Enqueue(p)
    PROVE  TypeInv'
<1> USE DEF TypeInv, TypeOK, CallerOK, queueVars, producerVars, workerVars, stopVars
<1>1. CASE Put(p)
  <2>1. ev[p] \in Events /\ queue \in Seq(Events) /\ Len(queue) < QueueSize
    BY <1>1 DEF Put
  <2>2. queue' \in Seq(Events) /\ Len(queue') <= QueueSize
    BY <1>1, <2>1 DEF Put
  <2>3. /\ pc' \in [Producers -> {"idle", "put", "evict", "refuse", "load", "store"}]
        /\ ev' \in [Producers -> Events \cup {NoEvent}]
        /\ tries' \in [Producers -> 0..EnqueueTries]
    BY <1>1 DEF Put
  <2>t. TypeOK'
    BY <1>1, <2>2, <2>3 DEF Put
  <2>4. CallerOK'
    BY <1>1 DEF Put
  <2> QED BY <2>t, <2>4
<1>2. CASE PutFull(p)
  <2>1. tries[p] + 1 \in 0..EnqueueTries
    BY <1>2 DEF PutFull
  <2>2. TypeOK'
    BY <1>2, <2>1 DEF PutFull
  <2>3. CallerOK'
    BY <1>2 DEF PutFull
  <2> QED BY <2>2, <2>3
<1>3. CASE Evict(p)
  <2>1. queue' \in Seq(Events) /\ Len(queue') <= QueueSize
    BY <1>3, HeadTailProperties DEF Evict
  <2>2. fate' \in [Events -> Fates]
    BY <1>3 DEF Evict, Settle, Fates, HandlerLost
  <2>3. tally' \in [Producers -> Tallies]
    BY <1>3 DEF Evict, Tallies
  <2>4. pc' \in [Producers -> {"idle", "put", "evict", "refuse", "load", "store"}]
    BY <1>3 DEF Evict
  <2>5. TypeOK'
    BY <1>3, <2>1, <2>2, <2>3, <2>4 DEF Evict
  <2>6. CallerOK'
    BY <1>3 DEF Evict
  <2> QED BY <2>5, <2>6
<1>4. CASE EvictEmpty(p)
  BY <1>4 DEF EvictEmpty, NextTry
<1>5. CASE Refuse(p)
  <2>1. fate' \in [Events -> Fates]
    BY <1>5 DEF Refuse, Settle, Fates, HandlerLost
  <2>2. tally' \in [Producers -> Tallies]
    BY <1>5 DEF Refuse, Tallies
  <2>3. /\ pc' \in [Producers -> {"idle", "put", "evict", "refuse", "load", "store"}]
        /\ ev' \in [Producers -> Events \cup {NoEvent}]
        /\ tries' \in [Producers -> 0..EnqueueTries]
    BY <1>5 DEF Refuse
  <2>4. TypeOK'
    BY <1>5, <2>1, <2>2, <2>3 DEF Refuse
  <2>5. CallerOK'
    BY <1>5 DEF Refuse
  <2> QED BY <2>4, <2>5
<1>6. CASE LoadCounter(p)
  BY <1>6 DEF LoadCounter
<1>7. CASE StoreCounter(p)
  <2>1. counts' \in [Tallies -> Nat]
    BY <1>7 DEF StoreCounter
  <2>2. pc' \in [Producers -> {"idle", "put", "evict", "refuse", "load", "store"}]
    BY <1>7 DEF StoreCounter, NextTry
  <2>3. TypeOK'
    BY <1>7, <2>1, <2>2 DEF StoreCounter
  <2>4. CallerOK'
    BY <1>7 DEF StoreCounter, NextTry
  <2> QED BY <2>3, <2>4
<1> QED BY <1>1, <1>2, <1>3, <1>4, <1>5, <1>6, <1>7 DEF Enqueue

LEMMA WorkerTypeInv ==
    ASSUME TypeInv, StartWorker \/ Worker
    PROVE  TypeInv'
<1> USE DEF TypeInv, TypeOK, CallerOK, queueVars, producerVars, workerVars, stopVars
<1>1. CASE StartWorker \/ LoopTest \/ GetTimeout \/ Keep
  <2>1. CASE StartWorker
    BY <2>1 DEF StartWorker
  <2>2. CASE LoopTest
    BY <2>2 DEF LoopTest
  <2>3. CASE GetTimeout
    BY <2>3 DEF GetTimeout
  <2>4. CASE Keep
    BY <2>4 DEF Keep
  <2> QED BY <1>1, <2>1, <2>2, <2>3, <2>4
<1>2. CASE GetEvent
  <2>1. queue # <<>> /\ queue \in Seq(Events) /\ batch \in Seq(Events)
    BY <1>2 DEF GetEvent
  <2>2. /\ Head(queue) \in Events /\ Tail(queue) \in Seq(Events)
        /\ Len(Tail(queue)) <= Len(queue)
    BY <2>1, HeadTailProperties
  <2>3. queue' \in Seq(Events) /\ Len(queue') <= QueueSize /\ batch' \in Seq(Events)
    BY <1>2, <2>1, <2>2 DEF GetEvent
  <2>4. TypeOK'
    BY <1>2, <2>3 DEF GetEvent
  <2>5. CallerOK'
    BY <1>2 DEF GetEvent
  <2> QED BY <2>4, <2>5
<1>3. CASE Flush
  <2>1. fate' \in [Events -> Fates]
    BY <1>3 DEF Flush, Settle, Fates, ProcessorLost
  <2>2. batch \in Seq(Events) /\ <<>> \in Seq(Events)
    OBVIOUS
  <2> QED BY <1>3, <2>1, <2>2 DEF Flush
<1>4. CASE PostDelivered
  <2>1. fate' \in [Events -> Fates] /\ stored' \in [Events -> Nat]
    BY <1>4 DEF PostDelivered, Settle, Store, Fates
  <2> QED BY <1>4, <2>1 DEF PostDelivered
<1>5. CASE PostRejected
  <2>1. fate' \in [Events -> Fates]
    BY <1>5 DEF PostRejected, Settle, Fates, ProcessorLost
  <2> QED BY <1>5, <2>1 DEF PostRejected
<1>6. CASE PostRetry
  <2>1. /\ Store(Range(sending)) \/ UNCHANGED stored
        /\ Settle(Range(sending), "gaveUp") \/ UNCHANGED fate
    BY <1>6 DEF PostRetry
  <2>2. stored \in [Events -> Nat] /\ fate \in [Events -> Fates]
    OBVIOUS
  <2>3. stored' \in [Events -> Nat]
    BY ONLY <2>1, <2>2 DEF Store
  <2>4. fate' \in [Events -> Fates]
    BY ONLY <2>1, <2>2 DEF Settle, Fates, ProcessorLost
  <2>5. TypeOK'
    BY <1>6, <2>3, <2>4 DEF PostRetry
  <2>6. CallerOK'
    BY <1>6 DEF PostRetry
  <2> QED BY <2>5, <2>6
<1>7. CASE BackoffOver
  BY <1>7 DEF BackoffOver
<1>8. CASE BackoffInterrupted
  <2>1. fate' \in [Events -> Fates]
    BY <1>8 DEF BackoffInterrupted, Settle, Fates, ProcessorLost
  <2> QED BY <1>8, <2>1 DEF BackoffInterrupted
<1>9. CASE LoadDropped
  BY <1>9 DEF LoadDropped
<1>10. CASE StoreDropped
  <2>1. dropped' \in Nat /\ sending' = <<>> /\ <<>> \in Seq(Events) /\ wreg' = 0
    BY <1>10 DEF StoreDropped
  <2>2. TypeOK'
    BY <1>10, <2>1 DEF StoreDropped
  <2>3. CallerOK'
    BY <1>10 DEF StoreDropped
  <2> QED BY <2>2, <2>3
<1> HIDE DEF TypeInv, TypeOK, CallerOK, queueVars, producerVars, workerVars, stopVars
<1> QED
  BY <1>1, <1>2, <1>3, <1>4, <1>5, <1>6, <1>7, <1>8, <1>9, <1>10 DEF Worker, Post

LEMMA StopTypeInv ==
    ASSUME TypeInv, StopBegin \/ Stopper
    PROVE  TypeInv'
<1> USE DEF TypeInv, TypeOK, CallerOK, queueVars, producerVars, workerVars, stopVars
<1>1. CASE StopBegin \/ Join \/ DrainDone
  <2>1. CASE StopBegin
    BY <2>1 DEF StopBegin
  <2>2. CASE Join
    BY <2>2 DEF Join
  <2>3. CASE DrainDone
    BY <2>3 DEF DrainDone
  <2> QED BY <1>1, <2>1, <2>2, <2>3
<1>2. CASE DrainOne
  <2>1. /\ queue # <<>> /\ queue \in Seq(Events) /\ drained \in Seq(Events)
        /\ Len(drained) < BatchSize
    BY <1>2 DEF DrainOne
  <2>2. /\ Head(queue) \in Events /\ Tail(queue) \in Seq(Events)
        /\ Len(Tail(queue)) <= Len(queue)
    BY <2>1, HeadTailProperties
  <2>3. /\ queue' \in Seq(Events) /\ Len(queue') <= QueueSize
        /\ drained' \in Seq(Events) /\ Len(drained') <= BatchSize
    BY <1>2, <2>1, <2>2 DEF DrainOne
  <2>4. TypeOK'
    BY <1>2, <2>3 DEF DrainOne
  <2>5. CallerOK'
    BY <1>2 DEF DrainOne
  <2> QED BY <2>4, <2>5
<1>3. CASE QSize
  BY <1>3 DEF QSize, AfterAbandon
<1>4. CASE StopLoad
  BY <1>4 DEF StopLoad
<1>5. CASE AbandonStore
  BY <1>5 DEF AbandonStore, AfterAbandon
<1>6. CASE LastDelivered
  BY <1>6 DEF LastDelivered, Settle, Store, Fates
<1>7. CASE LastFailed
  <2>1. stored' \in [Events -> Nat]
    <3>1. Store(Range(Remaining)) \/ UNCHANGED stored
      BY <1>7 DEF LastFailed
    <3>2. CASE Store(Range(Remaining))
      BY <3>2 DEF Store
    <3> QED BY <3>1, <3>2
  <2>2. fate' \in [Events -> Fates]
    BY <1>7 DEF LastFailed, Settle, Fates, ProcessorLost
  <2> QED BY <1>7, <2>1, <2>2 DEF LastFailed
<1>8. CASE LastStore
  BY <1>8 DEF LastStore, Remaining
<1>9. CASE StopReset
  BY <1>9 DEF StopReset
<1> QED
  BY <1>1, <1>2, <1>3, <1>4, <1>5, <1>6, <1>7, <1>8, <1>9 DEF Stopper

LEMMA NextTypeInv == TypeInv /\ [Next]_vars => TypeInv'
<1> SUFFICES ASSUME TypeInv, [Next]_vars PROVE TypeInv'
  OBVIOUS
<1>1. CASE UNCHANGED vars
  BY <1>1 DEF vars, queueVars, producerVars, workerVars, stopVars, TypeInv,
     TypeOK, CallerOK
<1>2. CASE Next
  BY <1>2, SendEventTypeInv, EnqueueTypeInv, WorkerTypeInv, StopTypeInv DEF Next
<1> QED BY <1>1, <1>2

\* Every variable keeps its type; in particular the queue never holds more than
\* max_queue_size events and stop() never drains more than batch_size.
THEOREM TypeCorrect == Spec => []TypeOK
<1>1. Spec => []TypeInv
  BY InitTypeInv, NextTypeInv, PTL DEF Spec
<1>2. TypeInv => TypeOK
  BY DEF TypeInv
<1> QED BY <1>1, <1>2, PTL

-----------------------------------------------------------------------------
(* Sequences without repetitions, as sets *)

LEMMA EmptyFacts == IsInjective(<<>>) /\ Range(<<>>) = {}
BY DEF IsInjective, Range

LEMMA AppendFacts ==
    ASSUME NEW s \in Seq(Events), NEW e \in Events
    PROVE  /\ Range(Append(s, e)) = Range(s) \cup {e}
           /\ IsInjective(s) /\ e \notin Range(s) => IsInjective(Append(s, e))
<1> DEFINE t == Append(s, e)
<1>1. /\ DOMAIN s = 1..Len(s) /\ DOMAIN t = 1..(Len(s) + 1) /\ Len(s) \in Nat
      /\ \A i \in 1..Len(s) : t[i] = s[i]
      /\ t[Len(s) + 1] = e
  OBVIOUS
<1> HIDE DEF t
<1>2. Range(t) = Range(s) \cup {e}
  <2>1. ASSUME NEW x \in Range(t) PROVE x \in Range(s) \cup {e}
    BY <1>1 DEF Range
  <2>2. ASSUME NEW x \in Range(s) PROVE x \in Range(t)
    BY <1>1 DEF Range
  <2>3. e \in Range(t)
    BY <1>1 DEF Range
  <2> QED BY <2>1, <2>2, <2>3
<1>3. ASSUME IsInjective(s), e \notin Range(s) PROVE IsInjective(t)
  BY <1>1, <1>3 DEF IsInjective, Range
<1> QED BY <1>2, <1>3 DEF t

LEMMA TailFacts ==
    ASSUME NEW s \in Seq(Events), s # <<>>, IsInjective(s)
    PROVE  /\ Head(s) \in Range(s)
           /\ Range(Tail(s)) = Range(s) \ {Head(s)}
           /\ IsInjective(Tail(s))
<1> DEFINE t == Tail(s)
<1>1. /\ Len(s) \in Nat \ {0} /\ DOMAIN s = 1..Len(s) /\ Head(s) = s[1]
      /\ DOMAIN t = 1..(Len(s) - 1)
      /\ \A i \in 1..(Len(s) - 1) : t[i] = s[i + 1]
  OBVIOUS
<1> HIDE DEF t
<1>2. \A i \in 2..Len(s) : i - 1 \in 1..(Len(s) - 1) /\ t[i - 1] = s[i]
  BY <1>1
<1>3. Head(s) \in Range(s)
  BY <1>1 DEF Range
<1>4. IsInjective(t)
  BY <1>1 DEF IsInjective
<1>5. ASSUME NEW x \in Range(t) PROVE x \in Range(s) \ {Head(s)}
  <2>1. PICK i \in 1..(Len(s) - 1) : x = s[i + 1]
    BY <1>1, <1>5 DEF Range
  <2>2. x # s[1]
    BY <1>1, <2>1 DEF IsInjective
  <2> QED BY <1>1, <2>1, <2>2 DEF Range
<1>6. ASSUME NEW x \in Range(s) \ {Head(s)} PROVE x \in Range(t)
  <2>1. PICK i \in 2..Len(s) : x = s[i]
    BY <1>1, <1>6 DEF Range
  <2> QED BY <1>1, <1>2, <2>1 DEF Range
<1> QED BY <1>3, <1>4, <1>5, <1>6 DEF t

LEMMA ConcatRange ==
    ASSUME NEW s \in Seq(Events), NEW t \in Seq(Events)
    PROVE  Range(s \o t) = Range(s) \cup Range(t)
<1> DEFINE u == s \o t
<1>1. /\ Len(s) \in Nat /\ Len(t) \in Nat /\ DOMAIN u = 1..(Len(s) + Len(t))
      /\ DOMAIN s = 1..Len(s) /\ DOMAIN t = 1..Len(t)
      /\ \A i \in 1..Len(s) : u[i] = s[i]
      /\ \A i \in (Len(s) + 1)..(Len(s) + Len(t)) : u[i] = t[i - Len(s)]
  OBVIOUS
<1> HIDE DEF u
<1>2. \A i \in 1..Len(t) : u[i + Len(s)] = t[i] /\ i + Len(s) \in DOMAIN u
  BY <1>1
<1>3. ASSUME NEW x \in Range(u) PROVE x \in Range(s) \cup Range(t)
  <2>1. PICK i \in 1..(Len(s) + Len(t)) : x = u[i]
    BY <1>1, <1>3 DEF Range
  <2>2. CASE i \in 1..Len(s)
    BY <1>1, <2>1, <2>2 DEF Range
  <2>3. CASE i \in (Len(s) + 1)..(Len(s) + Len(t))
    <3>1. i - Len(s) \in 1..Len(t)
      BY <1>1, <2>3
    <3> QED BY <1>1, <2>1, <2>3, <3>1 DEF Range
  <2> QED BY <1>1, <2>1, <2>2, <2>3
<1>4. ASSUME NEW x \in Range(s) \cup Range(t) PROVE x \in Range(u)
  <2>1. CASE x \in Range(s)
    <3>1. PICK i \in 1..Len(s) : x = s[i]
      BY <1>1, <2>1 DEF Range
    <3> QED BY <1>1, <3>1 DEF Range
  <2>2. CASE x \in Range(t)
    <3>1. PICK i \in 1..Len(t) : x = t[i]
      BY <1>1, <2>2 DEF Range
    <3> QED BY <1>2, <3>1 DEF Range
  <2> QED BY <1>4, <2>1, <2>2
<1> QED BY <1>3, <1>4 DEF u

LEMMA RangeType ==
    ASSUME NEW s \in Seq(Events) PROVE Range(s) \subseteq Events
BY DEF Range

-----------------------------------------------------------------------------
(* Who owns an event.  The five places of OneOwner as sets: apart from each  *)
(* other, none naming an event twice, together exactly the "held" events.    *)

Hands == {ev[p] : p \in Producers} \ {NoEvent}
HandsApart == \A p, q \in Producers : ev[p] = ev[q] /\ ev[p] # NoEvent => p = q
Apart(H, Q, B, F, D) ==
    /\ H \cap Q = {} /\ H \cap B = {} /\ H \cap F = {} /\ H \cap D = {}
    /\ Q \cap B = {} /\ Q \cap F = {} /\ Q \cap D = {}
    /\ B \cap F = {} /\ B \cap D = {} /\ F \cap D = {}
Held == {e \in Events : fate[e] = "held"}
Own ==
    /\ HandsApart
    /\ IsInjective(queue) /\ IsInjective(Buffered)
    /\ IsInjective(InFlight) /\ IsInjective(Drained)
    /\ Apart(Hands, Range(queue), Range(Buffered), Range(InFlight), Range(Drained))
    /\ Held = Hands \cup Range(queue) \cup Range(Buffered)
                    \cup Range(InFlight) \cup Range(Drained)

\* Once stop() has gone past its join the worker is in a POST that started
\* before, or on its way out: it no longer touches the buffer or the queue.
StopOK ==
    /\ stop <=> spc # "running"
    /\ spc \in {"running", "join"} => drained = <<>>
    /\ spc \notin {"running", "join"}
         => wpc \in {"post", "backoff", "load", "store", "loop", "exited"}

OwnInv == TypeInv /\ StopOK /\ Own

LEMMA InitOwn == Init => OwnInv
<1> SUFFICES ASSUME Init PROVE OwnInv
  OBVIOUS
<1>1. TypeInv
  BY InitTypeInv
<1>2. StopOK
  BY DEF Init, StopOK
<1>3. Hands = {} /\ HandsApart
  BY DEF Init, Hands, HandsApart
<1>4. queue = <<>> /\ Buffered = <<>> /\ InFlight = <<>> /\ Drained = <<>>
  BY DEF Init, Buffered, InFlight, Drained, StopDecided
<1>5. Held = {}
  BY DEF Init, Held
<1> QED BY <1>1, <1>2, <1>3, <1>4, <1>5, EmptyFacts DEF OwnInv, Own, Apart

LEMMA StopOKStep ==
    ASSUME TypeInv, StopOK, Next
    PROVE  StopOK'
<1> USE DEF StopOK, queueVars, producerVars, workerVars, stopVars
<1>1. CASE \E p \in Producers : SendEvent(p) \/ Enqueue(p)
  <2>1. UNCHANGED <<stop, wpc, spc, drained>>
    <3>1. PICK p \in Producers : SendEvent(p) \/ Enqueue(p)
      BY <1>1
    <3>2. CASE SendEvent(p)
      BY <3>2 DEF SendEvent, SampleOut, FilterOut, Withhold, ScrubRefuse, Offer
    <3>3. CASE Enqueue(p)
      BY <3>3 DEF Enqueue, Put, PutFull, Evict, EvictEmpty, Refuse,
         LoadCounter, StoreCounter
    <3> QED BY <3>1, <3>2, <3>3
  <2> QED BY <2>1
<1>2. CASE StartWorker \/ Worker
  <2>1. UNCHANGED <<stop, spc, drained>>
    BY <1>2 DEF StartWorker, Worker, LoopTest, GetEvent, GetTimeout, Keep,
       Flush, Post, PostDelivered, PostRejected, PostRetry, BackoffOver,
       BackoffInterrupted, LoadDropped, StoreDropped
  <2>2. wpc \in {"post", "backoff", "load", "store", "loop", "exited"}
        => \/ ~stop
           \/ wpc' \in {"post", "backoff", "load", "store", "loop", "exited"}
    BY <1>2 DEF StartWorker, Worker, LoopTest, GetEvent, GetTimeout, Keep,
       Flush, Post, PostDelivered, PostRejected, PostRetry, BackoffOver,
       BackoffInterrupted, LoadDropped, StoreDropped
  <2> QED BY <2>1, <2>2
<1>3. CASE StopBegin \/ Stopper
  BY <1>3 DEF StopBegin, Stopper, Join, DrainOne, DrainDone, QSize, StopLoad,
     AbandonStore, AfterAbandon, LastDelivered, LastFailed, LastStore, StopReset
<1> QED BY <1>1, <1>2, <1>3 DEF Next

\* What the sequences are made of; the sets of Own are sets of events.
LEMMA OwnTypes ==
    ASSUME TypeInv
    PROVE  /\ Buffered \in Seq(Events) /\ InFlight \in Seq(Events)
           /\ Drained \in Seq(Events)
           /\ Hands \subseteq Events /\ Range(queue) \subseteq Events
           /\ Range(Buffered) \subseteq Events /\ Range(InFlight) \subseteq Events
           /\ Range(Drained) \subseteq Events
<1>1. /\ Buffered \in Seq(Events) /\ InFlight \in Seq(Events)
      /\ Drained \in Seq(Events) /\ queue \in Seq(Events)
  BY EmptySeq DEF Buffered, InFlight, Drained, TypeInv, TypeOK
<1>2. Hands \subseteq Events
  BY DEF Hands, TypeInv, TypeOK
<1> QED BY <1>1, <1>2, RangeType

\* A step that moves no event and settles none.
LEMMA OwnStutter ==
    ASSUME Own, UNCHANGED <<ev, queue, fate>>,
           UNCHANGED Buffered, UNCHANGED InFlight, UNCHANGED Drained
    PROVE  Own'
BY DEF Own, HandsApart, Hands, Held

\* Events leave the held set as they are settled.
LEMMA SettleHeld ==
    ASSUME TypeInv, NEW S \in SUBSET Events, NEW f \in Fates \ {"held"}, Settle(S, f)
    PROVE  Held' = Held \ S
BY DEF Settle, Held, TypeInv, TypeOK

\* What one caller's step does to the callers' hands.
LEMMA HandTaken ==
    ASSUME TypeInv, HandsApart, NEW p \in Producers, NEW e \in Events,
           ev[p] = NoEvent, e \notin Hands, ev' = [ev EXCEPT ![p] = e]
    PROVE  HandsApart' /\ Hands' = Hands \cup {e}
<1>1. ev \in [Producers -> Events \cup {NoEvent}]
  BY DEF TypeInv, TypeOK
<1>2. ASSUME NEW q \in Producers PROVE ev'[q] = IF q = p THEN e ELSE ev[q]
  BY <1>1
<1>3. HandsApart'
  BY <1>2 DEF HandsApart, Hands
<1>4. ASSUME NEW x \in Hands' PROVE x \in Hands \cup {e}
  BY <1>2, <1>4 DEF Hands
<1>5. ASSUME NEW x \in Hands PROVE x \in Hands'
  <2>1. PICK q \in Producers : ev[q] = x /\ x # NoEvent
    BY <1>5 DEF Hands
  <2> QED BY <1>2, <2>1 DEF Hands
<1>6. e \in Hands'
  BY <1>2 DEF Hands
<1> QED BY <1>3, <1>4, <1>5, <1>6

LEMMA HandEmptied ==
    ASSUME TypeInv, HandsApart, NEW p \in Producers,
           ev[p] # NoEvent, ev' = [ev EXCEPT ![p] = NoEvent]
    PROVE  HandsApart' /\ Hands' = Hands \ {ev[p]} /\ ev[p] \in Hands
<1>1. ev \in [Producers -> Events \cup {NoEvent}]
  BY DEF TypeInv, TypeOK
<1>2. ASSUME NEW q \in Producers PROVE ev'[q] = IF q = p THEN NoEvent ELSE ev[q]
  BY <1>1
<1>3. HandsApart'
  BY <1>2 DEF HandsApart
<1>4. ASSUME NEW x \in Hands' PROVE x \in Hands \ {ev[p]}
  <2>1. PICK q \in Producers : ev'[q] = x /\ x # NoEvent
    BY <1>4 DEF Hands
  <2> QED BY <1>2, <2>1 DEF Hands, HandsApart
<1>5. ASSUME NEW x \in Hands \ {ev[p]} PROVE x \in Hands'
  <2>1. PICK q \in Producers : ev[q] = x /\ x # NoEvent
    BY <1>5 DEF Hands
  <2> QED BY <1>2, <1>5, <2>1 DEF Hands
<1>6. ev[p] \in Hands
  BY DEF Hands
<1> QED BY <1>3, <1>4, <1>5, <1>6

LEMMA SendEventOwn ==
    ASSUME OwnInv, NEW p \in Producers, SendEvent(p)
    PROVE  Own'
<1> USE DEF OwnInv
<1>1. PICK e \in Events : SampleOut(p, e) \/ FilterOut(p, e) \/ ScrubRefuse(p, e) \/ Offer(p, e)
  BY DEF SendEvent
<1>2. UNCHANGED <<queue, batch, wpc, sending, spc, drained>>
  BY <1>1 DEF SampleOut, FilterOut, Withhold, ScrubRefuse, Offer, queueVars,
     workerVars, stopVars
<1>3. UNCHANGED <<Buffered, InFlight, Drained>>
  BY <1>2 DEF Buffered, InFlight, Drained, StopDecided
<1>4. e \notin Held
  BY <1>1 DEF SampleOut, FilterOut, Withhold, ScrubRefuse, Offer, Held
<1>5. CASE SampleOut(p, e) \/ FilterOut(p, e) \/ ScrubRefuse(p, e)
  <2>1. UNCHANGED ev
    BY <1>5 DEF SampleOut, FilterOut, Withhold, ScrubRefuse, producerVars
  <2>2. Settle({e}, "sampled") \/ Settle({e}, "filtered") \/ Settle({e}, "unscrubbable")
    BY <1>5 DEF SampleOut, FilterOut, Withhold, ScrubRefuse
  <2>3. Held' = Held
    BY <1>4, <2>2 DEF Settle, Held
  <2> QED BY <1>2, <1>3, <2>1, <2>3 DEF Own, HandsApart, Hands
<1>6. CASE Offer(p, e)
  <2>1. ev[p] = NoEvent /\ ev' = [ev EXCEPT ![p] = e]
    BY <1>6 DEF Offer, TypeInv, CallerOK
  <2>2. Held' = Held \cup {e}
    <3>1. fate' = [x \in Events |-> IF x \in {e} THEN "held" ELSE fate[x]]
      BY <1>6 DEF Offer, Settle
    <3> QED BY <3>1 DEF Held
  <2>3. HandsApart' /\ Hands' = Hands \cup {e}
    BY <1>4, <2>1, HandTaken DEF Own
  <2> QED BY <1>2, <1>3, <1>4, <2>2, <2>3 DEF Own, Apart
<1> QED BY <1>1, <1>5, <1>6

LEMMA EnqueueOwn ==
    ASSUME OwnInv, NEW p \in Producers, Enqueue(p)
    PROVE  Own'
<1> USE DEF OwnInv
<1>1. UNCHANGED <<batch, wpc, sending, spc, drained>>
  BY DEF Enqueue, Put, PutFull, Evict, EvictEmpty, Refuse, LoadCounter,
     StoreCounter, workerVars, stopVars
<1>2. UNCHANGED <<Buffered, InFlight, Drained>>
  BY <1>1 DEF Buffered, InFlight, Drained, StopDecided
<1>3. queue \in Seq(Events)
  BY DEF TypeInv, TypeOK
<1>4. CASE Put(p)
  <2>1. ev[p] \in Events /\ ev[p] # NoEvent
    BY <1>4 DEF Put, TypeInv, TypeOK, CallerOK
  <2>2. HandsApart' /\ Hands' = Hands \ {ev[p]} /\ ev[p] \in Hands
    BY <1>4, <2>1, HandEmptied DEF Put, Own
  <2>3. Range(queue') = Range(queue) \cup {ev[p]} /\ IsInjective(queue')
    BY <1>3, <1>4, <2>1, <2>2, AppendFacts DEF Put, Own, Apart
  <2>4. Held' = Held
    BY <1>4 DEF Put, Held
  <2> QED BY <1>2, <2>2, <2>3, <2>4 DEF Own, Apart
<1>5. CASE Evict(p)
  <2>1. /\ Head(queue) \in Range(queue) /\ IsInjective(queue')
        /\ Range(queue') = Range(queue) \ {Head(queue)}
    BY <1>3, <1>5, TailFacts DEF Evict, Own
  <2>2. Held' = Held \ {Head(queue)}
    BY <1>5, <2>1, SettleHeld, OwnTypes DEF Evict, Fates, HandlerLost
  <2>3. UNCHANGED <<ev, Hands, HandsApart>>
    BY <1>5 DEF Evict, Hands, HandsApart
  <2> QED BY <1>2, <2>1, <2>2, <2>3 DEF Own, Apart
<1>6. CASE Refuse(p)
  <2>1. ev[p] \in Events /\ ev[p] # NoEvent
    BY <1>6 DEF Refuse, TypeInv, TypeOK, CallerOK
  <2>2. HandsApart' /\ Hands' = Hands \ {ev[p]} /\ ev[p] \in Hands
    BY <1>6, <2>1, HandEmptied DEF Refuse, Own
  <2>3. Held' = Held \ {ev[p]}
    BY <1>6, <2>1, SettleHeld DEF Refuse, Fates, HandlerLost
  <2>4. UNCHANGED queue
    BY <1>6 DEF Refuse, queueVars
  <2> QED BY <1>2, <2>2, <2>3, <2>4 DEF Own, Apart
<1>7. CASE PutFull(p) \/ EvictEmpty(p) \/ LoadCounter(p) \/ StoreCounter(p)
  <2>1. UNCHANGED <<ev, queue, fate>>
    BY <1>7 DEF PutFull, EvictEmpty, LoadCounter, StoreCounter, queueVars
  <2> QED BY <1>2, <2>1, OwnStutter
<1> QED BY <1>4, <1>5, <1>6, <1>7 DEF Enqueue

LEMMA WorkerOwn ==
    ASSUME OwnInv, StartWorker \/ Worker
    PROVE  Own'
<1> USE DEF OwnInv
<1>1. UNCHANGED <<ev, spc, drained, Hands, HandsApart, Drained>>
  BY DEF StartWorker, Worker, LoopTest, GetEvent, GetTimeout, Keep, Flush,
     Post, PostDelivered, PostRejected, PostRetry, BackoffOver,
     BackoffInterrupted, LoadDropped, StoreDropped, producerVars, stopVars,
     Hands, HandsApart, Drained, StopDecided
<1>2. queue \in Seq(Events) /\ batch \in Seq(Events) /\ sending \in Seq(Events)
  BY DEF TypeInv, TypeOK
<1>3. CASE StartWorker \/ LoopTest \/ GetTimeout \/ Keep \/ LoadDropped
  <2>1. UNCHANGED <<queue, fate, batch, sending>>
    BY <1>3 DEF StartWorker, LoopTest, GetTimeout, Keep, LoadDropped, queueVars
  <2>2. UNCHANGED <<Buffered, InFlight>>
    BY <1>1, <1>3, <2>1 DEF Buffered, InFlight, StopDecided, StartWorker,
       LoopTest, GetTimeout, Keep, LoadDropped
  <2> QED BY <1>1, <2>1, <2>2, OwnStutter
<1>4. CASE GetEvent
  <2>1. wpc = "get" /\ queue # <<>> /\ queue' = Tail(queue) /\ wpc' = "test"
        /\ batch' = Append(batch, Head(queue)) /\ UNCHANGED fate
    BY <1>4 DEF GetEvent
  <2>2. ~StopDecided /\ ~StopDecided'
    BY <1>1, <2>1 DEF StopOK, StopDecided
  <2>3. Buffered = batch /\ Buffered' = batch' /\ InFlight = <<>> /\ InFlight' = <<>>
    BY <2>1, <2>2 DEF Buffered, InFlight
  <2>4. /\ Head(queue) \in Range(queue) /\ IsInjective(queue')
        /\ Range(queue') = Range(queue) \ {Head(queue)}
    BY <1>2, <2>1, TailFacts DEF Own
  <2>5. Head(queue) \in Events /\ Head(queue) \notin Range(batch)
    BY <2>3, <2>4, OwnTypes DEF Own, Apart
  <2>6. Range(batch') = Range(batch) \cup {Head(queue)} /\ IsInjective(batch')
    BY <1>2, <2>1, <2>3, <2>5, AppendFacts DEF Own
  <2>7. Held' = Held
    BY <2>1 DEF Held
  <2> QED BY <1>1, <2>3, <2>4, <2>5, <2>6, <2>7 DEF Own, Apart
<1>5. CASE Flush
  <2>1. wpc = "test" /\ sending' = batch /\ batch' = <<>> /\ UNCHANGED queue
    BY <1>5 DEF Flush, queueVars
  <2>2. ~StopDecided
    BY <2>1 DEF StopOK, StopDecided
  <2>3. Buffered = batch /\ Buffered' = <<>> /\ InFlight = <<>>
    BY <2>1, <2>2 DEF Buffered, InFlight
  <2>4. CASE MaxRetry = 0
    <3>1. wpc' = "load" /\ Settle(Range(batch), "gaveUp")
      BY <1>5, <2>4 DEF Flush
    <3>2. InFlight' = <<>>
      BY <3>1 DEF InFlight
    <3>3. Held' = Held \ Range(batch)
      BY <1>2, <3>1, RangeType, SettleHeld DEF Fates, ProcessorLost
    <3> QED BY <1>1, <2>1, <2>3, <3>2, <3>3, EmptyFacts DEF Own, Apart
  <2>5. CASE MaxRetry # 0
    <3>1. wpc' = "post" /\ UNCHANGED fate
      BY <1>5, <2>5 DEF Flush
    <3>2. InFlight' = batch
      BY <2>1, <3>1 DEF InFlight
    <3>3. Held' = Held
      BY <3>1 DEF Held
    <3> QED BY <1>1, <2>1, <2>3, <3>2, <3>3, EmptyFacts DEF Own, Apart
  <2> QED BY <2>4, <2>5
<1>6. CASE Post \/ BackoffOver \/ BackoffInterrupted
  <2>1. UNCHANGED <<queue, batch, Buffered>>
    BY <1>1, <1>6 DEF Post, PostDelivered, PostRejected, PostRetry, BackoffOver,
       BackoffInterrupted, queueVars, Buffered, StopDecided
  <2>2. InFlight = sending
    BY <1>6 DEF Post, PostDelivered, PostRejected, PostRetry, BackoffOver,
       BackoffInterrupted, InFlight
  <2>3. \/ wpc' \in {"post", "backoff"} /\ UNCHANGED <<sending, fate>>
        \/ /\ wpc' \notin {"post", "backoff"}
           /\ \/ Settle(Range(sending), "delivered")
              \/ Settle(Range(sending), "rejected")
              \/ Settle(Range(sending), "gaveUp")
              \/ Settle(Range(sending), "interrupted")
    BY <1>6 DEF Post, PostDelivered, PostRejected, PostRetry, BackoffOver,
       BackoffInterrupted
  <2>4. CASE wpc' \in {"post", "backoff"} /\ UNCHANGED <<sending, fate>>
    <3>1. UNCHANGED <<Held, InFlight>>
      BY <2>2, <2>4 DEF Held, InFlight
    <3> QED BY <1>1, <2>1, <2>4, <3>1, OwnStutter
  <2>5. CASE /\ wpc' \notin {"post", "backoff"}
             /\ \/ Settle(Range(sending), "delivered")
                \/ Settle(Range(sending), "rejected")
                \/ Settle(Range(sending), "gaveUp")
                \/ Settle(Range(sending), "interrupted")
    <3>1. Held' = Held \ Range(sending)
      BY <2>5 DEF Settle, Held
    <3>2. InFlight' = <<>>
      BY <2>5 DEF InFlight
    <3> QED BY <1>1, <2>1, <2>2, <3>1, <3>2, EmptyFacts DEF Own, Apart
  <2> QED BY <2>3, <2>4, <2>5
<1>7. CASE StoreDropped
  <2>1. UNCHANGED <<queue, fate, batch>> /\ wpc = "store" /\ wpc' = "loop"
    BY <1>7 DEF StoreDropped, queueVars
  <2>2. UNCHANGED <<Buffered, InFlight>>
    BY <1>1, <2>1 DEF Buffered, InFlight, StopDecided
  <2> QED BY <1>1, <2>1, <2>2, OwnStutter
<1> QED BY <1>3, <1>4, <1>5, <1>6, <1>7 DEF Worker

LEMMA StopOwn ==
    ASSUME OwnInv, StopBegin \/ Stopper
    PROVE  Own'
<1> USE DEF OwnInv
<1>1. UNCHANGED <<ev, wpc, sending, Hands, HandsApart, InFlight>>
  BY DEF StopBegin, Stopper, Join, DrainOne, DrainDone, QSize, StopLoad,
     AbandonStore, LastDelivered, LastFailed, LastStore, StopReset,
     producerVars, workerVars, Hands, HandsApart, InFlight
<1>2. queue \in Seq(Events) /\ batch \in Seq(Events) /\ drained \in Seq(Events)
  BY DEF TypeInv, TypeOK
<1>3. CASE DrainOne
  <2>1. /\ spc = "drain" /\ spc' = "drain" /\ queue # <<>> /\ queue' = Tail(queue)
        /\ drained' = Append(drained, Head(queue)) /\ UNCHANGED <<batch, fate>>
    BY <1>3 DEF DrainOne
  <2>2. Buffered' = Buffered /\ Drained = drained /\ Drained' = drained'
    BY <2>1 DEF Buffered, Drained, StopDecided
  <2>3. /\ Head(queue) \in Range(queue) /\ IsInjective(queue')
        /\ Range(queue') = Range(queue) \ {Head(queue)}
    BY <1>2, <2>1, TailFacts DEF Own
  <2>4. Head(queue) \in Events /\ Head(queue) \notin Range(drained)
    BY <2>2, <2>3, OwnTypes DEF Own, Apart
  <2>5. Range(drained') = Range(drained) \cup {Head(queue)} /\ IsInjective(drained')
    BY <1>2, <2>1, <2>2, <2>4, AppendFacts DEF Own
  <2>6. Held' = Held
    BY <2>1 DEF Held
  <2> QED BY <1>1, <2>2, <2>3, <2>4, <2>5, <2>6 DEF Own, Apart
<1>4. CASE LastDelivered \/ LastFailed
  <2>1. /\ spc = "post" /\ spc' \in {"reset", "postLoad"} /\ UNCHANGED queue
        /\ \/ Settle(Range(Remaining), "delivered")
           \/ Settle(Range(Remaining), "rejected")
           \/ Settle(Range(Remaining), "gaveUp")
    BY <1>4 DEF LastDelivered, LastFailed, queueVars
  <2>2. /\ Buffered = batch /\ Drained = drained
        /\ Buffered' = <<>> /\ Drained' = <<>>
    BY <2>1 DEF Buffered, Drained, StopDecided
  <2>3. Range(Remaining) = Range(batch) \cup Range(drained)
    BY <1>2, ConcatRange DEF Remaining
  <2>4. Held' = Held \ Range(Remaining)
    BY <2>1 DEF Settle, Held
  <2> QED BY <1>1, <2>1, <2>2, <2>3, <2>4, EmptyFacts DEF Own, Apart
<1>5. CASE StopBegin \/ Join \/ DrainDone \/ QSize \/ StopLoad \/ AbandonStore \/ LastStore
  <2>1. UNCHANGED <<queue, fate, batch, drained>>
    BY <1>5 DEF StopBegin, Join, DrainDone, QSize, StopLoad, AbandonStore,
       LastStore, queueVars
  <2>2. CASE StopBegin \/ Join \/ DrainDone \/ StopLoad \/ LastStore
    <3>1. StopDecided' <=> StopDecided
      BY <2>2 DEF StopBegin, Join, DrainDone, StopLoad, LastStore, StopDecided
    <3>2. UNCHANGED <<Buffered, Drained>>
      BY <2>1, <3>1 DEF Buffered, Drained
    <3> QED BY <1>1, <2>1, <3>2, OwnStutter
  \* These two may go straight to "reset": then nothing remained.
  <2>3. CASE QSize \/ AbandonStore
    <3>1. ~StopDecided
      BY <2>3 DEF QSize, AbandonStore, StopDecided
    <3>2. StopDecided' => Remaining = <<>>
      BY <2>3 DEF QSize, AbandonStore, AfterAbandon, StopDecided
    <3>3. StopDecided' => batch = <<>> /\ drained = <<>>
      BY <1>2, <3>2, ConcatEqualIffEmpty DEF Remaining
    <3>4. UNCHANGED <<Buffered, Drained>>
      BY <2>1, <3>1, <3>3 DEF Buffered, Drained
    <3> QED BY <1>1, <2>1, <3>4, OwnStutter
  <2> QED BY <1>5, <2>2, <2>3
<1>6. CASE StopReset
  <2>1. UNCHANGED <<queue, fate>> /\ StopDecided /\ StopDecided'
    BY <1>6 DEF StopReset, queueVars, StopDecided
  <2>2. UNCHANGED <<Buffered, Drained>>
    BY <2>1 DEF Buffered, Drained
  <2> QED BY <1>1, <2>1, <2>2, OwnStutter
<1> QED BY <1>3, <1>4, <1>5, <1>6 DEF Stopper

LEMMA NextOwn == OwnInv /\ [Next]_vars => OwnInv'
<1> SUFFICES ASSUME OwnInv, [Next]_vars PROVE OwnInv'
  OBVIOUS
<1>1. TypeInv'
  BY NextTypeInv DEF OwnInv
<1>2. CASE UNCHANGED vars
  <2>1. StopOK'
    BY <1>2 DEF vars, workerVars, stopVars, OwnInv, StopOK
  <2>2. UNCHANGED <<ev, queue, fate, Buffered, InFlight, Drained>>
    BY <1>2 DEF vars, queueVars, producerVars, workerVars, stopVars, Buffered,
       InFlight, Drained, StopDecided
  <2>3. Own'
    BY <2>2, OwnStutter DEF OwnInv
  <2> QED BY <1>1, <2>1, <2>3 DEF OwnInv
<1>3. CASE Next
  <2>1. StopOK'
    BY <1>3, StopOKStep DEF OwnInv
  <2>2. Own'
    BY <1>3, SendEventOwn, EnqueueOwn, WorkerOwn, StopOwn DEF Next
  <2> QED BY <1>1, <2>1, <2>2 DEF OwnInv
<1> QED BY <1>2, <1>3

LEMMA OwnInvariant == Spec => []OwnInv
BY InitOwn, NextOwn, PTL DEF Spec

-----------------------------------------------------------------------------
(* From the sets back to OneOwner's count of owners. *)

LEMMA AtFacts ==
    ASSUME NEW s \in Seq(Events), NEW e \in Events, IsInjective(s)
    PROVE  /\ e \notin Range(s) => At(s, e) = {}
           /\ e \in Range(s) => \E i : At(s, e) = {i}
<1>1. CASE e \notin Range(s)
  BY <1>1 DEF At, Range
<1>2. CASE e \in Range(s)
  <2>1. PICK i \in DOMAIN s : s[i] = e
    BY <1>2 DEF Range
  <2>2. At(s, e) = {i}
    BY <2>1 DEF At, IsInjective
  <2> QED BY <1>2, <2>2
<1> QED BY <1>1, <1>2

LEMMA OwnOneOwner == OwnInv => OneOwner
<1> SUFFICES ASSUME OwnInv, NEW e \in Events
             PROVE  Cardinality(Owners(e)) = IF fate[e] = "held" THEN 1 ELSE 0
  BY DEF OneOwner
<1> USE DEF OwnInv, Own, Apart
<1> DEFINE C == {p \in Producers : ev[p] = e}
<1>1. /\ queue \in Seq(Events) /\ Buffered \in Seq(Events)
      /\ InFlight \in Seq(Events) /\ Drained \in Seq(Events)
  BY OwnTypes DEF TypeInv, TypeOK
<1>2. /\ e \notin Range(queue) => At(queue, e) = {}
      /\ e \in Range(queue) => \E i : At(queue, e) = {i}
      /\ e \notin Range(Buffered) => At(Buffered, e) = {}
      /\ e \in Range(Buffered) => \E i : At(Buffered, e) = {i}
      /\ e \notin Range(InFlight) => At(InFlight, e) = {}
      /\ e \in Range(InFlight) => \E i : At(InFlight, e) = {i}
      /\ e \notin Range(Drained) => At(Drained, e) = {}
      /\ e \in Range(Drained) => \E i : At(Drained, e) = {i}
  BY <1>1, AtFacts
<1>3. /\ e \notin Hands => C = {}
      /\ e \in Hands => \E p : C = {p}
  <2>1. e # NoEvent
    OBVIOUS
  <2>2. CASE e \notin Hands
    BY <2>1, <2>2 DEF Hands
  <2>3. CASE e \in Hands
    <3>1. PICK p \in Producers : ev[p] = e
      BY <2>3 DEF Hands
    <3>2. C = {p}
      BY <2>1, <3>1 DEF HandsApart
    <3> QED BY <2>3, <3>2
  <2> QED BY <2>2, <2>3
<1>4. Owners(e) = ({"caller"} \X C) \cup ({"queue"} \X At(queue, e))
                    \cup ({"batch"} \X At(Buffered, e))
                    \cup ({"worker"} \X At(InFlight, e))
                    \cup ({"stop"} \X At(Drained, e))
  BY DEF Owners
<1> HIDE DEF C
<1>5. \A a, b : {a} \X {b} = {<<a, b>>} /\ {a} \X {} = {}
  OBVIOUS
<1>6. CASE fate[e] = "held"
  <2>1. e \in Hands \cup Range(queue) \cup Range(Buffered) \cup Range(InFlight) \cup Range(Drained)
    BY <1>6 DEF Held
  <2>2. \E x : Owners(e) = {x}
    <3>1. CASE e \in Hands
      <4>1. PICK i : C = {i}
        BY <1>2, <1>3, <3>1
      <4>2. At(queue, e) = {} /\ At(Buffered, e) = {} /\ At(InFlight, e) = {} /\ At(Drained, e) = {}
        BY <1>2, <1>3, <3>1
      <4>3. Owners(e) = {<<"caller", i>>}
        BY <1>4, <1>5, <4>1, <4>2
      <4> QED BY <4>3
    <3>2. CASE e \in Range(queue)
      <4>1. PICK i : At(queue, e) = {i}
        BY <1>2, <1>3, <3>2
      <4>2. C = {} /\ At(Buffered, e) = {} /\ At(InFlight, e) = {} /\ At(Drained, e) = {}
        BY <1>2, <1>3, <3>2
      <4>3. Owners(e) = {<<"queue", i>>}
        BY <1>4, <1>5, <4>1, <4>2
      <4> QED BY <4>3
    <3>3. CASE e \in Range(Buffered)
      <4>1. PICK i : At(Buffered, e) = {i}
        BY <1>2, <1>3, <3>3
      <4>2. C = {} /\ At(queue, e) = {} /\ At(InFlight, e) = {} /\ At(Drained, e) = {}
        BY <1>2, <1>3, <3>3
      <4>3. Owners(e) = {<<"batch", i>>}
        BY <1>4, <1>5, <4>1, <4>2
      <4> QED BY <4>3
    <3>4. CASE e \in Range(InFlight)
      <4>1. PICK i : At(InFlight, e) = {i}
        BY <1>2, <1>3, <3>4
      <4>2. C = {} /\ At(queue, e) = {} /\ At(Buffered, e) = {} /\ At(Drained, e) = {}
        BY <1>2, <1>3, <3>4
      <4>3. Owners(e) = {<<"worker", i>>}
        BY <1>4, <1>5, <4>1, <4>2
      <4> QED BY <4>3
    <3>5. CASE e \in Range(Drained)
      <4>1. PICK i : At(Drained, e) = {i}
        BY <1>2, <1>3, <3>5
      <4>2. C = {} /\ At(queue, e) = {} /\ At(Buffered, e) = {} /\ At(InFlight, e) = {}
        BY <1>2, <1>3, <3>5
      <4>3. Owners(e) = {<<"stop", i>>}
        BY <1>4, <1>5, <4>1, <4>2
      <4> QED BY <4>3
    <3> QED BY <2>1, <3>1, <3>2, <3>3, <3>4, <3>5
  <2> QED BY <1>6, <2>2, FS_Singleton
<1>7. CASE fate[e] # "held"
  <2>1. e \notin Hands \cup Range(queue) \cup Range(Buffered) \cup Range(InFlight) \cup Range(Drained)
    BY <1>7 DEF Held
  <2>2. Owners(e) = {}
    BY <1>2, <1>3, <1>4, <1>5, <2>1
  <2> QED BY <1>7, <2>2, FS_EmptySet
<1> QED BY <1>6, <1>7

\* No event is ever lost silently on its way through the SDK's threads, nor
\* kept twice: an undecided event has one owner, a decided one none.
THEOREM OwnershipCorrect == Spec => []OneOwner
BY OwnInvariant, OwnOneOwner, PTL

-----------------------------------------------------------------------------
(* What a step does to events: it settles, or stores, only events that are   *)
(* still held (or, for a caller, new).                                       *)

ProcessorFates == {"delivered"} \cup ProcessorLost

LEMMA PostedAreHeld ==
    ASSUME OwnInv
    PROVE  /\ wpc = "post" \/ wpc = "backoff" => Range(sending) \subseteq Held
           /\ wpc = "test" => Range(batch) \subseteq Held
           /\ spc = "post" => Range(Remaining) \subseteq Held
<1> USE DEF OwnInv
<1>1. batch \in Seq(Events) /\ drained \in Seq(Events)
  BY DEF TypeInv, TypeOK
<1>2. wpc = "post" \/ wpc = "backoff" => Range(sending) \subseteq Held
  BY DEF InFlight, Own
<1>3. wpc = "test" => Range(batch) \subseteq Held
  BY DEF Buffered, StopDecided, StopOK, Own
<1>4. spc = "post" => Range(Remaining) \subseteq Held
  BY <1>1, ConcatRange DEF Remaining, Buffered, Drained, StopDecided, Own
<1> QED BY <1>2, <1>3, <1>4

LEMMA ProcessorStepSettles ==
    ASSUME OwnInv, StartWorker \/ Worker \/ StopBegin \/ Stopper, NEW e \in Events
    PROVE  /\ fate'[e] # fate[e] => fate[e] = "held" /\ fate'[e] \in ProcessorFates
           /\ stored'[e] # stored[e] => fate[e] = "held"
<1> USE PostedAreHeld DEF OwnInv, ProcessorFates, ProcessorLost, Held
<1>0. fate \in [Events -> Fates] /\ stored \in [Events -> Nat]
  BY DEF TypeInv, TypeOK
<1>1. CASE StartWorker \/ LoopTest \/ GetEvent \/ GetTimeout \/ Keep
           \/ BackoffOver \/ LoadDropped \/ StoreDropped
  BY <1>1 DEF StartWorker, LoopTest, GetEvent, GetTimeout, Keep, BackoffOver,
     LoadDropped, StoreDropped
<1>2. CASE Flush
  BY <1>0, <1>2 DEF Flush, Settle
<1>3. CASE PostDelivered
  BY <1>0, <1>3 DEF PostDelivered, Settle, Store
<1>4. CASE PostRejected
  BY <1>0, <1>4 DEF PostRejected, Settle
<1>5. CASE PostRetry
  BY <1>0, <1>5 DEF PostRetry, Settle, Store
<1>6. CASE BackoffInterrupted
  BY <1>0, <1>6 DEF BackoffInterrupted, Settle
<1>7. CASE StopBegin \/ Join \/ DrainOne \/ DrainDone \/ QSize \/ StopLoad
           \/ AbandonStore \/ LastStore \/ StopReset
  BY <1>7 DEF StopBegin, Join, DrainOne, DrainDone, QSize, StopLoad,
     AbandonStore, LastStore, StopReset
<1>8. CASE LastDelivered
  BY <1>0, <1>8 DEF LastDelivered, Settle, Store
<1>9. CASE LastFailed
  BY <1>0, <1>9 DEF LastFailed, Settle, Store
<1> QED
  BY <1>1, <1>2, <1>3, <1>4, <1>5, <1>6, <1>7, <1>8, <1>9
  DEF Worker, Post, Stopper

LEMMA CallerStepSettles ==
    ASSUME OwnInv, NEW p \in Producers, SendEvent(p) \/ Enqueue(p), NEW e \in Events
    PROVE  /\ fate'[e] # fate[e] => fate[e] \in {"new", "held"}
           /\ stored'[e] = stored[e]
<1> USE DEF OwnInv, Held
<1>0. fate \in [Events -> Fates] /\ queue \in Seq(Events)
  BY DEF TypeInv, TypeOK
<1>1. CASE SendEvent(p)
  BY <1>0, <1>1 DEF SendEvent, SampleOut, FilterOut, Withhold, ScrubRefuse,
     Offer, Settle
<1>2. CASE Evict(p)
  <2>1. Head(queue) \in Held
    BY <1>0, <1>2, TailFacts DEF Evict, Own
  <2> QED BY <1>0, <1>2, <2>1 DEF Evict, Settle
<1>3. CASE Refuse(p)
  <2>1. ev[p] \in Held
    BY <1>3 DEF Refuse, TypeInv, CallerOK, Own, Hands
  <2> QED BY <1>0, <1>3, <2>1 DEF Refuse, Settle
<1>4. CASE Put(p) \/ PutFull(p) \/ EvictEmpty(p) \/ LoadCounter(p) \/ StoreCounter(p)
  BY <1>4 DEF Put, PutFull, EvictEmpty, LoadCounter, StoreCounter
<1> QED BY <1>1, <1>2, <1>3, <1>4 DEF Enqueue

\* After its verdict an event is neither sent nor settled again, whichever of
\* the worker and stop() reached it first.
THEOREM DecisionsFinal == Spec => DecidedOnce
<1> DEFINE A == \A e \in Events : fate[e] \notin {"new", "held"} =>
                    fate'[e] = fate[e] /\ stored'[e] = stored[e]
<1>1. OwnInv /\ [Next]_vars => [A]_vars
  <2> SUFFICES ASSUME OwnInv, Next, NEW e \in Events, fate[e] \notin {"new", "held"}
               PROVE  fate'[e] = fate[e] /\ stored'[e] = stored[e]
    OBVIOUS
  <2> QED BY ProcessorStepSettles, CallerStepSettles DEF Next
<1> HIDE DEF A
<1>2. Spec => [][A]_vars
  BY <1>1, OwnInvariant, PTL DEF Spec
<1> QED BY <1>2 DEF DecidedOnce, A

-----------------------------------------------------------------------------
(* The handler's counter under the race of its load and store.  A caller     *)
(* that has loaded must not be able to store too much, although others load  *)
(* and store in between: what it loaded, plus everything not yet counted,    *)
(* still is within what was lost.                                            *)

Pending == {p \in Producers : Uncounted(p)}
Lost == EventsWith(HandlerLost)
CountInv ==
    /\ counts["dropped"] + Cardinality(Pending) <= Cardinality(Lost)
    /\ \A p \in Producers : pc[p] = "store" /\ tally[p] = "dropped" =>
          reg[p] + Cardinality(Pending) <= Cardinality(Lost)

LEMMA CountsFinite ==
    /\ IsFiniteSet(Pending) /\ Cardinality(Pending) \in Nat
    /\ IsFiniteSet(Lost) /\ Cardinality(Lost) \in Nat
<1>1. Pending \subseteq Producers /\ Lost \subseteq Events
  BY DEF Pending, Lost, EventsWith
<1> QED BY <1>1, FiniteAssumption, FS_Subset, FS_CardinalityType DEF FiniteAssumption

\* A caller loses event x and is about to count it.
LEMMA LoseOne ==
    ASSUME OwnInv, CountInv, NEW p \in Producers, NEW x \in Held, NEW f \in HandlerLost,
           Settle({x}, f), pc[p] \in {"evict", "refuse"},
           pc' = [pc EXCEPT ![p] = "load"], tally' = [tally EXCEPT ![p] = "dropped"],
           UNCHANGED <<counts, reg>>
    PROVE  CountInv'
<1> USE DEF OwnInv, TypeInv, TypeOK
<1>1. Pending' = Pending \cup {p} /\ p \notin Pending
  <2>1. /\ pc'[p] = "load" /\ tally'[p] = "dropped"
        /\ \A q \in Producers \ {p} : pc'[q] = pc[q] /\ tally'[q] = tally[q]
    BY DEF Tallies
  <2> QED BY ONLY <2>1, p \in Producers, pc[p] \in {"evict", "refuse"} DEF Pending, Uncounted
<1>2. Lost' = Lost \cup {x} /\ x \notin Lost
  BY DEF Lost, EventsWith, HandlerLost, Settle, Held
<1>3. Cardinality(Pending') = Cardinality(Pending) + 1
  BY <1>1, CountsFinite, FS_AddElement
<1>4. Cardinality(Lost') = Cardinality(Lost) + 1
  BY <1>2, CountsFinite, FS_AddElement
<1>5. \A q \in Producers : pc'[q] = "store" /\ tally'[q] = "dropped" =>
        pc[q] = "store" /\ tally[q] = "dropped"
  OBVIOUS
<1>6. counts["dropped"] \in Nat /\ \A q \in Producers : reg[q] \in Nat
  BY DEF Tallies
<1> HIDE DEF OwnInv, TypeInv, TypeOK
<1>7. counts'["dropped"] + Cardinality(Pending') <= Cardinality(Lost')
  BY <1>3, <1>4, <1>6, CountsFinite DEF CountInv
<1>8. ASSUME NEW q \in Producers, pc'[q] = "store", tally'[q] = "dropped"
      PROVE  reg'[q] + Cardinality(Pending') <= Cardinality(Lost')
  <2>1. reg[q] + Cardinality(Pending) <= Cardinality(Lost)
    BY <1>5, <1>8 DEF CountInv
  <2> QED BY <1>3, <1>4, <1>6, <2>1, CountsFinite
<1> QED BY <1>7, <1>8 DEF CountInv

LEMMA CountStep ==
    ASSUME OwnInv, CountInv, [Next]_vars
    PROVE  CountInv'
<1> USE DEF OwnInv
<1>0. /\ counts \in [Tallies -> Nat] /\ reg \in [Producers -> Nat]
      /\ pc \in [Producers -> {"idle", "put", "evict", "refuse", "load", "store"}]
      /\ tally \in [Producers -> Tallies] /\ fate \in [Events -> Fates]
  BY DEF TypeInv, TypeOK
<1>1. CASE UNCHANGED vars
  <2>1. UNCHANGED <<counts, reg, pc, tally, fate>>
    BY <1>1 DEF vars, queueVars, producerVars
  <2> QED BY <2>1 DEF CountInv, Pending, Uncounted, Lost, EventsWith
<1>2. CASE StartWorker \/ Worker \/ StopBegin \/ Stopper
  <2>1. UNCHANGED <<counts, reg, pc, tally>>
    BY <1>2 DEF StartWorker, Worker, LoopTest, GetEvent, GetTimeout, Keep,
       Flush, Post, PostDelivered, PostRejected, PostRetry, BackoffOver,
       BackoffInterrupted, LoadDropped, StoreDropped, StopBegin, Stopper, Join,
       DrainOne, DrainDone, QSize, StopLoad, AbandonStore, LastDelivered,
       LastFailed, LastStore, StopReset, queueVars, producerVars
  <2>2. Lost' = Lost
    BY <1>2, ProcessorStepSettles DEF Lost, EventsWith, HandlerLost,
       ProcessorFates, ProcessorLost
  <2>3. Pending' = Pending
    BY <2>1 DEF Pending, Uncounted
  <2> QED BY <2>1, <2>2, <2>3 DEF CountInv
<1>3. ASSUME NEW p \in Producers, SendEvent(p) PROVE CountInv'
  <2>1. PICK e \in Events : SampleOut(p, e) \/ FilterOut(p, e) \/ ScrubRefuse(p, e) \/ Offer(p, e)
    BY <1>3 DEF SendEvent
  <2>2. UNCHANGED <<counts, reg>>
    BY <2>1 DEF SampleOut, FilterOut, Withhold, ScrubRefuse, Offer, queueVars, producerVars
  <2>3. Lost' = Lost
    BY <1>0, <2>1 DEF SampleOut, FilterOut, Withhold, ScrubRefuse, Offer,
       Settle, Lost, EventsWith, HandlerLost
  <2>4. \A q \in Producers :
          /\ Uncounted(q)' <=> Uncounted(q)
          /\ pc'[q] = "store" /\ tally'[q] = "dropped"
               => pc[q] = "store" /\ tally[q] = "dropped"
    BY <1>0, <2>1 DEF SampleOut, FilterOut, Withhold, ScrubRefuse, Offer,
       Uncounted, producerVars
  <2>5. Pending' = Pending
    BY <2>4 DEF Pending
  <2> QED BY <2>2, <2>3, <2>4, <2>5 DEF CountInv
<1>4. ASSUME NEW p \in Producers, Enqueue(p) PROVE CountInv'
  <2>1. CASE Put(p) \/ PutFull(p) \/ EvictEmpty(p)
    <3>1. UNCHANGED <<counts, reg, tally, fate>> /\ pc[p] \in {"put", "evict"}
      BY <2>1 DEF Put, PutFull, EvictEmpty, queueVars
    <3>2. \E v \in {"idle", "put", "evict", "refuse"} : pc' = [pc EXCEPT ![p] = v]
      BY <2>1 DEF Put, PutFull, EvictEmpty, NextTry
    <3>3. \A q \in Producers :
            /\ Uncounted(q)' <=> Uncounted(q)
            /\ pc'[q] = "store" => pc[q] = "store"
      BY <1>0, <3>1, <3>2 DEF Uncounted
    <3>4. Pending' = Pending /\ Lost' = Lost
      BY <3>1, <3>3 DEF Pending, Lost, EventsWith
    <3> QED BY <3>1, <3>3, <3>4 DEF CountInv
  <2>2. CASE Evict(p)
    <3>1. Head(queue) \in Held
      BY <2>2, TailFacts DEF Evict, Own, TypeInv, TypeOK
    <3> QED BY <2>2, <3>1, LoseOne DEF Evict, HandlerLost
  <2>3. CASE Refuse(p)
    <3>1. ev[p] \in Held
      BY <2>3 DEF Refuse, TypeInv, CallerOK, Own, Hands
    <3> QED BY <2>3, <3>1, LoseOne DEF Refuse, HandlerLost, queueVars
  <2>4. CASE LoadCounter(p)
    <3>1. /\ reg' = [reg EXCEPT ![p] = counts[tally[p]]]
          /\ UNCHANGED <<counts, tally, fate>> /\ pc[p] = "load"
          /\ pc' = [pc EXCEPT ![p] = "store"]
      BY <2>4 DEF LoadCounter, queueVars
    <3>2. \A q \in Producers : Uncounted(q)' <=> Uncounted(q)
      BY <1>0, <3>1 DEF Uncounted
    <3>3. Pending' = Pending /\ Lost' = Lost
      BY <3>1, <3>2 DEF Pending, Lost, EventsWith
    <3> QED BY <1>0, <3>1, <3>3 DEF CountInv
  <2>5. CASE StoreCounter(p)
    <3>1. /\ counts' = [counts EXCEPT ![tally[p]] = reg[p] + 1]
          /\ UNCHANGED <<tally, fate>> /\ pc[p] = "store"
          /\ reg' = [reg EXCEPT ![p] = 0]
          /\ pc'[p] \in {"idle", "put", "refuse"}
          /\ \A q \in Producers \ {p} : pc'[q] = pc[q] /\ reg'[q] = reg[q]
      BY <1>0, <2>5 DEF StoreCounter, NextTry
    <3>2. Lost' = Lost
      BY <3>1 DEF Lost, EventsWith
    <3>3. CASE tally[p] = "dropped"
      <4>1. Pending' = Pending \ {p} /\ p \in Pending
        BY <1>0, <3>1, <3>3 DEF Pending, Uncounted
      <4>2. Cardinality(Pending') = Cardinality(Pending) - 1
        BY <4>1, CountsFinite, FS_RemoveElement
      <4>3. counts'["dropped"] = reg[p] + 1
        BY <1>0, <3>1, <3>3 DEF Tallies
      <4>4. reg[p] + Cardinality(Pending) <= Cardinality(Lost)
        BY <3>1, <3>3 DEF CountInv
      <4>5. counts'["dropped"] + Cardinality(Pending') <= Cardinality(Lost')
        <5>1. reg[p] \in Nat
          BY <1>0
        <5> QED BY <3>2, <4>2, <4>3, <4>4, <5>1, CountsFinite
      <4>6. ASSUME NEW q \in Producers, pc'[q] = "store", tally'[q] = "dropped"
            PROVE  reg'[q] + Cardinality(Pending') <= Cardinality(Lost')
        <5>1. q # p /\ pc[q] = "store" /\ tally[q] = "dropped" /\ reg'[q] = reg[q]
          BY <3>1, <4>6
        <5>2. reg[q] + Cardinality(Pending) <= Cardinality(Lost)
          BY <5>1 DEF CountInv
        <5>3. reg[q] \in Nat /\ Cardinality(Pending) - 1 <= Cardinality(Pending)
          BY <1>0, CountsFinite
        <5> QED BY <3>2, <4>2, <5>1, <5>2, <5>3, CountsFinite
      <4> QED BY <4>5, <4>6 DEF CountInv
    <3>4. CASE tally[p] # "dropped"
      <4>1. Pending' = Pending
        BY <1>0, <3>1, <3>4 DEF Pending, Uncounted
      <4>2. counts'["dropped"] = counts["dropped"]
        BY <1>0, <3>1, <3>4 DEF Tallies
      <4> QED BY <3>1, <3>2, <4>1, <4>2 DEF CountInv
    <3> QED BY <3>3, <3>4
  <2> QED BY <1>4, <2>1, <2>2, <2>3, <2>4, <2>5 DEF Enqueue
<1> QED BY <1>1, <1>2, <1>3, <1>4 DEF Next

\* The handler's loss counter is a lower bound of what it lost, however many
\* threads raise it at the same time.
THEOREM HandlerCountCorrect == Spec => []HandlerCountHonest
<1>1. Init => CountInv
  <2> SUFFICES ASSUME Init PROVE CountInv
    OBVIOUS
  <2>1. Pending = {} /\ Lost = {}
    BY DEF Init, Pending, Uncounted, Lost, EventsWith, HandlerLost
  <2>2. counts["dropped"] = 0 /\ \A p \in Producers : pc[p] # "store"
    BY DEF Init, Tallies
  <2> QED BY <2>1, <2>2, FS_EmptySet DEF CountInv
<1>2. CountInv => HandlerCountHonest
  BY DEF CountInv, HandlerCountHonest, Pending, Lost
<1> QED BY <1>1, <1>2, CountStep, OwnInvariant, PTL DEF Spec

-----------------------------------------------------------------------------
(* The worker fills the buffer up to batch_size and no further: it tests     *)
(* after every event, and hands over or stays below.                         *)

RoomOK ==
    /\ wpc \in {"unstarted", "loop", "get", "exited"} => Len(batch) < BatchSize
    /\ wpc = "test" => Len(batch) <= BatchSize
    /\ wpc \in {"post", "backoff", "load", "store"} =>
          batch = <<>> /\ sending # <<>> /\ Len(sending) <= BatchSize

\* What a caller leaves alone.
LEMMA CallerKeeps ==
    ASSUME NEW p \in Producers, SendEvent(p) \/ Enqueue(p)
    PROVE  UNCHANGED <<batch, stop, dropped, wpc, sending, attempt, wreg, spc,
                       drained, abandoned, sreg, stored>>
<1>1. CASE SendEvent(p)
  BY <1>1 DEF SendEvent, SampleOut, FilterOut, Withhold, ScrubRefuse, Offer,
     workerVars, stopVars
<1>2. CASE Enqueue(p)
  BY <1>2 DEF Enqueue, Put, PutFull, Evict, EvictEmpty, Refuse, LoadCounter,
     StoreCounter, workerVars, stopVars
<1> QED BY <1>1, <1>2

\* What the threads of the SDK do to the buffer.
LEMMA RoomStep ==
    ASSUME TypeInv, RoomOK, [Next]_vars
    PROVE  RoomOK'
<1> USE DEF RoomOK
<1>0. batch \in Seq(Events) /\ queue \in Seq(Events)
  BY DEF TypeInv, TypeOK
<1>1. CASE UNCHANGED vars
  BY <1>1 DEF vars, workerVars
<1>2. CASE \E p \in Producers : SendEvent(p) \/ Enqueue(p)
  BY <1>2, CallerKeeps
<1>3. CASE GetEvent
  BY <1>0, <1>3 DEF GetEvent
<1>4. CASE Flush
  <2>1. Len(<<>>) = 0
    BY EmptySeq
  <2> QED BY <1>4, <2>1 DEF Flush
<1>5. CASE StartWorker \/ LoopTest \/ GetTimeout \/ Keep
  BY <1>5 DEF StartWorker, LoopTest, GetTimeout, Keep
<1>6. CASE Post \/ BackoffOver \/ BackoffInterrupted \/ LoadDropped \/ StoreDropped
  <2>1. Len(<<>>) < BatchSize
    BY EmptySeq
  <2> QED BY <1>6, <2>1 DEF Post, PostDelivered, PostRejected, PostRetry,
     BackoffOver, BackoffInterrupted, LoadDropped, StoreDropped
<1>7. CASE StopBegin \/ Stopper
  <2>1. Len(<<>>) < BatchSize
    BY EmptySeq
  <2>2. UNCHANGED <<wpc, sending>> /\ (UNCHANGED batch \/ batch' = <<>>)
    BY <1>7 DEF StopBegin, Stopper, Join, DrainOne, DrainDone, QSize, StopLoad,
       AbandonStore, LastDelivered, LastFailed, LastStore, StopReset, workerVars
  <2> QED BY <2>1, <2>2
<1> QED BY <1>1, <1>2, <1>3, <1>4, <1>5, <1>6, <1>7 DEF Next, Worker

LEMMA RoomBoundsMemory == OwnInv /\ RoomOK => MemoryBounded
<1> SUFFICES ASSUME OwnInv, RoomOK PROVE MemoryBounded
  OBVIOUS
<1>1. /\ batch \in Seq(Events) /\ drained \in Seq(Events) /\ Len(batch) \in Nat
      /\ Len(drained) \in Nat /\ Len(drained) <= BatchSize /\ Len(<<>>) = 0
      /\ wpc \in {"unstarted", "loop", "get", "test", "post", "backoff", "load",
                  "store", "exited"}
  BY EmptySeq DEF OwnInv, TypeInv, TypeOK
<1>2. Len(Buffered) <= Len(batch) /\ Len(Buffered) \in Nat
  BY <1>1 DEF Buffered
<1>3. Len(Buffered) + Len(InFlight) <= BatchSize
  <2>1. CASE wpc \in {"post", "backoff"}
    BY <1>1, <1>2, <2>1 DEF RoomOK, InFlight, OwnInv, TypeInv, TypeOK
  <2>2. CASE wpc \notin {"post", "backoff"}
    BY <1>1, <1>2, <2>2 DEF RoomOK, InFlight
  <2> QED BY <2>1, <2>2
<1>4. Len(Remaining) = Len(batch) + Len(drained)
  BY <1>1, ConcatProperties DEF Remaining
\* While the buffer may be full, stop() has drained nothing yet.
<1>5. \/ Len(batch) < BatchSize
      \/ Len(batch) = BatchSize /\ drained = <<>>
  BY <1>1 DEF RoomOK, OwnInv, StopOK
<1>6. Len(Remaining) < 2 * BatchSize
  BY <1>1, <1>4, <1>5
<1> QED BY <1>3, <1>6 DEF MemoryBounded

\* However long the ingest is away, the worker has at most batch_size events and
\* stop() sends fewer than twice as many.
THEOREM MemoryIsBounded == Spec => []MemoryBounded
<1>1. Init => RoomOK
  BY EmptySeq DEF Init, RoomOK
<1>2. OwnInv /\ RoomOK /\ [Next]_vars => RoomOK'
  BY RoomStep DEF OwnInv
<1>3. Spec => []RoomOK
  BY <1>1, <1>2, OwnInvariant, PTL DEF Spec
<1> QED BY <1>3, OwnInvariant, RoomBoundsMemory, PTL

-----------------------------------------------------------------------------
(* What the ingest has stored.  Each answer that is lost costs one attempt,  *)
(* and the attempts are counted; nothing but the batch in flight has ever    *)
(* been sent without its events being decided.                               *)

MaxCopies == IF MaxRetry = 0 THEN 1 ELSE MaxRetry
CopyOK(e) ==
    /\ fate[e] = "new" => stored[e] = 0
    /\ fate[e] = "held" /\ e \notin Range(InFlight) => stored[e] = 0
    /\ e \in Range(InFlight) =>
          stored[e] <= IF wpc = "post" THEN attempt ELSE attempt + 1
    /\ stored[e] <= MaxCopies
AttemptOK ==
    /\ wpc = "post" => attempt < MaxRetry
    /\ wpc = "backoff" => attempt + 1 < MaxRetry
CopiesOK == AttemptOK /\ \A e \in Events : CopyOK(e)

LEMMA AttemptStep ==
    ASSUME TypeInv, AttemptOK, [Next]_vars
    PROVE  AttemptOK'
<1> USE DEF AttemptOK
<1>0. attempt \in Nat
  BY DEF TypeInv, TypeOK
<1>1. CASE UNCHANGED vars
  BY <1>1 DEF vars, workerVars
<1>2. CASE \E p \in Producers : SendEvent(p) \/ Enqueue(p)
  BY <1>2, CallerKeeps
<1>3. CASE StartWorker \/ Worker
  BY <1>0, <1>3 DEF StartWorker, Worker, LoopTest, GetEvent, GetTimeout, Keep,
     Flush, Post, PostDelivered, PostRejected, PostRetry, BackoffOver,
     BackoffInterrupted, LoadDropped, StoreDropped
<1>4. CASE StopBegin \/ Stopper
  BY <1>4 DEF StopBegin, Stopper, Join, DrainOne, DrainDone, QSize, StopLoad,
     AbandonStore, LastDelivered, LastFailed, LastStore, StopReset, workerVars
<1> QED BY <1>1, <1>2, <1>3, <1>4 DEF Next

\* A step that sends nothing and neither takes nor returns a batch in flight.
LEMMA CopyKept ==
    ASSUME NEW e \in Events, CopyOK(e), UNCHANGED stored,
           fate'[e] = "new" => fate[e] = "new",
           fate'[e] = "held" => fate[e] \in {"new", "held"},
           \/ UNCHANGED <<InFlight, wpc, attempt>>
           \/ InFlight = <<>> /\ InFlight' = <<>>
    PROVE  CopyOK(e)'
BY EmptyFacts DEF CopyOK

LEMMA CallerCopies ==
    ASSUME OwnInv, NEW e \in Events, CopyOK(e),
           NEW p \in Producers, SendEvent(p) \/ Enqueue(p)
    PROVE  CopyOK(e)'
<1>1. UNCHANGED <<stored, wpc, sending, attempt>>
  BY CallerKeeps
<1>2. fate \in [Events -> Fates]
  BY DEF OwnInv, TypeInv, TypeOK
<1>3. /\ fate'[e] = "new" => fate[e] = "new"
      /\ fate'[e] = "held" => fate[e] \in {"new", "held"}
  <2>1. CASE SendEvent(p)
    BY <1>2, <2>1 DEF SendEvent, SampleOut, FilterOut, Withhold, ScrubRefuse,
       Offer, Settle
  <2>2. CASE Enqueue(p)
    BY <1>2, <2>2 DEF Enqueue, Put, PutFull, Evict, EvictEmpty, Refuse,
       LoadCounter, StoreCounter, Settle
  <2> QED BY <2>1, <2>2
<1>4. UNCHANGED InFlight
  BY <1>1 DEF InFlight
<1> QED BY <1>1, <1>3, <1>4, CopyKept

LEMMA WorkerCopies ==
    ASSUME OwnInv, AttemptOK, AttemptOK', NEW e \in Events, CopyOK(e),
           StartWorker \/ Worker
    PROVE  CopyOK(e)'
<1>0. /\ fate \in [Events -> Fates] /\ stored \in [Events -> Nat]
      /\ attempt \in Nat /\ stored[e] \in Nat
      /\ Range(<<>>) = {}
  BY EmptyFacts DEF OwnInv, TypeInv, TypeOK
<1>1. CASE StartWorker \/ LoopTest \/ GetEvent \/ GetTimeout \/ Keep
           \/ LoadDropped \/ StoreDropped
  <2>1. UNCHANGED <<stored, fate>> /\ InFlight = <<>> /\ InFlight' = <<>>
    BY <1>1 DEF StartWorker, LoopTest, GetEvent, GetTimeout, Keep, LoadDropped,
       StoreDropped, InFlight
  <2> QED BY <2>1, CopyKept
<1>2. CASE Flush
  <2>1. UNCHANGED stored /\ InFlight = <<>>
    BY <1>2 DEF Flush, InFlight
  <2>2. CASE MaxRetry = 0
    <3>1. InFlight' = <<>> /\ Settle(Range(batch), "gaveUp")
      BY <1>2, <2>2 DEF Flush, InFlight
    <3>2. fate'[e] = fate[e] \/ fate'[e] = "gaveUp"
      BY <1>0, <3>1 DEF Settle
    <3> QED BY <2>1, <3>1, <3>2, CopyKept
  <2>3. CASE MaxRetry # 0
    <3>1. /\ InFlight' = batch /\ UNCHANGED fate
          /\ wpc = "test" /\ wpc' = "post" /\ attempt' = 0
      BY <1>2, <2>3 DEF Flush, InFlight
    <3>2. e \in Range(batch) => fate[e] = "held"
      BY <3>1, PostedAreHeld DEF Held
    <3> QED BY <1>0, <2>1, <3>1, <3>2 DEF CopyOK
  <2> QED BY <2>2, <2>3
<1>3. CASE Post
  <2>1. wpc = "post" /\ InFlight = sending
    BY <1>3 DEF Post, PostDelivered, PostRejected, PostRetry, InFlight
  <2>2. e \in Range(sending) => fate[e] = "held"
    BY <2>1, PostedAreHeld DEF Held
  <2>3. \/ UNCHANGED stored
        \/ stored'[e] = IF e \in Range(sending) THEN stored[e] + 1 ELSE stored[e]
    BY <1>0, <1>3 DEF Post, PostDelivered, PostRejected, PostRetry, Store
  <2>4. attempt < MaxRetry /\ MaxCopies = MaxRetry
    BY <1>0, <2>1 DEF AttemptOK, MaxCopies
  <2>5. CASE wpc' = "backoff"
    <3>1. UNCHANGED fate /\ InFlight' = sending /\ UNCHANGED attempt
      BY <1>3, <2>5 DEF Post, PostDelivered, PostRejected, PostRetry, InFlight
    <3> QED BY <1>0, <2>1, <2>2, <2>3, <2>4, <2>5, <3>1 DEF CopyOK
  <2>6. CASE wpc' # "backoff"
    <3>1. /\ InFlight' = <<>>
          /\ \/ Settle(Range(sending), "delivered")
             \/ Settle(Range(sending), "rejected")
             \/ Settle(Range(sending), "gaveUp")
      BY <1>3, <2>6 DEF Post, PostDelivered, PostRejected, PostRetry, InFlight
    <3>2. fate'[e] \in {"new", "held"} => fate'[e] = fate[e] /\ e \notin Range(sending)
      BY <1>0, <2>2, <3>1 DEF Settle
    <3>3. e \notin Range(sending) => stored'[e] = stored[e]
      BY <2>3
    <3>4. stored'[e] <= MaxCopies
      BY <1>0, <2>1, <2>2, <2>3, <2>4 DEF CopyOK
    <3> QED BY <1>0, <2>1, <3>1, <3>2, <3>3, <3>4 DEF CopyOK
  <2> QED BY <2>5, <2>6
<1>4. CASE BackoffOver
  <2>1. /\ UNCHANGED <<stored, fate, InFlight>> /\ wpc = "backoff" /\ wpc' = "post"
        /\ attempt' = attempt + 1
    BY <1>4 DEF BackoffOver, InFlight
  <2> QED BY <2>1 DEF CopyOK
<1>5. CASE BackoffInterrupted
  <2>1. /\ UNCHANGED stored /\ InFlight = sending /\ InFlight' = <<>>
        /\ Settle(Range(sending), "interrupted")
    BY <1>5 DEF BackoffInterrupted, InFlight
  <2>2. fate'[e] = IF e \in Range(sending) THEN "interrupted" ELSE fate[e]
    BY <1>0, <2>1 DEF Settle
  <2> QED BY <1>0, <2>1, <2>2 DEF CopyOK
<1> QED BY <1>1, <1>2, <1>3, <1>4, <1>5 DEF Worker

LEMMA StopCopies ==
    ASSUME OwnInv, NEW e \in Events, CopyOK(e), StopBegin \/ Stopper
    PROVE  CopyOK(e)'
<1>0. /\ fate \in [Events -> Fates] /\ stored \in [Events -> Nat]
      /\ stored[e] \in Nat /\ MaxCopies >= 1
  BY DEF OwnInv, TypeInv, TypeOK, MaxCopies
<1>1. UNCHANGED <<wpc, sending, attempt, InFlight>>
  BY DEF StopBegin, Stopper, Join, DrainOne, DrainDone, QSize, StopLoad,
     AbandonStore, LastDelivered, LastFailed, LastStore, StopReset, workerVars,
     InFlight
<1>2. CASE LastDelivered \/ LastFailed
  <2>1. spc = "post"
    BY <1>2 DEF LastDelivered, LastFailed
  \* What stop() posts is not in flight: it was never sent before.
  <2>2. e \in Range(Remaining) => fate[e] = "held" /\ e \notin Range(InFlight)
    <3>1. Range(Remaining) \subseteq Held
      BY <2>1, PostedAreHeld
    <3>2. batch \in Seq(Events) /\ drained \in Seq(Events)
      BY DEF OwnInv, TypeInv, TypeOK
    <3>3. Range(Remaining) = Range(Buffered) \cup Range(Drained)
      BY <2>1, <3>2, ConcatRange DEF Remaining, Buffered, Drained, StopDecided
    <3> QED BY <3>1, <3>3 DEF Held, OwnInv, Own, Apart
  <2>3. fate'[e] = fate[e] \/ fate'[e] \in {"delivered", "rejected", "gaveUp"}
    BY <1>0, <1>2 DEF LastDelivered, LastFailed, Settle
  <2>4. \/ stored'[e] = stored[e]
        \/ /\ e \in Range(Remaining) /\ stored'[e] = stored[e] + 1
           /\ fate'[e] \in {"delivered", "gaveUp"}
    BY <1>0, <1>2 DEF LastDelivered, LastFailed, Store, Settle
  <2> QED BY <1>0, <1>1, <2>2, <2>3, <2>4 DEF CopyOK
<1>3. CASE ~(LastDelivered \/ LastFailed)
  <2>1. UNCHANGED <<fate, stored>>
    BY <1>3 DEF StopBegin, Stopper, Join, DrainOne, DrainDone, QSize, StopLoad,
       AbandonStore, LastStore, StopReset
  <2> QED BY <1>1, <2>1, CopyKept
<1> QED BY <1>2, <1>3

LEMMA CopiesStep == OwnInv /\ CopiesOK /\ [Next]_vars => CopiesOK'
<1> SUFFICES ASSUME OwnInv, CopiesOK, [Next]_vars PROVE CopiesOK'
  OBVIOUS
<1>1. AttemptOK'
  BY AttemptStep DEF CopiesOK, OwnInv
<1>2. ASSUME NEW e \in Events PROVE CopyOK(e)'
  <2>1. CASE UNCHANGED vars
    <3>1. UNCHANGED <<fate, stored, wpc, attempt, InFlight>>
      BY <2>1 DEF vars, workerVars, InFlight
    <3> QED BY <3>1, CopyKept DEF CopiesOK
  <2>2. CASE Next
    BY <1>1, <2>2, CallerCopies, WorkerCopies, StopCopies DEF Next, CopiesOK
  <2> QED BY <2>1, <2>2
<1> QED BY <1>1, <1>2 DEF CopiesOK

\* The ingest never has more copies of an event than max_retry allows, although
\* every lost answer makes the worker send what was stored already.
THEOREM CopiesAreBounded == Spec => []DuplicatesBounded
<1>1. Init => CopiesOK
  <2> SUFFICES ASSUME Init PROVE CopiesOK
    OBVIOUS
  <2>1. AttemptOK
    BY DEF Init, AttemptOK
  <2>2. InFlight = <<>> /\ MaxCopies \in Nat
    BY DEF Init, InFlight, MaxCopies
  <2>3. \A e \in Events : CopyOK(e)
    BY <2>2, EmptyFacts DEF Init, CopyOK
  <2> QED BY <2>1, <2>3 DEF CopiesOK
<1>2. CopiesOK => DuplicatesBounded
  BY DEF CopiesOK, CopyOK, MaxCopies, DuplicatesBounded
<1> QED BY <1>1, <1>2, CopiesStep, OwnInvariant, PTL DEF Spec

-----------------------------------------------------------------------------
(* The processor's counter.  Worker and stop() raise it at the same time, so *)
(* a store can undo the other's.  What holds of every value that can become  *)
(* the counter - its own and both registers - is that with what each of them *)
(* is about to add it stays within the losses.                               *)

Given == EventsWith(ProcessorLost)
WorkerAdds == IF wpc \in {"load", "store"} THEN Len(sending) ELSE 0
StopAdds ==
    CASE spc \in {"abandonLoad", "abandonStore"} -> abandoned
      [] spc \in {"postLoad", "postStore"} -> Len(Remaining)
      [] OTHER -> 0
WithinLosses(n) == n + WorkerAdds + StopAdds <= Cardinality(Given) + abandoned
TallyOK ==
    /\ WithinLosses(dropped) /\ WithinLosses(wreg) /\ WithinLosses(sreg)
    /\ spc \in {"running", "join", "drain", "qsize"} => abandoned = 0
    /\ ~stop => dropped + WorkerAdds = Cardinality(Given)
    /\ ~stop /\ wpc = "store" => wreg = dropped

LEMMA InjectiveCardinality ==
    ASSUME NEW s \in Seq(Events), IsInjective(s)
    PROVE  IsFiniteSet(Range(s)) /\ Cardinality(Range(s)) = Len(s)
<1>1. /\ Len(s) \in Nat /\ DOMAIN s = 1..Len(s)
      /\ s \in [1..Len(s) -> Range(s)]
  <2>1. Len(s) \in Nat /\ DOMAIN s = 1..Len(s) /\ s \in [1..Len(s) -> Events]
    OBVIOUS
  <2>2. \A i \in 1..Len(s) : s[i] \in Range(s)
    BY <2>1 DEF Range
  <2> QED BY ONLY <2>1, <2>2
<1>2. IsFiniteSet(1..Len(s)) /\ Cardinality(1..Len(s)) = Len(s)
  <2>1. \A k \in Nat : IsFiniteSet(1..k) /\ Cardinality(1..k) = k
    BY ONLY FS_Interval
  <2> QED BY ONLY <1>1, <2>1
<1>3. s \in Bijection(1..Len(s), Range(s))
  <2>1. s \in Injection(1..Len(s), Range(s))
    BY <1>1 DEF Injection, IsInjective
  <2>2. \A t \in Range(s) : \E i \in 1..Len(s) : s[i] = t
    BY <1>1 DEF Range
  <2>3. s \in Surjection(1..Len(s), Range(s))
    BY ONLY <1>1, <2>2 DEF Surjection
  <2> QED BY ONLY <2>1, <2>3 DEF Bijection
<1>4. ExistsBijection(1..Len(s), Range(s))
  BY <1>3 DEF ExistsBijection
<1> QED BY <1>2, <1>4, FS_Bijection

LEMMA ConcatInjective ==
    ASSUME NEW s \in Seq(Events), NEW t \in Seq(Events),
           IsInjective(s), IsInjective(t), Range(s) \cap Range(t) = {}
    PROVE  IsInjective(s \o t)
<1> DEFINE u == s \o t
<1>1. /\ Len(s) \in Nat /\ Len(t) \in Nat /\ DOMAIN u = 1..(Len(s) + Len(t))
      /\ DOMAIN s = 1..Len(s) /\ DOMAIN t = 1..Len(t)
      /\ \A i \in 1..Len(s) : u[i] = s[i]
      /\ \A i \in (Len(s) + 1)..(Len(s) + Len(t)) :
            u[i] = t[i - Len(s)] /\ i - Len(s) \in 1..Len(t)
  OBVIOUS
<1> HIDE DEF u
<1>2. \A i \in 1..Len(s), j \in 1..Len(t) : s[i] # t[j]
  BY <1>1 DEF Range
<1>3. ASSUME NEW i \in DOMAIN u, NEW j \in DOMAIN u, u[i] = u[j] PROVE i = j
  <2>1. CASE i \in 1..Len(s) /\ j \in 1..Len(s)
    BY <1>1, <1>3, <2>1 DEF IsInjective
  <2>2. CASE i \notin 1..Len(s) /\ j \notin 1..Len(s)
    <3>1. i \in (Len(s) + 1)..(Len(s) + Len(t)) /\ j \in (Len(s) + 1)..(Len(s) + Len(t))
      BY <1>1, <2>2
    <3> DEFINE k == i - Len(s)
               l == j - Len(s)
    <3>2. k \in DOMAIN t /\ l \in DOMAIN t /\ t[k] = t[l]
      BY <1>1, <1>3, <3>1
    <3>3. k = l
      BY <3>2 DEF IsInjective
    <3> QED BY <1>1, <3>1, <3>3
  <2>3. CASE (i \in 1..Len(s)) # (j \in 1..Len(s))
    <3>1. \A k \in DOMAIN u : k \notin 1..Len(s) => k \in (Len(s) + 1)..(Len(s) + Len(t))
      BY <1>1
    <3> QED BY <1>1, <1>2, <1>3, <2>3, <3>1
  <2> QED BY <2>1, <2>2, <2>3
<1> QED BY <1>3 DEF u, IsInjective

LEMMA GivenFinite == IsFiniteSet(Given) /\ Cardinality(Given) \in Nat
<1>1. Given \subseteq Events
  BY DEF Given, EventsWith
<1> QED BY <1>1, FiniteAssumption, FS_Subset, FS_CardinalityType DEF FiniteAssumption

\* Giving up a batch of undecided events adds its length to the losses.
LEMMA GivenGrows ==
    ASSUME TypeInv, NEW s \in Seq(Events), IsInjective(s), Range(s) \subseteq Held,
           NEW f \in ProcessorLost, Settle(Range(s), f)
    PROVE  Cardinality(Given') = Cardinality(Given) + Len(s)
<1>1. fate \in [Events -> Fates] /\ Range(s) \subseteq Events
  BY RangeType DEF TypeInv, TypeOK
<1>2. Given' = Given \cup Range(s) /\ Given \cap Range(s) = {}
  BY <1>1 DEF Given, EventsWith, Settle, Held, ProcessorLost
<1>3. IsFiniteSet(Range(s)) /\ Cardinality(Range(s)) = Len(s) /\ Len(s) \in Nat
  BY InjectiveCardinality
<1>4. Cardinality(Given') = Cardinality(Given) + Cardinality(Range(s))
                              - Cardinality(Given \cap Range(s))
  BY <1>2, <1>3, GivenFinite, FS_Union
<1>5. Cardinality(Given \cap Range(s)) = 0
  BY <1>2, FS_EmptySet
<1> QED BY <1>3, <1>4, <1>5, GivenFinite

\* Events that end otherwise leave them alone.
LEMMA GivenKept ==
    ASSUME NEW S \in SUBSET Events, NEW f \in Fates \ ProcessorLost, Settle(S, f),
           \A e \in S : fate[e] \in {"new", "held"}
    PROVE  Given' = Given
BY DEF Settle, Given, EventsWith, ProcessorLost

LEMMA CallerTally ==
    ASSUME OwnInv, TallyOK, NEW p \in Producers, SendEvent(p) \/ Enqueue(p)
    PROVE  TallyOK'
<1> USE DEF OwnInv
<1>1. UNCHANGED <<stop, dropped, wpc, sending, wreg, spc, batch, drained, abandoned, sreg>>
  BY CallerKeeps
<1>2. Given' = Given
  <2>1. fate \in [Events -> Fates] /\ queue \in Seq(Events)
    BY DEF TypeInv, TypeOK
  <2>2. CASE SendEvent(p)
    BY <2>1, <2>2 DEF SendEvent, SampleOut, FilterOut, Withhold, ScrubRefuse,
       Offer, Settle, Given, EventsWith, ProcessorLost
  <2>3. CASE Evict(p)
    <3>1. Head(queue) \in Held
      BY <2>1, <2>3, TailFacts DEF Evict, Own
    <3>2. Settle({Head(queue)}, "evicted") /\ "evicted" \in Fates \ ProcessorLost
      BY <2>3 DEF Evict, Fates, HandlerLost, ProcessorLost
    <3> QED BY <3>1, <3>2, GivenKept DEF Held
  <2>4. CASE Refuse(p)
    <3>1. ev[p] \in Held
      BY <2>4 DEF Refuse, TypeInv, CallerOK, Own, Hands
    <3>2. Settle({ev[p]}, "refused") /\ "refused" \in Fates \ ProcessorLost
      BY <2>4 DEF Refuse, Fates, HandlerLost, ProcessorLost
    <3> QED BY <3>1, <3>2, GivenKept DEF Held
  <2>5. CASE Put(p) \/ PutFull(p) \/ EvictEmpty(p) \/ LoadCounter(p) \/ StoreCounter(p)
    BY <2>5 DEF Put, PutFull, EvictEmpty, LoadCounter, StoreCounter, Given, EventsWith
  <2> QED BY <2>2, <2>3, <2>4, <2>5 DEF Enqueue
<1> QED BY <1>1, <1>2 DEF TallyOK, WithinLosses, WorkerAdds, StopAdds, Remaining

LEMMA TallyTypes ==
    ASSUME TypeInv
    PROVE  /\ dropped \in Nat /\ wreg \in Nat /\ sreg \in Nat /\ abandoned \in Nat
           /\ WorkerAdds \in Nat /\ StopAdds \in Nat
<1>1. /\ batch \in Seq(Events) /\ drained \in Seq(Events) /\ sending \in Seq(Events)
      /\ dropped \in Nat /\ wreg \in Nat /\ sreg \in Nat /\ abandoned \in Nat
  BY DEF TypeInv, TypeOK
<1>2. Remaining \in Seq(Events)
  BY <1>1 DEF Remaining
<1>3. Len(Remaining) \in Nat /\ Len(sending) \in Nat
  BY <1>1, <1>2
<1> QED BY <1>1, <1>3 DEF WorkerAdds, StopAdds

LEMMA WorkerTally ==
    ASSUME OwnInv, TallyOK, StartWorker \/ Worker
    PROVE  TallyOK'
<1> USE DEF TallyOK, WithinLosses
<1>0. TypeInv /\ StopOK /\ Own /\ fate \in [Events -> Fates] /\ sending \in Seq(Events)
      /\ batch \in Seq(Events)
  BY DEF OwnInv, TypeInv, TypeOK
<1>1. UNCHANGED <<stop, spc, drained, abandoned, sreg>>
  BY DEF StartWorker, Worker, LoopTest, GetEvent, GetTimeout, Keep, Flush,
     Post, PostDelivered, PostRejected, PostRetry, BackoffOver,
     BackoffInterrupted, LoadDropped, StoreDropped, stopVars
<1>t. /\ dropped \in Nat /\ wreg \in Nat /\ sreg \in Nat /\ abandoned \in Nat
      /\ WorkerAdds \in Nat /\ StopAdds \in Nat /\ Cardinality(Given) \in Nat
  BY <1>0, TallyTypes, GivenFinite
\* Where the worker moves events of the buffer, stop() adds nothing.
<1>2. StopAdds' = StopAdds
  <2>1. CASE wpc \in {"get", "test"}
    BY <1>0, <1>1, <2>1 DEF StopOK, StopAdds
  <2>2. CASE wpc \notin {"get", "test"}
    <3>1. UNCHANGED batch
      BY <2>2 DEF StartWorker, Worker, LoopTest, GetEvent, GetTimeout, Keep,
         Flush, Post, PostDelivered, PostRejected, PostRetry, BackoffOver,
         BackoffInterrupted, LoadDropped, StoreDropped
    <3> QED BY <1>1, <3>1 DEF StopAdds, Remaining
  <2> QED BY <2>1, <2>2
<1>3. CASE StartWorker \/ LoopTest \/ GetEvent \/ GetTimeout \/ Keep \/ BackoffOver
  <2>1. UNCHANGED <<fate, dropped, wreg>> /\ WorkerAdds = 0 /\ WorkerAdds' = 0
        /\ wpc' # "store"
    BY <1>3 DEF StartWorker, LoopTest, GetEvent, GetTimeout, Keep, BackoffOver,
       WorkerAdds
  <2>2. Given' = Given
    BY <2>1 DEF Given, EventsWith
  <2> QED BY <1>1, <1>2, <2>1, <2>2
<1>4. CASE Flush \/ Post
  <2>1. UNCHANGED <<dropped, wreg>> /\ WorkerAdds = 0 /\ wpc' # "store"
    BY <1>4 DEF Flush, Post, PostDelivered, PostRejected, PostRetry, WorkerAdds
  <2>2. CASE wpc' = "load"
    <3>1. /\ sending' = IF wpc = "test" THEN batch ELSE sending
          /\ wpc \in {"test", "post"}
          /\ \E f \in ProcessorLost : Settle(Range(sending'), f)
      BY <1>4, <2>2 DEF Flush, Post, PostDelivered, PostRejected, PostRetry, ProcessorLost
    <3>2. IsInjective(sending') /\ Range(sending') \subseteq Held /\ sending' \in Seq(Events)
      BY <1>0, <3>1, PostedAreHeld DEF Own, Buffered, StopDecided, StopOK, InFlight
    <3>3. Cardinality(Given') = Cardinality(Given) + Len(sending')
      BY <1>0, <3>1, <3>2, GivenGrows
    <3>4. WorkerAdds' = Len(sending') /\ Len(sending') \in Nat
      BY <2>2, <3>2 DEF WorkerAdds
    <3>5. \A n \in Nat : WithinLosses(n) =>
            n + WorkerAdds' + StopAdds' <= Cardinality(Given') + abandoned'
      <4>1. WorkerAdds' + StopAdds' = StopAdds + Len(sending')
        BY <1>2, <1>t, <3>4
      <4>2. WorkerAdds = 0 /\ abandoned' = abandoned /\ Len(sending') \in Nat
        BY <1>1, <2>1, <3>4
      <4> QED BY ONLY <1>2, <1>t, <3>3, <3>4, <4>1, <4>2 DEF WithinLosses
    <3>6. WithinLosses(dropped)' /\ WithinLosses(wreg)' /\ WithinLosses(sreg)'
      BY <1>1, <1>t, <2>1, <3>5
    <3>7. ~stop => dropped + Len(sending') = Cardinality(Given')
      BY <1>t, <2>1, <3>3, <3>4
    <3> QED BY <1>1, <2>1, <3>4, <3>6, <3>7
  <2>3. CASE wpc' # "load"
    <3>1. UNCHANGED fate \/ (wpc = "post" /\ Settle(Range(sending), "delivered"))
      BY <1>4, <2>3 DEF Flush, Post, PostDelivered, PostRejected, PostRetry
    <3>2. Given' = Given
      <4>1. wpc = "post" => \A e \in Range(sending) : fate[e] = "held" /\ e \in Events
        BY PostedAreHeld DEF Held
      <4>2. "delivered" \in Fates \ ProcessorLost
        BY DEF Fates, ProcessorLost
      <4>3. CASE UNCHANGED fate
        BY <4>3 DEF Given, EventsWith
      <4>4. CASE wpc = "post" /\ Settle(Range(sending), "delivered")
        BY <4>1, <4>2, <4>4, GivenKept
      <4> QED BY <3>1, <4>3, <4>4
    <3>3. WorkerAdds' = 0
      BY <2>1, <2>3 DEF WorkerAdds
    <3> QED BY <1>1, <1>2, <2>1, <3>2, <3>3
  <2> QED BY <2>2, <2>3
<1>5. CASE BackoffInterrupted
  <2>1. /\ UNCHANGED <<dropped, wreg>> /\ WorkerAdds = 0 /\ WorkerAdds' = 0
        /\ wpc = "backoff" /\ wpc' = "loop" /\ stop
        /\ Settle(Range(sending), "interrupted")
    BY <1>5 DEF BackoffInterrupted, WorkerAdds
  <2>2. IsInjective(sending) /\ Range(sending) \subseteq Held
    BY <1>0, <2>1, PostedAreHeld DEF Own, InFlight
  <2>3. Cardinality(Given') = Cardinality(Given) + Len(sending) /\ Len(sending) \in Nat
    BY <1>0, <2>1, <2>2, GivenGrows DEF ProcessorLost
  <2>4. \A n \in Nat : WithinLosses(n) => WithinLosses(n)'
    BY <1>1, <1>2, <1>t, <2>1, <2>3
  <2> QED BY <1>1, <1>t, <2>1, <2>4
<1>6. CASE LoadDropped
  <2>1. /\ UNCHANGED <<fate, dropped, sending>> /\ wreg' = dropped
        /\ wpc = "load" /\ wpc' = "store"
    BY <1>6 DEF LoadDropped
  <2>2. Given' = Given /\ WorkerAdds' = WorkerAdds
    BY <2>1 DEF Given, EventsWith, WorkerAdds
  <2> QED BY <1>1, <1>2, <2>1, <2>2
<1>7. CASE StoreDropped
  <2>1. /\ UNCHANGED fate /\ dropped' = wreg + Len(sending) /\ wreg' = 0
        /\ wpc = "store" /\ wpc' = "loop"
    BY <1>7 DEF StoreDropped
  <2>2. Given' = Given /\ WorkerAdds = Len(sending) /\ WorkerAdds' = 0
    BY <2>1 DEF Given, EventsWith, WorkerAdds
  <2>3. Len(sending) \in Nat
    BY <1>0
  <2>4. WithinLosses(dropped)' /\ WithinLosses(wreg)' /\ WithinLosses(sreg)'
    BY <1>1, <1>2, <1>t, <2>1, <2>2, <2>3
  <2>5. ~stop => dropped' = Cardinality(Given)
    BY <2>1, <2>2
  <2> QED BY <1>1, <1>t, <2>1, <2>2, <2>4, <2>5
<1> QED BY <1>3, <1>4, <1>5, <1>6, <1>7 DEF Worker

LEMMA StopTally ==
    ASSUME OwnInv, TallyOK, StopBegin \/ Stopper
    PROVE  TallyOK'
<1> USE DEF TallyOK, WithinLosses
<1>0. TypeInv /\ StopOK /\ Own /\ fate \in [Events -> Fates] /\ queue \in Seq(Events)
      /\ batch \in Seq(Events) /\ drained \in Seq(Events)
  BY DEF OwnInv, TypeInv, TypeOK
<1>1. UNCHANGED <<wpc, sending, wreg, WorkerAdds>> /\ stop' = TRUE
  BY <1>0 DEF StopBegin, Stopper, Join, DrainOne, DrainDone, QSize, StopLoad,
     AbandonStore, LastDelivered, LastFailed, LastStore, StopReset, workerVars,
     WorkerAdds, StopOK
<1>t. /\ dropped \in Nat /\ wreg \in Nat /\ sreg \in Nat /\ abandoned \in Nat
      /\ WorkerAdds \in Nat /\ StopAdds \in Nat /\ Cardinality(Given) \in Nat
  BY <1>0, TallyTypes, GivenFinite
<1>2. CASE StopBegin \/ Join \/ DrainOne \/ DrainDone \/ StopReset
  <2>1. UNCHANGED <<fate, dropped, sreg, abandoned>> /\ StopAdds = 0 /\ StopAdds' = 0
    BY <1>2 DEF StopBegin, Join, DrainOne, DrainDone, StopReset, StopAdds
  <2>2. Given' = Given
    BY <2>1 DEF Given, EventsWith
  <2>3. spc' \in {"running", "join", "drain", "qsize"}
          => spc \in {"running", "join", "drain", "qsize"}
    BY <1>2 DEF StopBegin, Join, DrainOne, DrainDone, StopReset
  <2> QED BY <1>1, <2>1, <2>2, <2>3
<1>3. CASE QSize
  <2>1. /\ UNCHANGED <<fate, dropped, sreg>> /\ abandoned' = Len(queue)
        /\ spc = "qsize" /\ abandoned = 0
        /\ spc' = IF queue = <<>> THEN AfterAbandon ELSE "abandonLoad"
    BY <1>3 DEF QSize
  <2>2. Given' = Given /\ StopAdds = 0
    BY <2>1 DEF Given, EventsWith, StopAdds
  <2>3. StopAdds' = abandoned'
    <3>1. CASE queue = <<>>
      BY <2>1, <3>1, EmptySeq DEF StopAdds, AfterAbandon
    <3>2. CASE queue # <<>>
      BY <2>1, <3>2 DEF StopAdds
    <3> QED BY <3>1, <3>2
  <2>4. Len(queue) \in Nat /\ spc' \notin {"running", "join", "drain", "qsize"}
    BY <1>0, <2>1 DEF AfterAbandon
  <2> QED BY <1>0, <1>1, <2>1, <2>2, <2>3, <2>4, TallyTypes, GivenFinite
<1>4. CASE StopLoad
  <2>1. UNCHANGED <<fate, dropped, abandoned>> /\ sreg' = dropped
    BY <1>4 DEF StopLoad
  <2>2. Given' = Given /\ StopAdds' = StopAdds
    BY <1>4 DEF StopLoad, Given, EventsWith, StopAdds, Remaining
  <2>3. spc' \notin {"running", "join", "drain", "qsize"}
    BY <1>4 DEF StopLoad
  <2> QED BY <1>1, <2>1, <2>2, <2>3
<1>5. CASE AbandonStore \/ LastStore
  <2>1. UNCHANGED <<fate, abandoned>> /\ sreg' = 0 /\ dropped' = sreg + StopAdds
    BY <1>5 DEF AbandonStore, LastStore, StopAdds
  <2>2. Given' = Given /\ StopAdds' = 0
    BY <1>5 DEF AbandonStore, LastStore, AfterAbandon, Given, EventsWith, StopAdds
  <2>3. spc' \notin {"running", "join", "drain", "qsize"}
    BY <1>5 DEF AbandonStore, LastStore, AfterAbandon
  <2>4. WithinLosses(dropped)' /\ WithinLosses(wreg)' /\ WithinLosses(sreg)'
    BY <1>1, <1>t, <2>1, <2>2
  <2> QED BY <1>1, <2>3, <2>4
<1>6. CASE LastDelivered \/ LastFailed
  <2>1. UNCHANGED <<dropped, sreg, abandoned, batch, drained>> /\ StopAdds = 0
        /\ spc = "post" /\ spc' \in {"reset", "postLoad"}
    BY <1>6 DEF LastDelivered, LastFailed, StopAdds
  <2>2. /\ Range(Remaining) \subseteq Held /\ Remaining \in Seq(Events)
        /\ Len(Remaining) \in Nat
    BY <1>0, <2>1, PostedAreHeld, ConcatProperties DEF Remaining
  <2>3. CASE LastDelivered
    <3>1. "delivered" \in Fates \ ProcessorLost
      BY DEF Fates, ProcessorLost
    <3>2. Given' = Given
      BY <2>2, <2>3, <3>1, GivenKept DEF LastDelivered, Held
    <3>3. StopAdds' = 0 /\ spc' = "reset"
      BY <2>3 DEF LastDelivered, StopAdds
    <3> QED BY <1>1, <2>1, <3>2, <3>3
  <2>4. CASE LastFailed
    <3>1. IsInjective(Remaining)
      BY <1>0, <2>1, ConcatInjective DEF Remaining, Own, Apart, Buffered, Drained, StopDecided
    <3>2. \E f \in ProcessorLost : Settle(Range(Remaining), f)
      BY <2>4 DEF LastFailed, ProcessorLost
    <3>3. Cardinality(Given') = Cardinality(Given) + Len(Remaining)
      BY <1>0, <2>2, <3>1, <3>2, GivenGrows
    <3>4. StopAdds' = Len(Remaining) /\ spc' = "postLoad"
      BY <2>1, <2>4 DEF LastFailed, StopAdds, Remaining
    <3>5. \A n \in Nat : WithinLosses(n) =>
            n + WorkerAdds' + StopAdds' <= Cardinality(Given') + abandoned'
      <4>1. StopAdds = 0 /\ abandoned' = abandoned /\ WorkerAdds' = WorkerAdds
            /\ Len(Remaining) \in Nat
        BY <1>1, <2>1, <2>2
      <4> QED BY ONLY <1>t, <3>3, <3>4, <4>1 DEF WithinLosses
    <3>6. WithinLosses(dropped)' /\ WithinLosses(wreg)' /\ WithinLosses(sreg)'
      BY <1>1, <1>t, <2>1, <3>5
    <3> QED BY <1>1, <2>1, <3>4, <3>6
  <2> QED BY <1>6, <2>3, <2>4
<1> QED BY <1>2, <1>3, <1>4, <1>5, <1>6 DEF Stopper

LEMMA TallyStep == OwnInv /\ TallyOK /\ [Next]_vars => TallyOK'
<1> SUFFICES ASSUME OwnInv, TallyOK, [Next]_vars PROVE TallyOK'
  OBVIOUS
<1>1. CASE UNCHANGED vars
  <2>1. UNCHANGED <<stop, dropped, wpc, sending, wreg, spc, batch, drained,
                    abandoned, sreg, fate>>
    BY <1>1 DEF vars, workerVars, stopVars
  <2> QED BY <2>1 DEF TallyOK, WithinLosses, WorkerAdds, StopAdds, Remaining,
     Given, EventsWith
<1>2. CASE Next
  BY <1>2, CallerTally, WorkerTally, StopTally DEF Next
<1> QED BY <1>1, <1>2

\* While the processor runs, its dropped_events is exactly what it gave up; after
\* stop() it never says more than was given up or left in the queue, although the
\* worker and stop() may raise it at the same time.
THEOREM ProcessorCountCorrect == Spec => []ProcessorCountHonest
<1>1. Init => TallyOK
  <2> SUFFICES ASSUME Init PROVE TallyOK
    OBVIOUS
  <2>1. Given = {}
    BY DEF Init, Given, EventsWith, ProcessorLost
  <2>2. WorkerAdds = 0 /\ StopAdds = 0 /\ Cardinality(Given) = 0
    BY <2>1, FS_EmptySet DEF Init, WorkerAdds, StopAdds
  <2> QED BY <2>2 DEF Init, TallyOK, WithinLosses
<1>2. OwnInv /\ TallyOK => ProcessorCountHonest
  <2> SUFFICES ASSUME OwnInv, TallyOK PROVE ProcessorCountHonest
    OBVIOUS
  <2>1. ~stop => dropped + (IF wpc \in {"load", "store"} THEN Len(sending) ELSE 0)
                   = Cardinality(EventsWith(ProcessorLost))
    BY DEF TallyOK, WorkerAdds, Given
  <2>2. dropped <= Cardinality(Given) + abandoned
    BY TallyTypes, GivenFinite DEF TallyOK, WithinLosses, OwnInv
  <2> QED BY <2>1, <2>2 DEF ProcessorCountHonest, Given
<1> QED BY <1>1, <1>2, TallyStep, OwnInvariant, PTL DEF Spec

\* Both counters together: callers, worker and stop() raise them without a lock.
THEOREM CountersCorrect == Spec => []CountersHonest
<1>1. HandlerCountHonest /\ ProcessorCountHonest => CountersHonest
  BY DEF CountersHonest
<1> QED BY <1>1, HandlerCountCorrect, ProcessorCountCorrect, PTL

-----------------------------------------------------------------------------
(* EventPipeline implements LossyChannel.  What the channel has in transit   *)
(* is, oldest first: the batch in flight, the buffer, what stop() drained,   *)
(* the queue.  A hand-over from one of these to the next changes nothing; a  *)
(* loss or an arrival takes one of them out of the middle.                   *)

(* Sequences *)

LEMMA Associative ==
    ASSUME NEW s \in Seq(Events), NEW t \in Seq(Events), NEW u \in Seq(Events)
    PROVE  (s \o t) \o u = s \o (t \o u)
BY ConcatAssociative

LEMMA ConcatAppend ==
    ASSUME NEW s \in Seq(Events), NEW t \in Seq(Events), NEW e \in Events
    PROVE  s \o Append(t, e) = Append(s \o t, e)
<1>1. <<e>> \in Seq(Events) /\ s \o t \in Seq(Events)
  BY ConcatProperties
<1>2. Append(t, e) = t \o <<e>> /\ Append(s \o t, e) = (s \o t) \o <<e>>
  BY <1>1, AppendIsConcat
<1> QED BY <1>1, <1>2, Associative

LEMMA HeadThenTail ==
    ASSUME NEW t \in Seq(Events), t # <<>>
    PROVE  t = <<Head(t)>> \o Tail(t) /\ Head(t) \in Events /\ Tail(t) \in Seq(Events)
<1>1. 1 \in 1..Len(t) /\ Len(t) \in 1..Len(t)
  BY EmptySeq
<1>2. SubSeq(t, 1, Len(t)) = <<t[1]>> \o SubSeq(t, 1 + 1, Len(t))
  BY <1>1, SubSeqRecursiveFirst
<1>3. SubSeq(t, 1, Len(t)) = t /\ Tail(t) = SubSeq(t, 1 + 1, Len(t)) /\ Head(t) = t[1]
  BY SubSeqFull, TailIsSubSeq
<1> QED BY <1>2, <1>3, HeadTailProperties

LEMMA MoveHead ==
    ASSUME NEW s \in Seq(Events), NEW t \in Seq(Events), t # <<>>
    PROVE  Append(s, Head(t)) \o Tail(t) = s \o t
<1>1. /\ t = <<Head(t)>> \o Tail(t) /\ Head(t) \in Events /\ Tail(t) \in Seq(Events)
      /\ <<Head(t)>> \in Seq(Events)
  BY HeadThenTail
<1>2. Append(s, Head(t)) = s \o <<Head(t)>>
  BY <1>1, AppendIsConcat
<1>3. (s \o <<Head(t)>>) \o Tail(t) = s \o (<<Head(t)>> \o Tail(t))
  BY <1>1, Associative
<1> QED BY <1>1, <1>2, <1>3

\* The middle part b of a \o b \o c, and what is left without it.
LEMMA Middle ==
    ASSUME NEW a \in Seq(Events), NEW b \in Seq(Events), NEW c \in Seq(Events), b # <<>>
    PROVE  LET s == (a \o b) \o c
               i == Len(a) + 1
               j == Len(a) + Len(b)
           IN  /\ i \in 1..Len(s) /\ j \in 1..Len(s) /\ i <= j
               /\ (i = 1 <=> a = <<>>)
               /\ Channel!Without(s, i, j) = a \o c
<1> DEFINE s == (a \o b) \o c
           i == Len(a) + 1
           j == Len(a) + Len(b)
<1>1. /\ Len(a) \in Nat /\ Len(b) \in Nat \ {0} /\ Len(c) \in Nat
      /\ a \o b \in Seq(Events) /\ Len(a \o b) = j
  BY EmptySeq, LenProperties, ConcatProperties
<1>2. /\ s \in Seq(Events) /\ Len(s) = j + Len(c)
      /\ \A k \in 1..j : s[k] = (a \o b)[k]
  BY <1>1, ConcatProperties
<1>3. i \in 1..Len(s) /\ j \in 1..Len(s) /\ i <= j
  BY <1>1, <1>2
<1>4. i = 1 <=> a = <<>>
  BY <1>1, EmptySeq
<1>5. SubSeq(s, 1, i - 1) = a
  <2>1. SubSeq(s, 1, Len(a)) = SubSeq(a, 1, Len(a))
    <3>1. CASE a = <<>>
      BY <1>1, <3>1, SubSeqEmpty
    <3>2. CASE a # <<>>
      <4>1. Len(a) \in 1..Len(a) /\ 1 \in 1..Len(a) /\ Len(a) \in 1..Len(a \o b) /\ 1 \in 1..Len(a \o b)
        BY <1>1, <3>2, EmptySeq
      <4>2. SubSeq(s, 1, Len(a)) = SubSeq(a \o b, 1, Len(a))
        BY <1>1, <4>1, SubSeqOfConcat1
      <4>3. SubSeq(a \o b, 1, Len(a)) = SubSeq(a, 1, Len(a))
        BY <4>1, SubSeqOfConcat1
      <4> QED BY <4>2, <4>3
    <3> QED BY <3>1, <3>2
  <2>2. SubSeq(a, 1, Len(a)) = a
    BY SubSeqFull
  <2> QED BY <1>1, <2>1, <2>2
<1>6. SubSeq(s, j + 1, Len(s)) = c
  <2>1. CASE c = <<>>
    <3>1. Len(c) = 0
      BY <2>1, EmptySeq
    <3> QED BY <1>1, <1>2, <2>1, <3>1, SubSeqEmpty
  <2>2. CASE c # <<>>
    <3>1. Len(c) \in Nat \ {0}
      BY <2>2, EmptySeq
    <3>2. SubSeq(s, j + 1, j + Len(c)) = SubSeq(c, 1, Len(c))
      <4>1. j + 1 \in Len(a \o b) + 1 .. Len(a \o b) + Len(c)
        BY <1>1, <3>1
      <4>2. j + Len(c) \in Len(a \o b) + 1 .. Len(a \o b) + Len(c)
        BY <1>1, <3>1
      <4>3. SubSeq(s, j + 1, j + Len(c))
              = SubSeq(c, j + 1 - Len(a \o b), j + Len(c) - Len(a \o b))
        BY <1>1, <4>1, <4>2, SubSeqOfConcat2
      <4>4. j + 1 - Len(a \o b) = 1 /\ j + Len(c) - Len(a \o b) = Len(c)
        BY <1>1
      <4> QED BY <4>3, <4>4
    <3> QED BY <1>2, <3>2, SubSeqFull
  <2> QED BY <2>1, <2>2
<1>7. Channel!Without(s, i, j) = a \o c
  BY <1>5, <1>6 DEF Channel!Without
<1> QED BY <1>3, <1>4, <1>7

LEMMA MiddleRange ==
    ASSUME NEW a \in Seq(Events), NEW b \in Seq(Events), NEW c \in Seq(Events)
    PROVE  \A e \in Events :
              (\E k \in (Len(a) + 1)..(Len(a) + Len(b)) : ((a \o b) \o c)[k] = e)
                  <=> e \in Range(b)
<1> DEFINE s == (a \o b) \o c
           i == Len(a) + 1
           j == Len(a) + Len(b)
<1>1. /\ Len(a) \in Nat /\ Len(b) \in Nat /\ Len(c) \in Nat
      /\ a \o b \in Seq(Events) /\ Len(a \o b) = j
  BY LenProperties, ConcatProperties
<1>2. /\ s \in Seq(Events) /\ Len(s) = j + Len(c)
      /\ \A k \in 1..j : s[k] = (a \o b)[k]
  BY <1>1, ConcatProperties
<1>8. ASSUME NEW e \in Events PROVE (\E k \in i..j : s[k] = e) <=> e \in Range(b)
  <2>1. \A k \in i..j : s[k] = b[k - Len(a)] /\ k - Len(a) \in 1..Len(b)
    <3> SUFFICES ASSUME NEW k \in i..j
                 PROVE  s[k] = b[k - Len(a)] /\ k - Len(a) \in 1..Len(b)
      OBVIOUS
    <3>1. k \in 1..j /\ k \in 1..(Len(a) + Len(b)) /\ ~(k <= Len(a))
      BY <1>1
    <3>2. (a \o b)[k] = b[k - Len(a)]
      BY <3>1, ConcatProperties
    <3> QED BY <1>1, <1>2, <3>1, <3>2
  <2>2. \A m \in 1..Len(b) : m + Len(a) \in i..j /\ m + Len(a) - Len(a) = m
    BY <1>1
  <2>3. DOMAIN b = 1..Len(b)
    BY LenProperties
  <2>4. ASSUME NEW k \in i..j, s[k] = e PROVE e \in Range(b)
    BY <2>1, <2>3, <2>4 DEF Range
  <2>5. ASSUME e \in Range(b) PROVE \E k \in i..j : s[k] = e
    <3>1. PICK m \in 1..Len(b) : b[m] = e
      BY <2>3, <2>5 DEF Range
    <3>2. s[m + Len(a)] = b[m] /\ m + Len(a) \in i..j
      BY <2>1, <2>2
    <3> QED BY <3>1, <3>2
  <2> QED BY <2>4, <2>5
<1> QED BY <1>8

-----------------------------------------------------------------------------
(* The channel's steps, in terms of what they are mapped from *)

Accepted == {e \in Events : /\ fate[e] \in {"held", "delivered", "evicted"} \cup ProcessorLost
                            /\ \A p \in Producers : ev[p] # e}
Transit == InFlight \o Buffered \o Drained \o queue

LEMMA ChannelLoses ==
    ASSUME NEW a \in Seq(Events), NEW b \in Seq(Events), NEW c \in Seq(Events),
           b # <<>>, Transit = (a \o b) \o c, Transit' = a \o c,
           UNCHANGED <<Accepted, stored, stop>>
    PROVE  Channel!CNext
<1> DEFINE i == Len(a) + 1
           j == Len(a) + Len(b)
<1>1. /\ i \in 1..Len(Transit) /\ j \in 1..Len(Transit) /\ i <= j
      /\ Channel!Without(Transit, i, j) = a \o c
  BY Middle
<1> HIDE DEF i, j
<1>2. Channel!Lose(i, j)
  BY <1>1 DEF Channel!Lose, Accepted, Transit
<1> QED BY <1>1, <1>2 DEF Channel!CNext, Transit

LEMMA ChannelArrives ==
    ASSUME NEW a \in Seq(Events), NEW b \in Seq(Events), NEW c \in Seq(Events),
           b # <<>>, Transit = (a \o b) \o c, Transit' = Transit \/ Transit' = a \o c,
           a = <<>> \/ stop, Store(Range(b)), UNCHANGED <<Accepted, stop>>
    PROVE  Channel!CNext
<1> DEFINE i == Len(a) + 1
           j == Len(a) + Len(b)
<1>1. /\ i \in 1..Len(Transit) /\ j \in 1..Len(Transit) /\ i <= j
      /\ Channel!Without(Transit, i, j) = a \o c
      /\ (i = 1 <=> a = <<>>)
  BY Middle
<1>m. \A e \in Events : (\E k \in i..j : Transit[k] = e) <=> e \in Range(b)
  <2> DEFINE s == (a \o b) \o c
  <2>1. \A e \in Events : (\E k \in i..j : s[k] = e) <=> e \in Range(b)
    BY ONLY MiddleRange, a \in Seq(Events), b \in Seq(Events), c \in Seq(Events)
  <2>2. Transit = s
    OBVIOUS
  <2> HIDE DEF s
  <2> QED BY <2>1, <2>2
<1> HIDE DEF i, j
<1>2. stored' = Channel!StoredOnceMore(Transit, i, j)
  BY <1>m DEF Channel!StoredOnceMore, Store
<1>3. Channel!Arrive(i, j)
  BY <1>1, <1>2 DEF Channel!Arrive, Accepted, Transit
<1> QED BY <1>1, <1>3 DEF Channel!CNext, Transit

ChannelStep == Channel!CNext \/ UNCHANGED <<Accepted, Transit, stored, stop>>

\* The parts of Transit, and the ways to put them together.
LEMMA TransitParts ==
    ASSUME TypeInv
    PROVE  /\ InFlight \in Seq(Events) /\ Buffered \in Seq(Events)
           /\ Drained \in Seq(Events) /\ queue \in Seq(Events)
           /\ InFlight \o Buffered \in Seq(Events)
           /\ InFlight \o Buffered \o Drained \in Seq(Events)
           /\ Transit \in Seq(Events)
           /\ Buffered \o (Drained \o queue) \in Seq(Events)
           /\ Transit = InFlight \o (Buffered \o (Drained \o queue))
<1>1. /\ InFlight \in Seq(Events) /\ Buffered \in Seq(Events)
      /\ Drained \in Seq(Events) /\ queue \in Seq(Events)
  BY OwnTypes DEF TypeInv, TypeOK
<1>2. /\ InFlight \o Buffered \in Seq(Events) /\ Drained \o queue \in Seq(Events)
  BY <1>1, ConcatProperties
<1>3. /\ InFlight \o Buffered \o Drained \in Seq(Events)
      /\ Buffered \o (Drained \o queue) \in Seq(Events)
  BY <1>1, <1>2, ConcatProperties
<1>4. Transit = (InFlight \o Buffered) \o (Drained \o queue)
  <2> DEFINE front == InFlight \o Buffered
  <2>1. /\ front \in Seq(Events) /\ Drained \in Seq(Events) /\ queue \in Seq(Events)
        /\ Transit = (front \o Drained) \o queue
    BY <1>1, <1>2 DEF Transit
  <2> HIDE DEF front
  <2>2. (front \o Drained) \o queue = front \o (Drained \o queue)
    BY ONLY <2>1, Associative
  <2> QED BY <2>1, <2>2 DEF front
<1>5. (InFlight \o Buffered) \o (Drained \o queue) = InFlight \o (Buffered \o (Drained \o queue))
  <2> DEFINE back == Drained \o queue
  <2>1. /\ InFlight \in Seq(Events) /\ Buffered \in Seq(Events) /\ back \in Seq(Events)
    BY <1>1, <1>2
  <2> HIDE DEF back
  <2>2. (InFlight \o Buffered) \o back = InFlight \o (Buffered \o back)
    BY ONLY <2>1, Associative
  <2> QED BY <2>2 DEF back
<1>6. Transit \in Seq(Events)
  BY <1>1, <1>3, ConcatProperties DEF Transit
<1> QED BY <1>1, <1>2, <1>3, <1>4, <1>5, <1>6

-----------------------------------------------------------------------------
(* The callers *)

LEMMA CallerImplements ==
    ASSUME OwnInv, OwnInv', NEW p \in Producers, SendEvent(p) \/ Enqueue(p)
    PROVE  ChannelStep
<1>0. /\ TypeInv /\ CallerOK /\ Own /\ fate \in [Events -> Fates] /\ queue \in Seq(Events)
      /\ ev \in [Producers -> Events \cup {NoEvent}]
  BY DEF OwnInv, TypeInv, TypeOK
<1>1. UNCHANGED <<stored, stop, InFlight, Buffered, Drained>>
  BY CallerKeeps DEF InFlight, Buffered, Drained, StopDecided
<1>2. CASE SendEvent(p)
  <2>1. PICK e \in Events : SampleOut(p, e) \/ FilterOut(p, e) \/ ScrubRefuse(p, e) \/ Offer(p, e)
    BY <1>2 DEF SendEvent
  <2>2. UNCHANGED Transit
    BY <1>1, <2>1 DEF Transit, SampleOut, FilterOut, Withhold, ScrubRefuse, Offer, queueVars
  <2>3. CASE Offer(p, e)
    <3>1. /\ fate[e] = "new" /\ ev[p] = NoEvent /\ ev' = [ev EXCEPT ![p] = e]
          /\ fate' = [x \in Events |-> IF x \in {e} THEN "held" ELSE fate[x]]
      BY <1>0, <2>3 DEF Offer, Settle, CallerOK
    <3>2. ev'[p] = e /\ \A q \in Producers \ {p} : ev'[q] = ev[q]
      BY <1>0, <3>1
    <3>3. Accepted' = Accepted
      BY <3>1, <3>2 DEF Accepted, ProcessorLost
    <3> QED BY <1>1, <2>2, <3>3 DEF ChannelStep
  <2>4. CASE SampleOut(p, e) \/ FilterOut(p, e) \/ ScrubRefuse(p, e)
    <3>1. /\ UNCHANGED ev /\ fate[e] = "new"
          /\ \A x \in Events : x # e => fate'[x] = fate[x]
          /\ fate'[e] \in {"sampled", "filtered", "unscrubbable"}
      BY <1>0, <2>4 DEF SampleOut, FilterOut, Withhold, ScrubRefuse, Settle, producerVars
    <3>2. Accepted' = Accepted
      BY <3>1 DEF Accepted, ProcessorLost
    <3> QED BY <1>1, <2>2, <3>2 DEF ChannelStep
  <2> QED BY <2>1, <2>3, <2>4
<1>3. CASE Put(p)
  <2>1. /\ ev[p] \in Events /\ ev[p] # NoEvent /\ ev' = [ev EXCEPT ![p] = NoEvent]
        /\ queue' = Append(queue, ev[p]) /\ UNCHANGED fate
    BY <1>0, <1>3 DEF Put, CallerOK
  <2>2. Transit' = Append(Transit, ev[p])
    <3> DEFINE front == InFlight \o Buffered \o Drained
    <3>1. front \in Seq(Events)
      BY <1>0, TransitParts
    <3>2. Transit = front \o queue /\ Transit' = front \o queue'
      BY <1>1 DEF Transit
    <3> HIDE DEF front
    <3>3. front \o Append(queue, ev[p]) = Append(front \o queue, ev[p])
      BY <1>0, <2>1, <3>1, ConcatAppend
    <3> QED BY <2>1, <3>2, <3>3
  <2>3. fate[ev[p]] = "held" /\ ev[p] \notin Accepted
    BY <1>0, <2>1 DEF Own, Hands, Held, Accepted
  <2>4. \A q \in Producers : ev'[q] = IF q = p THEN NoEvent ELSE ev[q]
    BY <1>0, <2>1
  <2>5. Accepted' = Accepted \cup {ev[p]}
    <3>1. ASSUME NEW x \in Events, x # ev[p] PROVE x \in Accepted' <=> x \in Accepted
      BY <2>1, <2>4, <3>1 DEF Accepted
    <3>2. \A q \in Producers : ev'[q] # ev[p]
      BY <1>0, <2>1, <2>4 DEF Own, HandsApart
    <3>3. ev[p] \in Accepted'
      BY <2>1, <2>3, <3>2 DEF Accepted
    <3>4. Accepted \subseteq Events /\ Accepted' \subseteq Events
      BY DEF Accepted
    <3> QED BY <2>1, <3>1, <3>3, <3>4
  <2>6. \E e \in Events :
          /\ e \notin Accepted /\ Accepted' = Accepted \cup {e}
          /\ Transit' = Append(Transit, e) /\ UNCHANGED <<stored, stop>>
    BY <1>1, <2>1, <2>2, <2>3, <2>5
  <2>7. \E e \in Events : Channel!Accept(e)
    BY <2>6 DEF Channel!Accept, Accepted, Transit
  <2> QED BY <2>7 DEF ChannelStep, Channel!CNext
<1>4. CASE Evict(p)
  <2> DEFINE front == InFlight \o Buffered \o Drained
             first == <<Head(queue)>>
             rest == Tail(queue)
  <2>1. /\ queue # <<>> /\ queue' = rest /\ UNCHANGED ev
        /\ Settle({Head(queue)}, "evicted")
    BY <1>4 DEF Evict
  <2>2. Head(queue) \in Held
    BY <1>0, <2>1, TailFacts DEF Own
  <2>3. UNCHANGED Accepted
    BY <2>1, <2>2 DEF Settle, Held, Accepted
  <2>4. /\ queue = first \o rest /\ first \in Seq(Events) /\ rest \in Seq(Events)
        /\ first # <<>>
    BY <1>0, <2>1, HeadThenTail
  <2>5. front \in Seq(Events)
    BY <1>0, TransitParts
  <2>6. Transit = front \o queue /\ Transit' = front \o rest
    BY <1>1, <2>1 DEF Transit
  <2> HIDE DEF front, first, rest
  <2>7. Transit = (front \o first) \o rest
    <3>1. (front \o first) \o rest = front \o (first \o rest)
      BY ONLY <2>4, <2>5, Associative
    <3> QED BY <2>4, <2>6, <3>1
  <2> QED BY <1>1, <2>3, <2>4, <2>5, <2>6, <2>7, ChannelLoses DEF ChannelStep
<1>5. CASE Refuse(p)
  <2>1. /\ ev[p] \in Events /\ ev[p] # NoEvent /\ ev' = [ev EXCEPT ![p] = NoEvent]
        /\ Settle({ev[p]}, "refused") /\ UNCHANGED queue
    BY <1>0, <1>5 DEF Refuse, CallerOK, queueVars
  <2>2. \A q \in Producers : ev'[q] = IF q = p THEN NoEvent ELSE ev[q]
    BY <1>0, <2>1
  <2>3. UNCHANGED Accepted
    BY <1>0, <2>1, <2>2 DEF Accepted, Settle, ProcessorLost
  <2> QED BY <1>1, <2>1, <2>3 DEF ChannelStep, Transit
<1>6. CASE PutFull(p) \/ EvictEmpty(p) \/ LoadCounter(p) \/ StoreCounter(p)
  <2>1. UNCHANGED <<ev, queue, fate>>
    BY <1>6 DEF PutFull, EvictEmpty, LoadCounter, StoreCounter, queueVars
  <2> QED BY <1>1, <2>1 DEF ChannelStep, Accepted, Transit
<1> QED BY <1>2, <1>3, <1>4, <1>5, <1>6 DEF Enqueue

-----------------------------------------------------------------------------
(* The worker and stop().  A batch that is sent is never empty. *)

PostOK == spc = "post" => Remaining # <<>>

LEMMA ProcessorKeeps ==
    ASSUME StartWorker \/ Worker \/ StopBegin \/ Stopper
    PROVE  UNCHANGED <<ev, counts>>
BY DEF StartWorker, Worker, LoopTest, GetEvent, GetTimeout, Keep, Flush, Post,
   PostDelivered, PostRejected, PostRetry, BackoffOver, BackoffInterrupted,
   LoadDropped, StoreDropped, StopBegin, Stopper, Join, DrainOne, DrainDone,
   QSize, StopLoad, AbandonStore, LastDelivered, LastFailed, LastStore,
   StopReset, queueVars, producerVars

LEMMA PostOKStep == OwnInv /\ PostOK /\ [Next]_vars => PostOK'
<1> SUFFICES ASSUME OwnInv, PostOK, [Next]_vars PROVE PostOK'
  OBVIOUS
<1>1. CASE UNCHANGED vars
  BY <1>1 DEF vars, stopVars, PostOK, Remaining
<1>2. CASE \E p \in Producers : SendEvent(p) \/ Enqueue(p)
  BY <1>2, CallerKeeps DEF PostOK, Remaining
<1>3. CASE StartWorker \/ Worker
  <2>1. UNCHANGED <<spc, drained>> /\ (wpc \in {"get", "test"} \/ UNCHANGED batch)
    BY <1>3 DEF StartWorker, Worker, LoopTest, GetEvent, GetTimeout, Keep, Flush,
       Post, PostDelivered, PostRejected, PostRetry, BackoffOver,
       BackoffInterrupted, LoadDropped, StoreDropped, stopVars
  <2> QED BY <2>1 DEF PostOK, Remaining, OwnInv, StopOK
<1>4. CASE StopBegin \/ Stopper
  BY <1>4 DEF StopBegin, Stopper, Join, DrainOne, DrainDone, QSize, StopLoad,
     AbandonStore, AfterAbandon, LastDelivered, LastFailed, LastStore, StopReset,
     PostOK, Remaining
<1> QED BY <1>1, <1>2, <1>3, <1>4 DEF Next

LEMMA ProcessorAccepts ==
    ASSUME OwnInv, StartWorker \/ Worker \/ StopBegin \/ Stopper
    PROVE  Accepted' = Accepted
<1>1. \A e \in Events : fate'[e] = fate[e] \/ (fate[e] = "held" /\ fate'[e] \in ProcessorFates)
  BY ProcessorStepSettles
<1> QED BY <1>1, ProcessorKeeps DEF Accepted, ProcessorFates

LEMMA WorkerImplements ==
    ASSUME OwnInv, RoomOK, StartWorker \/ Worker
    PROVE  ChannelStep
<1>0. TypeInv /\ StopOK /\ Own /\ queue \in Seq(Events) /\ batch \in Seq(Events)
      /\ sending \in Seq(Events) /\ <<>> \in Seq(Events)
  BY EmptySeq DEF OwnInv, TypeInv, TypeOK
<1>1. UNCHANGED <<Accepted, stop, spc, drained, Drained>>
  BY ProcessorAccepts DEF StartWorker, Worker, LoopTest, GetEvent, GetTimeout,
     Keep, Flush, Post, PostDelivered, PostRejected, PostRetry, BackoffOver,
     BackoffInterrupted, LoadDropped, StoreDropped, stopVars, Drained, StopDecided
<1>2. CASE StartWorker \/ LoopTest \/ GetTimeout \/ Keep \/ BackoffOver
           \/ LoadDropped \/ StoreDropped
  <2>1. UNCHANGED <<queue, stored, InFlight, Buffered>>
    BY <1>1, <1>2 DEF StartWorker, LoopTest, GetTimeout, Keep, BackoffOver,
       LoadDropped, StoreDropped, queueVars, InFlight, Buffered, StopDecided
  <2> QED BY <1>1, <2>1 DEF ChannelStep, Transit
<1>3. CASE GetEvent \/ Flush
  <2>1. /\ wpc \in {"get", "test"} /\ UNCHANGED stored
        /\ ~StopDecided /\ ~StopDecided' /\ Drained = <<>>
        /\ InFlight = <<>> /\ Buffered = batch /\ Buffered' = batch'
    BY <1>0, <1>1, <1>3 DEF GetEvent, Flush, StopOK, StopDecided, InFlight,
       Buffered, Drained
  <2>2. Transit = batch \o queue
    BY <1>0, <2>1, ConcatEmptySeq DEF Transit
  <2>3. CASE GetEvent
    <3>1. /\ queue # <<>> /\ queue' = Tail(queue) /\ batch' = Append(batch, Head(queue))
          /\ InFlight' = <<>> /\ batch' \in Seq(Events)
      BY <1>0, <2>3, HeadThenTail DEF GetEvent, InFlight
    <3>2. Transit' = batch' \o queue'
      BY <1>1, <2>1, <3>1, ConcatEmptySeq DEF Transit
    <3>3. batch' \o queue' = batch \o queue
      BY <1>0, <3>1, MoveHead
    <3> QED BY <1>1, <2>1, <2>2, <3>2, <3>3 DEF ChannelStep
  <2>4. CASE Flush
    <3>1. /\ batch # <<>> /\ batch' = <<>> /\ sending' = batch /\ UNCHANGED queue
      BY <2>4 DEF Flush, queueVars
    <3>2. CASE MaxRetry = 0
      <4>1. InFlight' = <<>>
        BY <2>4, <3>2 DEF Flush, InFlight
      <4>2. Transit = (<<>> \o batch) \o queue /\ Transit' = <<>> \o queue
        BY <1>0, <1>1, <2>1, <2>2, <3>1, <4>1, ConcatEmptySeq DEF Transit
      <4> QED BY <1>0, <1>1, <2>1, <3>1, <4>2, ChannelLoses DEF ChannelStep
    <3>3. CASE MaxRetry # 0
      <4>1. InFlight' = batch
        BY <2>4, <3>1, <3>3 DEF Flush, InFlight
      <4>2. Transit' = batch \o queue
        BY <1>0, <1>1, <2>1, <3>1, <4>1, ConcatEmptySeq DEF Transit
      <4> QED BY <1>1, <2>1, <2>2, <4>2 DEF ChannelStep
    <3> QED BY <3>2, <3>3
  <2> QED BY <1>3, <2>3, <2>4
<1>4. CASE Post \/ BackoffInterrupted
  <2> DEFINE rest == Buffered \o (Drained \o queue)
  <2>1. /\ InFlight = sending /\ sending # <<>> /\ UNCHANGED <<queue, batch, Buffered>>
        /\ InFlight' \in {sending, <<>>}
    BY <1>1, <1>4 DEF Post, PostDelivered, PostRejected, PostRetry,
       BackoffInterrupted, InFlight, RoomOK, queueVars, Buffered, StopDecided
  <2>2. rest \in Seq(Events) /\ Transit = sending \o rest /\ <<>> \o sending = sending
        /\ <<>> \o rest = rest
    BY <1>0, <2>1, TransitParts, ConcatEmptySeq
  <2>3. Transit = (<<>> \o sending) \o rest
    BY <2>2
  <2>4. InFlight' = <<>> => Transit' = <<>> \o rest
    <3>1. ASSUME InFlight' = <<>> PROVE Transit' = (Buffered \o Drained) \o queue
      BY <1>0, <1>1, <2>1, <3>1, TransitParts, ConcatEmptySeq DEF Transit
    <3>2. Buffered \in Seq(Events) /\ Drained \in Seq(Events) /\ queue \in Seq(Events)
      BY <1>0, TransitParts
    <3> HIDE DEF rest
    <3>3. (Buffered \o Drained) \o queue = Buffered \o (Drained \o queue)
      BY ONLY <3>2, Associative
    <3>4. rest = Buffered \o (Drained \o queue)
      BY DEF rest
    <3> QED BY <2>2, <3>1, <3>3, <3>4
  <2>5. InFlight' = sending => Transit' = Transit
    BY <1>1, <2>1 DEF Transit
  <2> HIDE DEF rest
  <2>6. CASE Store(Range(sending))
    BY <1>0, <1>1, <2>1, <2>2, <2>3, <2>4, <2>5, <2>6, ChannelArrives DEF ChannelStep
  <2>7. CASE UNCHANGED stored
    <3>1. CASE InFlight' = <<>>
      BY <1>0, <1>1, <2>1, <2>2, <2>3, <2>4, <2>7, <3>1, ChannelLoses DEF ChannelStep
    <3>2. CASE InFlight' = sending
      BY <1>1, <2>5, <2>7, <3>2 DEF ChannelStep
    <3> QED BY <2>1, <3>1, <3>2
  <2> QED BY <1>4, <2>6, <2>7 DEF Post, PostDelivered, PostRejected, PostRetry,
     BackoffInterrupted
<1> QED BY <1>2, <1>3, <1>4 DEF Worker

LEMMA StopImplements ==
    ASSUME OwnInv, PostOK, StopBegin \/ Stopper
    PROVE  ChannelStep
<1>0. TypeInv /\ StopOK /\ Own /\ queue \in Seq(Events) /\ batch \in Seq(Events)
      /\ drained \in Seq(Events) /\ <<>> \in Seq(Events)
  BY EmptySeq DEF OwnInv, TypeInv, TypeOK
<1>1. UNCHANGED <<Accepted, InFlight>>
  BY ProcessorAccepts DEF StopBegin, Stopper, Join, DrainOne, DrainDone, QSize,
     StopLoad, AbandonStore, LastDelivered, LastFailed, LastStore, StopReset,
     workerVars, InFlight
<1>2. CASE StopBegin
  <2>1. UNCHANGED <<queue, stored, Buffered, Drained>> /\ stop' = TRUE
    BY <1>2 DEF StopBegin, queueVars, Buffered, Drained, StopDecided
  <2>2. Channel!Close
    BY <1>1, <2>1 DEF Channel!Close, Accepted, Transit
  <2> QED BY <2>2 DEF ChannelStep, Channel!CNext
<1>3. CASE DrainOne
  <2> DEFINE front == InFlight \o Buffered
  <2>1. /\ queue # <<>> /\ queue' = Tail(queue) /\ drained' = Append(drained, Head(queue))
        /\ UNCHANGED <<stored, stop, batch>> /\ spc = "drain" /\ spc' = "drain"
    BY <1>3 DEF DrainOne
  <2>2. /\ Drained = drained /\ Drained' = drained' /\ Buffered' = Buffered
        /\ front' = front
    BY <1>1, <2>1 DEF Drained, Buffered, StopDecided
  <2>3. front \in Seq(Events) /\ front \o drained \in Seq(Events) /\ Head(queue) \in Events
    BY <1>0, <2>1, <2>2, TransitParts, HeadThenTail
  <2>4. Transit = (front \o drained) \o queue
        /\ Transit' = (front \o drained') \o queue'
    BY <2>1, <2>2 DEF Transit
  <2>5. front \o drained' = Append(front \o drained, Head(queue))
    BY <1>0, <2>1, <2>3, ConcatAppend
  <2>6. Append(front \o drained, Head(queue)) \o Tail(queue) = (front \o drained) \o queue
    BY <1>0, <2>1, <2>3, MoveHead
  <2>7. Transit' = Transit
    BY <2>1, <2>4, <2>5, <2>6
  <2> QED BY <1>1, <2>1, <2>7 DEF ChannelStep
<1>4. CASE LastDelivered \/ LastFailed
  <2>1. /\ spc = "post" /\ UNCHANGED <<queue, stop>> /\ spc' \in {"reset", "postLoad"}
        /\ stop /\ Remaining # <<>> /\ (Store(Range(Remaining)) \/ UNCHANGED stored)
    BY <1>0, <1>4 DEF LastDelivered, LastFailed, queueVars, StopOK, PostOK
  <2>2. Buffered = batch /\ Drained = drained /\ Buffered' = <<>> /\ Drained' = <<>>
    BY <2>1 DEF Buffered, Drained, StopDecided
  <2>3. InFlight \in Seq(Events) /\ Remaining \in Seq(Events)
    BY <1>0, TransitParts, ConcatProperties DEF Remaining
  <2>4. Transit = (InFlight \o Remaining) \o queue
    <3>1. InFlight \in Seq(Events) /\ batch \in Seq(Events) /\ drained \in Seq(Events)
      BY <1>0, <2>3
    <3>2. (InFlight \o batch) \o drained = InFlight \o (batch \o drained)
      BY ONLY <3>1, Associative
    <3> QED BY <2>2, <3>2 DEF Transit, Remaining
  <2>5. Transit' = InFlight \o queue
    BY <1>1, <2>1, <2>2, <2>3, ConcatEmptySeq DEF Transit
  <2>6. CASE Store(Range(Remaining))
    BY <1>0, <1>1, <2>1, <2>3, <2>4, <2>5, <2>6, ChannelArrives DEF ChannelStep
  <2>7. CASE UNCHANGED stored
    BY <1>0, <1>1, <2>1, <2>3, <2>4, <2>5, <2>7, ChannelLoses DEF ChannelStep
  <2> QED BY <2>1, <2>6, <2>7
<1>5. CASE Join \/ DrainDone \/ QSize \/ StopLoad \/ AbandonStore \/ LastStore \/ StopReset
  <2>1. UNCHANGED <<queue, stored, stop>>
    BY <1>5 DEF Join, DrainDone, QSize, StopLoad, AbandonStore, LastStore,
       StopReset, queueVars
  <2>2. UNCHANGED <<Buffered, Drained>>
    <3>1. CASE Join \/ DrainDone \/ StopLoad \/ LastStore \/ StopReset
      BY <3>1 DEF Join, DrainDone, StopLoad, LastStore, StopReset, Buffered,
         Drained, StopDecided
    <3>2. CASE QSize \/ AbandonStore
      <4>1. UNCHANGED <<batch, drained>> /\ ~StopDecided
            /\ (StopDecided' => Remaining = <<>>)
        BY <3>2 DEF QSize, AbandonStore, AfterAbandon, StopDecided
      <4>2. Remaining = <<>> => batch = <<>> /\ drained = <<>>
        BY <1>0, ConcatEqualIffEmpty DEF Remaining
      <4> QED BY <4>1, <4>2 DEF Buffered, Drained
    <3> QED BY <1>5, <3>1, <3>2
  <2> QED BY <1>1, <2>1, <2>2 DEF ChannelStep, Transit
<1> QED BY <1>2, <1>3, <1>4, <1>5 DEF Stopper

-----------------------------------------------------------------------------
LEMMA NextImplements ==
    OwnInv /\ OwnInv' /\ RoomOK /\ PostOK /\ [Next]_vars => [Channel!CNext]_(Channel!cvars)
<1> SUFFICES ASSUME OwnInv, OwnInv', RoomOK, PostOK, [Next]_vars
             PROVE  ChannelStep
  BY DEF ChannelStep, Channel!cvars, Accepted, Transit
<1>1. CASE UNCHANGED vars
  BY <1>1 DEF vars, queueVars, producerVars, workerVars, stopVars, ChannelStep,
     Accepted, Transit, InFlight, Buffered, Drained, StopDecided
<1>2. CASE Next
  BY <1>2, CallerImplements, WorkerImplements, StopImplements DEF Next
<1> QED BY <1>1, <1>2

\* For any number of threads and events and any bounds, the event path keeps the
\* order of acceptance, loses only runs of neighbours, and never resends what it
\* is done with.
THEOREM PipelineImplementsChannel == Spec => ImplementsChannel
<1>1. Init => Channel!CInit
  BY EmptyFacts DEF Init, Channel!CInit, InFlight, Buffered, Drained, StopDecided,
     ProcessorLost
<1>2. Init => RoomOK /\ PostOK
  BY EmptySeq DEF Init, RoomOK, PostOK
<1>3. OwnInv /\ RoomOK /\ [Next]_vars => RoomOK'
  BY RoomStep DEF OwnInv
<1> QED BY <1>1, <1>2, <1>3, PostOKStep, NextOwn, OwnInvariant, NextImplements, PTL
        DEF Spec, ImplementsChannel, Channel!CSpec
=============================================================================
