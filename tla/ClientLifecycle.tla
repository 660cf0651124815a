--------------------------- MODULE ClientLifecycle ---------------------------
(***************************************************************************)
(* SecployClient.start and stop (client.py): the parts of the client are   *)
(* started and stopped one after the other by the application's thread,    *)
(* while the bootstrap thread of the policy fetches and then opens its     *)
(* real-time channel, and the workers - the event processor's, the scan    *)
(* poller, the identity loop and the refresh of the configs - are in the   *)
(* middle of requests that last longer than stop() waits for them.         *)
(* A part is atomic here unless one of its threads can outlive its stop:   *)
(* the insides of a channel are RealtimeChannel's matter, what the workers *)
(* do EventPipeline's, DependencyScan's, IdentityReporter's and            *)
(* ConfigManager's.  The metrics' thread makes no request and is waited    *)
(* for as long as its interval and 2 s more.                               *)
(***************************************************************************)
EXTENDS Naturals, Sequences, FiniteSets

CONSTANTS
    None,
    MaxThreads,     \* bound: bootstrap threads made, and workers of each kind
    MaxStarts       \* bound: calls of start()

ASSUME LifecycleAssumption ==
    /\ MaxStarts \in Nat /\ MaxThreads \in Nat
    /\ None \notin Nat /\ None \notin {"stopped", "raised"}
    /\ None \notin {"start", "stop"} \X Nat

VARIABLES
    options,        \* [cached: gate_mode is cached or shadow, realtime]
    app,            \* <<"start" or "stop", the part it is at>>, or None
    starts,         \* calls of start() so far
    outcome,        \* how the last call of stop() ended
    running,        \* the atomic parts that run
    configs,        \* the channel of the configs: "none", "running", or "dead": its
                    \* stop() raised, its threads are to end, the reference stayed
    boot,           \* Threads -> where a bootstrap thread is
    channel,        \* Threads -> the policy channel that thread made
    policy,         \* security_policy._realtime: whose channel
    thread,         \* Workers -> the thread that is known: _thread, _scan_request_thread, ...
    worker,         \* Workers -> Threads -> where that thread is
    stopEvent,      \* Workers -> its stop event: _stop_event, _scan_request_stop, ...
    past            \* history: what has happened that a property excepts, of Mishaps

policyVars == <<boot, channel, policy>>
workerVars == <<thread, worker, stopEvent>>
vars == <<options, app, starts, outcome, running, configs, policyVars, workerVars, past>>

\* The policy's channel was asked to stop, or another start() begun, before a bootstrap
\* thread had come to its end; a worker was in a request for longer than stop()
\* waited; the stop() of a channel raised (see RealtimeChannel).
Mishaps == {"late", "overlap", "slow", "raised"}
Remember(mishaps) == past' = past \cup mishaps

\* Parts that send events of their own accord.
Emitters == {"metrics", "requests", "httpx", "logs"}
Workers == {"processor", "scan", "identities", "refresh"}

Threads == 1..MaxThreads    \* in the order in which they are made

-----------------------------------------------------------------------------
(* The order of start() and of stop() *)

StartOrder ==
    <<"processor", "metrics", "requests", "httpx", "scan">>
    \o (IF options.cached THEN <<"bootstrap", "identities">> ELSE <<>>)
    \o (IF options.realtime THEN <<"configs">> ELSE <<>>)

\* Fault: a refresh the application has begun is forgotten.
StopOrderShort ==
    <<"metrics", "configs", "policy", "policy_reset", "identities", "scan",
      "logs", "httpx", "requests", "processor">>

StopOrder ==
    <<"metrics", "configs", "policy", "policy_reset", "identities", "scan",
      "refresh", "logs", "httpx", "requests", "processor">>

Order == IF app[1] = "start" THEN StartOrder ELSE StopOrder
At(op, part) == app # None /\ app[1] = op /\ Order[app[2]] = part

\* The call goes on to the next part, or returns.
Proceed ==
    IF app[2] < Len(Order)
    THEN app' = <<app[1], app[2] + 1>> /\ UNCHANGED outcome
    ELSE app' = None /\ outcome' = IF app[1] = "stop" THEN "stopped" ELSE outcome

Init ==                                     \* __init__, which calls start()
    /\ options \in [cached : BOOLEAN, realtime : BOOLEAN] /\ past = {}
    /\ app = <<"start", 1>> /\ starts = 1 /\ outcome = None
    /\ running = {} /\ configs = "none"
    /\ boot = [t \in Threads |-> "off"] /\ channel = [t \in Threads |-> "none"]
    /\ policy = None
    /\ thread = [w \in Workers |-> None] /\ stopEvent = [w \in Workers |-> FALSE]
    /\ worker = [w \in Workers |-> [t \in Threads |-> "off"]]

\* The thread that is made next.
Fresh(state) == {t \in Threads : state[t] = "off" /\ \A u \in 1..(t - 1) : state[u] # "off"}

Booting == \E t \in Threads : boot[t] \notin {"off", "done"}
If(condition, mishap) == IF condition THEN {mishap} ELSE {}

Start ==
    /\ app = None /\ starts < MaxStarts /\ Remember(If(Booting, "overlap"))
    /\ app' = <<"start", 1>> /\ starts' = starts + 1 /\ outcome' = None
    /\ UNCHANGED <<options, running, configs, policyVars, workerVars>>

Stop ==
    /\ app = None /\ outcome # "stopped"
    /\ app' = <<"stop", 1>> /\ outcome' = None
    /\ UNCHANGED <<options, past, starts, running, configs, policyVars, workerVars>>

TakeLogs ==                              \* the application does
    /\ app = None /\ outcome = None /\ "logs" \notin running
    /\ running' = running \cup {"logs"}
    /\ UNCHANGED <<options, past, app, starts, outcome, configs, policyVars, workerVars>>

\* A part that starts and stops in one step; starting one that runs does nothing.
StartPart(part) ==
    /\ At("start", part) /\ Proceed
    /\ running' = running \cup {part}
    /\ UNCHANGED <<options, past, starts, configs, policyVars, workerVars>>

StopPart(part) ==
    /\ At("stop", part) /\ Proceed
    /\ running' = running \ {part}
    /\ UNCHANGED <<options, past, starts, configs, policyVars, workerVars>>

-----------------------------------------------------------------------------
(* The configs' channel *)

\* ConfigManager.start_realtime does nothing while there is a reference.
StartConfigs ==
    /\ At("start", "configs") /\ Proceed
    /\ configs' = IF configs = "none" THEN "running" ELSE configs
    /\ UNCHANGED <<options, past, starts, running, policyVars, workerVars>>

StopConfigs ==
    /\ At("stop", "configs") /\ Proceed /\ configs' = "none"
    /\ UNCHANGED <<options, past, starts, running, policyVars, workerVars>>

\* What stop() raises ends the client's stop() as well, at the configs or the policy.
StopRaises(part) ==
    /\ At("stop", part) /\ Remember({"raised"})
    /\ IF part = "configs" THEN configs = "running" ELSE policy # None
    /\ app' = None /\ outcome' = "raised"
    /\ configs' = IF part = "configs" THEN "dead" ELSE configs
    /\ channel' = IF part = "configs" THEN channel ELSE [channel EXCEPT ![policy] = "stopped"]
    /\ UNCHANGED <<options, starts, running, boot, policy, workerVars>>

-----------------------------------------------------------------------------
(* The policy: the bootstrap thread and the channel it opens *)

StartBootstrap ==
    /\ At("start", "bootstrap") /\ Proceed
    /\ \E t \in Fresh(boot) : boot' = [boot EXCEPT ![t] = "fetch"]
    /\ UNCHANGED <<options, past, starts, running, configs, channel, policy, workerVars>>

Step(t, from, to) == boot[t] = from /\ boot' = [boot EXCEPT ![t] = to]
BootOnly == UNCHANGED <<options, past, app, starts, outcome, running, configs, workerVars>>

Fetched(t) ==                               \* or failed
    /\ Step(t, "fetch", IF options.realtime THEN "test" ELSE "done")
    /\ UNCHANGED <<channel, policy>> /\ BootOnly

\* start_realtime: return if there is a channel, make one, start it.
Test(t) ==
    /\ Step(t, "test", IF policy = None THEN "assign" ELSE "done")
    /\ UNCHANGED <<channel, policy>> /\ BootOnly

Assign(t) ==
    /\ Step(t, "assign", "start")
    /\ channel' = [channel EXCEPT ![t] = "made"] /\ policy' = t /\ BootOnly

\* self._realtime.start(): of whatever channel is there; without one it raises, and
\* the bootstrap says so and ends.
Open(t) ==
    /\ Step(t, "start", "done")
    /\ channel' = IF policy = None THEN channel ELSE [channel EXCEPT ![policy] = "running"]
    /\ UNCHANGED policy /\ BootOnly

\* stop_realtime: stop the channel, then forget it.
StopPolicy ==
    /\ At("stop", "policy") /\ Proceed /\ Remember(If(Booting, "late"))
    /\ channel' = IF policy = None THEN channel ELSE [channel EXCEPT ![policy] = "stopped"]
    /\ UNCHANGED <<options, starts, running, configs, boot, policy, workerVars>>

ResetPolicy ==
    /\ At("stop", "policy_reset") /\ Proceed /\ policy' = None
    /\ UNCHANGED <<options, past, starts, running, configs, boot, channel, workerVars>>

-----------------------------------------------------------------------------
(* The workers.  All are started and stopped in the same way, but that the    *)
(* application starts the refresh, and that stop_refresh keeps the reference. *)

Live(w, t) == worker[w][t] = "live"
Known(w) == \E t \in Threads : t = thread[w] /\ Live(w, t)

Begin(w) ==
    /\ stopEvent' = [stopEvent EXCEPT ![w] = FALSE]
    /\ \E t \in Fresh(worker[w]) : /\ thread' = [thread EXCEPT ![w] = t]
                                  /\ worker' = [worker EXCEPT ![w][t] = "live"]

\* Fault: a worker that lives is no reason not to start one.
StartAlways(w) ==
    /\ At("start", w) /\ Proceed /\ Begin(w)
    /\ UNCHANGED <<options, past, starts, running, configs, policyVars>>

\* A thread that is alive stays; a stop() that gave up on one has forgotten it.
StartWorker(w) ==
    /\ At("start", w) /\ Proceed
    /\ IF Known(w) THEN UNCHANGED workerVars ELSE Begin(w)
    /\ UNCHANGED <<options, past, starts, running, configs, policyVars>>

StartRefresh ==                             \* the application does
    /\ app = None /\ outcome = None /\ ~Known("refresh") /\ Begin("refresh")
    /\ UNCHANGED <<options, past, app, starts, outcome, running, configs, policyVars>>

\* Between two waits a worker posts a batch, fetches the requests or the configs, or
\* flushes the identities; when it waits it sees the event and ends.  What a poll or
\* a fetch was answered, or what on_change raised, may end it at any time.
WorkerEnds(w, t) ==
    /\ Live(w, t) /\ (stopEvent[w] \/ w \in {"scan", "refresh"})
    /\ worker' = [worker EXCEPT ![w][t] = "ended"]
    /\ UNCHANGED <<options, past, app, starts, outcome, running, configs, policyVars, thread, stopEvent>>

\* stop(): set the event (of the refresh only if it runs), ...
SignalWorker(w) ==
    /\ At("stop", w) /\ ~stopEvent[w] /\ (w = "refresh" => Known(w))
    /\ stopEvent' = [stopEvent EXCEPT ![w] = TRUE]
    /\ UNCHANGED <<options, past, app, starts, outcome, running, configs, policyVars, thread, worker>>

\* ... wait for the worker, for 3 or 5 s at most while its requests may take 10, and
\* forget it.
JoinWorker(w) ==
    /\ At("stop", w) /\ (stopEvent[w] \/ (w = "refresh" /\ ~Known(w)))
    /\ Remember(If(Known(w), "slow"))
    /\ Proceed
    /\ thread' = IF w = "refresh" THEN thread ELSE [thread EXCEPT ![w] = None]
    /\ UNCHANGED <<options, starts, running, configs, policyVars, worker, stopEvent>>

-----------------------------------------------------------------------------

AppStep ==
    \/ \E p \in {"metrics", "requests", "httpx"} : StartPart(p)
    \/ \E p \in Emitters : StopPart(p)
    \/ StartConfigs \/ StopConfigs \/ \E p \in {"configs", "policy"} : StopRaises(p)
    \/ StartBootstrap \/ StopPolicy \/ ResetPolicy
    \/ \E w \in Workers : StartWorker(w) \/ SignalWorker(w) \/ JoinWorker(w)

BootStep(t) == Fetched(t) \/ Test(t) \/ Assign(t) \/ Open(t)

Next ==
    \/ Start \/ Stop \/ AppStep
    \/ TakeLogs \/ StartRefresh
    \/ \E t \in Threads : BootStep(t) \/ \E w \in Workers : WorkerEnds(w, t)

Spec == Init /\ [][Next]_vars

-----------------------------------------------------------------------------
(* Properties *)

OpenChannels == {t \in Threads : channel[t] = "running"}
LiveWorkers(w) == {t \in Threads : Live(w, t)}

\* README.md:577: "Stop all resources on shutdown": when stop() has returned nothing of
\* the client runs, however it was started and stopped before, once the bootstrap
\* threads were through and no worker outlasted its join; also after a stop() that an
\* exception ended half-way.  On the way there the processor, which takes the last
\* events out of the queue (client.py:1739), stops after all that emit any.
StoppedIsQuiet ==
    /\ (outcome = "stopped" /\ past \subseteq {"raised"})
         => /\ running = {} /\ configs # "running" /\ OpenChannels = {}
            /\ \A w \in Workers : LiveWorkers(w) = {}
    /\ (app # None /\ app[1] = "stop" /\ stopEvent["processor"])
         => /\ running \cap Emitters = {}
            /\ "slow" \notin past => LiveWorkers("scan") = {}

\* policy_cache.py:426: "Security policy real-time is already running": however starts
\* and stops follow each other, no two channels deliver the policy, unless two
\* bootstrap threads meet or one meets a stop(); and no two workers fill and empty the
\* same batch (processor.py:175), ask for the same scan requests or flush the same
\* identities, unless stop() left the first in a request.  Of the refresh, whose thread
\* is not forgotten, there are no two even then.
OneOfEach ==
    /\ past \cap {"late", "overlap"} = {} => Cardinality(OpenChannels) <= 1
    /\ \A w \in Workers : (w = "refresh" \/ "slow" \notin past) => Cardinality(LiveWorkers(w)) <= 1
=============================================================================
