# Secploy Python SDK: a verification development

TLA+ models of the SDK under `src/secploy`, the TLC runs that check them on
small instances, and proofs, checked by TLAPS, that hold for every value of the
constants.  `PROJECT.json` lists the runs, the definition-to-source map, the
hazards, the mutants (plausible bugs, one per property, each of which the
property's run detects) and the theorems.

- [1 The system](#1-the-system)
- [2 The modules](#2-the-modules)
- [3 The runs](#3-the-runs)
- [4 Fairness](#4-fairness)
- [5 The proofs](#5-the-proofs)
- [6 Promises that do not hold](#6-promises-that-do-not-hold)
- [7 What is not modelled](#7-what-is-not-modelled)
- [8 Plan](#8-plan)

## 1 The system

The SDK lives inside an application.  It reports events to an ingest service,
asks a gate (locally or at the API) whether a call may go on, keeps local copies
of a policy and of configs fresh, and reports the identities it sees.

| component | state | operations | correct when |
|---|---|---|---|
| event boundary (`events.py`, `sampling.py`) | counters `sampled_events`, `filtered_events` | `send_event`: type, sampling, `before_send`, scrubber | an actor's sequence is kept whole, a higher rate keeps more, nothing passes the scrubber by |
| scrubbing (`scrubbing.py`) | none | `scrub` | no credential gets out, all else stays, it ends on cycles |
| event queue (`events.py`) | bounded `queue.Queue`, `dropped_events` | `_enqueue`: put, evict the oldest, retry, refuse | callers never block; every event is in one place or decided; a loss counted is a loss |
| event processor (`processor.py`, `transport.py`) | `_event_batch`, `_stop_event`, `dropped_events`, worker thread | `start`, worker loop, `_send_batch` with retries, `stop` | bounded memory, bounded resends, losses counted, every event decided, `stop` returns |
| real-time channel (`realtime.py`) | WebSocket thread, poll thread, `_stop_event`, `_poll_stop`, `_connected` | connect, reconnect, fall back to polling, `stop` | an outage is always covered by one poller, every change is noticed, `stop` ends all |
| policy cache (`policy_cache.py`) | `_snapshot`, `_fetch_lock`, `_stale_warned` | `fetch`, `evaluate`, `_warn_if_stale` | fresh, never older, nothing built twice, staleness warned about, same decision as the API |
| config manager (`config_manager.py`) | `_configs`, refresh thread | `fetch`, `get`, `start_refresh`, `stop_refresh` | fresh, never older, listener told, refresh runs when started |
| identity reporter (`identity_reporter.py`) | `_pending`, `_seen`, flush thread | `record`, `flush`, `_requeue`, `start`, `stop` | the latest of every identity is kept with its fields, suppression hides nothing |
| security gate (`handlers.py`, `gates.py`, `client.py`) | gate mode, handlers, policy in force | `protect`, `inspect`, `get_endpoint_decision`; batches, middlewares, gated sessions, monitored functions | runs on an approval only; local and remote decisions agree |
| client (`client.py`) | the parts above, a bootstrap thread, four workers | `start`, `stop`, `capture_logs` | after `stop` all is quiet; one channel and one worker of each kind whatever the order of calls |
| dependency scan (`client.py`) | the poller's thread and stop event; the requests, at the platform | poll, report, acknowledge, report a failure | every request is answered, a success is acknowledged only when its report is out, a verdict stands |
| hooks (`client.py`, `log_capture.py`) | patched methods of requests and httpx, logger handlers, `sys.excepthook` | enable, disable, capture, stop | restored, reported once, nothing captured unasked |
| configuration (`lib/config.py`) | none | `load_config`, `migrate_retired_options`, the constructor | an option is what the highest layer that names it says, old names and odd files included |

How they interact.  Application threads call `send_event` and hand events to the
queue; the worker thread takes them out and POSTs batches; `stop()`, on a third
thread, takes the worker's buffer and the rest of the queue.  The real-time
channel calls `on_update` of the policy cache and of the config manager, on the
WebSocket thread or on a poll thread, both of which may overlap with a refresh
thread and with the application's own fetches.  The gate evaluates the snapshot
that the cache holds at that moment.  Request threads `record()` identities, and
the one that fills a batch flushes it beside the flush loop.  `client.stop()`
stops the parts one by one while bootstrap, pollers and flushes are in requests.

What is hard: every structure above is shared between threads with few locks;
joins have timeouts (3 s, 5 s) shorter than requests (10 s), so a "stopped"
thread may go on; a request may have been obeyed although its answer was lost;
counters are raised by a read and a write; clients of one process patch the same
methods; overlapping requests may be answered out of order.

## 2 The modules

| module | models | composes / refines |
|---|---|---|
| `EventPipeline` | queue, worker, `stop()` of one processor lifetime, with all interleavings | implements `LossyChannel` |
| `EventPipelineProperties` | what it is to satisfy | `INSTANCE LossyChannel` |
| `EventPipelineProofs` | theorems: types, ownership, verdicts, memory, copies, both counters; the pipeline implements `LossyChannel` | |
| `LossyChannel` | abstract: an ordered channel that may lose runs and repeat what it still holds | |
| `RealtimeChannel` | WebSocket thread, poll threads, `stop()` | |
| `FreshCache` | abstract: a copy that is never newer than the server and never goes back | |
| `PolicyCache` | fetches under the lock and what makes them begin, evaluation without it | implements `FreshCache` |
| `PolicyProofs` | theorems about the cache and the channel | `EXTENDS PolicyCache, RealtimeChannel` |
| `ConfigManager` | fetches without the lock, refresh thread, listener | `FreshCache` only if fetches do not overlap |
| `Selection` | pure: the elements of a sequence at given places, in its order | |
| `SelectionProofs` | lemmas about it | |
| `IdentityReporter` | record, flush, requeue, restart | `EXTENDS Selection` |
| `IdentityReporterProofs` | theorems about it | `EXTENDS SelectionProofs` |
| `GatePolicy` | pure: evaluation over the index, the API's evaluation, the gate's filter | `EXTENDS Selection` |
| `SecurityGate` | a call by each door of the gate, in all modes, with handlers and failures | `EXTENDS GatePolicy` |
| `SecurityGateProofs` | theorems about both | `EXTENDS SelectionProofs` |
| `Scrubbing` | pure: the walk over a payload, and what is at the end of each path before and after | |
| `EventBoundary` | `send_event` before the queue, with what the hook does to any payload; the log handler's way | `EXTENDS Scrubbing, Selection` |
| `ConfigLoading` | the constructor: the layers of a configuration, and the precedence they are to have | |
| `ConfigProofs` | theorems about the config manager, the precedence, sampling, and the scrubber | `EXTENDS ConfigManager, ConfigLoading, EventBoundary` |
| `DependencyScan` | the poller's rounds, its reports and acknowledgements, `stop()` | |
| `DependencyScanProofs` | theorems about it | |
| `ClientLifecycle` | `start`, `stop`, bootstrap, the four workers: processor, scan poller, identity loop, refresh | |
| `ProcessHooks` | patched methods, handlers, exception hook of several clients | |
| `ClientProofs` | theorems about the life cycle and the hooks | `EXTENDS ClientLifecycle, ProcessHooks` |
| `MC...` | instances for TLC; `MCEventBoundary` holds those of `EventBoundary` (with `Scrubbing`) and of `ConfigLoading` | |

Four modules, `RealtimeChannel`, `EventBoundary`, `ConfigLoading` and `ProcessHooks`,
call their specifications `ChannelSpec`, `BoundarySpec`, `LoadingSpec` and `HooksSpec`,
so that a proof module can extend them beside another one; they share no state with it,
and each theorem is about one specification.

Conventions.  A module's variables carry the source's names (`pollStop` is
`_poll_stop`); an action is what a thread runs between two points at which others
can observe or change shared state; a thread's position is in a variable with
`pc` in its name or named for the thread.  External parts (ingest, API,
websocket-client) are nondeterministic actions.  A definition under a comment
`Fault:` is a bug that the code does not have: it is used by no specification
and is there so that a property can be seen to fail.

Correspondence, module by module:

- **EventPipeline.** `queue` is `_event_queue`; `pc/ev/tries` a caller in
  `_enqueue` (put_nowait, get_nowait of the oldest, next round, refusal after
  eight rounds: `EnqueueTries`); `batch` is `_event_batch.events`; `wpc, sending,
  attempt` the worker in `_process_events` and `_send_batch`; `spc, drained,
  abandoned` the thread in `stop()`.  `counter += n` is a load and a store, for
  the interpreters 3.8 and 3.9 that `setup.py` lists.  A POST ends delivered,
  rejected or to be retried, and in the last case the ingest may have stored it.
  The 5-s join passes when the worker is gone or in a POST - nothing else lasts
  that long.  `fate` and `stored` are history variables.
- **RealtimeChannel.** `wpc` walks through `_run_with_reconnect` and its
  callbacks, statement by statement where `_stop_polling` and `_start_polling`
  read shared fields; `spc` is the same for `stop()`; `poller[i]` a poll thread.
  `on_update` is recorded as the server's version at the time of the call.  `slow`
  says whether an `on_update` may outlast the 3-s join, `calm` whether `stop()`
  was called while the socket was up.
- **PolicyCache.** A fetcher waits for `_fetch_lock`, asks with the version it
  holds, keeps, loads or fails, and resets the warned flag after the snapshot.  A
  reader picks the snapshot, tests its age, sets the flag, matches.  Age is
  abstracted to which snapshots are stale.  A fetch begins because start-up or a
  message is due (`told`, `Announced`: `Feed` is the bootstrap thread, and then the
  WebSocket thread of the channel it opens), because a poll thread polls an outage
  (`Poll`), or because the application calls it (`Fetch`).  `socket` is the channel's:
  a connection brings `security.subscribed`, a publication a message if there is a
  socket, and what is in the socket is lost with it.  `missed` says that what `Feed` was
  told last it failed to fetch.
- **ConfigManager.** `Request` and `Install` are separate, as the lock is held
  for the assignment only.  A 200 whose body is no JSON is `Garbled`, which
  `except RuntimeError` does not catch.  Between the assignment and the next wait the
  thread is `telling`: `on_change` returns for every key (`RefreshTells`), raises a
  RuntimeError, which is logged like a failed fetch (`ListenerRefuses`), or anything else,
  which ends the thread (`ListenerDies`).  `past` remembers which of the known exceptions
  have happened.
- **IdentityReporter.** A pending record is the set of the sightings merged in
  it; a sighting says a value of each field, or nothing (`Absent`), and a record carries
  what is said (`Carried`), while the fingerprint of `seen` takes a falsy value for nothing
  (`Fingerprint`); `seen` is the order of `reported_at`; a POST is stored, refused, faulted or
  stored with its answer lost; `_requeue` puts back what is not pending again.
- **GatePolicy / SecurityGate.** Policies are sequences of rules and controls as in
  the API's payload; the index holds their places in it, and sorting what was looked up
  back into the payload's order is `Selected`.  `Concerns` and `Reference` are the API's
  side.  `ResolveAuth` is the fallback over explicit values, request
  object, headers and cookies; `Evaluate` the index by method and target with the
  payload's order restored; `FilterControls` the gate's second look;
  `Dispatched` the priority of actions.  `Lookup` is the API with its failures;
  `Decide` the shadow comparison, the fallback and the filter.  A door is the way a
  call meets the gate: a decorated function (with or without a protector), an
  intercepted call, `batch_check` with its second inspection, a middleware, a gated
  session, a monitored function; what each does with a block, and when it reports it,
  is in `Guarded`, `Opens`, `TurnAway`, `InspectAgain` and `Report`.
- **EventBoundary / Scrubbing.** Types are represented by those that the code
  treats differently; a bucket is a given function of the actor key (sha256 in the
  code, whose spread is not the matter); a payload is a heap of dicts and lists,
  so that references may be shared and cyclic; key names and string patterns are
  abstracted to "denied" and "credential".  `_normalize_payload` makes the outer dict
  and its `context` anew, so these two are the objects `payload` and `context`, and what
  the caller nests below is any others; the hook gets a copy of the first and the second
  itself, so what it does to that stays when it raises (`Hooked`).  A call records the
  payload and the copy that was queued; `Left` is what the scrubber was given.
- **ConfigLoading.** A layer is a partial function from options to texts or values.
  A text is represented by what the conversion tells apart (`TypeOf`); a file by
  how it can be read: as a mapping (YAML or JSON), as lines that neither accepts,
  or as something that says nothing, which includes lines `key=value` without a
  colon, since YAML takes them for one string.  `Migrated` comes before the merge, as
  in the code; `Loaded` ends with the second look at `SECPLOY_API_KEY`.  `Construct` is
  the constructor: `client` keeps the layers and the options, unless a required option
  is not true, for which it raises.
- **DependencyScan.** A poller polls, takes the pending requests of the answer,
  and for each emits the report, acknowledges it, and when anything raises reports
  the failure.  The report goes to the event queue and gets out by the processor, or
  is refused there; polls and answers get lost; stop() stops the processor after the
  poller, which it may have given up on.  `request` is the platform's record,
  `report` where the report is.
- **ClientLifecycle.** `StartOrder` and `StopOrder` are the statements of `start`
  and `stop`.  Parts that start and stop in one step are in `running`; the
  bootstrap thread and the policy's channel have their steps, and so have the four
  workers whose requests last longer than stop() waits for them: the processor's, the
  scan poller, the identity loop and the refresh thread.  Each is started unless the
  known thread lives (`StartWorker`, `StartRefresh`), signalled, joined and forgotten
  (`SignalWorker`, `JoinWorker`), and the thread that was given up on lives on until it
  sees the event (`WorkerEnds`); only the reference to the refresh thread is kept.
  `past` remembers the mishaps under which a property is excepted.
- **ProcessHooks.** A patched method is the sequence of clients whose wrappers a
  call goes through; a client restores the method it found.

Exceptions by history.  Several properties have an exception (`calm`, `past`,
`overtaken`, `missed`, `crossed`, `slow`): a situation, reachable in the model, in which the
code does not keep its promise.  The variable records that it happened, the
property says that nothing else breaks the promise, and section 6 describes the
exception.

## 3 The runs

| run | instance | distinct states | shows |
|---|---|---|---|
| `pipeline_safety` | 2 callers, 4 events, queue 2, batch 2, 2 attempts, 2 rounds, symmetry | 707 412 | `OneOwner`: an undecided event is in exactly one place, a decided one in none; `DecidedOnce`; `DuplicatesBounded`: at most `max_retry` copies; `MemoryBounded`; `CountersHonest`: both counters exact while running and never above the losses; `ImplementsChannel` |
| `pipeline_live` | 2 callers, 2 events | 21 119 | `SendEventReturns` with nobody else obliged to move; `EventsDecided`, `StopReturns` with the SDK's threads scheduled |
| `realtime` | 3 poll threads, 2 changes | 264 947 | `PollingCoversOutage` (by one poller), `StopEnds`, `ChangeNoticed` |
| `policy` | the thread of start-up and messages, 1 more that fetches, 1 reader, 2 versions, 2 snapshots | 60 386 | `ImplementsFreshCache`, `NoPolicyBuiltTwice`, `QuietMeansWarned`, `PolicyArrives` |
| `config` | 1 caller and the refresh thread, 3 versions, the second empty, a listener that may raise | 147 074 | `ListenerUpToDate`, `StartedMeansRunning`, `ConfigArrives`, `NeverGoesBack` |
| `config_rollback` | 2 callers | - | **violated**: overlapping fetches take the cache back (section 6) |
| `identity` | 1 caller, 2 loops, 2 keys, 1 field that is true, false or absent, batch 2, 1 tracked, 2 sightings | 307 697 | `NothingForgotten`, `SuppressionHonest`, `OneLoop`, `SightingReported` |
| `gate` | case "calls": a function or a protector under 6 policies that change, clock, failures; case "items": the other doors; case "evaluation": 102 policies, 32 requests | 701 948 | `CachedAgrees`, `RunsWhenApproved`, `ControlsStand`, `MismatchMeansChange` |
| `boundary` | 2 calls, 5 rates, 6 hooks, all event kinds; 29 988 payloads: an outer dict with 1 or 2 entries, the context and 2 more containers with up to 1, and two entries more by the hook; depth 2, items 3; 5 option names in files of each format, environments and arguments | 145 099 | `SequenceWhole`; `NothingEscapes`, `NothingLost`, `TruncatedAtLimits`; `Precedence` |
| `scan` | 2 requests, 2 starts, garbled lists | 238 650 | `SucceededIsReported`, `VerdictStands`, `RequestAnswered` |
| `lifecycle` | 2 starts, 4 option sets, stops that raise, 4 kinds of workers, 2 threads of each, that outlive the join | 2 351 807 | `StoppedIsQuiet`, `OneOfEach` |
| `hooks` | 2 clients, 2 loggers | 170 002 | `TrackedOnce`, `OnlyAsked` |

Why the bounds are enough to meet the interesting cases:

- *pipeline*: a queue of two is the least that has an order to keep, and four
  events fill it and leave one in each caller's hand, so that puts race with
  evictions and with the worker; with two rounds a caller is refused; a batch of
  two is flushed when full and when not; two attempts give a delivered, a lost and
  a last one; stop() drains two and can still leave events behind.
- *pipeline_live*: two events suffice to fill a queue of one under a caller, and a
  single one to be waited for below batch_size.
- *realtime*: two old pollers can outlive their join beside the current one; two
  changes let one fall into each phase of a reconnect.
- *policy*: a poll or a call of the application overlaps with the fetch for a message;
  the second version is published before the channel is there, into an outage, into a
  socket, or while the fetch of the first is on its way.
- *config*: two fetches overlap; the third version can be skipped, answered late, or
  follow an empty one.
- *identity*: two keys exceed `MaxTracked`, two loops meet after a restart; the
  batch is filled by one record or by two; one field can be said, denied and left out.
- *gate*: two controls are the least that differ in order and in target; sources
  differ in each field that `ResolveAuth` falls back for.
- *gate, doors*: the doors but for the function and the protector are asked with a
  request whose second inspection sees the same caller or another, while the policy
  changes or the lookup fails between the two.
- *boundary*: for the scrubber beyond both limits, in depth by a chain through the
  context's containers, in number by what the hook adds; the two containers that are the
  caller's give sharing (also between payload and context) and cycles of length one and
  two; the outer dict and the context themselves are fresh and in no cycle.
  For the configuration an option of every sort: required and argument, renamed,
  old, without a default, retired; a file of each format; texts of each type that
  changes what is true.
- *scan*: two requests and two pollers, so that one is decided while the other is in
  hand, and a poller that stop() gave up on meets its successor.
- *lifecycle*: two starts with a stop between them, in any phase of the bootstrap; of
  each worker the one that was given up on and its successor.
- *hooks*: two clients are the least that can nest; one wrapper each.

`CHECK_DEADLOCK FALSE` is set wherever the system may really stop (stopped
processor, all events reported, nobody obliged to call) or the bound on calls
ends the behaviour; `hooks` is checked for deadlock.

## 4 Fairness

Liveness properties are stated under exactly these assumptions.

- *Threads are scheduled*: weak fairness of the steps of a started thread.  For the
  interpreter's threads this is what the operating system does.
- *Requests end*: every POST and GET has a timeout, so the step that ends it is
  weakly fair; that a request is *answered* is strongly fair only where a property
  needs it (`PolicyArrives`, `ConfigArrives`, `SightingReported`, and in the scan
  `Fetched` and the acknowledgement of a failure: "of requests made for ever some are
  answered").  `EventsDecided` and `StopReturns` do without: a
  dead ingest does not hold them up.
- *The clock advances*: `SF(Flush)`, as a worker that tests a non-empty buffer again
  and again finds `flush_interval` over.
- *Locks*: `SF(Acquire)` in `PolicyCache`, since fetches are seconds apart.
- *Who fetches the policy*: only who the code makes fetch.  `WF(Announced)`: the start-up's
  fetch and that for a message in the socket happen.  `SF` of a poll while there is no
  socket: the backoff between two dials doubles to 60 s and is never reset
  (`realtime.py:117, 149`), so in however many outages polls every 15 s find their time;
  that somebody polls is `PollingCoversOutage`.  Nothing repeats a fetch that a message
  asked for and that failed: `PolicyArrives` excepts it as long as the socket lasts.
- *The listener returns*: in `ConfigManager` `on_change` ends, in one of three ways.
- *Which POSTs are answered*: in `IdentityReporter` of those that a flush loop makes for
  ever; those of the request threads may all fail, and the caller of `stop()` may stay
  where it is.
- *Nobody has to call*: `send_event`, `start`, `stop`, `record`, `get` and the
  server's `Publish` are never fair, nor is that a connection comes or goes.
- `SendEventReturns` assumes the caller's own steps only; `EventsDecided` and
  `StopReturns` have the form `WorkerFairness => ...` so that one run can hold both.

## 5 The proofs

### The event path

Proved for any finite sets of threads and events and any queue, batch and attempt
bound, from the assumptions `NoEventAssumption`, `SizesAssumption` and
`FiniteAssumption` of `EventPipeline`.

In `EventPipelineProofs`:

- **TypeCorrect**: `Spec => []TypeOK`.  `TypeOK` is not inductive: `put` appends the
  event in the caller's hand and `tries` must stay below the bound, so `CallerOK`
  (where a caller is says what it holds) is added.
- **OwnershipCorrect**: `Spec => []OneOwner`.  The inductive invariant `OwnInv` says
  the same without cardinalities: queue, buffer, batch in flight and what `stop()`
  drained are injective sequences, pairwise disjoint, disjoint from the callers'
  hands; together they are the undecided events; and while the worker is in a POST
  that outlived the join, `stop()` and the worker hold different events.  Each
  action moves one event, or one whole sequence, from one place to another;
  `AppendFacts`, `TailFacts` and `ConcatRange` say what that does to ranges.
  `OwnOneOwner` counts the owners at the end.
- **DecisionsFinal**: `Spec => DecidedOnce`.  Every event that a POST or an eviction
  settles is undecided before (`PostedAreHeld`, from `OwnInv`), so no step changes a
  decided one.
- **HandlerCountCorrect**: `Spec => []HandlerCountHonest`, the first half of
  `CountersHonest`.  The invariant adds that a
  caller's register is at most the counter; raising it then loses increments but
  never invents one (`CountStep`, with the cardinality of a set of events that
  grows by one).

Further in `EventPipelineProofs`, on top of `OwnInv`:

- **MemoryIsBounded**: `Spec => []MemoryBounded`.  `RoomOK` says where the worker must
  stand for its buffer to have room: below `batch_size` when it may take an event,
  at most `batch_size` between taking and testing, empty while a batch is in
  flight.  That the shutdown POST has fewer than two batches is `RoomOK` plus the
  bound of the drain.
- **CopiesAreBounded**: `Spec => []DuplicatesBounded`.  `CopiesOK` ties the copies of
  an event in flight to the number of the attempt, and says that an undecided event
  which is not in flight was never stored - here ownership is needed: what the
  worker sends is in no other place, so `stop()` cannot add a copy to it.
- **ProcessorCountCorrect** and **CountersCorrect**: `Spec => []ProcessorCountHonest`,
  and with the former `Spec => []CountersHonest`.  A load and a store by
  two threads: `TallyOK` says that the counter, and each thread's register, is at
  most the losses when what the worker and `stop()` are still about to add is
  counted too (`WorkerAdds`, `StopAdds`), and exact before `stop`.

And last:

- **PipelineImplementsChannel**: `Spec => ImplementsChannel`, with what is in transit
  being the batch in flight, the buffer, the drain and the queue, in this order.
  A hand-over between neighbours leaves the concatenation as it is (`MoveHead`,
  `ConcatAppend`); an outcome of a POST or an eviction cuts a run out of it
  (`Middle`, `MiddleRange`), which `ChannelLoses` and `ChannelArrives` turn into the
  channel's actions.  `PostOK` (the shutdown POST is not empty) is what makes the
  run a run; ownership is what makes it the only copy.

### The real-time channel

In `PolicyProofs`, for any finite set of poll threads and any number of
changes, from `ChannelAssumption`.  Until `stop()` is called the WebSocket thread alone
starts and stops the polling, so the invariant `ChannelInv` follows its position:
`Phase` says where there is nobody (`Quiet`), where the poller of the outage
(`Polling`), and where at most the one that `on_open` is about to wait for
(`Waited`).  A poll thread may end, but not while it stands in for the socket: it
leaves on `_poll_stop` or `_connected`, and `Polling` has neither.  Where an
`on_update` may outlast a join (`slow`) old threads are not counted.

- **PollingIsCovered**: `ChannelSpec => []PollingCoversOutage`.
- **StopIsComplete**: `ChannelSpec => []StopEnds`.  `CalmInv`: a `stop()` that meets the socket
  up finds no poll thread to wait for (from `Quiet`), so the second read of
  `_poll_thread` is never reached, nobody starts the polling again, and the app it
  closes is one that runs.

### The config manager

In `ConfigProofs`, for any callers and any number of versions, from
`ManagerAssumption`.  `ManagerInv`: the server is ahead of every answer (`ServerAhead`);
as long as no two fetches overlapped, one thread at most has an answer in its hands
and nothing newer was installed since (`OneAnswer`); as long as nobody else changed
the cache and the listener raised nothing, what the refresh thread compares with is what
the listener knows, and while it tells what the cache holds is what it tells
(`ListenerKnows`); without a mishap the thread is there from a start to a stop, and
gone after the join (`RefreshThere`).

- **ListenerIsTold**: `Spec => []ListenerUpToDate`.
- **RefreshIsRunning**: `Spec => []StartedMeansRunning`.
- **CacheGoesOn**: `Spec => NeverGoesBack`.
- **FreshWithoutOverlap**: `Spec /\ []("overlap" \notin past) => ImplementsFreshCache`.  The
  run `config_rollback` shows that `Spec` alone does not imply it; this says that
  overlapping fetches are the only reason.

### The client's life cycle

In `ClientProofs`, for any number of starts and any threads, from
`LifecycleAssumption`.  `Behind(part)` says that `stop()` has been at that part on its
way, or is through.  `LifecycleInv`: a part behind `stop()` is stopped (`PartsQuiet`);
one bootstrap thread at a time, and none before `start()` gets there
(`OneBootstrap`); only the channel that the policy refers to can run, and none behind
`stop()` (`PolicyQuiet`); only the worker that the client refers to can live, and none
behind `stop()` - of the refresh, to which the reference is kept, the former even when a
join timed out (`WorkersKnown`); the processor's event is set from the last step of `stop()` to the
first of `start()` only (`ProcessorLast`, `ProcessorSignalled`), which is what makes
the processor stop after all that emit events.  Each part of it has the mishap as its
exception that breaks it.

- **StopIsQuiet**: `Spec => []StoppedIsQuiet`.
- **OneIsThere**: `Spec => []OneOfEach`.

### The policy cache

In `PolicyProofs`, for any finite or infinite sets of fetchers and readers and any
number of versions, from `CacheAssumption`.  The inductive invariant `CacheInv`:
who is between request and release holds the lock (`LockHeld`); the snapshots'
versions ascend and are the server's (`Ascending`); an answer that waits to be
loaded is newer than the policy in force (`AnswersNew`, which only holds because
the version was asked with under the same lock); a reader that no refresh overtook
judges the snapshot in force (`JudgesCurrent`).

Why a fetch begins does not matter for these (`NextCases`).

- **PoliciesBuiltOnce**: `Spec => []NoPolicyBuiltTwice`.
- **QuietJustified**: `Spec => []QuietMeansWarned`.
- **CacheIsFresh**: `Spec => ImplementsFreshCache`.

### The dependency scan

In `DependencyScanProofs`, for any set of requests and any number of starts, from
`ScanAssumption`.  The inductive invariant `ScanInv`: a poller has a request in hand
exactly where it handles one (`HasRequest`); as long as `stop()` gave up on no poller
the one that lives is the one the client knows (`OnePoller`); what is about to be
acknowledged has a report (`Reported`); and what a poller has in its list or in hand
nobody has decided (`Undecided`), which is where `OnePoller` is needed.

- **ScanInvariant**: `Spec => []ScanInv`.
- **SuccessIsReported**: `Spec => []SucceededIsReported`.
- **VerdictsStand**: `Spec => VerdictStands`.

### The configuration

In `ConfigProofs`, from `ConfigAssumption`:

- **PrecedenceCorrect**: `LoadingSpec => []Precedence`, for every set of options and
  whatever a file, the environment and the arguments say.  `MigratedFile`, `FileSays` and
  `LoadedSays` say what each layer contributes, one above the other; that `api_key` is
  required is what excludes that it has lost its value on the way (`OptionsSay`).

### Sampling

In `ConfigProofs`, for any rates, hooks, events and assignment of buckets, from
`BoundaryAssumption` and `BucketsAssumption` (every key that the events can yield has a
bucket below `Full`).

- **SequencesKept**: `BoundarySpec => []SequenceWhole`.  `BoundaryInv` ties the result of
  a recorded call to the decision `ShouldSend` at the configured rate.
  `IdentityDecides`: where the identity is no placeholder it is the actor key, whatever
  the other fields are, so two events of one identity have one bucket; `SamplingGrows`:
  a bucket below one rate is below every higher one.

### The scrubber

In `ConfigProofs`, for any set of containers, any payloads over them (`Heaps`), any hooks
and any `MaxDepth` and `MaxItems`, from `ScrubbingAssumption` (no container is called as a
text is) and `BoundaryAssumption` (the payload and its context are among the containers).

- **ScrubKeepsSecrets**, **ScrubKeepsTheRest**, **ScrubIsBounded**: of every heap and root,
  what `NothingEscapesFrom`, `NothingLostFrom` and `TruncatedFrom` say of the copy.
- **ScrubbedIsLast**: `BoundarySpec => []NothingEscapes`;
  **NothingIsLost**: `BoundarySpec => []NothingLost`;
  **QueuedIsBounded**: `BoundarySpec => []TruncatedAtLimits`.
  What a hook leaves is a heap (`HookLeavesHeaps`), and `BoundaryInv` says that what was
  queued is the scrubber's copy of it, by either way in (`InQueueIsScrubbed`).

`Scrub` is a recursive function over the calls of `_scrub`; that one exists is proved
level by level, from the deepest, since a copy depends only on the copies below it
(`CopiedBelow`, `ScrubUnfolds`).  Then paths are followed through payload and copy at
once (`Follows`, `Keeps`): after n steps the copy is what the scrubber made of the value
there, called with the objects on the way as `seen`, or the path was cut.  These
inductions are over numbers up to a bound, which the provers can do: `Induction` derives
them from the pigeonhole principle for finite sets, without an operator as parameter.

### The gate

In `SecurityGateProofs`, for any policies, requests, configurations and project keys,
from `GateAssumption`: configurations, policies and requests have the shape the code
gives them, every session has a hash, and neither a decision, nor the id of a rule, nor
one of the defaults "anonymous" and "unknown" is the missing value.  Two layers:

*The evaluation.*  `ResolvedOnce`: resolving an auth context a second time changes
nothing ("Applying it twice has to equal applying it once", `scrubbing.py:166`), which
needs that a hash is its own hash, and that the defaults are not taken for missing.
The two evaluations find the same places: what the lookups of the index find is what
`Concerns` the caller (`LookupsFind`, over the four kinds), and since both sides are
`Selected` from the same payload the order is the same as well (`EvaluateIsReference`).

*The call.*  `GateInv` is `GateTypes`, `RequestInv` (what a call asks for is resolved; only
an item of `batch_check` is inspected again), `DecisionInv` (each of the two decisions is
`Sound`, and as long as nothing has changed since the beginning, `Calm`, it is `Expected`;
the decision in force is the filtered one), `MismatchMeansChange`, and `OutcomeInv` (what
was let through had an approval).  `MismatchMeansChange` is not inductive alone: it needs
that both decisions are the expected one while it is calm, so that a difference can only
come from a change or a failed lookup.

- **CacheDecidesAsApi**: `Spec => []CachedAgrees`.
- **ApprovedOnly**: `Spec => []RunsWhenApproved`.
- **OwnControlsStand**: `Spec => []ControlsStand`.
- **MismatchExplained**: `Spec => []MismatchMeansChange`.

### The identity reporter

In `IdentityReporterProofs`, for any request threads, flush loops, keys, fields and
bounds, from `ReporterAssumption`.  `ReporterInv`: where each thread is, and which loop is
the known one (`LoopInv`); pending and sent records are about one identity each, and are
made of sightings that were taken (`RecordsInv`); as long as one thread sends at a time,
what it sends is older than what is pending (`SendingInv`); every sighting is covered by a
place (`KeptInv`); a fingerprint in `_seen` is that of the identity's latest sighting
(`SeenInv`), which `KeptInv` finds on its way or settled; that two sightings have one
fingerprint means that they differ in falsy and absent fields at most.
The invariant was checked by TLC before it was proved.

- **SightingsKept**: `Spec => []NothingForgotten`.
- **SuppressionHides**: `Spec => []SuppressionHonest`.
- **LoopIsAlone**: `Spec => []OneLoop`.

What a flush takes and what `_requeue` puts back are selections; `SelectedElements`,
`SelectedPlaces` and `SelectedEmpty` of `SelectionProofs` say that they have the elements
of the places and nothing else, in their order.

### The hooks

In `ClientProofs`, for any clients, loggers and number of wrappers, from
`HooksAssumption`.  The invariant is about stacks: a method is patched with a stack of
clients, none of them twice, and each has saved what is below it (`StackOf`).  To put a
wrapper on pushes (`Pushed`); to put back what was saved pops, as long as it is the
outermost one that does it - otherwise `crossed` is set and nothing is claimed.

- **CallsTrackedOnce**: `HooksSpec => []TrackedOnce`.  A client is on the stack once if it
  has saved the method, and else not.
- **HooksAsAsked**: `HooksSpec => []OnlyAsked`.

### What the proofs found

Assumptions that TLC's instances had met in silence, and that the modules now name: that
no client is called as the values for "no client" are, nor a stack of clients as "not
saved" (`HooksAssumption`); that no id of a rule, and no decision, is the missing value
(`GateAssumption`); that a bucket is a number below `Full` (`BucketsAssumption`); that no
container is called "text", "credential" or "nothing" (`ScrubbingAssumption`).  And the
walk of the scrubber was stated anew, as a function over records that names what one call
makes of the calls below (`Copied`), because a recursive function of several arguments
gets no defining equation from the prover.  To prove what the queue holds for every
payload, the payload had to become an input of the call and the hook a function of it;
before, one payload was fixed and all others were looked at apart from the calls.
Likewise the constructor became an action: of a client that gets built `api_key` needs no
exception, as the formula without the constructor had it.

### Only model-checked

- Every liveness property (`SendEventReturns`, `EventsDecided`, `StopReturns`,
  `ChangeNoticed`, `PolicyArrives`, `ConfigArrives`, `SightingReported`,
  `RequestAnswered`): the prover has no fairness and no ENABLED.

Every invariant and every action property of the runs, and every refinement that holds, is
stated by a theorem.

## 6 Promises that do not hold

Where the code does something else than a comment or a document says, found while
modelling.  The first has a run of its own; the others are reachable in the models
and excepted in the property named.

| what happens | where | what is said |
|---|---|---|
| Two fetches overlap and the older answer is installed last: the configs go back (run `config_rollback`). | `config_manager.py:56` | `realtime.py:31-32` "can never corrupt state" |
| `stop()` during a backoff drops the detached batch and no counter is raised. | `processor.py:130` | `processor.py:24-26` "every failure path here ends in bounded memory and a counted loss" |
| The shutdown POST holds up to 2*batch_size-1 events. | `processor.py:217` | `processor.py:39` "Maximum number of events per batch" |
| Two evictions at once raise `dropped_events` once (interpreters 3.8, 3.9). | `events.py:260` | `events.py:43-44` "at least a countable one" |
| `stop()` between the stop test and `_start_polling`: the poll thread that begins is ended by nobody (`StopEnds`, `calm`). | `realtime.py:145` | `realtime.py:86` "Shut down the WebSocket and any active polling thread." |
| `stop()` closes a WebSocketApp that does not run yet: it connects afterwards (`calm`). | `realtime.py:89` | the same |
| `_stop_polling` on two threads: one joins `None`; in `stop()` the AttributeError escapes (`calm`). | `realtime.py:216` | the same |
| A slow `on_update` outlives the join, and clearing `_poll_stop` revives its thread: two poll (`PollingCoversOutage`, `slow`). | `realtime.py:216` | `realtime.py:27-28` "it stops automatically once the socket reconnects" |
| A reader overtaken by a refresh sets the warned flag for a snapshot it never judged, which may go stale in silence (`QuietMeansWarned`, `overtaken`). | `policy_cache.py:412` | `policy_cache.py:38-39` "before we start warning" |
| A change that a push or a caller brings into the cache is never told to `on_change` (`ListenerUpToDate`, `foreign`). | `config_manager.py:124` | `config_manager.py:111` "Called for every key whose value changed" |
| An `on_change` that raises a RuntimeError for one key is taken for a failed fetch: the cache has the new configs, and the remaining keys are told by no later refresh (`ListenerUpToDate`, `raised`). | `config_manager.py:131` | the same |
| A 200 that is no JSON, or an `on_change` that raises anything but a RuntimeError, ends the refresh thread (`mishap`). | `config_manager.py:131` | `config_manager.py:107` "Start a background thread that re-fetches every ``interval`` seconds." |
| `start_refresh` after a join that timed out finds the old thread alive and returns; the old thread ends (`mishap`). | `config_manager.py:115` | the same |
| A fetch that a message asked for fails: it is logged and not repeated while the socket stays up, until the next message (`PolicyArrives`, `missed`). | `realtime.py:164` | `realtime.py:25-26` "When an update message arrives the ``on_update`` callback is invoked immediately so the local cache is refreshed." |
| A sighting whose `is_authenticated` is an explicit False has the fingerprint of one that does not say, and is suppressed as a duplicate of it (`SuppressionHonest` excepts falsy values). | `identity_reporter.py:97` | `identity_reporter.py:131-132` "A field explicitly sent as False still counts as present and wins." |
| Of two failed batches with one identity the older may be put back first and keep the newer out (`NothingForgotten`, `overlap`). | `identity_reporter.py:210` | `identity_reporter.py:209` "A newer sighting queued while we were sending wins." |
| A failed record is dropped when its key is pending again, with fields only it had (`NothingForgotten`, `retry`). | `identity_reporter.py:210` | `identity_reporter.py:129-131` "merges into the richer earlier one instead of erasing it" |
| A flush takes `max_batch` records; after an outage `stop()` leaves the rest. | `identity_reporter.py:178` | `identity_reporter.py:169` "Send everything pending." |
| The `record()` that fills a batch POSTs on the request's thread. | `identity_reporter.py:151` | `identity_reporter.py:104-105` "a dict lookup and a tuple comparison and nothing else" |
| A rule block that comes with controls of somebody else is lifted. | `handlers.py:960` | the comment there: "Only scoped controls were returned and none matched this caller." |
| A `block_api_key` control for the client's own key is filtered out: the auth context knows no key (`ControlsStand` excepts the kind). | `handlers.py:996` | `handlers.py:661` "`block_api_key` -> APIKeyBlockedException" |
| A function with a protector goes on after a handler answered its block (`RunsWhenApproved` excepts protectors). | `handlers.py:193` | `handlers.py:666-667` "that value becomes the function's return value" |
| A lookup that failed with a status or an unusable body is compared and reported (`MismatchMeansChange` excepts it). | `client.py:1073` | `tests/test_policy_cache.py:356` "A failed remote lookup is not evidence the cache is wrong." |
| The sampler looks at the type given, not at the type the event is queued with: errors can be sampled out. | `events.py:178` | `sampling.py:15-16` "errors, warnings and every namespaced security signal always go" |
| Events of one caller that carry different fields are in different buckets (`SequenceWhole` is per identity). | `sampling.py:96` | `sampling.py:24-25` "a caller is either fully observed or not observed at all" |
| `http_request` is an allowed type and wins over the status. | `events.py:151` | `client.py:440-441` "404 becomes "warning" and 500 becomes "critical"" |
| A hook that changed the context before it raised has changed the event. | `events.py:221` | `events.py:223` "keeping the event as-is" |
| Captured logs pass an `EventHandler` without rate, hook and scrub fields. | `log_capture.py:177` | `events.py:33` "The single door every event goes through on its way out" |
| The bootstrap opens the policy's channel after `stop()`, or two starts open two (`late`, `overlap`). | `client.py:1698`, `policy_cache.py:425` | `README.md:577` "Stop all resources on shutdown", `policy_cache.py:426` "already running" |
| What the stop of a channel raises leaves the rest of the client running, and the dead channel is taken for a running one at the next start. | `client.py:1716`, `config_manager.py:179` | `README.md:577`, `README.md:528` "By default, the client starts realtime config delivery" |
| `stop()` returns beside a worker, a scan poller, an identity loop or a refresh thread that is in a request; it forgets the first three, and the next `start()` revives them beside their successors (`slow`). | `client.py:1643`, `processor.py:179`, `identity_reporter.py:236`, `config_manager.py:144` | `README.md:577` |
| At a `sampling_rate` below about 0.43 the health report is sampled out every time (it has no caller, so its bucket is that of its name), and every scan an operator asks for is acknowledged as failed (`SucceededIsReported` holds: no success is claimed). | `client.py:1612` | `README.md:631-634` |
| A success whose answer is lost raises, and the failure reported then takes it back (`VerdictStands`, `Lost`). | `client.py:1624` | `client.py:1619` "Dependency health report emitted by SDK." |
| An answer that is no list of objects ends the poll thread (`RequestAnswered`, `Ended`). | `client.py:1607` | `README.md:631-634` |
| `batch_check` inspects a refused item a second time, without what made the first inspection know the caller: it may report the item as passed (`RunsWhenApproved`, `same`). | `gates.py:187` | its `except` clause, which a refused item alone reaches |
| With `raise_on_block=False` the middlewares, the gated session and the monitored functions let a blocked call through (`RunsWhenApproved`, `Leading`). | `handlers.py:318` | `README.md:129` "SecployGate checks security policy (can block or allow)" |
| Options without a default (`realtime`, `release`) are not looked for in the environment. | `lib/config.py:186` | `README.md:458-461`, and `README.md:492` "Use the `SECPLOY_` prefix with uppercased keys" |
| A file of lines `key=value` is one string to YAML: it is ignored with a warning. | `lib/config.py:138` | `lib/config.py:118` "Load configuration from YAML, JSON, CONF, or .secploy formats." |
| The constructor's `config` is overwritten, and `before_send` can be set by no argument of it. | `client.py:97` | `client.py:90` "Configuration object", `lib/config.py:43-44` "pass it programmatically" |
| Nothing calls `validate_config`: a `max_retry` that is no number makes `range()` raise in the worker, and its batch is lost uncounted. | `lib/config.py:220` | `client.py:94` "If configuration values have invalid types" |
| Clients that stop in the order they started leave wrappers behind (`crossed`). | `client.py:626` | `client.py:622` "Restore original requests Session.request if it was patched." |
| Of two wrappers the inner one does not see `secploy_track_outbound=False`. | `client.py:589` | `README.md:290-291` |
| A second `capture_logs` does nothing. | `log_capture.py:46` | `README.md:568-569` calls it twice; `client.py:266` "Start capturing logs from specified loggers" |

(`README.md` in this table is the repository's.)

## 7 What is not modelled

- Which configuration file is found (`find_project_config`), the constructor's conversion
  of `log_level`, `validate_config`.
- How each framework's request is read by the middlewares and the session adapter, and
  how a refusal is worded for it; with what they ask the gate, and what they do with
  its answer, is in `SecurityGate`.
- The numbers of `backoff_delay` and `parse_retry_after`: times do not appear, only
  which of two events comes first.
- What a health report says of the packages it finds; the one-shot report at the start.
- `errors.py`, `system_metrics.py` but for its start and stop, `schemas.py`,
  `enums.py`, `register.py`, `lib/secploy_logger.py`: formatting, I/O, data classes,
  names.
- The queue under a second lifetime of the processor beside a worker that outlived the
  join: that there are two is in `ClientLifecycle`, what they do to one
  `_event_batch` is not modelled.
- Patterns and key names of the scrubber; hash functions; wildcard paths (a pattern
  is the set of the paths it matches).

## 8 Plan

Done: the modules of section 2, the runs of section 3, the proofs of section 5, in
the order event path, channel, caches, reporter, gate, boundary, life cycle, hooks,
dependency scan, the gate's doors, configuration.

Next, modelling:

1. The composition of `RealtimeChannel`, thread by thread, with `PolicyCache`, which has
   the channel's messages and outages in outline.
2. A restart of the processor over a worker that outlived its join, in
   `EventPipeline`.

Next, proving: the composition of channel and cache, once modelled: the present theorems
again over the larger specification.
