---------------------------- MODULE EventBoundary ----------------------------
(***************************************************************************)
(* EventHandler.send_event up to the queue (events.py): the type of the    *)
(* event, sampling (sampling.py), the before_send hook and the scrubber;   *)
(* and the log handler's way to the same queue (log_capture.py).  What the *)
(* queue does with an event is EventPipeline's matter.                     *)
(*                                                                         *)
(* An event is a record [name, type, status, stack, actor]: the event_type *)
(* given; the payload's own type and status_code, None if missing; whether *)
(* it has a stacktrace; and its actor fields.  What else the payload holds *)
(* is a heap (see Scrubbing), as _normalize_payload leaves it: two dicts   *)
(* of its own, "payload" and the "context" in it, and below them whatever  *)
(* the caller has put there, shared and cyclic references among it.        *)
(***************************************************************************)
EXTENDS Scrubbing, Selection

CONSTANTS
    None,
    Events,                 \* the events that may be sent
    Payloads,               \* the payloads that they may come with
    Rates, Full,            \* sampling rates in parts of Full; Unreadable is one
    Unreadable,
    BucketOf,               \* the bucket of a key <<field, value>>, 0..Full-1
    Hooks,                  \* what before_send may do, see Hooked
    MaxCalls                \* bound: events sent

HookKinds == {"none", "keep", "drop", "annotate", "raise", "nonsense"}

ASSUME BoundaryAssumption ==
    /\ Full \in Nat \ {0} /\ Rates \ {Unreadable} \subseteq Nat
    /\ Hooks \subseteq HookKinds /\ MaxCalls \in Nat
    /\ {"payload", "context"} \subseteq Objects /\ Payloads \subseteq Heaps

VARIABLES
    rate, hook,             \* the configuration
    sampled, filtered,      \* sampled_events and filtered_events
    calls                   \* the calls so far, with what became of each

boundaryVars == <<rate, hook, sampled, filtered, calls>>

-----------------------------------------------------------------------------
(* Types.  auth.failed stands for every namespace, api.call for what is in     *)
(* the api. namespace and no abuse; user.signup for any other name.            *)

Allowed == {"log", "metric", "event", "info", "warn", "error", "debug", "warning",
            "critical", "http_request", "system_metrics", "function_execution",
            "function_registry", "dependency_health_report",
            "auth.failed", "api.abuse", "api.call"}

AlwaysSent == {"error", "critical", "fatal", "warning", "warn", "exception",
               "auth.failed", "api.abuse"}

\* _infer_event_type_from_status
Inferred(status) ==
    IF status = None THEN None
    ELSE IF status >= 500 THEN "critical"
    ELSE IF status >= 400 THEN "warning" ELSE "info"

\* _normalize_payload: the first type that is allowed.
FinalType(event) ==
    LET types == <<event.type, event.name, Inferred(event.status), "event">>
    IN Foremost(types, {n \in DOMAIN types : types[n] \in Allowed})

-----------------------------------------------------------------------------
(* Sampling *)

ActorFields == <<"identity_key", "session_id", "ip_address">>
Placeholders == {"anonymous", "unknown"}

\* Fault: an event is placed by its name, whoever it is about.
ActorUnknown(event) == None

ActorKey(event) ==
    LET given == {n \in DOMAIN ActorFields :
                    event.actor[ActorFields[n]] \notin Placeholders \cup {None}}
        field == Foremost(ActorFields, given)
    IN IF given = {} THEN None ELSE <<field, event.actor[field]>>

\* Every key there is has a bucket, and None is none of them.
ASSUME BucketsAssumption ==
    /\ \A key \in DOMAIN BucketOf : BucketOf[key] \in 0..(Full - 1)
    /\ \A e \in Events :
          /\ <<"event", e.name>> \in DOMAIN BucketOf
          /\ ActorKey(e) \in DOMAIN BucketOf \cup {None}
          /\ \A n \in DOMAIN ActorFields : <<ActorFields[n], e.actor[ActorFields[n]]>> # None

Bucket(event) ==
    BucketOf[IF ActorKey(event) = None THEN <<"event", event.name>> ELSE ActorKey(event)]

NeverSampled(event) == event.stack \/ event.name \in AlwaysSent

ShouldSend(event, r) ==
    IF r = Unreadable THEN TRUE
    ELSE r >= Full \/ NeverSampled(event) \/ (r > 0 /\ Bucket(event) < r)

-----------------------------------------------------------------------------
(* The hook and the scrubber. *)

Entry(key, value) == [key |-> key, value |-> value]
Dict(entries) == [kind |-> "dict", entries |-> entries]

\* What a hook puts into a dict.
Added == <<Entry("denied", "text"), Entry("open", "credential")>>

\* _apply_before_send: what goes on after the hook, which gets a copy of the outer dict
\* and the context itself.  It may have dropped the event, added to both dicts, or raised
\* or returned no dict when it had changed the context in place.
Hooked(h, heap) ==
    CASE h \in {"none", "keep"} -> heap
      [] h = "drop" -> None
      [] h = "annotate" -> [heap EXCEPT !["payload"].entries = @ \o Added,
                                        !["context"].entries = @ \o Added]
      [] h \in {"raise", "nonsense"} -> [heap EXCEPT !["context"].entries = @ \o Added]

\* Fault: the scrubber went before the hook, and what is in the outer dict now goes
\* as it is.
QueuedEarly(heap) ==
    [items |-> [n \in DOMAIN heap["payload"].entries |->
                  Leaf(IF heap["payload"].entries[n].value \in Objects THEN "text"
                       ELSE heap["payload"].entries[n].value)],
     truncated |-> FALSE]

\* What is put into the queue: the copy the scrubber makes.
Queued(heap) == Scrubbed(heap, "payload")

-----------------------------------------------------------------------------
(* The two ways in *)

BoundaryInit ==
    /\ rate \in Rates /\ hook \in Hooks
    /\ sampled = 0 /\ filtered = 0 /\ calls = <<>>

Record(event, payload, door, result, copy) ==
    calls' = Append(calls, [event |-> event, payload |-> payload, door |-> door,
                            result |-> result, type |-> FinalType(event), copy |-> copy])

\* EventHandler.send_event of the client.
SendEvent(event, payload) ==
    /\ Len(calls) < MaxCalls
    /\ \/ /\ ~ShouldSend(event, rate)
          /\ sampled' = sampled + 1 /\ UNCHANGED filtered
          /\ Record(event, payload, "client", "sampled", None)
       \/ /\ ShouldSend(event, rate) /\ Hooked(hook, payload) = None
          /\ filtered' = filtered + 1 /\ UNCHANGED sampled
          /\ Record(event, payload, "client", "filtered", None)
       \/ /\ ShouldSend(event, rate) /\ Hooked(hook, payload) # None
          /\ Record(event, payload, "client", "queued", Queued(Hooked(hook, payload)))
          /\ UNCHANGED <<sampled, filtered>>
    /\ UNCHANGED <<rate, hook>>

\* SecployLogHandler.emit: through an EventHandler of its own, without a rate and
\* without a hook.
Emit(event, payload) ==
    /\ Len(calls) < MaxCalls /\ event.name = "log"
    /\ Record(event, payload, "log", "queued", Queued(payload))
    /\ UNCHANGED <<rate, hook, sampled, filtered>>

BoundaryNext ==
    \E event \in Events, payload \in Payloads : SendEvent(event, payload) \/ Emit(event, payload)
BoundarySpec == BoundaryInit /\ [][BoundaryNext]_boundaryVars

-----------------------------------------------------------------------------
(* Properties *)

ByClient == {n \in DOMAIN calls : calls[n].door = "client"}
Thinned(n) == calls[n].result = "sampled"

\* test_sampling.py:87: "a sampled in actor keeps its whole sequence": of the events
\* with the same identity_key either all that may be sampled are dropped or none is,
\* whatever their types and other fields.  And the sequence only grows with the rate:
\* what one rate keeps a higher one keeps as well, down to the rate zero, at which what
\* must never be dropped still goes (sampling.py:137).
SequenceWhole ==
    /\ \A m, n \in ByClient :
         LET one == calls[m].event other == calls[n].event
         IN (/\ one.actor["identity_key"] = other.actor["identity_key"]
             /\ one.actor["identity_key"] \notin Placeholders \cup {None}
             /\ ~NeverSampled(one) /\ ~NeverSampled(other)) => Thinned(m) = Thinned(n)
    /\ \A n \in ByClient, low, high \in Rates \ {Unreadable} :
         (low <= high /\ ShouldSend(calls[n].event, low)) => ShouldSend(calls[n].event, high)

\* What has been queued, and what the scrubber should have made it from.
InQueue == {n \in DOMAIN calls : calls[n].result = "queued"}
Left(n) ==
    IF calls[n].door = "client" THEN Hooked(hook, calls[n].payload) ELSE calls[n].payload

\* events.py:191-192: "Scrubbing runs last so that nothing the hook returned -
\* including anything it added - can escape unscrubbed": no event in the queue has a
\* credential of what the hook has left of its payload (see Scrubbing).
NothingEscapes == \A n \in InQueue : NothingEscapesFrom(Left(n), "payload", calls[n].copy)

\* And all the rest of what the hook has left is still in it (see Scrubbing).
NothingLost == \A n \in InQueue : NothingLostFrom(Left(n), "payload", calls[n].copy)

\* However large, deep or cyclic it is, what is put into the queue is bounded, and cut at the
\* limits only (see Scrubbing).
TruncatedAtLimits == \A n \in InQueue : TruncatedFrom(Left(n), "payload", calls[n].copy)
=============================================================================
