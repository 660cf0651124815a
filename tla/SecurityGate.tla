----------------------------- MODULE SecurityGate -----------------------------
(***************************************************************************)
(* A call through SecployGate, by any of its doors: the decision, from the *)
(* local policy, the API or both as gate_mode says (client.py), the gate's *)
(* treatment of it and what is behind the gate (handlers.py, gates.py),    *)
(* while policies are published and fetched, controls expire and lookups   *)
(* fail.                                                                   *)
(* How the snapshot is fetched is PolicyCache's matter.  The API is        *)
(* external; it decides by GatePolicy!Reference.                           *)
(***************************************************************************)
EXTENDS GatePolicy

CONSTANTS
    Cases,          \* names for what is looked at together ...
    Configs(_),     \* ... [mode, failOpen, handler, door, raises]: gate_mode; fail_open;
                    \* whether a handler answers a block; the door; raise_on_block
    Policies(_),    \* ... the policies the API may publish
    Requests(_),    \* ... [method, endpoint, sources]: the sources of the auth context,
                    \* given, the request object, headers, cookies
    MaxPublished(_),\* ... bound: policies published after the first
    ProjectKeys,    \* api_key and environment_key of the client
    Failures,       \* reasons of a failed lookup, of those in Lookup below
    MaxNow          \* bound: the clock; controls expire at a tick of it

\* The doors: protect() around a function, which may take a protector; the gate itself,
\* called; the middleware of a framework; a session that sends through the gate; a
\* function that is monitored; an item of the legacy gate's batch_check, not failing fast.
Leading == {"middleware", "session", "monitored"}
Doors == Leading \cup {"function", "protector", "call", "batch"}

\* None is none of the values it stands in for; the four sources are there and their
\* sessions have a hash.
ASSUME GateAssumption ==
    /\ \A c \in Cases :
          /\ Configs(c) \subseteq [mode : {"remote", "cached", "shadow"}, failOpen : BOOLEAN,
                                   handler : BOOLEAN, door : Doors, raises : BOOLEAN]
          /\ \A p \in Policies(c) :
                /\ p.rules \in Seq(Range(p.rules)) /\ p.controls \in Seq(Range(p.controls))
                /\ None \notin {r.id : r \in Range(p.rules)} \cup Decisions(p)
          /\ None \notin Policies(c)
          /\ \A r \in Requests(c) :
                /\ r.sources \in Seq(Range(r.sources)) /\ Len(r.sources) = 4
                /\ \A s \in Range(r.sources) : s["session_id"] \in DOMAIN HashOf \cup {None}
          /\ MaxPublished(c) \in Nat
    /\ None \notin {"anonymous", "unknown"}
    /\ Failures \subseteq {"lookup_unavailable", "http_error", "invalid_response"}
    /\ MaxNow \in Nat

VARIABLES
    policy, published,      \* what the API publishes, how often it changed
    snapshot, now,          \* the policy in force (None at first); the clock
    case, config,           \* the case; the configuration of the gate and the door
    pc, request,            \* where the call is and what it asks for; again, whether a
                            \* refusal is inspected again, with the auth context second;
                            \* same, whether that is the first one's
    local, remote,          \* the two decisions, None if not there
    decision,               \* what inspect() returned
    mismatch,               \* whether a shadow mismatch was reported
    ran, answer             \* whether what is behind the gate ran, what the caller got

world == <<policy, published, snapshot, now>>
vars == <<world, case, config, pc, request, local, remote, decision, mismatch, ran, answer>>

Init ==
    /\ case \in Cases /\ config \in Configs(case) /\ policy \in Policies(case)
    /\ published = 0 /\ snapshot = None /\ now = 0
    /\ pc = "idle" /\ request = None /\ local = None /\ remote = None
    /\ decision = None /\ mismatch = FALSE /\ ran = FALSE /\ answer = None

-----------------------------------------------------------------------------
(* The world *)

WorldOnly == UNCHANGED <<case, config, pc, request, local, remote, decision, mismatch,
                         ran, answer>>

Publish ==
    /\ published < MaxPublished(case) /\ published' = published + 1
    /\ policy' \in Policies(case) \ {policy}
    /\ UNCHANGED <<snapshot, now>> /\ WorldOnly

Fetch ==                    \* SecurityPolicyCache.fetch, on a thread of its own
    /\ config.mode # "remote" /\ snapshot # policy /\ snapshot' = policy
    /\ UNCHANGED <<policy, published, now>> /\ WorldOnly

Tick ==
    /\ now < MaxNow /\ now' = now + 1
    /\ UNCHANGED <<policy, published, snapshot>> /\ WorldOnly

-----------------------------------------------------------------------------
(* get_endpoint_decision *)

Go(from, to) == pc = from /\ pc' = to

Ask == IF config.mode = "remote" THEN "remote" ELSE "local"

Asks(r) == [method |-> r.method, endpoint |-> r.endpoint,
            auth |-> ResolveAuth(r.sources), second |-> ResolveAuth(r.sources),
            again |-> FALSE, same |-> TRUE]
Undecided == UNCHANGED <<world, case, config, local, remote, decision, mismatch, ran, answer>>

\* A protected function is called.  With a protector it is run first, and asks for the
\* decision when it registers the identity, or is asked for it afterwards.
Call ==
    /\ Go("idle", IF config.door = "protector" THEN "body" ELSE Ask)
    /\ config.door \in {"function", "protector"}
    /\ \E r \in Requests(case) : request' = Asks(r)
    /\ Undecided

\* The gate is called, by the application or a door that leads on.
Enter ==
    /\ Go("idle", Ask) /\ config.door \in Leading \cup {"call"}
    /\ \E r \in Requests(case) : request' = Asks(r)
    /\ Undecided

\* batch_check takes its next item.  Of a dict the gate itself sees the identity it
\* names, for it goes in a GateRequest; inspect() sees its headers and cookies.
CallItem ==
    /\ Go("idle", Ask) /\ config.door = "batch"
    /\ \E r \in Requests(case), isDict \in BOOLEAN :
         LET object == SubSeq(r.sources, 2, 4)
             first == ResolveAuth(IF isDict THEN <<r.sources[1]>> ELSE object)
             second == ResolveAuth(IF isDict THEN Tail(object) ELSE object)
         IN request' = [method |-> r.method, endpoint |-> r.endpoint, auth |-> first,
                        second |-> second, again |-> TRUE, same |-> first = second]
    /\ Undecided

\* The function registers the identity, or comes to its end without.
Register(ending) ==
    /\ Go("body", Ask)
    /\ ran' = ending
    /\ UNCHANGED <<world, case, config, request, local, remote, decision, mismatch, answer>>

\* _cached_endpoint_decision
DecideLocally ==
    /\ Go("local", IF config.mode = "cached" /\ snapshot # None THEN "decide" ELSE "remote")
    /\ local' = IF snapshot = None THEN None
                ELSE Evaluate(snapshot, request, ProjectKeys, now)
    /\ UNCHANGED <<world, case, config, request, remote, decision, mismatch, ran, answer>>

Fallback(reason) ==
    [blocked |-> FALSE, reason |-> reason, rule |-> None, controls |-> <<>>]

\* _remote_endpoint_decision
Lookup ==
    /\ Go("remote", "decide")
    /\ remote' \in {Reference(policy, request, ProjectKeys, now)}
                   \cup {Fallback(f) : f \in Failures}
    /\ UNCHANGED <<world, case, config, request, local, decision, mismatch, ran, answer>>

Decided == IF remote = None THEN local ELSE remote
\* Fault: only a lookup that was never answered counts as a fallback.
UnansweredOnly(d) == ~d.blocked /\ d.reason = "lookup_unavailable"

Unknown(d) == ~d.blocked /\ d.reason \in Failures

\* Fault: the decisions are compared after the filter of one of them.
DecideComparesFiltered ==
    /\ pc = "decide"
    /\ mismatch' = (/\ config.mode = "shadow" /\ local # None
                    /\ remote.reason # "lookup_unavailable"
                    /\ Signature(local) # Signature(FilterControls(remote, request.auth)))
    /\ IF Unknown(Decided) /\ ~config.failOpen
       THEN pc' = "end" /\ answer' = "lookup_error" /\ UNCHANGED decision
       ELSE /\ pc' = "dispatch" /\ UNCHANGED answer
            /\ decision' = FilterControls(Decided, request.auth)
    /\ UNCHANGED <<world, case, config, request, local, remote, ran>>

\* The end of get_endpoint_decision, and inspect: in shadow mode compare; refuse
\* a fallback unless failing open; filter the controls.
Decide ==
    /\ pc = "decide"
    /\ mismatch' = (/\ config.mode = "shadow" /\ local # None
                    /\ remote.reason # "lookup_unavailable"
                    /\ Signature(local) # Signature(remote))
    /\ IF Unknown(Decided) /\ ~config.failOpen
       THEN pc' = "end" /\ answer' = "lookup_error" /\ UNCHANGED decision
       ELSE /\ pc' = "dispatch" /\ UNCHANGED answer
            /\ decision' = FilterControls(Decided, request.auth)
    /\ UNCHANGED <<world, case, config, request, local, remote, ran>>

-----------------------------------------------------------------------------
(* The doors *)

Untouched == UNCHANGED <<world, case, config, local, remote, mismatch>>
Final == UNCHANGED <<request, decision>> /\ Untouched
Ends(result) == Go("dispatch", "end") /\ answer' = result

Guarded == config.door \in {"function", "protector"}       \* by protect()

\* protect: an allowed call runs the function, or lets it go on.
Pass ==
    /\ Ends("result")
    /\ Guarded /\ ~decision.blocked
    /\ ran' = TRUE /\ Final

\* _dispatch_control_exception without a handler that answers: raise.
Raise ==
    /\ Ends(Dispatched(decision))
    /\ Guarded /\ decision.blocked /\ ~config.handler
    /\ UNCHANGED ran /\ Final

\* A handler's answer is the call's answer, but the protector drops it.
Answered ==
    /\ Ends("handled")
    /\ config.door = "function" \/ (config.door = "middleware" /\ config.raises)
    /\ decision.blocked /\ config.handler
    /\ UNCHANGED ran /\ Final

AnswerDropped ==
    /\ Ends("result")
    /\ config.door = "protector" /\ decision.blocked /\ config.handler
    /\ ran' = TRUE /\ Final

\* Doors that lead on do not look at what __call__ returns: a decision lets through,
\* to the view, the server or the function behind the gate.
Opens == decision.blocked => ~config.raises
Serve == Ends("result") /\ config.door = "middleware" /\ Opens /\ ran' = TRUE /\ Final
SendOut == Ends("result") /\ config.door = "session" /\ Opens /\ ran' = TRUE /\ Final
RunMonitored == Ends("result") /\ config.door = "monitored" /\ Opens /\ ran' = TRUE /\ Final

\* A middleware answers for itself, the others pass the exception on.
TurnAway ==
    /\ Ends(IF config.door = "middleware" THEN "forbidden" ELSE "blocked")
    /\ config.door \in Leading /\ ~Opens /\ ~config.handler
    /\ UNCHANGED ran /\ Final

\* __call__ returns the request or the decision, or raises.
Admit ==
    /\ Ends(IF ~decision.blocked THEN "request"
            ELSE IF config.raises THEN "blocked" ELSE "decision")
    /\ config.door = "call" \/ (config.door = "batch" /\ request.again)
    /\ decision.blocked /\ config.raises => config.door = "call"
    /\ UNCHANGED ran /\ Final

\* batch_check catches the exception and inspects the item as it came ...
InspectAgain ==
    /\ Go("dispatch", Ask)
    /\ config.door = "batch" /\ request.again
    /\ decision.blocked /\ config.raises
    /\ request' = [request EXCEPT !.auth = request.second, !.again = FALSE]
    /\ local' = None /\ remote' = None /\ decision' = None /\ mismatch' = FALSE
    /\ UNCHANGED <<world, case, config, ran, answer>>

\* ... and reports what that says.
Report ==
    /\ Ends("decision")
    /\ config.door = "batch" /\ ~request.again
    /\ UNCHANGED ran /\ Final

Next ==
    \/ Publish \/ Fetch \/ Tick
    \/ Call \/ Enter \/ CallItem \/ Register(TRUE) \/ Register(FALSE)
    \/ DecideLocally \/ Lookup \/ Decide
    \/ Pass \/ Raise \/ Answered \/ AnswerDropped
    \/ Serve \/ SendOut \/ RunMonitored \/ TurnAway
    \/ Admit \/ InspectAgain \/ Report

Spec == Init /\ [][Next]_vars

-----------------------------------------------------------------------------
(* Properties *)

\* "The decision must be byte-identical to what the API would have returned"
\* (policy_cache.py:9): the indexed evaluation of a policy yields what the API's
\* does, at any time, for any request - also when the auth context was "normalised at
\* more than one layer" (scrubbing.py:166) before it got there, as it is by
\* register_identity and by gates within gates.
CachedAgrees ==
    (snapshot # None /\ request # None) =>
        LET again == [request EXCEPT !.auth = ResolveAuth(<<@>>)]
        IN Evaluate(snapshot, request, ProjectKeys, now)
               = Reference(snapshot, again, ProjectKeys, now)

\* What is behind the gate runs, and its result goes to the caller, on an approval only.
\* With fail_open off that is a decision somebody took: the API, or the policy in force.
\* A blocked call ends in an exception or a handler's answer by every door, but for a
\* protector, which lets the function run first, and for doors that lead on when the
\* gate does not raise.  And the item that batch_check was refused is reported as
\* blocked, unless the second inspection sees another caller, or something changed
\* or failed on the way.
RunsWhenApproved ==
    /\ (~config.failOpen /\ pc = "end" /\ answer \in {"result", "request"})
          => Decided.reason \notin Failures
    /\ (pc = "end" /\ decision # None /\ decision.blocked /\ config.door # "protector"
            /\ (config.door \in Leading => config.raises))
          => ~ran /\ answer \notin {"result", "request"}
    /\ (pc = "end" /\ config.door = "batch" /\ ~request.again /\ decision # None)
          => decision.blocked \/ ~request.same \/ published > 0 \/ now > 0
             \/ Decided.reason \in Failures

\* What the policy finds and what the gate keeps go by different tests (evaluate by
\* the kind of a control's target, _is_control_applicable by its action first).
\* For a control of the caller whose action is one of its kind they agree: the
\* control survives the filter and the call stays blocked.
OwnActions(kind) ==
    CASE kind = "identity" -> {"block_identity", "allow_identity", "force_mfa", "rate_limit"}
      [] kind = "ip" -> {"block_ip", "allow_ip", "rate_limit"}
      [] kind = "session" -> {"revoke_session", "restrict_session", "rate_limit"}
      [] OTHER -> {}

ControlsStand ==
    decision # None =>
        \A c \in Range(Decided.controls) :
            c.action \in OwnActions(c.kind)
                => decision.blocked /\ c \in Range(decision.controls)

\* In shadow mode a mismatch between the two decisions of a call is the sign of
\* something that changed on the way - the policy, or a control that expired - or
\* of a lookup that failed (client.py:1071-1077).
MismatchMeansChange ==
    mismatch => published > 0 \/ now > 0 \/ remote.reason \in Failures
=============================================================================
