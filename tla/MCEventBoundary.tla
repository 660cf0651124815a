--------------------------- MODULE MCEventBoundary ---------------------------
(* Instances for TLC, of EventBoundary: one person who is seen with an         *)
(* identity, with a session or with an address only, an unknown caller, and    *)
(* events of every kind that is treated differently; and payloads of every     *)
(* form, up to two entries in the outer dict and one in each container below   *)
(* it; and of ConfigLoading: every combination of what its layers may say.     *)
EXTENDS EventBoundary, ConfigLoading

Actor(identity, session, ip) ==
    [f \in {"identity_key", "session_id", "ip_address"} |->
        CASE f = "identity_key" -> identity [] f = "session_id" -> session
          [] f = "ip_address" -> ip]
LoggedIn == {Actor("u1", "s1", "ip1"), Actor("u1", None, "ip1")}
Visitor == {Actor("anonymous", "s1", "ip1"), Actor(None, None, "ip1")}
Nobody == Actor("anonymous", None, "unknown")

Event(name, type, status, stack, actor) ==
    [name |-> name, type |-> type, status |-> status, stack |-> stack,
     actor |-> actor]

Volume == {Event(n, None, s, FALSE, a) :
             n \in {"http_request", "metric"}, s \in {None, 200, 500},
             a \in LoggedIn \cup Visitor}
Signals == {Event(n, None, None, FALSE, Nobody) :
              n \in {"error", "fatal", "auth.failed", "api.abuse", "api.call", "user.signup"}}
Logs == {Event("log", t, None, s, Nobody) : t \in {"info", "error"}, s \in BOOLEAN}
AllEvents == Volume \cup Signals \cup Logs

\* The keys spread over the buckets 0..2.
Buckets == <<"identity_key", "u1">> :> 1 @@ <<"session_id", "s1">> :> 2
           @@ <<"ip_address", "ip1">> :> 0
           @@ [k \in {"event"} \X {e.name : e \in AllEvents} |->
                 IF k[2] = "metric" THEN 0 ELSE 1]
ThreeRates == {0, 1, 2, 3, Unreadable}

-----------------------------------------------------------------------------
(* The payloads: what is in the two dicts, and in two containers that the caller has *)
(* put there or not.                                                                 *)

Caller == Objects \ {"payload", "context"}
EntriesOf(kind) ==
    [key : IF kind = "dict" THEN {"open", "denied"} ELSE {"open"}, value : Leaves \cup Caller]
EntryLists(kind, most) == UNION {[1..k -> EntriesOf(kind)] : k \in 0..most}

Context == Entry("open", "context")
Outer == {<<Context>>} \cup {<<Context, e>> : e \in EntriesOf("dict")}
                       \cup {<<e, Context>> : e \in EntriesOf("dict")}
Containers == UNION {[kind : {kind}, entries : EntryLists(kind, 1)] : kind \in {"dict", "list"}}

AllPayloads ==
    {[o \in Objects |-> CASE o = "payload" -> Dict(outer)
                          [] o = "context" -> Dict(context)
                          [] OTHER -> caller[o]] :
       outer \in Outer, context \in EntryLists("dict", 1), caller \in [Caller -> Containers]}

Plain == [o \in Objects |-> IF o = "payload" THEN Dict(<<Context>>) ELSE Dict(<<>>)]

-----------------------------------------------------------------------------
(* The layers of a configuration *)

MCDefaults == "api_key" :> Null @@ "max_retry" :> [type |-> "int", text |-> "digits"]

PartialFunctions(D, R) == UNION {[d -> R] : d \in SUBSET D}
Typed == {[type |-> "str", text |-> ""], [type |-> "int", text |-> "negative"],
          [type |-> "int", text |-> "digits"], Null}
Named == {"api_key", "max_retry", "retry_attempts", "realtime", "source_root"}
AllFiles ==
    [format : {"mapping"}, says : PartialFunctions(Named \ {"source_root"}, Typed)] \cup
    [format : {"lines", "string"},
     says : PartialFunctions(Named, {Verbatim("zero"), Verbatim("other")})]
\* Names without a default come together or not at all.
AllEnvironments ==
    {known @@ other : known \in PartialFunctions({"api_key", "max_retry"}, {"", "true"}),
                      other \in {<<>>, "retry_attempts" :> "true" @@ "realtime" :> ""}}
    \cup {"api_key" :> "false"}
Argument == PartialFunctions({"api_key"}, {"", "decimal"})

-----------------------------------------------------------------------------
\* Events of every kind come with a plain payload, to any configuration.  Any other payload
\* comes with the first event, of one kind, without a hook or to one that adds to it.  And a
\* client is built, whatever the events do.
Some == Event("error", None, None, FALSE, Nobody)
PayloadsOf(event) ==
    IF calls = <<>> /\ event = Some /\ rate = 0 /\ hook \in {"none", "annotate"}
    THEN Payloads ELSE {Plain}

MCInit == BoundaryInit /\ LoadingInit
MCNext ==
    /\ client = Null
    /\ \/ /\ \A n \in DOMAIN calls : calls[n].payload = Plain
          /\ \E event \in Events : \E payload \in PayloadsOf(event) :
                SendEvent(event, payload) \/ Emit(event, payload)
          /\ UNCHANGED client
       \/ /\ rate = 0 /\ hook = "none" /\ calls = <<>>
          /\ LoadingNext /\ UNCHANGED boundaryVars
MCSpec == MCInit /\ [][MCNext]_<<boundaryVars, client>>
=============================================================================
