----------------------------- MODULE GatePolicy -----------------------------
(***************************************************************************)
(* What a gate policy says of a request: the evaluation over the indexed   *)
(* snapshot (policy_cache.py), the decision built from its payload         *)
(* (client.py), and what the gate makes of the decision (handlers.py).     *)
(*                                                                         *)
(* A policy is the payload of the API: a sequence of rules                 *)
(*     [id, method, paths]                                                 *)
(* and a sequence of controls                                              *)
(*     [id, active, kind, target, action, method, paths, expires].         *)
(* A pattern is the set of the paths it matches.  A control is without a   *)
(* scope when its method is AnyMethod and its paths are all paths.  Ids are*)
(* keys of the API, so the controls that match are told by their places in *)
(* the payload.  The auth context of a request is a function from          *)
(* AuthFields; None is a missing field.  Whether two strings differ in     *)
(* case only is left out.                                                  *)
(***************************************************************************)
EXTENDS Selection, Functions

CONSTANTS
    None, AnyMethod,
    HashOf          \* the hash of a session id, and of a hash

AuthFields == {"identity_key", "user_id", "session_id", "ip_address",
               "remote_addr", "api_key"}

-----------------------------------------------------------------------------
(* The auth context *)

First(values) ==
    LET given == {n \in DOMAIN values : values[n] # None}
    IN IF given = {} THEN None ELSE Foremost(values, given)

\* hash_session_id: a hash stays what it is.
Hashed(session) ==
    IF session = None \/ \E s \in DOMAIN HashOf : HashOf[s] = session
    THEN session ELSE HashOf[session]

\* _resolve_auth_context: each field from the first source that has it - given
\* explicitly, the request object, headers, cookies - and the defaults.
ResolveAuth(sources) ==
    LET merged == [f \in AuthFields |-> First([n \in DOMAIN sources |-> sources[n][f]])]
        address == First(<<merged["ip_address"], merged["remote_addr"], "unknown">>)
    IN [merged EXCEPT !["identity_key"] = First(<<@, "anonymous">>),
                      !["ip_address"] = address,
                      !["remote_addr"] = First(<<@, address>>),
                      !["session_id"] = Hashed(@)]

-----------------------------------------------------------------------------
(* PolicySnapshot *)

\* The rules of a method and the controls in force of one target, by their places.
RulesByMethod(policy, method) ==
    {n \in DOMAIN policy.rules : policy.rules[n].method = method}

ControlsByTarget(policy, kind, target) ==
    {n \in DOMAIN policy.controls :
        LET c == policy.controls[n]
        IN c.active /\ c.kind = kind /\ c.target = target}

-----------------------------------------------------------------------------
(* evaluate *)

MatchRule(policy, request) ==
    LET fitting == {n \in RulesByMethod(policy, request.method) :
                       request.endpoint \in policy.rules[n].paths}
    IN IF fitting = {} THEN None ELSE Foremost(policy.rules, fitting).id

InScope(control, request) ==
    /\ control.method \in {AnyMethod, request.method}
    /\ request.endpoint \in control.paths

Lapsed(control, now) == control.expires # None /\ control.expires <= now

\* What to look up: each kind with the values there are.
Lookups(auth, projectKeys) ==
    LET keyed(kind, fields) == {kind} \X ({auth[f] : f \in fields} \ {None})
    IN keyed("session", {"session_id"})
       \cup keyed("identity", {"identity_key", "user_id"})
       \cup keyed("ip", {"ip_address", "remote_addr"})
       \cup ({"api_key"} \X (projectKeys \ {None}))

\* Fault: the expiry of a control is not checked again.
MatchLapsed(policy, request, now, lookup) ==
    {n \in ControlsByTarget(policy, lookup[1], lookup[2]) :
        InScope(policy.controls[n], request)}

MatchTarget(policy, request, now, lookup) ==
    {n \in ControlsByTarget(policy, lookup[1], lookup[2]) :
        /\ ~Lapsed(policy.controls[n], now)
        /\ InScope(policy.controls[n], request)}

\* What the lookups find, each control once, back in the order of the payload.
MatchControls(policy, request, projectKeys, now) ==
    Selected(policy.controls,
             UNION {MatchTarget(policy, request, now, l) :
                       l \in Lookups(request.auth, projectKeys)})

Evaluate(policy, request, projectKeys, now) ==
    LET rule == MatchRule(policy, request)
        controls == MatchControls(policy, request, projectKeys, now)
    IN [blocked |-> rule # None \/ controls # <<>>,
        reason |-> IF rule # None THEN "blocked_by_endpoint_rule"
                   ELSE IF controls # <<>> THEN "blocked_by_control_action"
                   ELSE "allowed",
        rule |-> rule, controls |-> controls]

\* The API's own evaluation, without an index: the first rule and every control
\* that fits, in the order of the policy.
Concerns(control, auth, projectKeys) ==
    LET has(fields) == \E f \in fields : auth[f] = control.target
    IN /\ control.target # None
       /\ \/ control.kind = "session" /\ has({"session_id"})
          \/ control.kind = "identity" /\ has({"identity_key", "user_id"})
          \/ control.kind = "ip" /\ has({"ip_address", "remote_addr"})
          \/ control.kind = "api_key" /\ control.target \in projectKeys

Reference(policy, request, projectKeys, now) ==
    LET fits(r) == r.method = request.method /\ request.endpoint \in r.paths
        rules == {n \in DOMAIN policy.rules : fits(policy.rules[n])}
        controls == Filtered(policy.controls,
            LAMBDA c : /\ c.active /\ Concerns(c, request.auth, projectKeys)
                       /\ ~Lapsed(c, now) /\ InScope(c, request))
        blocked == rules # {} \/ controls # <<>>
    IN [blocked |-> blocked,
        reason |-> IF rules # {} THEN "blocked_by_endpoint_rule"
                   ELSE IF blocked THEN "blocked_by_control_action"
                   ELSE "allowed",
        rule |-> IF rules = {} THEN None
                 ELSE Foremost(policy.rules, rules).id,
        controls |-> controls]

\* The decisions there can be under a policy.
Reasons == {"allowed", "blocked_by_endpoint_rule", "blocked_by_control_action",
            "lookup_unavailable", "http_error", "invalid_response"}

Decisions(policy) ==
    [blocked : BOOLEAN, reason : Reasons,
     rule : {None} \cup {r.id : r \in Range(policy.rules)},
     controls : Seq(Range(policy.controls))]

-----------------------------------------------------------------------------
(* The gate *)

\* _decision_signature: what local and remote have to agree on.
Signature(decision) ==
    <<decision.blocked, decision.reason, decision.rule,
      {c.id : c \in Range(decision.controls)}>>

\* Fault: an identity is known by its key alone.
ApplicableByKey(control, auth) ==
    IF control.kind = "identity" /\ control.target # None
    THEN control.target = auth["identity_key"]
    ELSE TRUE

\* _is_control_applicable.  The action goes before the kind of the target.
Applicable(control, auth) ==
    IF control.target = None THEN TRUE
    ELSE IF control.action \in {"block_identity", "allow_identity"}
            \/ control.kind \in {"identity", "user", "account"}
    THEN control.target \in {auth["identity_key"], auth["user_id"]}
    ELSE IF control.action \in {"block_ip", "allow_ip"} \/ control.kind = "ip"
    THEN control.target \in {auth["ip_address"], auth["remote_addr"]}
    ELSE IF control.action \in {"revoke_session", "restrict_session"}
            \/ control.kind = "session"
    THEN control.target = auth["session_id"]
    ELSE IF control.action = "block_api_key" \/ control.kind = "api_key"
    THEN control.target = auth["api_key"]
    ELSE TRUE

\* _filter_controls_by_auth_scope
FilterControls(decision, auth) ==
    LET matched == Filtered(decision.controls, LAMBDA c : Applicable(c, auth))
    IN IF decision.controls = <<>> \/ ~decision.blocked THEN decision
       ELSE IF matched # <<>> THEN [decision EXCEPT !.controls = matched]
       ELSE [decision EXCEPT !.blocked = FALSE, !.controls = <<>>,
                             !.reason = "control_not_applicable"]

Priority == <<"force_mfa", "revoke_session", "restrict_session", "block_ip",
              "rate_limit", "block_api_key">>

\* The action a blocked call is dispatched by.
Dispatched(decision) ==
    LET actions == {c.action : c \in Range(decision.controls)}
        fitting == {n \in DOMAIN Priority : Priority[n] \in actions}
    IN IF fitting = {} THEN "__default__" ELSE Foremost(Priority, fitting)
=============================================================================
