---------------------------- MODULE MCSecurityGate ----------------------------
(* Instances of SecurityGate for TLC: two paths, one method and another, and  *)
(* controls that differ in what makes the evaluation or the gate treat them   *)
(* differently.                                                               *)
EXTENDS SecurityGate

Paths == {"/admin", "/home"}

ControlOf(id, kind, target, action) ==
    [id |-> id, active |-> TRUE, kind |-> kind, target |-> target,
     action |-> action, method |-> AnyMethod, paths |-> Paths, expires |-> None]

Plain == {
    ControlOf("c1", "identity", "u1", "block_identity"),
    ControlOf("c2", "ip", "ip1", "block_ip"),
    ControlOf("c3", "session", "sess_s1", "revoke_session"),
    ControlOf("c4", "identity", "u1", "force_mfa"),
    ControlOf("c5", "api_key", "pk", "block_api_key")}

Special == {
    [ControlOf("d1", "identity", "u1", "rate_limit") EXCEPT !.expires = 1],
    [ControlOf("d2", "ip", "ip1", "block_ip") EXCEPT !.paths = {"/admin"}],
    [ControlOf("d3", "identity", "u2", "restrict_session") EXCEPT !.active = FALSE],
    [ControlOf("d4", "session", "sess_s1", "block_ip") EXCEPT !.method = "POST"]}

RuleOf(id, method, paths) == [id |-> id, method |-> method, paths |-> paths]
RuleLists == {<<>>, <<RuleOf("r1", "GET", {"/admin"})>>,
              <<RuleOf("r2", "POST", Paths), RuleOf("r3", "GET", Paths),
                RuleOf("r1", "GET", {"/admin"})>>}

Lists(S, n) == UNION {{f \in [1..k -> S] : IsInjective(f)} : k \in 0..n}
PolicySet(rules, controls) == [rules : rules, controls : controls]

\* For the calls: few policies, that change.  The rule alone and with a control;
\* a control of every kind; one that expires with one that does not.
FewPolicies ==
    PolicySet({<<RuleOf("r1", "GET", {"/admin"})>>},
              {<<>>, <<ControlOf("c1", "identity", "u1", "block_identity")>>})
    \cup PolicySet({<<>>},
              {<<>>, <<ControlOf("c3", "session", "sess_s1", "revoke_session")>>,
               <<ControlOf("c5", "api_key", "pk", "block_api_key")>>,
               <<[ControlOf("d1", "identity", "u1", "rate_limit") EXCEPT !.expires = 1],
                 ControlOf("c2", "ip", "ip1", "block_ip")>>})

\* For the items: a control of a user or a session comes or goes.
TwoPolicies ==
    PolicySet({<<>>}, {<<>>, <<ControlOf("c1", "identity", "u1", "block_identity"),
                               ControlOf("c3", "session", "sess_s1", "revoke_session")>>})

\* For the evaluation: all lists of two controls, and rules in an order.
ManyPolicies ==
    PolicySet(RuleLists, Lists(Plain \cup Special, 1))
    \cup PolicySet({<<>>}, Lists(Plain \cup Special, 2))

Nothing == [f \in AuthFields |-> None]
User(id) == [Nothing EXCEPT !["identity_key"] = id, !["user_id"] = id]
Session(id) == [Nothing EXCEPT !["session_id"] = id]
Address(ip) == [Nothing EXCEPT !["ip_address"] = ip, !["remote_addr"] = ip]
Remote(ip) == [Nothing EXCEPT !["remote_addr"] = ip]
Hashes == [s \in {"s1", "sess_s1", "sess_sess_s1"} |->
             IF s = "sess_s1" THEN "sess_sess_s1" ELSE "sess_s1"]

RequestsOf(sources) ==
    [method : {"GET", "POST"}, endpoint : Paths, sources : sources]

\* A user from an address; somebody in a session.
FewRequests ==
    {r \in RequestsOf({<<User("u1"), Address("ip1"), Nothing, Nothing>>,
                       <<Session("s1"), Remote("ip2"), Nothing, Nothing>>}) :
       r.method = "GET"}

\* Given, request object, headers, cookies.
ManyRequests ==
    RequestsOf({<<u, a, h, IF u = Nothing THEN Session("s1") ELSE Session("sess_s1")>> :
                  u \in {User("u2"), Nothing}, a \in {Address("ip1"), Remote("ip2")},
                  h \in {[Nothing EXCEPT !["user_id"] = "u1"], Nothing}})

\* The item names a user, and a session's cookie comes with it; or it is an
\* object that knows the user.
ItemRequests ==
    {r \in RequestsOf({<<User("u1"), Nothing, Nothing, Session("s1")>>,
                       <<Nothing, User("u1"), Nothing, Nothing>>}) :
       r.method = "GET" /\ r.endpoint = "/admin"}

ConfigSet(doors, handlers, raises) ==
    [mode : {"remote", "cached", "shadow"}, failOpen : BOOLEAN, handler : handlers,
     door : doors, raises : raises]
Calls == ConfigSet({"function", "protector"}, BOOLEAN, {TRUE})
         \cup ConfigSet({"call", "middleware"}, {FALSE}, BOOLEAN)
         \cup ConfigSet({"middleware"}, {TRUE}, {TRUE})
         \cup {c \in ConfigSet({"session", "monitored"}, {FALSE}, BOOLEAN) : c.mode = "remote"}
Items == ConfigSet({"batch"}, {FALSE}, BOOLEAN)
OneConfig == {[mode |-> "cached", failOpen |-> TRUE, handler |-> FALSE, door |-> "function",
               raises |-> TRUE]}

\* Three cases: "calls" in every configuration, under policies of which one may follow
\* another; the same for "items"; "evaluation" of many policies for many requests.
TheCases == {"calls", "items", "evaluation"}
ConfigsOf(c) == CASE c = "calls" -> Calls [] c = "items" -> Items [] OTHER -> OneConfig
PoliciesOf(c) ==
    CASE c = "calls" -> FewPolicies [] c = "items" -> TwoPolicies [] OTHER -> ManyPolicies
RequestsOfCase(c) ==
    CASE c = "calls" -> FewRequests [] c = "items" -> ItemRequests [] OTHER -> ManyRequests
PublishedOf(c) == IF c = "evaluation" THEN 0 ELSE 1

ProjectKeySet == {"pk", "ek"}
AllFailures == {"lookup_unavailable", "http_error", "invalid_response"}
=============================================================================
