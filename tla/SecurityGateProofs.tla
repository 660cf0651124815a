-------------------------- MODULE SecurityGateProofs --------------------------
(***************************************************************************)
(* Proofs about GatePolicy and SecurityGate, for any policies, requests    *)
(* and configurations: the indexed evaluation decides as the API does, and *)
(* what is behind the gate runs on an approval.                            *)
(***************************************************************************)
EXTENDS SecurityGate, SelectionProofs, SequenceTheorems, TLAPS

-----------------------------------------------------------------------------
(* The auth context *)

LEMMA FirstElement ==
    ASSUME NEW S, NEW values \in Seq(S)
    PROVE  First(values) \in S \cup {None}
<1> DEFINE given == {n \in DOMAIN values : values[n] # None}
<1>1. given # {} => \E n \in given : Foremost(values, given) = values[n]
  BY ForemostElement
<1>2. \A n \in given : values[n] \in S
  OBVIOUS
<1> QED BY <1>1, <1>2 DEF First

LEMMA FirstOfOne == ASSUME NEW v PROVE First(<<v>>) = v
<1> DEFINE given == {n \in DOMAIN <<v>> : <<v>>[n] # None}
<1>1. CASE v = None
  BY <1>1 DEF First
<1>2. CASE v # None
  <2>1. given = {1}
    BY <1>2
  <2> QED BY <2>1 DEF First, Foremost
<1> QED BY <1>1, <1>2

LEMMA FirstOfTwo ==
    ASSUME NEW v, NEW w
    PROVE  First(<<v, w>>) = IF v # None THEN v ELSE w
<1> DEFINE given == {n \in DOMAIN <<v, w>> : <<v, w>>[n] # None}
<1>1. CASE v # None
  <2>1. 1 \in given /\ \A n \in given : n \in Nat /\ 1 <= n
    BY <1>1
  <2>2. (CHOOSE i \in given : \A j \in given : i <= j) = 1
    BY <2>1
  <2> QED BY <1>1, <2>1, <2>2 DEF First, Foremost
<1>2. CASE v = None /\ w # None
  <2>1. given = {2}
    BY <1>2
  <2> QED BY <1>2, <2>1 DEF First, Foremost
<1>3. CASE v = None /\ w = None
  <2>1. given = {}
    BY <1>3
  <2> QED BY <1>3, <2>1 DEF First
<1> QED BY <1>1, <1>2, <1>3

LEMMA FirstOfThree ==
    ASSUME NEW u, NEW v, NEW w, u # None \/ w # None
    PROVE  /\ u # None => First(<<u, v, w>>) = u
           /\ First(<<u, v, w>>) # None
<1> DEFINE values == <<u, v, w>>
           given == {n \in DOMAIN values : values[n] # None}
<1>1. values \in Seq({u, v, w}) /\ given \in SUBSET DOMAIN values /\ given # {}
  OBVIOUS
<1>2. \E n \in given : Foremost(values, given) = values[n]
  BY <1>1, ForemostElement
<1>3. u # None => (CHOOSE i \in given : \A j \in given : i <= j) = 1
  <2> SUFFICES ASSUME u # None PROVE (CHOOSE i \in given : \A j \in given : i <= j) = 1
    OBVIOUS
  <2>1. 1 \in given /\ \A n \in given : n \in Nat /\ 1 <= n
    OBVIOUS
  <2> QED BY <2>1
<1> QED BY <1>1, <1>2, <1>3 DEF First, Foremost

\* An auth context that normalising again leaves as it is.
Resolved(auth) == ResolveAuth(<<auth>>) = auth

LEMMA HashedTwice ==
    ASSUME NEW session \in DOMAIN HashOf \cup {None}
    PROVE  Hashed(Hashed(session)) = Hashed(session)
BY DEF Hashed

\* Sources whose sessions have a hash.
Sources(sources) ==
    /\ sources \in Seq(Range(sources))
    /\ \A s \in Range(sources) : s["session_id"] \in DOMAIN HashOf \cup {None}

\* "Applying it twice has to equal applying it once" (scrubbing.py:166).
LEMMA ResolvedOnce ==
    ASSUME NEW sources, Sources(sources)
    PROVE  Resolved(ResolveAuth(sources))
<1> DEFINE merged == [f \in AuthFields |-> First([n \in DOMAIN sources |-> sources[n][f]])]
           address == First(<<merged["ip_address"], merged["remote_addr"], "unknown">>)
           auth == ResolveAuth(sources)
<1>0. None # "anonymous" /\ None # "unknown"
  BY GateAssumption DEF GateAssumption
<1>1. merged["session_id"] \in DOMAIN HashOf \cup {None}
  <2> DEFINE sessions == [n \in DOMAIN sources |-> sources[n]["session_id"]]
  <2>1. sessions \in Seq(DOMAIN HashOf \cup {None})
    BY DEF Sources, Range
  <2>2. First(sessions) \in DOMAIN HashOf \cup {None}
    BY <2>1, FirstElement
  <2> QED BY <2>2 DEF AuthFields
<1>2. address # None
  BY <1>0, FirstOfThree
<1> HIDE DEF merged
<1>3. /\ auth = [f \in AuthFields |-> auth[f]]
      /\ auth["identity_key"] = First(<<merged["identity_key"], "anonymous">>)
      /\ auth["ip_address"] = address
      /\ auth["remote_addr"] = First(<<merged["remote_addr"], address>>)
      /\ auth["session_id"] = Hashed(merged["session_id"])
  BY DEF ResolveAuth, AuthFields, merged
<1> HIDE DEF auth, address
<1>4. auth["identity_key"] # None /\ auth["ip_address"] # None /\ auth["remote_addr"] # None
  BY <1>0, <1>2, <1>3, FirstOfTwo
<1>5. Hashed(auth["session_id"]) = auth["session_id"]
  BY <1>1, <1>3, HashedTwice
<1> DEFINE again == [f \in AuthFields |-> First([n \in DOMAIN <<auth>> |-> <<auth>>[n][f]])]
<1>6. again = auth
  <2>1. ASSUME NEW f \in AuthFields PROVE First([n \in DOMAIN <<auth>> |-> <<auth>>[n][f]]) = auth[f]
    <3>1. [n \in DOMAIN <<auth>> |-> <<auth>>[n][f]] = <<auth[f]>>
      OBVIOUS
    <3> QED BY <3>1, FirstOfOne
  <2> QED BY <1>3, <2>1
<1>7. First(<<auth["ip_address"], auth["remote_addr"], "unknown">>) = auth["ip_address"]
  BY <1>4, FirstOfThree
<1>8. /\ First(<<auth["identity_key"], "anonymous">>) = auth["identity_key"]
      /\ First(<<auth["remote_addr"], auth["ip_address"]>>) = auth["remote_addr"]
  BY <1>4, FirstOfTwo
<1> HIDE DEF again
<1>9. ResolveAuth(<<auth>>) =
        [again EXCEPT !["identity_key"] = First(<<again["identity_key"], "anonymous">>),
                      !["ip_address"] =
                          First(<<again["ip_address"], again["remote_addr"], "unknown">>),
                      !["remote_addr"] = First(<<again["remote_addr"],
                          First(<<again["ip_address"], again["remote_addr"], "unknown">>)>>),
                      !["session_id"] = Hashed(again["session_id"])]
  BY DEF ResolveAuth, again, AuthFields
<1>10. ResolveAuth(<<auth>>) = auth
  BY <1>3, <1>5, <1>6, <1>7, <1>8, <1>9 DEF AuthFields
<1> QED BY <1>10 DEF Resolved, auth

-----------------------------------------------------------------------------
(* The decisions *)

PolicyOk(p) ==
    /\ p.rules \in Seq(Range(p.rules)) /\ p.controls \in Seq(Range(p.controls))
    /\ None \notin {r.id : r \in Range(p.rules)}

FittingRules(p, r) ==
    {n \in DOMAIN p.rules :
        p.rules[n].method = r.method /\ r.endpoint \in p.rules[n].paths}

FittingControls(p, r, at) ==
    {n \in DOMAIN p.controls :
        LET c == p.controls[n]
        IN /\ c.active /\ Concerns(c, r.auth, ProjectKeys)
           /\ ~Lapsed(c, at) /\ InScope(c, r)}

\* What the lookups find by the target of a control is what concerns the caller.
LEMMA LookupsFind ==
    ASSUME NEW p, NEW r, NEW at
    PROVE  UNION {MatchTarget(p, r, at, l) : l \in Lookups(r.auth, ProjectKeys)}
               = FittingControls(p, r, at)
<1> DEFINE found == UNION {MatchTarget(p, r, at, l) : l \in Lookups(r.auth, ProjectKeys)}
<1>1. ASSUME NEW n \in DOMAIN p.controls
      PROVE  Concerns(p.controls[n], r.auth, ProjectKeys)
                 <=> <<p.controls[n].kind, p.controls[n].target>> \in Lookups(r.auth, ProjectKeys)
  BY DEF Concerns, Lookups
<1>2. ASSUME NEW n \in found PROVE n \in FittingControls(p, r, at)
  <2>1. PICK l \in Lookups(r.auth, ProjectKeys) : n \in MatchTarget(p, r, at, l)
    OBVIOUS
  <2>2. l = <<l[1], l[2]>>
    BY DEF Lookups
  <2> QED BY <1>1, <2>1, <2>2 DEF MatchTarget, ControlsByTarget, FittingControls
<1>3. ASSUME NEW n \in FittingControls(p, r, at) PROVE n \in found
  <2> DEFINE l == <<p.controls[n].kind, p.controls[n].target>>
  <2>1. l \in Lookups(r.auth, ProjectKeys)
    BY <1>1, <1>3 DEF FittingControls
  <2>2. n \in MatchTarget(p, r, at, l)
    BY <1>3 DEF MatchTarget, ControlsByTarget, FittingControls
  <2> QED BY <2>1, <2>2
<1> QED BY <1>2, <1>3

\* The rules and controls of a decision, whoever takes it.
LEMMA ReferenceParts ==
    ASSUME NEW p, NEW r, NEW at
    PROVE  LET rules == FittingRules(p, r)
               controls == Selected(p.controls, FittingControls(p, r, at))
           IN Reference(p, r, ProjectKeys, at) =
                [blocked |-> rules # {} \/ controls # <<>>,
                 reason |-> IF rules # {} THEN "blocked_by_endpoint_rule"
                            ELSE IF controls # <<>> THEN "blocked_by_control_action"
                            ELSE "allowed",
                 rule |-> IF rules = {} THEN None ELSE Foremost(p.rules, rules).id,
                 controls |-> controls]
BY DEF Reference, Filtered, FittingRules, FittingControls

LEMMA RuleFound ==
    ASSUME NEW p, PolicyOk(p), NEW r, FittingRules(p, r) # {}
    PROVE  Foremost(p.rules, FittingRules(p, r)).id \in {s.id : s \in Range(p.rules)}
<1>1. FittingRules(p, r) \in SUBSET DOMAIN p.rules
  BY DEF FittingRules
<1>2. \E n \in FittingRules(p, r) : Foremost(p.rules, FittingRules(p, r)) = p.rules[n]
  BY <1>1, ForemostElement DEF PolicyOk
<1> QED BY <1>1, <1>2 DEF Range

\* "The decision must be byte-identical to what the API would have returned".
LEMMA EvaluateIsReference ==
    ASSUME NEW p, PolicyOk(p), NEW r, NEW at
    PROVE  Evaluate(p, r, ProjectKeys, at) = Reference(p, r, ProjectKeys, at)
<1> DEFINE rules == FittingRules(p, r)
           controls == Selected(p.controls, FittingControls(p, r, at))
<1>1. MatchRule(p, r) = IF rules = {} THEN None ELSE Foremost(p.rules, rules).id
  <2>1. {n \in RulesByMethod(p, r.method) : r.endpoint \in p.rules[n].paths} = rules
    BY DEF RulesByMethod, FittingRules
  <2> QED BY <2>1 DEF MatchRule
<1>2. MatchRule(p, r) # None <=> rules # {}
  BY <1>1, RuleFound DEF PolicyOk
<1>3. MatchControls(p, r, ProjectKeys, at) = controls
  BY LookupsFind DEF MatchControls
<1> HIDE DEF controls, rules
<1>4. Evaluate(p, r, ProjectKeys, at) =
        [blocked |-> rules # {} \/ controls # <<>>,
         reason |-> IF rules # {} THEN "blocked_by_endpoint_rule"
                    ELSE IF controls # <<>> THEN "blocked_by_control_action"
                    ELSE "allowed",
         rule |-> IF rules = {} THEN None ELSE Foremost(p.rules, rules).id,
         controls |-> controls]
  BY <1>1, <1>2, <1>3 DEF Evaluate
<1> QED BY <1>4, ReferenceParts DEF rules, controls

\* What is true of every decision for a caller.
Sound(d, auth) ==
    /\ \E p : PolicyOk(p) /\ d \in Decisions(p)
    /\ d.controls # <<>> => d.blocked
    /\ d.blocked => d.reason \notin Failures
    /\ \A c \in Range(d.controls) : Concerns(c, auth, ProjectKeys)

LEMMA DecisionShape ==
    ASSUME NEW p
    PROVE  \A b \in BOOLEAN, w \in Reasons, i \in {None} \cup {r.id : r \in Range(p.rules)},
              cs \in Seq(Range(p.controls)) :
              [blocked |-> b, reason |-> w, rule |-> i, controls |-> cs] \in Decisions(p)
<1> DEFINE ids == {None} \cup {r.id : r \in Range(p.rules)}
           lists == Seq(Range(p.controls))
<1> HIDE DEF ids, lists
<1>1. Decisions(p) = [blocked : BOOLEAN, reason : Reasons, rule : ids, controls : lists]
  BY DEF Decisions, ids, lists
<1>2. \A b \in BOOLEAN, w \in Reasons, i \in ids, cs \in lists :
          [blocked |-> b, reason |-> w, rule |-> i, controls |-> cs] \in Decisions(p)
  BY <1>1
<1> QED BY <1>2 DEF ids, lists

LEMMA DecisionParts ==
    ASSUME NEW p, NEW d \in Decisions(p)
    PROVE  /\ d = [blocked |-> d.blocked, reason |-> d.reason, rule |-> d.rule,
                   controls |-> d.controls]
           /\ d.blocked \in BOOLEAN
           /\ d.controls \in Seq(Range(p.controls))
<1> DEFINE ids == {None} \cup {r.id : r \in Range(p.rules)}
           lists == Seq(Range(p.controls))
<1> HIDE DEF ids, lists
<1>1. Decisions(p) = [blocked : BOOLEAN, reason : Reasons, rule : ids, controls : lists]
  BY DEF Decisions, ids, lists
<1>2. /\ d = [blocked |-> d.blocked, reason |-> d.reason, rule |-> d.rule,
              controls |-> d.controls]
      /\ d.blocked \in BOOLEAN /\ d.controls \in lists
  BY <1>1
<1> QED BY <1>2 DEF lists

LEMMA FailureNames ==
    Failures \subseteq {"lookup_unavailable", "http_error", "invalid_response"}
BY GateAssumption DEF GateAssumption

LEMMA ReferenceSound ==
    ASSUME NEW p, PolicyOk(p), NEW r, NEW at
    PROVE  LET d == Reference(p, r, ProjectKeys, at) IN d \in Decisions(p) /\ Sound(d, r.auth)
<1> DEFINE rules == FittingRules(p, r)
           places == FittingControls(p, r, at)
           controls == Selected(p.controls, places)
           d == Reference(p, r, ProjectKeys, at)
<1>1. places \in SUBSET DOMAIN p.controls
  BY DEF FittingControls
<1>2. controls \in Seq({p.controls[n] : n \in places})
  BY <1>1, SelectedElements DEF PolicyOk
<1>3. controls \in Seq(Range(p.controls))
  <2>1. {p.controls[n] : n \in places} \subseteq Range(p.controls)
    BY <1>1 DEF Range
  <2> DEFINE some == {p.controls[n] : n \in places}
  <2> HIDE DEF some, controls
  <2>2. \A k \in 1..Len(controls) : controls[k] \in some
    BY <1>2 DEF some
  <2> QED BY <1>2, <2>1, <2>2 DEF some
<1>4. \A c \in Range(controls) : Concerns(c, r.auth, ProjectKeys)
  <2> SUFFICES ASSUME NEW k \in DOMAIN controls PROVE Concerns(controls[k], r.auth, ProjectKeys)
    BY DEF Range
  <2>1. controls[k] \in {p.controls[n] : n \in places}
    BY <1>2
  <2> QED BY <2>1 DEF FittingControls
<1>5. rules # {} => Foremost(p.rules, rules).id \in {s.id : s \in Range(p.rules)}
  BY RuleFound
<1> HIDE DEF rules, controls, places
<1>6. d = [blocked |-> rules # {} \/ controls # <<>>,
           reason |-> IF rules # {} THEN "blocked_by_endpoint_rule"
                      ELSE IF controls # <<>> THEN "blocked_by_control_action"
                      ELSE "allowed",
           rule |-> IF rules = {} THEN None ELSE Foremost(p.rules, rules).id,
           controls |-> controls]
  BY ReferenceParts DEF rules, controls, places
<1> HIDE DEF d
<1>7. d \in Decisions(p)
  <2>1. d.blocked \in BOOLEAN /\ d.reason \in Reasons
    BY <1>6 DEF Reasons
  <2>2. d.rule \in {None} \cup {s.id : s \in Range(p.rules)}
    BY <1>5, <1>6
  <2>3. d.controls \in Seq(Range(p.controls))
    BY <1>3, <1>6
  <2>4. d = [blocked |-> d.blocked, reason |-> d.reason, rule |-> d.rule,
             controls |-> d.controls]
    BY <1>6
  <2>5. [blocked |-> d.blocked, reason |-> d.reason, rule |-> d.rule,
         controls |-> d.controls] \in Decisions(p)
    BY <2>1, <2>2, <2>3, DecisionShape
  <2> QED BY <2>4, <2>5
<1>8. d.blocked => d.reason \notin Failures
  BY <1>6, FailureNames
<1>9. d.controls # <<>> => d.blocked
  BY <1>6
<1>10. d.controls = controls
  BY <1>6
<1>11. Sound(d, r.auth)
  BY <1>4, <1>7, <1>8, <1>9, <1>10 DEF Sound
<1> QED BY <1>7, <1>11 DEF d

LEMMA FallbackSound ==
    ASSUME NEW p, PolicyOk(p), NEW f \in Failures, NEW auth
    PROVE  Fallback(f) \in Decisions(p) /\ Sound(Fallback(f), auth)
<1>1. Fallback(f) \in Decisions(p)
  <2>1. f \in Reasons
    BY FailureNames DEF Reasons
  <2>2. <<>> \in Seq(Range(p.controls))
    OBVIOUS
  <2> QED BY <2>1, <2>2, DecisionShape DEF Fallback
<1>2. Range(Fallback(f).controls) = {}
  BY DEF Fallback, Range
<1>3. Fallback(f).controls = <<>> /\ ~Fallback(f).blocked
  BY DEF Fallback
<1> QED BY <1>1, <1>2, <1>3 DEF Sound

\* The filter blocks nobody whom the decision does not block, and keeps every
\* control that applies.
LEMMA FilterKeeps ==
    ASSUME NEW d, NEW auth, Sound(d, auth)
    PROVE  LET f == FilterControls(d, auth)
           IN /\ f.blocked \in BOOLEAN
              /\ f.blocked => d.blocked
              /\ \A c \in Range(d.controls) :
                    Applicable(c, auth) => f.blocked /\ c \in Range(f.controls)
<1> DEFINE places == {n \in DOMAIN d.controls : Applicable(d.controls[n], auth)}
           matched == Selected(d.controls, places)
<1>1. PICK p : PolicyOk(p) /\ d \in Decisions(p)
  BY DEF Sound
<1>2. /\ d = [blocked |-> d.blocked, reason |-> d.reason, rule |-> d.rule,
              controls |-> d.controls]
      /\ d.controls \in Seq(Range(p.controls)) /\ d.blocked \in BOOLEAN
  BY <1>1, DecisionParts
<1>3. \A n \in places : \E k \in DOMAIN matched : matched[k] = d.controls[n]
  <2> HIDE DEF places
  <2>1. places \in SUBSET DOMAIN d.controls
    BY DEF places
  <2> QED BY <1>2, <2>1, SelectedElements
<1>4. matched = <<>> <=> places = {}
  BY <1>2, SelectedEmpty
<1>5. matched = Filtered(d.controls, LAMBDA c : Applicable(c, auth))
  BY DEF Filtered
<1> HIDE DEF matched
<1>6. FilterControls(d, auth) =
        IF d.controls = <<>> \/ ~d.blocked THEN d
        ELSE IF matched # <<>> THEN [d EXCEPT !.controls = matched]
        ELSE [d EXCEPT !.blocked = FALSE, !.controls = <<>>,
                       !.reason = "control_not_applicable"]
  BY <1>5 DEF FilterControls
<1>7. ASSUME NEW c \in Range(d.controls), Applicable(c, auth)
      PROVE  matched # <<>> /\ c \in Range(matched) /\ d.controls # <<>>
  <2>1. PICK n \in DOMAIN d.controls : c = d.controls[n]
    BY DEF Range
  <2>2. n \in places
    BY <1>7, <2>1
  <2>3. c \in Range(matched)
    BY <1>3, <2>1, <2>2 DEF Range
  <2>4. d.controls # <<>>
    BY <2>1
  <2> QED BY <1>4, <2>2, <2>3, <2>4
<1>8. d.controls # <<>> => d.blocked
  BY DEF Sound
<1> QED BY <1>2, <1>6, <1>7, <1>8

\* A control of the caller with an action of its kind applies to the caller.
LEMMA OwnActionsApply ==
    ASSUME NEW c, NEW auth, Concerns(c, auth, ProjectKeys), c.action \in OwnActions(c.kind)
    PROVE  Applicable(c, auth)
<1>1. c.target # None /\ c.kind \in {"session", "identity", "ip", "api_key"}
  BY DEF Concerns
<1>2. CASE c.kind = "identity"
  BY <1>1, <1>2 DEF Concerns, Applicable
<1>3. CASE c.kind = "ip"
  BY <1>1, <1>3 DEF Concerns, Applicable, OwnActions
<1>4. CASE c.kind = "session"
  BY <1>1, <1>4 DEF Concerns, Applicable, OwnActions
<1>5. CASE c.kind = "api_key"
  BY <1>5 DEF OwnActions
<1> QED BY <1>1, <1>2, <1>3, <1>4, <1>5

LEMMA DispatchedActions ==
    ASSUME NEW d
    PROVE  Dispatched(d) \notin {"result", "request"}
<1> DEFINE S == {"force_mfa", "revoke_session", "restrict_session", "block_ip",
                 "rate_limit", "block_api_key"}
           fitting == {n \in DOMAIN Priority : Priority[n] \in {c.action : c \in Range(d.controls)}}
<1>1. Priority \in Seq(S)
  BY DEF Priority
<1>2. fitting # {} => \E n \in fitting : Foremost(Priority, fitting) = Priority[n]
  BY <1>1, ForemostElement
<1>3. fitting # {} => Foremost(Priority, fitting) \in S
  <2> HIDE DEF S
  <2> QED BY <1>1, <1>2
<1>4. Dispatched(d) \in S \cup {"__default__"}
  BY <1>3 DEF Dispatched
<1> QED BY <1>4

-----------------------------------------------------------------------------
(* The invariant.  As long as nothing has changed since the beginning        *)
(* (Calm), whoever decides finds the same (Expected).                        *)

GateTypes ==
    /\ case \in Cases /\ config \in Configs(case) /\ policy \in Policies(case)
    /\ published \in Nat /\ now \in Nat
    /\ snapshot \in Policies(case) \cup {None}
    /\ published = 0 => snapshot \in {None, policy}
    /\ pc \in {"idle", "body", "local", "remote", "decide", "dispatch", "end"}

\* What a call asks for.  Only an item of batch_check is inspected again.
Asked ==
    /\ request = [method |-> request.method, endpoint |-> request.endpoint,
                  auth |-> request.auth, second |-> request.second,
                  again |-> request.again, same |-> request.same]
    /\ Resolved(request.auth) /\ Resolved(request.second)
    /\ request.again =>
          config.door = "batch" /\ (request.same => request.auth = request.second)

RequestInv == IF pc = "idle" THEN request = None ELSE Asked

Calm == published = 0 /\ now = 0
Expected == Reference(policy, request, ProjectKeys, 0)

DecisionInv ==
    /\ local # None => Sound(local, request.auth) /\ (Calm => local = Expected)
    /\ remote # None =>
          /\ Sound(remote, request.auth)
          /\ Calm /\ remote.reason \notin Failures => remote = Expected
    /\ pc \in {"idle", "body", "local"} => local = None
    /\ pc \in {"idle", "body", "local", "remote"} => remote = None
    /\ pc \in {"decide", "dispatch", "end"} => Decided # None
    /\ pc = "decide" /\ remote = None => config.mode = "cached"
    /\ pc = "dispatch" => decision = FilterControls(Decided, request.auth)
    /\ decision # None =>
          pc \in {"dispatch", "end"} /\ decision = FilterControls(Decided, request.auth)
    /\ mismatch => pc \in {"dispatch", "end"}

\* What is let through, who is turned away, and whom batch_check was refused.
OutcomeInv ==
    /\ pc = "body" => config.door = "protector"
    /\ pc # "end" /\ config.door # "protector" => ~ran
    /\ pc = "dispatch" /\ ~config.failOpen => Decided.reason \notin Failures
    /\ (pc # "idle" /\ config.door = "batch" /\ ~request.again /\ request.same /\ Calm)
          => FilterControls(Expected, request.auth).blocked
    /\ (~config.failOpen /\ pc = "end" /\ answer \in {"result", "request"})
          => Decided.reason \notin Failures
    /\ (pc = "end" /\ decision # None /\ decision.blocked /\ config.door # "protector"
            /\ (config.door \in Leading => config.raises))
          => ~ran /\ answer \notin {"result", "request"}

GateInv == GateTypes /\ RequestInv /\ DecisionInv /\ MismatchMeansChange /\ OutcomeInv

LEMMA PoliciesOk ==
    ASSUME NEW c \in Cases, NEW p \in Policies(c)
    PROVE  PolicyOk(p) /\ None \notin Decisions(p) /\ p # None
BY GateAssumption DEF GateAssumption, PolicyOk

LEMMA RequestsOk ==
    ASSUME NEW c \in Cases, NEW r \in Requests(c)
    PROVE  Sources(r.sources) /\ Len(r.sources) = 4
BY GateAssumption DEF GateAssumption, Sources

LEMMA ConfigsOk ==
    ASSUME GateTypes
    PROVE  /\ config.mode \in {"remote", "cached", "shadow"} /\ config.door \in Doors
           /\ config.raises \in BOOLEAN /\ config.handler \in BOOLEAN
           /\ config.failOpen \in BOOLEAN
<1>1. config \in [mode : {"remote", "cached", "shadow"}, failOpen : BOOLEAN,
                  handler : BOOLEAN, door : Doors, raises : BOOLEAN]
  BY GateAssumption DEF GateAssumption, GateTypes
<1> QED BY <1>1

LEMMA InitGateInv == Init => GateInv
<1> SUFFICES ASSUME Init PROVE GateInv
  OBVIOUS
<1> USE DEF Init
<1>1. GateTypes
  BY DEF GateTypes
<1>2. RequestInv /\ DecisionInv /\ MismatchMeansChange /\ OutcomeInv
  BY DEF RequestInv, DecisionInv, MismatchMeansChange, OutcomeInv
<1> QED BY <1>1, <1>2 DEF GateInv

-----------------------------------------------------------------------------
(* The steps *)

\* The world goes on: it may end the calm, but does not disturb a call.
LEMMA WorldStep ==
    ASSUME GateInv, Publish \/ Fetch \/ Tick \/ UNCHANGED vars
    PROVE  GateInv'
<1> USE DEF Publish, Fetch, Tick, WorldOnly, vars, world
<1>1. UNCHANGED <<case, config, pc, request, local, remote, decision, mismatch, ran, answer>>
  OBVIOUS
<1>2. GateTypes'
  BY DEF GateInv, GateTypes
<1>3. Calm' => Calm /\ policy' = policy
  BY DEF GateInv, GateTypes, Calm
<1>4. Calm' => Calm /\ Expected' = Expected
  BY <1>1, <1>3 DEF Expected
<1>5. Decided' = Decided
  BY <1>1 DEF Decided
<1>6. published' > 0 \/ now' > 0 \/ (published' = published /\ now' = now)
  BY DEF GateInv, GateTypes
<1>7. RequestInv' /\ DecisionInv'
  BY <1>1, <1>4, <1>5 DEF GateInv, RequestInv, Asked, DecisionInv
<1>8. MismatchMeansChange' /\ OutcomeInv'
  BY <1>1, <1>4, <1>5, <1>6 DEF GateInv, MismatchMeansChange, OutcomeInv
<1> QED BY <1>2, <1>7, <1>8 DEF GateInv

LEMMA SomeSources ==
    ASSUME NEW S, \A e \in S : e["session_id"] \in DOMAIN HashOf \cup {None},
           NEW s \in Seq(S)
    PROVE  Sources(s)
BY DEF Sources, Range

LEMMA ItemSources ==
    ASSUME NEW s, Sources(s), Len(s) = 4
    PROVE  LET object == SubSeq(s, 2, 4)
           IN Sources(object) /\ Sources(Tail(object)) /\ Sources(<<s[1]>>)
<1> DEFINE S == Range(s)
           object == SubSeq(s, 2, 4)
<1>1. s \in Seq(S) /\ \A e \in S : e["session_id"] \in DOMAIN HashOf \cup {None}
  BY DEF Sources
<1> HIDE DEF S
<1>2. object \in Seq(S) /\ Len(object) = 3
  <2>1. \A i \in 2..4 : s[i] \in S
    BY <1>1
  <2> QED BY <2>1, SubSeqProperties
<1> HIDE DEF object
<1>3. Tail(object) \in Seq(S)
  BY <1>2
<1>4. <<s[1]>> \in Seq(S)
  BY <1>1
<1> QED BY <1>1, <1>2, <1>3, <1>4, SomeSources DEF object

LEMMA AskStep ==
    ASSUME GateInv, Call \/ Enter \/ CallItem
    PROVE  GateInv'
<1>1. /\ pc = "idle" /\ pc' \in {"body", "local", "remote"}
      /\ UNCHANGED <<policy, published, snapshot, now, case, config, local, remote,
                     decision, mismatch, ran, answer>>
  BY DEF Call, Enter, CallItem, Go, Ask, Undecided, world
<1>2. Asked' /\ (~request'.again => config.door # "batch")
  <2>1. CASE Call \/ Enter
    <3>1. PICK r \in Requests(case) : request' = Asks(r)
      BY <2>1 DEF Call, Enter
    <3>2. Resolved(ResolveAuth(r.sources))
      BY RequestsOk, ResolvedOnce DEF GateInv, GateTypes
    <3>3. config.door # "batch"
      BY <2>1 DEF Call, Enter, Leading
    <3> QED BY <3>1, <3>2, <3>3 DEF Asked, Asks
  <2>2. CASE CallItem
    <3>1. PICK r \in Requests(case), isDict \in BOOLEAN :
            LET object == SubSeq(r.sources, 2, 4)
                first == ResolveAuth(IF isDict THEN <<r.sources[1]>> ELSE object)
                second == ResolveAuth(IF isDict THEN Tail(object) ELSE object)
            IN request' = [method |-> r.method, endpoint |-> r.endpoint, auth |-> first,
                           second |-> second, again |-> TRUE, same |-> first = second]
      BY <2>2 DEF CallItem
    <3> DEFINE object == SubSeq(r.sources, 2, 4)
               first == ResolveAuth(IF isDict THEN <<r.sources[1]>> ELSE object)
               second == ResolveAuth(IF isDict THEN Tail(object) ELSE object)
    <3>2. Sources(object) /\ Sources(Tail(object)) /\ Sources(<<r.sources[1]>>)
      BY RequestsOk, ItemSources DEF GateInv, GateTypes
    <3>3. Resolved(first) /\ Resolved(second)
      BY <3>2, ResolvedOnce
    <3> HIDE DEF first, second
    <3>4. request' = [method |-> r.method, endpoint |-> r.endpoint, auth |-> first,
                      second |-> second, again |-> TRUE, same |-> first = second]
      BY <3>1 DEF first, second
    <3>5. config.door = "batch" /\ UNCHANGED config
      BY <1>1, <2>2 DEF CallItem
    <3> QED BY <3>3, <3>4, <3>5 DEF Asked
  <2> QED BY <2>1, <2>2
<1>3. GateTypes' /\ RequestInv' /\ (pc' = "body" => config.door = "protector")
  BY <1>1, <1>2 DEF GateInv, GateTypes, RequestInv, Call, Enter, CallItem, Go, Ask
<1>4. DecisionInv' /\ MismatchMeansChange'
  BY <1>1 DEF GateInv, DecisionInv, MismatchMeansChange
<1>5. OutcomeInv'
  BY <1>1, <1>2, <1>3 DEF GateInv, OutcomeInv
<1> QED BY <1>3, <1>4, <1>5 DEF GateInv

LEMMA RegisterStep ==
    ASSUME GateInv, NEW ending \in BOOLEAN, Register(ending)
    PROVE  GateInv'
<1>1. /\ pc = "body" /\ pc' \in {"local", "remote"}
      /\ UNCHANGED <<policy, published, snapshot, now, case, config, request, local, remote,
                     decision, mismatch, answer>>
  BY DEF Register, Go, Ask, world
<1>2. Resolved(request.auth) /\ RequestInv'
  BY <1>1 DEF GateInv, RequestInv, Asked
<1>3. GateTypes' /\ MismatchMeansChange'
  BY <1>1 DEF GateInv, GateTypes, MismatchMeansChange
<1>4. Expected' = Expected /\ Calm' = Calm /\ Decided' = Decided
  BY <1>1 DEF Expected, Calm, Decided
<1>5. DecisionInv'
  BY <1>1, <1>4 DEF GateInv, DecisionInv
<1>6. OutcomeInv'
  BY <1>1, <1>4 DEF GateInv, OutcomeInv
<1> QED BY <1>2, <1>3, <1>5, <1>6 DEF GateInv

\* The policy in force is the one published, as long as nothing has changed.
LEMMA DecideLocallyStep ==
    ASSUME GateInv, DecideLocally
    PROVE  GateInv'
<1>1. /\ pc = "local" /\ pc' \in {"decide", "remote"}
      /\ pc' = "decide" => config.mode = "cached" /\ snapshot # None
      /\ UNCHANGED <<policy, published, snapshot, now, case, config, request, remote,
                     decision, mismatch, ran, answer>>
      /\ local' = IF snapshot = None THEN None ELSE Evaluate(snapshot, request, ProjectKeys, now)
  BY DEF DecideLocally, Go, world
<1>2. snapshot # None =>
        /\ PolicyOk(snapshot) /\ local' = Reference(snapshot, request, ProjectKeys, now)
        /\ local' # None /\ Sound(local', request.auth)
  <2> SUFFICES ASSUME snapshot # None
               PROVE  /\ PolicyOk(snapshot)
                      /\ local' = Reference(snapshot, request, ProjectKeys, now)
                      /\ local' # None /\ Sound(local', request.auth)
    OBVIOUS
  <2>1. PolicyOk(snapshot) /\ None \notin Decisions(snapshot)
    BY PoliciesOk DEF GateInv, GateTypes
  <2>2. local' = Reference(snapshot, request, ProjectKeys, now)
    BY <1>1, <2>1, EvaluateIsReference
  <2>3. local' \in Decisions(snapshot) /\ Sound(local', request.auth)
    BY <2>1, <2>2, ReferenceSound
  <2> QED BY <2>1, <2>2, <2>3
<1>3. snapshot # None /\ Calm => local' = Expected
  BY <1>2 DEF GateInv, GateTypes, Calm, Expected
<1>4. GateTypes' /\ RequestInv' /\ Expected' = Expected /\ Calm' = Calm
  BY <1>1 DEF GateInv, GateTypes, RequestInv, Asked, Expected, Calm
<1>5. DecisionInv' /\ MismatchMeansChange'
  BY <1>1, <1>2, <1>3, <1>4 DEF GateInv, DecisionInv, MismatchMeansChange, Decided
<1>6. OutcomeInv'
  BY <1>1, <1>4 DEF GateInv, OutcomeInv
<1> QED BY <1>4, <1>5, <1>6 DEF GateInv

LEMMA LookupStep ==
    ASSUME GateInv, Lookup
    PROVE  GateInv'
<1>1. /\ pc = "remote" /\ pc' = "decide"
      /\ UNCHANGED <<policy, published, snapshot, now, case, config, request, local,
                     decision, mismatch, ran, answer>>
      /\ \/ remote' = Reference(policy, request, ProjectKeys, now)
         \/ \E f \in Failures : remote' = Fallback(f)
  BY DEF Lookup, Go, world
<1>2. PolicyOk(policy) /\ None \notin Decisions(policy)
  BY PoliciesOk DEF GateInv, GateTypes
<1>3. remote' \in Decisions(policy) /\ Sound(remote', request.auth)
  BY <1>1, <1>2, ReferenceSound, FallbackSound
<1>4. Calm /\ remote'.reason \notin Failures => remote' = Expected
  BY <1>1 DEF Calm, Expected, Fallback
<1>5. GateTypes' /\ RequestInv' /\ Expected' = Expected /\ Calm' = Calm
  BY <1>1 DEF GateInv, GateTypes, RequestInv, Asked, Expected, Calm
<1>6. DecisionInv' /\ MismatchMeansChange'
  BY <1>1, <1>2, <1>3, <1>4, <1>5 DEF GateInv, DecisionInv, MismatchMeansChange, Decided
<1>7. OutcomeInv'
  BY <1>1, <1>5 DEF GateInv, OutcomeInv
<1> QED BY <1>5, <1>6, <1>7 DEF GateInv

LEMMA DecidedSound ==
    ASSUME GateInv, pc \in {"decide", "dispatch", "end"}
    PROVE  /\ Sound(Decided, request.auth)
           /\ Calm /\ Decided.reason \notin Failures => Decided = Expected
BY DEF GateInv, DecisionInv, Decided

LEMMA DecideStep ==
    ASSUME GateInv, Decide
    PROVE  GateInv'
<1>1. /\ pc = "decide" /\ pc' \in {"dispatch", "end"}
      /\ UNCHANGED <<policy, published, snapshot, now, case, config, request, local, remote, ran>>
      /\ mismatch' => /\ config.mode = "shadow" /\ local # None
                      /\ Signature(local) # Signature(remote)
      /\ pc' = "end" => answer' = "lookup_error" /\ UNCHANGED decision
      /\ pc' = "dispatch" => /\ ~(Unknown(Decided) /\ ~config.failOpen)
                             /\ decision' = FilterControls(Decided, request.auth)
  BY DEF Decide, world
<1>2. /\ GateTypes' /\ RequestInv' /\ Expected' = Expected /\ Calm' = Calm
      /\ Decided' = Decided
  BY <1>1 DEF GateInv, GateTypes, RequestInv, Asked, Expected, Calm, Decided
<1>3. pc' = "end" => decision' = None
  BY <1>1 DEF GateInv, DecisionInv
<1>4. DecisionInv'
  BY <1>1, <1>2, <1>3 DEF GateInv, DecisionInv
<1>5. MismatchMeansChange'
  <2>1. ASSUME mismatch', Calm PROVE remote.reason \in Failures
    <3>1. local = Expected /\ remote # None
      BY <1>1, <2>1 DEF GateInv, DecisionInv
    <3>2. Signature(local) # Signature(remote)
      BY <1>1, <2>1
    <3> QED BY <2>1, <3>1, <3>2 DEF GateInv, DecisionInv
  <2>2. ~Calm => published > 0 \/ now > 0
    BY DEF GateInv, GateTypes, Calm
  <2> QED BY <1>1, <2>1, <2>2 DEF MismatchMeansChange
<1>6. pc' = "dispatch" /\ ~config.failOpen => Decided.reason \notin Failures
  BY <1>1, DecidedSound DEF Unknown, Sound
<1>7. OutcomeInv'
  BY <1>1, <1>2, <1>3, <1>6 DEF GateInv, OutcomeInv
<1> QED BY <1>2, <1>4, <1>5, <1>7 DEF GateInv

Endings ==
    \/ Pass \/ Raise \/ Answered \/ AnswerDropped
    \/ Serve \/ SendOut \/ RunMonitored \/ TurnAway
    \/ Admit \/ Report

\* By every door a call that is turned away has run nothing, and has no result.
LEMMA EndStep ==
    ASSUME GateInv, Endings
    PROVE  GateInv'
<1>1. /\ pc = "dispatch" /\ pc' = "end"
      /\ UNCHANGED <<policy, published, snapshot, now, case, config, request, local, remote,
                     decision, mismatch>>
  BY DEF Endings, Pass, Raise, Answered, AnswerDropped, Serve, SendOut, RunMonitored,
     TurnAway, Admit, Report, Ends, Go, Final, Untouched, world
<1>2. /\ GateTypes' /\ RequestInv' /\ Expected' = Expected /\ Calm' = Calm
      /\ Decided' = Decided
  BY <1>1 DEF GateInv, GateTypes, RequestInv, Asked, Expected, Calm, Decided
<1>3. DecisionInv' /\ MismatchMeansChange'
  BY <1>1, <1>2 DEF GateInv, DecisionInv, MismatchMeansChange
<1>4. ASSUME decision.blocked, config.door # "protector",
             config.door \in Leading => config.raises
      PROVE  ran' = ran /\ answer' \notin {"result", "request"}
  <2> USE <1>4 DEF Ends, Leading
  <2>1. CASE Pass
    BY <2>1 DEF Pass
  <2>2. CASE Raise
    BY <2>2, DispatchedActions DEF Raise
  <2>3. CASE Answered \/ AnswerDropped
    BY <2>3 DEF Answered, AnswerDropped
  <2>4. CASE Serve \/ SendOut \/ RunMonitored
    BY <2>4 DEF Serve, SendOut, RunMonitored, Opens
  <2>5. CASE TurnAway \/ Report
    BY <2>5 DEF TurnAway, Report
  <2>6. CASE Admit
    BY <2>6 DEF Admit
  <2> QED BY <2>1, <2>2, <2>3, <2>4, <2>5, <2>6 DEF Endings
<1>5. OutcomeInv'
  BY <1>1, <1>2, <1>4 DEF GateInv, OutcomeInv
<1> QED BY <1>2, <1>3, <1>5 DEF GateInv

\* An item that is inspected again was refused, and is expected to be again.
LEMMA InspectAgainStep ==
    ASSUME GateInv, InspectAgain
    PROVE  GateInv'
<1>1. /\ pc = "dispatch" /\ pc' \in {"local", "remote"}
      /\ decision.blocked /\ request.again /\ config.door = "batch"
      /\ UNCHANGED <<policy, published, snapshot, now, case, config, ran, answer>>
      /\ request' = [request EXCEPT !.auth = request.second, !.again = FALSE]
      /\ local' = None /\ remote' = None /\ decision' = None /\ mismatch' = FALSE
  BY DEF InspectAgain, Go, Ask, world
<1>2. Asked
  BY <1>1 DEF GateInv, RequestInv
<1>3. request' = [method |-> request.method, endpoint |-> request.endpoint,
                  auth |-> request.second, second |-> request.second,
                  again |-> FALSE, same |-> request.same]
  BY <1>1, <1>2 DEF Asked
<1>4. Asked'
  BY <1>2, <1>3 DEF Asked
<1>5. GateTypes' /\ RequestInv' /\ DecisionInv' /\ MismatchMeansChange'
  BY <1>1, <1>4 DEF GateInv, GateTypes, RequestInv, DecisionInv, MismatchMeansChange
<1>6. ASSUME request.same, Calm PROVE FilterControls(Expected', request'.auth).blocked
  <2>1. decision = FilterControls(Decided, request.auth)
    BY <1>1 DEF GateInv, DecisionInv
  <2>2. Decided.blocked /\ Decided.reason \notin Failures
    BY <1>1, <2>1, DecidedSound, FilterKeeps DEF Sound
  <2>3. decision = FilterControls(Expected, request.auth)
    BY <1>1, <1>6, <2>1, <2>2, DecidedSound
  <2>4. request'.auth = request.auth
    BY <1>1, <1>2, <1>3, <1>6 DEF Asked
  <2>5. Expected' = Expected
    <3>1. request'.method = request.method /\ request'.endpoint = request.endpoint
      BY <1>3
    <3>2. /\ FittingRules(policy, request') = FittingRules(policy, request)
          /\ FittingControls(policy, request', 0) = FittingControls(policy, request, 0)
      BY <2>4, <3>1 DEF FittingRules, FittingControls, InScope
    <3> QED BY <1>1, <3>2, ReferenceParts DEF Expected
  <2> QED BY <1>1, <2>3, <2>4, <2>5
<1>7. OutcomeInv'
  BY <1>1, <1>3, <1>6 DEF GateInv, OutcomeInv, Calm
<1> QED BY <1>5, <1>7 DEF GateInv

LEMMA NextGateInv == GateInv /\ [Next]_vars => GateInv'
BY WorldStep, AskStep, RegisterStep, DecideLocallyStep, LookupStep, DecideStep, EndStep,
   InspectAgainStep DEF Next, Endings

LEMMA GateInvariant == Spec => []GateInv
BY InitGateInv, NextGateInv, PTL DEF Spec

-----------------------------------------------------------------------------
(* The theorems *)

\* The decision from the indexed snapshot is that of the API for every policy, request
\* and time, and normalising the auth context again changes nothing of it
\* (policy_cache.py:9, scrubbing.py:166).
THEOREM CacheDecidesAsApi == Spec => []CachedAgrees
<1>1. GateInv => CachedAgrees
  <2> SUFFICES ASSUME GateInv, snapshot # None, request # None
               PROVE  LET again == [request EXCEPT !.auth = ResolveAuth(<<@>>)]
                      IN Evaluate(snapshot, request, ProjectKeys, now)
                             = Reference(snapshot, again, ProjectKeys, now)
    BY DEF CachedAgrees
  <2>1. Asked
    BY DEF GateInv, RequestInv
  <2>2. [request EXCEPT !.auth = ResolveAuth(<<@>>)] = request
    BY <2>1 DEF Asked, Resolved
  <2>3. PolicyOk(snapshot)
    BY PoliciesOk DEF GateInv, GateTypes
  <2> QED BY <2>2, <2>3, EvaluateIsReference
<1> QED BY <1>1, GateInvariant, PTL

\* By every door what is behind the gate runs on an approval only, with fail_open off
\* one that somebody gave, and batch_check reports whom the gate refused as blocked
\* unless the second inspection sees another caller, or something changed or failed.
THEOREM ApprovedOnly == Spec => []RunsWhenApproved
<1>1. GateInv => RunsWhenApproved
  <2> SUFFICES ASSUME GateInv PROVE RunsWhenApproved
    OBVIOUS
  <2>1. ASSUME pc = "end", config.door = "batch", ~request.again, decision # None,
               request.same, published = 0, now = 0, Decided.reason \notin Failures
        PROVE  decision.blocked
    <3>1. Decided = Expected
      BY <2>1, DecidedSound DEF Calm
    <3>2. decision = FilterControls(Expected, request.auth)
      BY <2>1, <3>1 DEF GateInv, DecisionInv
    <3> QED BY <2>1, <3>2 DEF GateInv, OutcomeInv, Calm
  <2>2. published \in Nat /\ now \in Nat
    BY DEF GateInv, GateTypes
  <2> QED BY <2>1, <2>2 DEF GateInv, OutcomeInv, RunsWhenApproved
<1> QED BY <1>1, GateInvariant, PTL

\* A control of the caller whose action is one of its kind survives the filter of
\* _filter_controls_by_auth_scope, and the call stays blocked (handlers.py).
THEOREM OwnControlsStand == Spec => []ControlsStand
<1>1. GateInv => ControlsStand
  <2> SUFFICES ASSUME GateInv, decision # None, NEW c \in Range(Decided.controls),
                      c.action \in OwnActions(c.kind)
               PROVE  decision.blocked /\ c \in Range(decision.controls)
    BY DEF ControlsStand
  <2>1. pc \in {"dispatch", "end"} /\ decision = FilterControls(Decided, request.auth)
    BY DEF GateInv, DecisionInv
  <2>2. Sound(Decided, request.auth)
    BY <2>1, DecidedSound
  <2>3. Applicable(c, request.auth)
    BY <2>2, OwnActionsApply DEF Sound
  <2> QED BY <2>1, <2>2, <2>3, FilterKeeps
<1> QED BY <1>1, GateInvariant, PTL

\* What shadow mode reports is a change on the way or a lookup that failed, and never
\* a difference between the two evaluations (client.py:1071-1077).
THEOREM MismatchExplained == Spec => []MismatchMeansChange
<1>1. GateInv => MismatchMeansChange
  BY DEF GateInv
<1> QED BY <1>1, GateInvariant, PTL
=============================================================================
