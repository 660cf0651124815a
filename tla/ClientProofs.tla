---------------------------- MODULE ClientProofs ----------------------------
(***************************************************************************)
(* For any number of starts and stops: what is behind stop() on its way is *)
(* stopped, and nothing but the mishaps makes two of anything.  And of     *)
(* what any number of clients share in their process (ProcessHooks): every *)
(* call is reported once, and no handler or hook stays.                    *)
(***************************************************************************)
EXTENDS ClientLifecycle, ProcessHooks, FiniteSetTheorems, SequenceTheorems, TLAPS

\* Where stop() stops a part.
Rank == [metrics |-> 1, configs |-> 2, policy |-> 3, policy_reset |-> 4, identities |-> 5,
         scan |-> 6, refresh |-> 7, logs |-> 8, httpx |-> 9, requests |-> 10, processor |-> 11]

Starting == app # None /\ app[1] = "start"
Stopping == app # None /\ app[1] = "stop"

\* stop() has been there, or is through.
Behind(part) == outcome = "stopped" \/ (Stopping /\ app[2] > Rank[part])

AppTypes ==
    /\ \/ app = None
       \/ app \in {"start"} \X (1..Len(StartOrder)) \/ app \in {"stop"} \X (1..11)
    /\ outcome \in {None, "stopped", "raised"}
    /\ app # None => outcome = None

PartTypes ==
    /\ running \subseteq Emitters
    /\ boot \in [Threads -> {"off", "fetch", "test", "assign", "start", "done"}]
    /\ channel \in [Threads -> {"none", "made", "running", "stopped"}]
    /\ policy \in Threads \cup {None}
    /\ thread \in [Workers -> Threads \cup {None}]
    /\ worker \in [Workers -> [Threads -> {"off", "live", "ended"}]]
    /\ stopEvent \in [Workers -> BOOLEAN]

\* What stops in one step is stopped once stop() has been there.
PartsQuiet ==
    /\ \A p \in Emitters : Behind(p) => p \notin running
    /\ Behind("configs") => configs # "running"

\* One bootstrap thread at a time, and none before start() gets to begin one.
Boots(t) == boot[t] \notin {"off", "done"}
OneBootstrap ==
    "overlap" \notin past =>
        /\ \A t, u \in Threads : Boots(t) /\ Boots(u) => t = u
        /\ Starting /\ app[2] <= 6 => ~Booting

\* Only the channel the policy knows can run, and none where stop() has been.
PolicyQuiet ==
    past \cap {"late", "overlap"} = {} =>
        /\ \A t \in Threads : channel[t] = "running" => t = policy
        /\ \A t \in Threads : boot[t] = "assign" => policy = None
        /\ Behind("policy") => ~Booting /\ \A t \in Threads : channel[t] # "running"

\* Only the worker the client knows can live, and none where stop() has been, unless a
\* join timed out; the thread of the refresh is known even then.
WorkersKnown ==
    /\ \A w \in Workers, t \in Threads :
          Live(w, t) => t = thread[w] \/ (w # "refresh" /\ "slow" \in past)
    /\ \A w \in Workers \ {"refresh"} : Behind(w) => thread[w] = None
    /\ "slow" \notin past /\ Behind("refresh") => \A t \in Threads : ~Live("refresh", t)

\* The processor is signalled last, and its signal is withdrawn first.
ProcessorLast ==
    stopEvent["processor"] =>
        \/ outcome = "stopped" \/ (Starting /\ app[2] = 1)
        \/ Stopping /\ app[2] = 11
ProcessorSignalled ==
    stopEvent["processor"] /\ thread["processor"] # None => Stopping /\ app[2] = 11

LifecycleInv ==
    /\ AppTypes /\ PartTypes /\ PartsQuiet /\ OneBootstrap /\ PolicyQuiet /\ WorkersKnown
    /\ ProcessorLast /\ ProcessorSignalled

-----------------------------------------------------------------------------
(* The order of the calls *)

Names == {"processor", "metrics", "requests", "httpx", "scan", "bootstrap", "identities", "configs"}

LEMMA Constants ==
    /\ None \notin Threads /\ None \notin {"stopped", "raised"}
    /\ \A op \in {"start", "stop"}, i \in Nat : None # <<op, i>>
  BY LifecycleAssumption DEF LifecycleAssumption, Threads

LEMMA Joined ==
    ASSUME NEW s \in Seq(Names), NEW t \in Seq(Names)
    PROVE  /\ s \o t \in Seq(Names) /\ Len(s \o t) = Len(s) + Len(t)
           /\ \A i \in 1..Len(s) + Len(t) :
                 (s \o t)[i] = IF i <= Len(s) THEN s[i] ELSE t[i - Len(s)]
  BY ConcatProperties

LEMMA StartShape ==
    /\ Len(StartOrder) \in 5..8
    /\ StartOrder[1] = "processor"
    /\ \A i \in 1..Len(StartOrder) : StartOrder[i] = "bootstrap" => i = 6
<1> DEFINE a == <<"processor", "metrics", "requests", "httpx", "scan">>
           b == IF options.cached THEN <<"bootstrap", "identities">> ELSE <<>>
           c == IF options.realtime THEN <<"configs">> ELSE <<>>
<1>1. /\ a \in Seq(Names) /\ Len(a) = 5 /\ a[1] = "processor"
      /\ \A i \in 1..5 : a[i] # "bootstrap"
  BY DEF Names
<1>2. /\ b \in Seq(Names) /\ Len(b) \in {0, 2}
      /\ \A i \in 1..Len(b) : b[i] = "bootstrap" => i = 1
  <2> DEFINE x == <<"bootstrap", "identities">>
  <2>1. x \in Seq(Names) /\ Len(x) = 2 /\ x[1] = "bootstrap" /\ x[2] = "identities"
    BY DEF Names
  <2>2. <<>> \in Seq(Names) /\ Len(<<>>) = 0 /\ (b = x \/ b = <<>>)
    OBVIOUS
  <2> HIDE DEF b, x
  <2>3. CASE b = x
    <3>1. b \in Seq(Names) /\ Len(b) = 2 /\ b[1] = "bootstrap" /\ b[2] = "identities"
      BY <2>1, <2>3
    <3> QED
      BY <3>1
  <2>4. CASE b = <<>>
    <3>1. b \in Seq(Names) /\ Len(b) = 0
      BY <2>2, <2>4
    <3> QED
      BY <3>1
  <2> QED
    BY <2>2, <2>3, <2>4
<1>3. /\ c \in Seq(Names) /\ Len(c) \in {0, 1}
      /\ \A i \in 1..Len(c) : c[i] # "bootstrap"
  <2> DEFINE x == <<"configs">>
  <2>1. x \in Seq(Names) /\ Len(x) = 1 /\ x[1] = "configs"
    BY DEF Names
  <2>2. <<>> \in Seq(Names) /\ Len(<<>>) = 0 /\ (c = x \/ c = <<>>)
    OBVIOUS
  <2> HIDE DEF c, x
  <2>3. CASE c = x
    <3>1. c \in Seq(Names) /\ Len(c) = 1 /\ c[1] = "configs"
      BY <2>1, <2>3
    <3> QED
      BY <3>1
  <2>4. CASE c = <<>>
    <3>1. c \in Seq(Names) /\ Len(c) = 0
      BY <2>2, <2>4
    <3> QED
      BY <3>1
  <2> QED
    BY <2>2, <2>3, <2>4
<1> HIDE DEF a, b, c
<1> DEFINE ab == a \o b
           abc == ab \o c
<1>4. /\ ab \in Seq(Names) /\ Len(ab) = Len(a) + Len(b)
      /\ \A i \in 1..Len(a) + Len(b) : ab[i] = IF i <= Len(a) THEN a[i] ELSE b[i - Len(a)]
  BY <1>1, <1>2, Joined
<1>5. /\ Len(abc) = Len(ab) + Len(c)
      /\ \A i \in 1..Len(ab) + Len(c) : abc[i] = IF i <= Len(ab) THEN ab[i] ELSE c[i - Len(ab)]
  BY <1>3, <1>4, Joined
<1>6. StartOrder = abc
  BY DEF StartOrder, a, b, c
<1> HIDE DEF ab, abc
<1>7. /\ Len(ab) \in {5, 7} /\ ab[1] = "processor"
      /\ \A i \in 1..Len(ab) : ab[i] = "bootstrap" => i = 6
  <2>1. Len(a) = 5 /\ Len(b) \in {0, 2} /\ Len(ab) = 5 + Len(b) /\ Len(ab) \in {5, 7}
    BY <1>1, <1>2, <1>4
  <2>2. ab[1] = "processor"
    BY <1>1, <1>4, <2>1
  <2>3. ASSUME NEW i \in 1..Len(ab), ab[i] = "bootstrap" PROVE i = 6
    <3>1. ~(i <= 5)
      BY <1>1, <1>4, <2>1, <2>3
    <3>2. i - 5 \in 1..Len(b) /\ ab[i] = b[i - 5]
      BY <1>4, <2>1, <3>1
    <3> QED
      BY <1>2, <2>3, <3>2
  <2> QED
    BY <2>1, <2>2, <2>3
<1>8. Len(ab) \in Nat /\ Len(c) \in Nat /\ Len(abc) \in 5..8 /\ abc[1] = "processor"
  <2>1. /\ Len(ab) \in {5, 7} /\ Len(c) \in {0, 1} /\ Len(abc) = Len(ab) + Len(c)
        /\ Len(ab) \in Nat /\ Len(c) \in Nat /\ Len(abc) \in 5..8
    <3>1. \A m \in {5, 7}, n \in {0, 1} : m + n \in 5..8 /\ m \in Nat /\ n \in Nat
      OBVIOUS
    <3>2. Len(ab) \in {5, 7} /\ Len(c) \in {0, 1} /\ Len(abc) = Len(ab) + Len(c)
      BY <1>3, <1>5, <1>7
    <3> QED
      BY <3>1, <3>2
  <2>2. abc[1] = ab[1]
    BY <1>5, <2>1
  <2> QED
    BY <1>7, <2>1, <2>2
<1>9. ASSUME NEW i \in 1..Len(abc), abc[i] = "bootstrap" PROVE i = 6
  <2>1. CASE i <= Len(ab)
    BY <1>5, <1>7, <1>8, <1>9, <2>1
  <2>2. CASE ~(i <= Len(ab))
    <3>1. i - Len(ab) \in 1..Len(c) /\ abc[i] = c[i - Len(ab)]
      BY <1>5, <1>8, <2>2
    <3> QED
      BY <1>3, <1>9, <3>1
  <2> QED
    BY <2>1, <2>2
<1> QED
  BY <1>6, <1>8, <1>9

\* Where stop() is at a part it has been at those before.
LEMMA StopProceeds ==
    ASSUME AppTypes, NEW q, At("stop", q)
    PROVE  /\ q \in DOMAIN Rank /\ Stopping /\ app[2] = Rank[q] /\ ~Behind(q) /\ ~Starting
           /\ (Proceed /\ UNCHANGED options) =>
                /\ AppTypes' /\ ~Starting'
                /\ \A p \in DOMAIN Rank : Behind(p)' => Behind(p) \/ p = q
<1>1. /\ app \in {"stop"} \X (1..11) /\ app[2] \in 1..11
      /\ outcome = None /\ q = StopOrder[app[2]]
  BY StartShape DEF AppTypes, At, Order
<1>2. q \in DOMAIN Rank /\ app[2] = Rank[q] /\ Stopping /\ ~Starting /\ ~Behind(q)
  BY <1>1, Constants DEF StopOrder, Rank, Stopping, Starting, Behind
<1>3. ASSUME Proceed, UNCHANGED options
      PROVE  /\ AppTypes' /\ ~Starting'
             /\ \A p \in DOMAIN Rank : Behind(p)' => Behind(p) \/ p = q
  <2>1. Len(Order) = 11
    BY <1>1 DEF Order, StopOrder
  <2>2. CASE app[2] < 11
    <3>1. app' = <<"stop", app[2] + 1>> /\ outcome' = None
      BY <1>1, <1>3, <2>1, <2>2 DEF Proceed
    <3>2. AppTypes' /\ ~Starting'
      BY <1>1, <2>2, <3>1 DEF AppTypes, Starting
    <3>3. ASSUME NEW p \in DOMAIN Rank, Behind(p)', p # q PROVE Behind(p)
      <4>1. Rank[p] # Rank[q] /\ Rank[p] \in 1..11
        BY <1>2, <3>3 DEF Rank
      <4>2. Rank[p] < app[2] + 1
        BY <3>1, <3>3, Constants DEF Behind, Stopping
      <4> QED
        BY <1>1, <1>2, <4>1, <4>2 DEF Behind
    <3> QED
      BY <3>2, <3>3
  <2>3. CASE app[2] = 11
    <3>1. app' = None /\ outcome' = "stopped" /\ q = "processor"
      BY <1>1, <1>3, <2>1, <2>3 DEF Proceed, StopOrder
    <3>2. ASSUME NEW p \in DOMAIN Rank, p # q PROVE Behind(p)
      BY <1>1, <1>2, <2>3, <3>1, <3>2 DEF Behind, Rank
    <3> QED
      BY <3>1, <3>2 DEF AppTypes, Starting
  <2> QED
    BY <1>1, <2>2, <2>3
<1> QED
  BY <1>2, <1>3

\* On the way through start() nothing is behind stop().
LEMMA StartProceeds ==
    ASSUME AppTypes, NEW q, At("start", q)
    PROVE  /\ Starting /\ ~Stopping /\ outcome = None /\ app[2] \in 1..Len(StartOrder)
           /\ StartOrder[app[2]] = q
           /\ (Proceed /\ UNCHANGED options) =>
                /\ AppTypes' /\ ~Stopping' /\ outcome' = None
                /\ Starting' => app'[2] = app[2] + 1
<1>1. /\ app \in {"start"} \X (1..Len(StartOrder)) /\ outcome = None
      /\ StartOrder[app[2]] = q /\ Order = StartOrder
  BY DEF AppTypes, At, Order
<1>2. ASSUME Proceed, UNCHANGED options
      PROVE  /\ AppTypes' /\ ~Stopping' /\ outcome' = None
             /\ Starting' => app'[2] = app[2] + 1
  <2>1. StartOrder' = StartOrder
    BY <1>2 DEF StartOrder
  <2>2. CASE app[2] < Len(StartOrder)
    BY <1>1, <1>2, <2>1, <2>2, StartShape DEF Proceed, AppTypes, Stopping, Starting
  <2>3. CASE ~(app[2] < Len(StartOrder))
    BY <1>1, <1>2, <2>3 DEF Proceed, AppTypes, Stopping, Starting
  <2> QED
    BY <2>2, <2>3
<1> QED
  BY <1>1, <1>2, StartShape, Constants DEF Starting, Stopping

\* A step that leaves the application where it is.
LEMMA AppStays ==
    ASSUME AppTypes, UNCHANGED <<options, app, outcome>>
    PROVE  /\ AppTypes' /\ (Starting' <=> Starting) /\ (Stopping' <=> Stopping)
           /\ \A p \in DOMAIN Rank : Behind(p)' <=> Behind(p)
  BY DEF AppTypes, StartOrder, Starting, Stopping, Behind

-----------------------------------------------------------------------------
(* The invariant *)

LEMMA Ranks ==
    /\ Emitters \cup Workers \cup {"configs", "policy", "policy_reset"} \subseteq DOMAIN Rank
    /\ \A p \in DOMAIN Rank : p # "processor" => Rank[p] # 11
    /\ Rank["processor"] = 11 /\ "refresh" \in Workers
  BY DEF Rank, Emitters, Workers

LEMMA InitLifecycle == Init => LifecycleInv
<1> SUFFICES ASSUME Init PROVE LifecycleInv
  OBVIOUS
<1> USE DEF Init, Starting, Stopping, Behind
<1>1. AppTypes /\ ~Stopping /\ outcome # "stopped"
  BY StartShape, Constants DEF AppTypes
<1>2. PartTypes
  BY DEF PartTypes
<1>3. PartsQuiet
  BY <1>1 DEF PartsQuiet
<1>4. OneBootstrap /\ PolicyQuiet
  BY <1>1 DEF OneBootstrap, PolicyQuiet, Boots, Booting
<1>5. WorkersKnown
  BY <1>1 DEF WorkersKnown, Live
<1>6. ProcessorLast /\ ProcessorSignalled
  BY DEF ProcessorLast, ProcessorSignalled, Workers
<1> QED
  BY <1>1, <1>2, <1>3, <1>4, <1>5, <1>6 DEF LifecycleInv

\* Until the processor's turn comes its event is not set.
LEMMA NotSignalled ==
    ASSUME LifecycleInv, NEW op \in {"start", "stop"}, NEW q, At(op, q), q # "processor"
    PROVE  ~stopEvent["processor"]
<1>1. CASE op = "start"
  BY <1>1, StartShape, StartProceeds, Constants DEF LifecycleInv, ProcessorLast
<1>2. CASE op = "stop"
  BY <1>2, StopProceeds, Ranks DEF LifecycleInv, ProcessorLast, Behind
<1> QED
  BY <1>1, <1>2

\* The application begins a call, or does something between two.
LEMMA CallKeeps ==
    ASSUME LifecycleInv, Start \/ Stop \/ TakeLogs \/ StartRefresh
    PROVE  LifecycleInv'
<1> USE DEF Starting, Stopping, Behind, policyVars, workerVars
<1>1. CASE Start
  <2>1. AppTypes' /\ Starting' /\ ~Stopping' /\ outcome' = None /\ app'[2] = 1
    BY <1>1, StartShape, Constants DEF Start, AppTypes, StartOrder
  <2>2. PartTypes' /\ PartsQuiet'
    BY <1>1, <2>1, Constants DEF Start, LifecycleInv, PartTypes, PartsQuiet
  <2>3. OneBootstrap'
    BY <1>1 DEF Start, LifecycleInv, OneBootstrap, Boots, Booting, Remember, If
  <2>4. PolicyQuiet'
    BY <1>1, <2>1, Constants DEF Start, LifecycleInv, PolicyQuiet, Remember
  <2>5. WorkersKnown'
    BY <1>1, <2>1, Constants DEF Start, LifecycleInv, WorkersKnown, Live, Remember, If
  <2>6. ProcessorLast' /\ ProcessorSignalled'
    BY <1>1, <2>1 DEF Start, LifecycleInv, ProcessorLast, ProcessorSignalled
  <2> QED
    BY <2>1, <2>2, <2>3, <2>4, <2>5, <2>6 DEF LifecycleInv
<1>2. CASE Stop
  <2>1. /\ AppTypes' /\ ~Starting' /\ Stopping' /\ outcome' = None /\ app'[2] = 1
        /\ \A p \in DOMAIN Rank : ~Behind(p)'
    BY <1>2, StartShape, Constants DEF Stop, AppTypes, StartOrder, Rank
  <2>2. PartTypes' /\ PartsQuiet'
    BY <1>2, <2>1, Ranks DEF Stop, LifecycleInv, PartTypes, PartsQuiet
  <2>3. OneBootstrap' /\ PolicyQuiet'
    BY <1>2, <2>1, Ranks DEF Stop, LifecycleInv, OneBootstrap, PolicyQuiet, Boots, Booting
  <2>4. WorkersKnown'
    BY <1>2, <2>1, Ranks DEF Stop, LifecycleInv, WorkersKnown, Live
  <2>5. ProcessorLast' /\ ProcessorSignalled'
    BY <1>2 DEF Stop, LifecycleInv, ProcessorLast, ProcessorSignalled
  <2> QED
    BY <2>1, <2>2, <2>3, <2>4, <2>5 DEF LifecycleInv
<1>3. CASE TakeLogs
  <2>1. /\ AppTypes' /\ PartTypes' /\ ~Starting' /\ ~Stopping' /\ outcome' = None
        /\ UNCHANGED <<stopEvent, thread, worker, boot, policy, channel, past, configs>>
    BY <1>3, AppStays DEF TakeLogs, LifecycleInv, PartTypes, Emitters
  <2>2. PartsQuiet' /\ WorkersKnown'
    BY <2>1, Constants DEF LifecycleInv, PartsQuiet, WorkersKnown, Live
  <2>3. OneBootstrap' /\ PolicyQuiet'
    BY <2>1, Constants DEF LifecycleInv, OneBootstrap, PolicyQuiet, Boots, Booting
  <2>4. ProcessorLast' /\ ProcessorSignalled'
    BY <1>3, <2>1, Constants DEF TakeLogs, LifecycleInv, ProcessorLast, ProcessorSignalled
  <2> QED
    BY <2>1, <2>2, <2>3, <2>4 DEF LifecycleInv
<1>4. CASE StartRefresh
  <2>1. /\ AppTypes' /\ ~Starting' /\ ~Stopping' /\ outcome' = None /\ app = None
        /\ UNCHANGED <<boot, policy, channel, past, configs, running>>
    BY <1>4, AppStays DEF StartRefresh, LifecycleInv
  <2>2. PICK t \in Threads : /\ thread' = [thread EXCEPT !["refresh"] = t]
                             /\ worker' = [worker EXCEPT !["refresh"][t] = "live"]
                             /\ stopEvent' = [stopEvent EXCEPT !["refresh"] = FALSE]
    BY <1>4 DEF StartRefresh, Begin, Fresh
  <2>3. PartTypes'
    BY <2>1, <2>2 DEF LifecycleInv, PartTypes
  <2>4. PartsQuiet' /\ OneBootstrap' /\ PolicyQuiet'
    BY <2>1, Constants DEF LifecycleInv, PartsQuiet, OneBootstrap, PolicyQuiet, Boots, Booting
  <2>5. WorkersKnown'
    <3>1. \A u \in Threads : ~Live("refresh", u)
      BY <1>4 DEF StartRefresh, Known, LifecycleInv, WorkersKnown, Workers
    <3>2. /\ \A v \in Workers \ {"refresh"} : thread'[v] = thread[v]
          /\ \A v \in Workers \ {"refresh"}, u \in Threads : Live(v, u)' <=> Live(v, u)
      BY <2>2 DEF LifecycleInv, PartTypes, Live
    <3>3. thread'["refresh"] = t /\ \A u \in Threads : Live("refresh", u)' => u = t
      BY <2>2, <3>1 DEF LifecycleInv, PartTypes, Live, Workers
    <3> QED
      BY <2>1, <3>2, <3>3, Constants DEF LifecycleInv, WorkersKnown
  <2>6. ~stopEvent'["processor"]
    <3>1. stopEvent'["processor"] = stopEvent["processor"]
      BY <2>2 DEF LifecycleInv, PartTypes, Workers
    <3> QED
      BY <1>4, <3>1, Constants DEF StartRefresh, LifecycleInv, ProcessorLast
  <2> QED
    BY <2>1, <2>3, <2>4, <2>5, <2>6 DEF LifecycleInv, ProcessorLast, ProcessorSignalled
<1> QED
  BY <1>1, <1>2, <1>3, <1>4

\* A step of start(), but for those to the workers: nothing is behind stop() yet, and
\* the bootstrap thread is begun at its place only.
LEMMA StartKeeps ==
    ASSUME LifecycleInv, StartConfigs \/ StartBootstrap
                \/ (\E p \in {"metrics", "requests", "httpx"} : StartPart(p))
    PROVE  LifecycleInv'
<1> USE DEF policyVars, workerVars
<1>1. PICK q \in {"metrics", "requests", "httpx", "configs", "bootstrap"} :
         /\ At("start", q) /\ Proceed /\ UNCHANGED <<options, past, channel, policy, workerVars>>
         /\ UNCHANGED boot \/ (q = "bootstrap" /\ StartBootstrap)
  BY DEF StartConfigs, StartBootstrap, StartPart
<1>2. /\ AppTypes' /\ Starting /\ ~Stopping' /\ outcome = None /\ outcome' = None
      /\ Starting' => app'[2] = app[2] + 1 /\ app[2] \in 1..Len(StartOrder)
      /\ app[2] \in 1..Len(StartOrder) /\ StartOrder[app[2]] = q
  BY <1>1, StartProceeds DEF LifecycleInv
<1>3. ~stopEvent["processor"]
  BY <1>1, NotSignalled
<1>4. \A p \in DOMAIN Rank : ~Behind(p)'
  BY <1>2, Constants DEF Behind
<1>5. PartTypes'
  BY <1>1 DEF LifecycleInv, PartTypes, StartConfigs, StartBootstrap, StartPart, Emitters, Fresh
<1>6. PartsQuiet' /\ WorkersKnown' /\ ProcessorLast' /\ ProcessorSignalled'
  <2>1. PartsQuiet'
    BY <1>4, Ranks DEF PartsQuiet
  <2>2. WorkersKnown'
    BY <1>1, <1>4, Ranks DEF LifecycleInv, WorkersKnown, Live
  <2>3. ProcessorLast' /\ ProcessorSignalled'
    BY <1>1, <1>3 DEF ProcessorLast, ProcessorSignalled
  <2> QED
    BY <2>1, <2>2, <2>3
<1>7. CASE UNCHANGED boot
  <2>1. OneBootstrap'
    BY <1>1, <1>2, <1>7, StartShape DEF LifecycleInv, OneBootstrap, Boots, Booting
  <2>2. PolicyQuiet'
    BY <1>1, <1>4, <1>7, Ranks DEF LifecycleInv, PolicyQuiet
  <2> QED
    BY <1>2, <1>5, <1>6, <2>1, <2>2 DEF LifecycleInv
<1>8. CASE q = "bootstrap" /\ StartBootstrap
  <2>1. app[2] = 6
    BY <1>2, <1>8, StartShape
  <2>2. PICK t \in Threads : boot[t] = "off" /\ boot' = [boot EXCEPT ![t] = "fetch"]
    BY <1>8 DEF StartBootstrap, Fresh
  <2>3. OneBootstrap'
    BY <1>1, <1>2, <2>1, <2>2 DEF LifecycleInv, PartTypes, OneBootstrap, Boots, Booting
  <2>4. PolicyQuiet'
    BY <1>1, <1>4, <2>2, Ranks DEF LifecycleInv, PartTypes, PolicyQuiet
  <2> QED
    BY <1>2, <1>5, <1>6, <2>3, <2>4 DEF LifecycleInv
<1> QED
  BY <1>1, <1>7, <1>8

\* A step of stop(), but for those to the workers.
LEMMA StopKeeps ==
    ASSUME LifecycleInv, StopConfigs \/ StopPolicy \/ ResetPolicy
                \/ (\E p \in Emitters : StopPart(p))
    PROVE  LifecycleInv'
<1> USE DEF policyVars, workerVars
<1>1. PICK q \in Emitters \cup {"configs", "policy", "policy_reset"} :
         /\ At("stop", q) /\ Proceed /\ UNCHANGED <<options, boot, workerVars>>
         /\ \/ StopPart(q) /\ q \in Emitters
            \/ q = "configs" /\ StopConfigs
            \/ q = "policy" /\ StopPolicy
            \/ q = "policy_reset" /\ ResetPolicy
  BY DEF StopConfigs, StopPolicy, ResetPolicy, StopPart
<1>2. /\ AppTypes' /\ ~Starting' /\ app[2] = Rank[q] /\ ~Behind(q) /\ Stopping
      /\ \A p \in DOMAIN Rank : Behind(p)' => Behind(p) \/ p = q
  BY <1>1, StopProceeds DEF LifecycleInv
<1>3. ~stopEvent["processor"] /\ q \notin Workers
  BY <1>1, NotSignalled DEF Emitters, Workers
<1>4. past \subseteq past'
  BY <1>1 DEF StopConfigs, StopPolicy, ResetPolicy, StopPart, Remember
<1>5. PartTypes'
  BY <1>1 DEF LifecycleInv, PartTypes, StopConfigs, StopPolicy, ResetPolicy, StopPart
<1>6. PartsQuiet'
  <2>1. /\ \A p \in Emitters : Behind(p)' => Behind(p) \/ p = q
        /\ Behind("configs")' => Behind("configs") \/ q = "configs"
    BY <1>2, Ranks
  <2> QED
    BY <1>1, <2>1 DEF LifecycleInv, PartsQuiet, StopConfigs, StopPolicy, ResetPolicy, StopPart,
                      Emitters
<1>7. OneBootstrap'
  BY <1>1, <1>2, <1>4 DEF LifecycleInv, OneBootstrap, Boots, Booting
<1>8. PolicyQuiet'
  <2>1. Behind("policy")' => Behind("policy") \/ q = "policy"
    BY <1>2, Ranks
  <2>2. CASE q = "policy" /\ StopPolicy
    <3>1. past' \cap {"late", "overlap"} = {} => past \cap {"late", "overlap"} = {} /\ ~Booting
      BY <2>2 DEF StopPolicy, Remember, If
    <3>2. \A t \in Threads : channel'[t] = "running" => channel[t] = "running" /\ t # policy
      BY <2>2, Constants DEF StopPolicy, LifecycleInv, PartTypes
    <3>3. UNCHANGED <<boot, policy>>
      BY <2>2 DEF StopPolicy
    <3> QED
      BY <3>1, <3>2, <3>3 DEF LifecycleInv, PolicyQuiet, Booting
  <2>3. CASE q = "policy_reset" /\ ResetPolicy
    <3>1. Behind("policy")
      BY <1>2, <2>3, Constants DEF Behind, Rank
    <3> QED
      BY <1>4, <2>3, <3>1 DEF LifecycleInv, PolicyQuiet, ResetPolicy, Booting
  <2>4. CASE UNCHANGED <<channel, policy, past>> /\ q # "policy"
    BY <1>1, <2>1, <2>4 DEF LifecycleInv, PolicyQuiet, Booting
  <2> QED
    BY <1>1, <2>2, <2>3, <2>4 DEF StopConfigs, StopPart, Emitters
<1>9. WorkersKnown'
  <2>1. \A w \in Workers : Behind(w)' => Behind(w)
    BY <1>2, <1>3, Ranks
  <2> QED
    BY <1>1, <1>4, <2>1 DEF LifecycleInv, WorkersKnown, Live, Workers
<1>10. ProcessorLast' /\ ProcessorSignalled'
  BY <1>1, <1>3 DEF ProcessorLast, ProcessorSignalled
<1> QED
  BY <1>2, <1>5, <1>6, <1>7, <1>8, <1>9, <1>10 DEF LifecycleInv

\* What the stop of a channel raises ends stop() before its end.
LEMMA RaiseKeeps ==
    ASSUME LifecycleInv, NEW q \in {"configs", "policy"}, StopRaises(q)
    PROVE  LifecycleInv'
<1> USE DEF workerVars
<1>1. /\ At("stop", q) /\ app' = None /\ outcome' = "raised" /\ past \subseteq past'
      /\ UNCHANGED <<options, boot, policy, workerVars, running>>
  BY DEF StopRaises, Remember
<1>2. /\ AppTypes' /\ ~Starting' /\ ~Stopping' /\ ~stopEvent["processor"]
      /\ \A p \in DOMAIN Rank : ~Behind(p)'
  BY <1>1, NotSignalled DEF AppTypes, Starting, Stopping, Behind
<1>3. PartTypes'
  BY <1>1 DEF LifecycleInv, PartTypes, StopRaises
<1>4. PartsQuiet' /\ WorkersKnown'
  BY <1>1, <1>2, Ranks DEF LifecycleInv, PartsQuiet, WorkersKnown, Live
<1>5. OneBootstrap'
  BY <1>1, <1>2 DEF LifecycleInv, OneBootstrap, Boots, Booting
<1>6. PolicyQuiet'
  <2>1. ~Behind("policy")'
    BY <1>2, Ranks
  <2>2. \A t \in Threads : channel'[t] = "running" => channel[t] = "running"
    BY DEF StopRaises, LifecycleInv, PartTypes
  <2> QED
    BY <1>1, <2>1, <2>2 DEF LifecycleInv, PolicyQuiet
<1>7. ProcessorLast' /\ ProcessorSignalled'
  BY <1>1, <1>2 DEF ProcessorLast, ProcessorSignalled
<1> QED
  BY <1>2, <1>3, <1>4, <1>5, <1>6, <1>7 DEF LifecycleInv

\* A step of a bootstrap thread.
LEMMA BootKeeps ==
    ASSUME LifecycleInv, NEW t \in Threads, BootStep(t)
    PROVE  LifecycleInv'
<1> USE DEF BootStep, Fetched, Test, Assign, Open, Step, BootOnly, workerVars
<1>1. UNCHANGED <<options, past, app, outcome, running, configs, workerVars>>
  OBVIOUS
<1>2. /\ AppTypes' /\ (Starting' <=> Starting) /\ (Stopping' <=> Stopping)
      /\ \A p \in DOMAIN Rank : Behind(p)' <=> Behind(p)
  BY <1>1, AppStays DEF LifecycleInv
<1>3. PartTypes'
  BY <1>1 DEF LifecycleInv, PartTypes
<1>4. PartsQuiet' /\ WorkersKnown'
  BY <1>1, <1>2, Ranks DEF LifecycleInv, PartsQuiet, WorkersKnown, Live
<1>5. Boots(t) /\ \A u \in Threads : Boots(u)' => Boots(u)
  BY DEF LifecycleInv, PartTypes, Boots
<1>6. OneBootstrap'
  BY <1>1, <1>2, <1>5 DEF LifecycleInv, OneBootstrap, Boots, Booting
<1>7. PolicyQuiet'
  <2> SUFFICES ASSUME past \cap {"late", "overlap"} = {} PROVE PolicyQuiet'
    BY <1>1 DEF PolicyQuiet
  <2>1. ~Behind("policy") /\ ~Behind("policy")'
    BY <1>2, <1>5, Ranks DEF LifecycleInv, PolicyQuiet, Booting, Boots
  <2>2. \A u \in Threads : boot[u] = "assign" => u = t
    BY <1>5 DEF LifecycleInv, OneBootstrap, Boots
  <2>3. CASE Fetched(t) \/ Test(t)
    BY <2>1, <2>3 DEF LifecycleInv, PartTypes, PolicyQuiet
  <2>4. CASE Assign(t)
    <3>1. policy = None
      BY <2>4 DEF LifecycleInv, PolicyQuiet
    <3>2. \A u \in Threads : boot'[u] # "assign" /\ channel'[u] # "running"
      BY <2>2, <2>4, <3>1, Constants DEF LifecycleInv, PartTypes, PolicyQuiet
    <3> QED
      BY <2>1, <3>2 DEF PolicyQuiet
  <2>5. CASE Open(t)
    <3>1. \A u \in Threads : boot'[u] # "assign"
      BY <2>2, <2>5 DEF LifecycleInv, PartTypes
    <3>2. \A u \in Threads : channel'[u] = "running" => u = policy
      BY <2>5 DEF LifecycleInv, PartTypes, PolicyQuiet
    <3> QED
      BY <2>1, <2>5, <3>1, <3>2 DEF PolicyQuiet
  <2> QED
    BY <2>3, <2>4, <2>5
<1>8. ProcessorLast' /\ ProcessorSignalled'
  BY <1>1, <1>2 DEF LifecycleInv, ProcessorLast, ProcessorSignalled
<1> QED
  BY <1>2, <1>3, <1>4, <1>6, <1>7, <1>8 DEF LifecycleInv

\* The last step of a worker.
LEMMA WorkKeeps ==
    ASSUME LifecycleInv, NEW w \in Workers, NEW t \in Threads, WorkerEnds(w, t)
    PROVE  LifecycleInv'
<1>1. UNCHANGED <<options, past, app, outcome, running, configs, policyVars, thread, stopEvent>>
  BY DEF WorkerEnds
<1>2. /\ AppTypes' /\ (Starting' <=> Starting) /\ (Stopping' <=> Stopping)
      /\ \A p \in DOMAIN Rank : Behind(p)' <=> Behind(p)
  BY <1>1, AppStays DEF LifecycleInv
<1>3. /\ worker' \in [Workers -> [Threads -> {"off", "live", "ended"}]]
      /\ \A v \in Workers, u \in Threads : Live(v, u)' => Live(v, u)
  BY DEF WorkerEnds, LifecycleInv, PartTypes, Live
<1>4. PartTypes' /\ PartsQuiet'
  BY <1>1, <1>2, <1>3, Ranks DEF LifecycleInv, PartTypes, PartsQuiet, policyVars
<1>5. WorkersKnown'
  BY <1>1, <1>2, <1>3, Ranks DEF LifecycleInv, WorkersKnown, Workers
<1>6. OneBootstrap' /\ PolicyQuiet'
  BY <1>1, <1>2, Ranks DEF LifecycleInv, OneBootstrap, PolicyQuiet, Boots, Booting, policyVars
<1>7. ProcessorLast' /\ ProcessorSignalled'
  BY <1>1, <1>2 DEF LifecycleInv, ProcessorLast, ProcessorSignalled
<1> QED
  BY <1>2, <1>4, <1>5, <1>6, <1>7 DEF LifecycleInv

\* start() at a worker: begin one unless the one it knows lives.
LEMMA StartWorkerKeeps ==
    ASSUME LifecycleInv, NEW w \in Workers, StartWorker(w)
    PROVE  LifecycleInv'
<1> USE DEF policyVars, workerVars
<1>1. /\ At("start", w) /\ Proceed
      /\ UNCHANGED <<options, past, running, configs, policyVars>>
  BY DEF StartWorker
<1>2. /\ AppTypes' /\ Starting /\ ~Stopping /\ ~Stopping' /\ outcome' = None
      /\ Starting' => app'[2] = app[2] + 1 /\ app[2] \in 1..Len(StartOrder)
  BY <1>1, StartProceeds DEF LifecycleInv
<1>3. \A p \in DOMAIN Rank : ~Behind(p)'
  BY <1>2, Constants DEF Behind
<1>4. \/ UNCHANGED workerVars /\ thread[w] \in Threads
      \/ Begin(w) /\ \A t \in Threads : t = thread[w] => ~Live(w, t)
  BY DEF StartWorker, Known
<1>5. PartTypes'
  <2>1. CASE UNCHANGED workerVars
    BY <1>1, <2>1 DEF LifecycleInv, PartTypes
  <2>2. CASE Begin(w)
    <3>1. thread' \in [Workers -> Threads \cup {None}] /\ stopEvent' \in [Workers -> BOOLEAN]
      BY <2>2 DEF LifecycleInv, PartTypes, Begin, Fresh
    <3>2. worker' \in [Workers -> [Threads -> {"off", "live", "ended"}]]
      BY <2>2 DEF LifecycleInv, PartTypes, Begin, Fresh
    <3> QED
      BY <1>1, <3>1, <3>2 DEF LifecycleInv, PartTypes
  <2> QED
    BY <1>4, <2>1, <2>2
<1>6. PartsQuiet' /\ PolicyQuiet'
  BY <1>1, <1>3, Ranks DEF LifecycleInv, PartsQuiet, PolicyQuiet
<1>7. OneBootstrap'
  BY <1>1, <1>2, StartShape DEF LifecycleInv, OneBootstrap, Boots, Booting
<1>8. WorkersKnown'
  <2>1. CASE UNCHANGED workerVars
    BY <1>1, <1>3, <2>1, Ranks DEF LifecycleInv, WorkersKnown, Live
  <2>2. CASE Begin(w) /\ \A t \in Threads : t = thread[w] => ~Live(w, t)
    <3>1. PICK t \in Threads : /\ thread' = [thread EXCEPT ![w] = t]
                               /\ worker' = [worker EXCEPT ![w][t] = "live"]
      BY <2>2 DEF Begin, Fresh
    <3>2. /\ thread'[w] = t
          /\ \A v \in Workers \ {w} : thread'[v] = thread[v]
          /\ \A v \in Workers, u \in Threads : Live(v, u)' => Live(v, u) \/ (v = w /\ u = t)
      BY <3>1 DEF LifecycleInv, PartTypes, Live
    <3>3. ASSUME NEW v \in Workers, NEW u \in Threads, Live(v, u)'
          PROVE  u = thread'[v] \/ (v # "refresh" /\ "slow" \in past')
      <4>1. CASE v = w /\ u = t
        BY <3>2, <4>1
      <4>2. CASE Live(v, u)
        BY <1>1, <2>2, <3>2, <4>2 DEF LifecycleInv, WorkersKnown
      <4> QED
        BY <3>2, <3>3, <4>1, <4>2
    <3> QED
      BY <1>3, <3>3, Ranks DEF WorkersKnown
  <2> QED
    BY <1>4, <2>1, <2>2
<1>9. ~stopEvent'["processor"]
  <2>1. CASE w # "processor"
    BY <1>1, <1>4, <2>1, NotSignalled DEF LifecycleInv, PartTypes, Begin, Workers
  <2>2. CASE w = "processor" /\ UNCHANGED workerVars /\ thread[w] \in Threads
    BY <1>2, <2>2, Constants DEF LifecycleInv, ProcessorSignalled
  <2>3. CASE w = "processor" /\ Begin(w)
    BY <2>3 DEF LifecycleInv, PartTypes, Begin
  <2> QED
    BY <1>4, <2>1, <2>2, <2>3
<1> QED
  BY <1>2, <1>5, <1>6, <1>7, <1>8, <1>9 DEF LifecycleInv, ProcessorLast, ProcessorSignalled

\* stop() at a worker: signal it, ...
LEMMA SignalKeeps ==
    ASSUME LifecycleInv, NEW w \in Workers, SignalWorker(w)
    PROVE  LifecycleInv'
<1>1. /\ At("stop", w) /\ UNCHANGED <<options, past, app, outcome, running, configs>>
      /\ UNCHANGED <<boot, channel, policy, thread, worker>>
      /\ stopEvent' = [stopEvent EXCEPT ![w] = TRUE]
  BY DEF SignalWorker, policyVars
<1>2. /\ AppTypes' /\ (Starting' <=> Starting) /\ (Stopping' <=> Stopping)
      /\ \A p \in DOMAIN Rank : Behind(p)' <=> Behind(p)
  BY <1>1, AppStays DEF LifecycleInv
<1>3. Stopping /\ app[2] = Rank[w]
  BY <1>1, StopProceeds DEF LifecycleInv
<1>4. PartTypes' /\ PartsQuiet'
  BY <1>1, <1>2, Ranks DEF LifecycleInv, PartTypes, PartsQuiet
<1>5. OneBootstrap' /\ PolicyQuiet' /\ WorkersKnown'
  <2>1. OneBootstrap' /\ PolicyQuiet'
    BY <1>1, <1>2, Ranks DEF LifecycleInv, OneBootstrap, PolicyQuiet, Boots, Booting
  <2>2. WorkersKnown'
    BY <1>1, <1>2, Ranks DEF LifecycleInv, WorkersKnown, Live
  <2> QED
    BY <2>1, <2>2
<1>6. ProcessorLast' /\ ProcessorSignalled'
  <2>1. CASE w = "processor"
    BY <1>1, <1>2, <1>3, <2>1, Ranks DEF ProcessorLast, ProcessorSignalled
  <2>2. CASE w # "processor"
    <3>1. ~stopEvent'["processor"]
      BY <1>1, <2>2, NotSignalled DEF LifecycleInv, PartTypes, Workers
    <3> QED
      BY <3>1 DEF ProcessorLast, ProcessorSignalled
  <2> QED
    BY <2>1, <2>2
<1> QED
  BY <1>2, <1>4, <1>5, <1>6 DEF LifecycleInv

\* ... and wait for it; one that is given up on is a mishap.
LEMMA JoinKeeps ==
    ASSUME LifecycleInv, NEW w \in Workers, JoinWorker(w)
    PROVE  LifecycleInv'
<1>1. /\ At("stop", w) /\ Proceed /\ past \subseteq past'
      /\ UNCHANGED <<options, running, configs, boot, channel, policy, worker, stopEvent>>
      /\ thread' = IF w = "refresh" THEN thread ELSE [thread EXCEPT ![w] = None]
  BY DEF JoinWorker, policyVars, Remember
<1>2. /\ AppTypes' /\ ~Starting' /\ app[2] = Rank[w]
      /\ \A p \in DOMAIN Rank : Behind(p)' => Behind(p) \/ p = w
  BY <1>1, StopProceeds DEF LifecycleInv
<1>3. PartTypes'
  BY <1>1 DEF LifecycleInv, PartTypes
<1>4. /\ \A p \in Emitters \cup {"configs", "policy"} : Behind(p)' => Behind(p)
      /\ \A v \in Workers : Behind(v)' => Behind(v) \/ v = w
  BY <1>2, Ranks DEF Emitters, Workers
<1>5. PartsQuiet' /\ OneBootstrap' /\ PolicyQuiet'
  BY <1>1, <1>2, <1>4 DEF LifecycleInv, PartsQuiet, OneBootstrap, PolicyQuiet, Boots, Booting
<1>6. WorkersKnown'
  <2>1. "slow" \notin past' => \A t \in Threads : ~Live(w, t)
    BY <1>1 DEF JoinWorker, Known, Remember, If, LifecycleInv, WorkersKnown
  <2>2. /\ w # "refresh" => thread'[w] = None
        /\ \A v \in Workers : v # w \/ v = "refresh" => thread'[v] = thread[v]
    BY <1>1 DEF LifecycleInv, PartTypes
  <2>3. ASSUME NEW v \in Workers, NEW t \in Threads, Live(v, t)'
        PROVE  t = thread'[v] \/ (v # "refresh" /\ "slow" \in past')
    <3>1. Live(v, t)
      BY <1>1, <2>3 DEF Live
    <3> QED
      BY <1>1, <2>1, <2>2, <3>1 DEF LifecycleInv, WorkersKnown
  <2>4. \A v \in Workers \ {"refresh"} : Behind(v)' => thread'[v] = None
    BY <1>4, <2>2 DEF LifecycleInv, WorkersKnown
  <2>5. ASSUME "slow" \notin past', Behind("refresh")', NEW t \in Threads
        PROVE  ~Live("refresh", t)'
    BY <1>1, <1>4, <2>1, <2>5 DEF LifecycleInv, WorkersKnown, Live, Workers
  <2> QED
    BY <2>3, <2>4, <2>5 DEF WorkersKnown
<1>7. ProcessorLast' /\ ProcessorSignalled'
  <2>1. CASE w = "processor"
    <3>1. Len(Order) = 11 /\ app[1] = "stop"
      BY <1>1 DEF At, Order, StopOrder
    <3>2. outcome' = "stopped"
      BY <1>1, <1>2, <2>1, <3>1, Ranks DEF Proceed
    <3>3. thread'["processor"] = None
      BY <1>1, <2>1 DEF LifecycleInv, PartTypes
    <3> QED
      BY <3>2, <3>3 DEF ProcessorLast, ProcessorSignalled
  <2>2. CASE w # "processor"
    BY <1>1, <2>2, NotSignalled DEF ProcessorLast, ProcessorSignalled
  <2> QED
    BY <2>1, <2>2
<1> QED
  BY <1>2, <1>3, <1>5, <1>6, <1>7 DEF LifecycleInv

LEMMA NextLifecycle == LifecycleInv /\ [Next]_vars => LifecycleInv'
<1> SUFFICES ASSUME LifecycleInv, [Next]_vars PROVE LifecycleInv'
  OBVIOUS
<1>1. CASE AppStep
  BY <1>1, StartKeeps, StopKeeps, RaiseKeeps, StartWorkerKeeps, SignalKeeps, JoinKeeps DEF AppStep
<1>2. CASE UNCHANGED vars
  <2>1. /\ AppTypes' /\ (Starting' <=> Starting) /\ (Stopping' <=> Stopping)
        /\ \A p \in DOMAIN Rank : Behind(p)' <=> Behind(p)
    BY <1>2, AppStays DEF LifecycleInv, vars
  <2>2. PartTypes' /\ PartsQuiet' /\ WorkersKnown' /\ OneBootstrap' /\ PolicyQuiet'
    BY <1>2, <2>1, Ranks DEF vars, policyVars, workerVars, LifecycleInv, PartTypes, PartsQuiet,
       WorkersKnown, OneBootstrap, PolicyQuiet, Live, Boots, Booting
  <2>3. ProcessorLast' /\ ProcessorSignalled'
    BY <1>2, <2>1 DEF vars, workerVars, LifecycleInv, ProcessorLast, ProcessorSignalled
  <2> QED
    BY <2>1, <2>2, <2>3 DEF LifecycleInv
<1> QED
  BY <1>1, <1>2, CallKeeps, BootKeeps, WorkKeeps DEF Next

-----------------------------------------------------------------------------
(* The theorems *)

\* The invariant holds in every state.
THEOREM LifecycleInvariant == Spec => []LifecycleInv
<1> QED
  BY InitLifecycle, NextLifecycle, PTL DEF Spec

\* When stop() has returned nothing of the client runs, and the processor is stopped after
\* all that emit events, however starts and stops follow each other (client.py:1708-1740).
THEOREM StopIsQuiet == Spec => []StoppedIsQuiet
<1>1. LifecycleInv => StoppedIsQuiet
  <2> SUFFICES ASSUME LifecycleInv PROVE StoppedIsQuiet
    OBVIOUS
  <2> USE DEF LifecycleInv
  <2>1. ASSUME outcome = "stopped", past \subseteq {"raised"}
        PROVE  /\ \A p \in Emitters : p \notin running
               /\ configs # "running" /\ OpenChannels = {}
               /\ \A w \in Workers : LiveWorkers(w) = {}
    <3>1. /\ Behind("configs") /\ Behind("policy")
          /\ \A p \in Emitters \cup Workers : Behind(p)
      BY <2>1 DEF Behind
    <3>2. past \cap {"late", "overlap"} = {} /\ "slow" \notin past
      BY <2>1
    <3> QED
      BY <3>1, <3>2, Constants DEF PartsQuiet, PolicyQuiet, WorkersKnown, OpenChannels, LiveWorkers, Workers
  <2>2. ASSUME app # None, app[1] = "stop", stopEvent["processor"]
        PROVE  /\ running \cap Emitters = {}
               /\ "slow" \notin past => LiveWorkers("scan") = {}
    <3>1. Stopping /\ app[2] = 11
      BY <2>2, Constants DEF AppTypes, ProcessorLast, Starting, Stopping
    <3>2. \A p \in Emitters \cup {"scan"} : Behind(p)
      BY <3>1 DEF Behind, Rank, Emitters
    <3> QED
      BY <3>2, Constants DEF PartsQuiet, WorkersKnown, LiveWorkers, Emitters, Workers
  <2> QED
    BY <2>1, <2>2 DEF StoppedIsQuiet, PartTypes
<1> QED
  BY <1>1, LifecycleInvariant, PTL

\* No two channels of the policy, no two workers of a sort (policy_cache.py:423-427,
\* processor.py:173-185, client.py:1592-1645).
THEOREM OneIsThere == Spec => []OneOfEach
<1>1. LifecycleInv => OneOfEach
  <2> SUFFICES ASSUME LifecycleInv PROVE OneOfEach
    OBVIOUS
  <2>1. ASSUME NEW S \in SUBSET Threads, \A t, u \in S : t = u PROVE Cardinality(S) <= 1
    <3>1. CASE S = {}
      BY <3>1, FS_EmptySet
    <3>2. CASE S # {}
      <4>1. PICK t \in S : S = {t}
        BY <2>1, <3>2
      <4> QED
        BY <4>1, FS_Singleton
    <3> QED
      BY <3>1, <3>2
  <2>2. ASSUME past \cap {"late", "overlap"} = {} PROVE Cardinality(OpenChannels) <= 1
    BY <2>1, <2>2 DEF LifecycleInv, PolicyQuiet, OpenChannels
  <2>3. ASSUME NEW w \in Workers, w = "refresh" \/ "slow" \notin past PROVE Cardinality(LiveWorkers(w)) <= 1
    BY <2>1, <2>3 DEF LifecycleInv, WorkersKnown, LiveWorkers
  <2> QED
    BY <2>2, <2>3 DEF OneOfEach
<1> QED
  BY <1>1, LifecycleInvariant, PTL

-----------------------------------------------------------------------------
(* What the clients of a process share.                                       *)

\* What a method is patched with is a stack of clients, none of them twice, and each has
\* saved what is below it.
StackOf(s, saved) ==
    /\ \A i, j \in DOMAIN s : s[i] = s[j] => i = j
    /\ \A i \in DOMAIN s : saved[s[i]] # Unset
    /\ \A c \in Clients : saved[c] # Unset =>
         \E n \in DOMAIN s : /\ s[n] = c
                             /\ Len(saved[c]) = Len(s) - n
                             /\ \A k \in 1..Len(saved[c]) : saved[c][k] = s[n + k]

Saved(m) == [c \in Clients |-> original[c][m]]

PatchTypes ==
    /\ method \in [Methods -> Seq(Clients)]
    /\ original \in [Clients -> [Methods -> Seq(Clients) \cup {Unset}]]
    /\ instrumented \in [Clients -> SUBSET {"requests", "httpx"}]

\* A client has saved a method while its flag for the library is set.
FlagsHonest ==
    \A c \in Clients :
        /\ original[c]["requests"] # Unset <=> "requests" \in instrumented[c]
        /\ original[c]["client"] # Unset <=> "httpx" \in instrumented[c]
        /\ original[c]["async"] # Unset => "httpx" \in instrumented[c]

LogTypes ==
    /\ handlers \in [Loggers -> SUBSET Clients]
    /\ asked \in [Clients -> SUBSET Loggers]
    /\ installed \in [Clients -> BOOLEAN]

\* As long as no client has put back a method it was not the outermost wrapper of.
HooksInv ==
    /\ PatchTypes /\ FlagsHonest
    /\ ~crossed => \A m \in Methods : StackOf(method[m], Saved(m))
    /\ LogTypes /\ OnlyAsked

\* A client that is not on the stack goes on top of it ...
LEMMA Pushed ==
    ASSUME NEW s \in Seq(Clients), NEW saved \in [Clients -> Seq(Clients) \cup {Unset}],
           NEW c \in Clients, saved[c] = Unset, StackOf(s, saved), Unset \notin Seq(Clients)
    PROVE  StackOf(<<c>> \o s, [saved EXCEPT ![c] = s])
<1> DEFINE t == <<c>> \o s
           kept == [saved EXCEPT ![c] = s]
<1>1. /\ Len(t) = Len(s) + 1 /\ t[1] = c
      /\ DOMAIN t = 1..Len(t) /\ DOMAIN s = 1..Len(s) /\ Len(s) \in Nat
      /\ \A i \in DOMAIN s : t[i + 1] = s[i]
  OBVIOUS
<1>2. \A i \in DOMAIN t : i = 1 \/ (i - 1 \in DOMAIN s /\ t[i] = s[i - 1])
  BY <1>1
<1>3. \A i \in DOMAIN s : s[i] # c /\ s[i] \in Clients
  BY DEF StackOf
<1> HIDE DEF t
<1>4. ASSUME NEW i \in DOMAIN t, NEW j \in DOMAIN t, t[i] = t[j] PROVE i = j
  <2>1. CASE i = 1
    BY <1>1, <1>2, <1>3, <1>4, <2>1
  <2>2. CASE j = 1
    BY <1>1, <1>2, <1>3, <1>4, <2>2
  <2>3. CASE i # 1 /\ j # 1
    <3>1. /\ i - 1 \in DOMAIN s /\ t[i] = s[i - 1]
          /\ j - 1 \in DOMAIN s /\ t[j] = s[j - 1]
      BY <1>2, <2>3
    <3>2. s[i - 1] = s[j - 1]
      BY <1>4, <3>1
    <3>3. \A m, n \in DOMAIN s : s[m] = s[n] => m = n
      BY DEF StackOf
    <3>4. i - 1 = j - 1
      BY <3>1, <3>2, <3>3
    <3> QED BY <1>1, <3>4
  <2> QED BY <2>1, <2>2, <2>3
<1>5. \A i \in DOMAIN t : kept[t[i]] # Unset
  BY <1>1, <1>2, <1>3 DEF StackOf
<1>6. ASSUME NEW d \in Clients, kept[d] # Unset
      PROVE  \E n \in DOMAIN t : /\ t[n] = d
                                 /\ Len(kept[d]) = Len(t) - n
                                 /\ \A k \in 1..Len(kept[d]) : kept[d][k] = t[n + k]
  <2>1. CASE d = c
    <3>1. 1 \in DOMAIN t /\ kept[d] = s /\ Len(s) = Len(t) - 1
      BY <1>1, <2>1
    <3>2. \A k \in 1..Len(s) : s[k] = t[1 + k]
      <4>1. \A k \in 1..Len(s) : 1 + k = k + 1
        BY <1>1
      <4> QED BY <1>1, <4>1
    <3> QED BY <1>1, <2>1, <3>1, <3>2
  <2>2. CASE d # c
    <3>1. kept[d] = saved[d] /\ kept[d] \in Seq(Clients)
      BY <2>2, <1>6
    <3>2. PICK n \in DOMAIN s : /\ s[n] = d
                                /\ Len(saved[d]) = Len(s) - n
                                /\ \A k \in 1..Len(saved[d]) : saved[d][k] = s[n + k]
      BY <1>6, <3>1 DEF StackOf
    <3>3. Len(saved[d]) \in Nat
      BY <3>1
    <3>4. \A k \in 1..Len(saved[d]) : n + k \in DOMAIN s /\ t[(n + k) + 1] = s[n + k]
      BY <1>1, <3>2, <3>3
    <3>5. \A k \in 1..Len(saved[d]) : (n + k) + 1 = (n + 1) + k
      BY <1>1, <3>2, <3>3
    <3>6. n + 1 \in DOMAIN t /\ t[n + 1] = d /\ Len(saved[d]) = Len(t) - (n + 1)
      BY <1>1, <3>2
    <3> QED
      BY <3>1, <3>2, <3>4, <3>5, <3>6
  <2> QED BY <2>1, <2>2
<1> QED
  BY <1>4, <1>5, <1>6 DEF StackOf, t

\* ... and the one on top goes when it puts back what it has saved.
LEMMA Popped ==
    ASSUME NEW s \in Seq(Clients), NEW saved \in [Clients -> Seq(Clients) \cup {Unset}],
           NEW c \in Clients, saved[c] # Unset, Head(s) = c, StackOf(s, saved)
    PROVE  StackOf(saved[c], [saved EXCEPT ![c] = Unset])
<1> DEFINE t == saved[c]
           kept == [saved EXCEPT ![c] = Unset]
<1>1. PICK p \in DOMAIN s : /\ s[p] = c
                            /\ Len(t) = Len(s) - p
                            /\ \A k \in 1..Len(t) : t[k] = s[p + k]
  BY DEF StackOf
<1>2. t \in Seq(Clients) /\ DOMAIN t = 1..Len(t) /\ Len(t) \in Nat
      /\ DOMAIN s = 1..Len(s) /\ Len(s) \in Nat
  OBVIOUS
<1> HIDE DEF t
<1>3. p = 1
  <2>1. 1 \in DOMAIN s /\ s[1] = c
    BY <1>1, <1>2
  <2> QED BY <1>1, <2>1 DEF StackOf
<1>4. /\ Len(t) = Len(s) - 1
      /\ \A k \in DOMAIN t : k + 1 \in DOMAIN s /\ t[k] = s[k + 1] /\ k + 1 # 1
  <2>1. Len(t) = Len(s) - 1 /\ \A k \in 1..Len(t) : t[k] = s[1 + k]
    BY <1>1, <1>3
  <2>2. \A k \in 1..Len(t) : 1 + k = k + 1 /\ k + 1 \in 1..Len(s) /\ k + 1 # 1
    BY <2>1, <1>2
  <2> QED BY <2>1, <2>2, <1>2
<1>5. ASSUME NEW k \in DOMAIN t PROVE t[k] # c /\ t[k] \in Clients /\ saved[t[k]] # Unset
  <2>1. k + 1 \in DOMAIN s /\ t[k] = s[k + 1] /\ k + 1 # 1 /\ 1 \in DOMAIN s /\ s[1] = c
    BY <1>1, <1>3, <1>4
  <2> QED BY <2>1 DEF StackOf
<1>6. ASSUME NEW i \in DOMAIN t, NEW j \in DOMAIN t, t[i] = t[j] PROVE i = j
  <2>1. i + 1 = j + 1
    BY <1>4, <1>6 DEF StackOf
  <2> QED BY <2>1, <1>2
<1>7. \A i \in DOMAIN t : kept[t[i]] # Unset
  BY <1>5
<1>8. ASSUME NEW d \in Clients, kept[d] # Unset
      PROVE  \E n \in DOMAIN t : /\ t[n] = d
                                 /\ Len(kept[d]) = Len(t) - n
                                 /\ \A k \in 1..Len(kept[d]) : kept[d][k] = t[n + k]
  <2>1. d # c /\ kept[d] = saved[d] /\ kept[d] \in Seq(Clients)
    BY <1>8
  <2>2. PICK n \in DOMAIN s : /\ s[n] = d
                              /\ Len(saved[d]) = Len(s) - n
                              /\ \A k \in 1..Len(saved[d]) : saved[d][k] = s[n + k]
    BY <1>8, <2>1 DEF StackOf
  <2>3. n # 1 /\ n \in 1..Len(s) /\ Len(saved[d]) \in Nat
    BY <1>1, <1>2, <1>3, <2>1, <2>2
  <2>4. Len(t) \in Nat /\ Len(s) = Len(t) + 1
    BY <1>2, <1>4
  <2>5. n - 1 \in 1..Len(t) /\ (n - 1) + 1 = n /\ Len(saved[d]) = Len(t) - (n - 1)
    BY <2>2, <2>3, <2>4
  <2>6. \A k \in 1..Len(saved[d]) : (n - 1) + k \in 1..Len(t) /\ ((n - 1) + k) + 1 = n + k
    BY <2>2, <2>3, <2>4
  <2>8. n - 1 \in DOMAIN t /\ t[n - 1] = d
    BY <1>2, <1>4, <2>2, <2>5
  <2>7. \A k \in 1..Len(saved[d]) : saved[d][k] = t[(n - 1) + k]
    BY <1>2, <1>4, <2>2, <2>6
  <2> QED BY <2>1, <2>5, <2>7, <2>8
<1> QED
  BY <1>6, <1>7, <1>8 DEF StackOf, t

LEMMA InitHooks == HooksInit => HooksInv
<1> SUFFICES ASSUME HooksInit PROVE HooksInv
  OBVIOUS
<1> USE HooksAssumption DEF HooksInit, HooksAssumption, Methods
<1>1. PatchTypes
  BY DEF PatchTypes
<1>2. FlagsHonest
  BY DEF FlagsHonest
<1>3. ASSUME NEW m \in Methods PROVE StackOf(method[m], Saved(m))
  BY <1>3 DEF StackOf, Saved
<1>4. LogTypes /\ OnlyAsked
  BY DEF LogTypes, OnlyAsked
<1> QED
  BY <1>1, <1>2, <1>3, <1>4 DEF HooksInv

LEMMA HooksEnable ==
    ASSUME HooksInv,
           NEW c \in Clients, NEW lib \in {"requests", "httpx"}, NEW async \in BOOLEAN,
           Enable(c, lib, async)
    PROVE  HooksInv'
<1> DEFINE touched == MethodsOf(lib) \ (IF async THEN {} ELSE {"async"})
<1>1. touched \subseteq Methods
  BY DEF MethodsOf, Methods
<1>2. /\ lib \notin instrumented[c]
      /\ original' = [original EXCEPT ![c] =
                         [m \in Methods |-> IF m \in touched THEN method[m] ELSE original[c][m]]]
      /\ method' = [m \in Methods |-> IF m \in touched THEN <<c>> \o method[m] ELSE method[m]]
      /\ instrumented' = [instrumented EXCEPT ![c] = @ \cup {lib}]
      /\ UNCHANGED <<handlers, hook, installed, asked, crossed>>
  BY DEF Enable, Enabled, logVars
<1> HIDE DEF touched
<1>3. PatchTypes'
  BY <1>1, <1>2 DEF HooksInv, PatchTypes
<1>4. \A m \in touched : original[c][m] = Unset
  BY <1>2 DEF HooksInv, FlagsHonest, MethodsOf, touched
<1>5. FlagsHonest'
  BY <1>1, <1>2, HooksAssumption
     DEF HooksInv, FlagsHonest, PatchTypes, touched, MethodsOf, Methods, HooksAssumption
<1>6. ASSUME ~crossed, NEW m \in Methods PROVE StackOf(method[m], Saved(m))'
  <2>0. StackOf(method[m], Saved(m)) /\ method[m] \in Seq(Clients)
        /\ Saved(m) \in [Clients -> Seq(Clients) \cup {Unset}]
    BY <1>6 DEF HooksInv, PatchTypes, Saved
  <2>1. CASE m \in touched
    <3>1. Saved(m)[c] = Unset
      BY <1>4, <2>1 DEF Saved
    <3>2. StackOf(<<c>> \o method[m], [Saved(m) EXCEPT ![c] = method[m]])
      BY <2>0, <3>1, Pushed, HooksAssumption DEF HooksAssumption
    <3>3. Saved(m)' = [Saved(m) EXCEPT ![c] = method[m]]
      BY <1>2, <2>1 DEF Saved, HooksInv, PatchTypes
    <3>4. method'[m] = <<c>> \o method[m]
      BY <1>2, <2>1
    <3> QED
      BY <3>2, <3>3, <3>4
  <2>2. CASE m \notin touched
    <3>1. Saved(m)' = Saved(m) /\ method'[m] = method[m]
      BY <1>2, <2>2 DEF Saved, HooksInv, PatchTypes
    <3> QED
      BY <2>0, <3>1
  <2> QED
    BY <2>1, <2>2
<1>7. LogTypes' /\ OnlyAsked'
  BY <1>2 DEF HooksInv, LogTypes, OnlyAsked
<1> QED
  BY <1>2, <1>3, <1>5, <1>6, <1>7 DEF HooksInv

\* Both disable functions, and stop().
LEMMA HooksDisabled ==
    ASSUME PatchTypes, FlagsHonest,
           ~crossed => \A m \in Methods : StackOf(method[m], Saved(m)),
           NEW c \in Clients, NEW libs \in SUBSET {"requests", "httpx"},
           Disabled(c, libs)
    PROVE  /\ PatchTypes' /\ FlagsHonest'
           /\ ~crossed' => \A m \in Methods : StackOf(method[m], Saved(m))'
<1> DEFINE back == {m \in Methods : original[c][m] # Unset /\ \E lib \in libs : m \in MethodsOf(lib)}
           Covered(m) == \E lib \in libs : m \in MethodsOf(lib)
<1>1. \A m \in Methods : \A lib \in libs :
        m \in MethodsOf(lib) /\ original[c][m] # Unset => lib \in instrumented[c]
  BY DEF FlagsHonest, Methods, MethodsOf
<1>2. /\ method' = [m \in Methods |-> IF m \in back THEN original[c][m] ELSE method[m]]
      /\ original' = [original EXCEPT ![c] = [m \in Methods |->
                                                IF Covered(m) THEN Unset ELSE original[c][m]]]
      /\ instrumented' = [instrumented EXCEPT ![c] = @ \ libs]
  BY <1>1 DEF Disabled, Restored, Forgotten, Enabled
<1>3. ~crossed' => ~crossed /\ \A m \in back : Head(method[m]) = c
  BY DEF Disabled, Crosses
<1>4. PatchTypes'
  BY <1>2 DEF PatchTypes
<1>5. FlagsHonest'
  BY <1>2 DEF FlagsHonest, PatchTypes, MethodsOf, Methods
<1>6. ASSUME ~crossed', NEW m \in Methods PROVE StackOf(method[m], Saved(m))'
  <2>0. StackOf(method[m], Saved(m)) /\ method[m] \in Seq(Clients)
        /\ Saved(m) \in [Clients -> Seq(Clients) \cup {Unset}]
    BY <1>3, <1>6 DEF PatchTypes, Saved
  <2>1. CASE m \in back
    <3>1. Saved(m)[c] = original[c][m] /\ original[c][m] # Unset /\ Head(method[m]) = c
      BY <1>3, <1>6, <2>1 DEF Saved
    <3>2. StackOf(original[c][m], [Saved(m) EXCEPT ![c] = Unset])
      BY <2>0, <3>1, Popped
    <3>3. Saved(m)' = [Saved(m) EXCEPT ![c] = Unset]
      BY <1>2, <2>1 DEF Saved, PatchTypes
    <3>4. method'[m] = original[c][m]
      BY <1>2, <2>1
    <3> QED
      BY <3>2, <3>3, <3>4
  <2>2. CASE m \notin back
    <3>1. Saved(m)' = Saved(m) /\ method'[m] = method[m]
      BY <1>2, <2>2 DEF Saved, PatchTypes
    <3> QED
      BY <2>0, <3>1
  <2> QED
    BY <2>1, <2>2
<1> QED
  BY <1>4, <1>5, <1>6

LEMMA NextHooks == HooksInv /\ [HooksNext]_hooksVars => HooksInv'
<1> SUFFICES ASSUME HooksInv, [HooksNext]_hooksVars PROVE HooksInv'
  OBVIOUS
<1>0. PatchTypes /\ FlagsHonest /\ LogTypes /\ OnlyAsked
      /\ (~crossed => \A m \in Methods : StackOf(method[m], Saved(m)))
  BY DEF HooksInv
<1>1. ASSUME UNCHANGED <<method, original, instrumented, crossed>>
      PROVE  /\ PatchTypes' /\ FlagsHonest'
             /\ ~crossed' => \A m \in Methods : StackOf(method[m], Saved(m))'
  <2>1. PatchTypes' /\ FlagsHonest'
    BY <1>0, <1>1 DEF PatchTypes, FlagsHonest
  <2>2. \A m \in Methods : method'[m] = method[m] /\ Saved(m)' = Saved(m)
    BY <1>1 DEF Saved
  <2> QED
    BY <1>0, <1>1, <2>1, <2>2
<1>2. ASSUME UNCHANGED <<handlers, hook, installed, asked>> PROVE LogTypes' /\ OnlyAsked'
  BY <1>0, <1>2 DEF LogTypes, OnlyAsked
<1>3. CASE UNCHANGED hooksVars
  BY <1>1, <1>2, <1>3 DEF HooksInv, hooksVars, patchVars, logVars
<1>4. ASSUME NEW c \in Clients, NEW lib \in {"requests", "httpx"}, NEW async \in BOOLEAN,
             Enable(c, lib, async)
      PROVE  HooksInv'
  BY <1>4, HooksEnable
<1>5. ASSUME NEW c \in Clients, NEW lib \in {"requests", "httpx"}, Disable(c, lib)
      PROVE  HooksInv'
  <2>1. Disabled(c, {lib}) /\ UNCHANGED <<handlers, hook, installed, asked>>
    BY <1>5 DEF Disable, logVars
  <2>2. {lib} \in SUBSET {"requests", "httpx"}
    OBVIOUS
  <2> QED
    BY <1>0, <1>2, <2>1, <2>2, HooksDisabled DEF HooksInv
<1>6. ASSUME NEW c \in Clients, NEW names \in SUBSET Loggers, CaptureLogs(c, names)
      PROVE  HooksInv'
  <2>1. UNCHANGED <<method, original, instrumented, crossed>>
    BY <1>6 DEF CaptureLogs, patchVars
  <2>2. CASE installed[c]
    BY <1>0, <1>1, <1>6, <2>1, <2>2 DEF HooksInv, LogTypes, OnlyAsked, CaptureLogs, Capturing
  <2>3. CASE ~installed[c]
    <3>1. /\ handlers' = [l \in Loggers |->
                            IF l \in names THEN handlers[l] \cup {c} ELSE handlers[l]]
          /\ hook' = c /\ installed' = [installed EXCEPT ![c] = TRUE]
          /\ asked' = [asked EXCEPT ![c] = @ \cup names]
      BY <1>6, <2>3 DEF CaptureLogs, Capturing
    <3>2. LogTypes'
      BY <1>0, <3>1 DEF LogTypes
    <3>3. OnlyAsked'
      BY <1>0, <3>1 DEF LogTypes, OnlyAsked
    <3> QED
      BY <1>1, <2>1, <3>2, <3>3 DEF HooksInv
  <2> QED
    BY <2>2, <2>3
<1>7. ASSUME NEW c \in Clients, NEW names \in SUBSET Loggers, StopCapturing(c, names)
      PROVE  HooksInv'
  <2>1. UNCHANGED <<method, original, instrumented, crossed>>
    BY <1>7 DEF StopCapturing, patchVars
  <2>2. LogTypes' /\ OnlyAsked'
    BY <1>0, <1>7 DEF LogTypes, OnlyAsked, StopCapturing
  <2> QED
    BY <1>1, <2>1, <2>2 DEF HooksInv
<1>8. ASSUME NEW c \in Clients, StopClient(c) PROVE HooksInv'
  <2>1. Disabled(c, {"requests", "httpx"})
    BY <1>8 DEF StopClient
  <2>2. LogTypes' /\ OnlyAsked'
    BY <1>0, <1>8, HooksAssumption DEF LogTypes, OnlyAsked, StopClient, LetGo, HooksAssumption
  <2>3. {"requests", "httpx"} \in SUBSET {"requests", "httpx"}
    OBVIOUS
  <2> QED
    BY <1>0, <2>1, <2>2, <2>3, HooksDisabled DEF HooksInv
<1> QED
  BY <1>3, <1>4, <1>5, <1>6, <1>7, <1>8 DEF HooksNext

LEMMA HooksInvariant == HooksSpec => []HooksInv
BY InitHooks, NextHooks, PTL DEF HooksSpec

\* A client is on the stack of a method once if it has saved it, and else not.
LEMMA CallsOnce == HooksInv => TrackedOnce
<1> SUFFICES ASSUME HooksInv, ~crossed, NEW c \in Clients
             PROVE  /\ \A lib \in {"requests", "httpx"} :
                          Wrappings(c, IF lib = "httpx" THEN "client" ELSE lib)
                              = IF lib \in instrumented[c] THEN 1 ELSE 0
                    /\ Wrappings(c, "async") <= Wrappings(c, "client")
  BY DEF TrackedOnce
<1>1. ASSUME NEW m \in Methods
      PROVE  Wrappings(c, m) = IF original[c][m] # Unset THEN 1 ELSE 0
  <2> DEFINE places == {n \in DOMAIN method[m] : method[m][n] = c}
  <2>0. StackOf(method[m], Saved(m))
    BY DEF HooksInv
  <2>3. Wrappings(c, m) = Cardinality(places)
    BY DEF Wrappings
  <2>1. CASE original[c][m] # Unset
    <3>1. PICK n \in DOMAIN method[m] : method[m][n] = c
      BY <2>0, <2>1 DEF StackOf, Saved
    <3>2. places = {n}
      BY <2>0, <3>1 DEF StackOf
    <3> HIDE DEF places
    <3>3. Cardinality(places) = 1
      BY <3>2, FS_Singleton
    <3> QED
      BY <2>1, <2>3, <3>3
  <2>2. CASE original[c][m] = Unset
    <3>1. ASSUME NEW n \in DOMAIN method[m], method[m][n] = c PROVE FALSE
      <4>1. Saved(m)[c] # Unset
        BY <2>0, <3>1 DEF StackOf
      <4> QED
        BY <2>2, <4>1 DEF Saved
    <3>2. places = {}
      BY <3>1
    <3> HIDE DEF places
    <3> QED
      BY <2>2, <2>3, <3>2, FS_EmptySet
  <2> QED
    BY <2>1, <2>2
<1> QED
  BY <1>1 DEF HooksInv, FlagsHonest, Methods

\* However many clients instrument, stop and instrument again, as long as wrappers come off
\* in the reverse of the order they were put on: a call is reported once by each client that
\* instruments its library, and by no other (client.py:576-745).
THEOREM CallsTrackedOnce == HooksSpec => []TrackedOnce
BY CallsOnce, HooksInvariant, PTL

\* No logger keeps the handler of a client that was not asked for it or stopped, and no crash
\* goes through a client that is not capturing (log_capture.py:44-88).
THEOREM HooksAsAsked == HooksSpec => []OnlyAsked
<1>1. HooksInv => OnlyAsked
  BY DEF HooksInv
<1> QED
  BY <1>1, HooksInvariant, PTL
=============================================================================
