---------------------------- MODULE PolicyProofs ----------------------------
(***************************************************************************)
(* Proofs about how the policy comes into force: PolicyCache, for any sets *)
(* of fetchers and readers and any number of versions and snapshots, and   *)
(* the RealtimeChannel that announces its changes, for any set of poll     *)
(* threads and any number of changes.  They run on threads of their own    *)
(* and have no state in common, so each is proved of its own specification.*)
(***************************************************************************)
EXTENDS PolicyCache, RealtimeChannel, SequenceTheorems, FiniteSetTheorems, TLAPS

USE CacheAssumption DEF CacheAssumption

-----------------------------------------------------------------------------
(* The invariant.  Only the owner of the lock is past Acquire, so the version *)
(* it asked with is still in force when it has its answer: a version it is    *)
(* about to load is newer than the one in force, and was published.           *)

FetcherStates == {"idle", "waiting", "asking", "answered", "clearing"}
ReaderStates == {"idle", "testing", "warning", "matching"}

CacheType ==
    /\ server \in 1..MaxVersion
    /\ policies \in Seq(1..MaxVersion)
    /\ fetcher \in [Fetchers -> FetcherStates]
    /\ answer \in [Fetchers -> 0..Failed]
    /\ staleWarned \in BOOLEAN /\ warned \in BOOLEAN /\ overtaken \in BOOLEAN
    /\ reader \in [Readers -> ReaderStates]
    /\ reads \in [Readers -> Nat]

PushType == socket \in {"none", "down", "up"} /\ told \in BOOLEAN /\ missed \in BOOLEAN

LockHeld ==
    \A f \in Fetchers : fetcher[f] \in {"asking", "answered", "clearing"} <=> lock = f

Ascending ==
    /\ NoPolicyBuiltTwice
    /\ \A i \in 1..Len(policies) : policies[i] <= server

AnswersNew ==
    \A f \in Fetchers :
        fetcher[f] = "answered" /\ answer[f] \in 1..MaxVersion
            => Held < answer[f] /\ answer[f] <= server

\* Unless a refresh overtook it, a reader judges the age of the snapshot in force.
JudgesCurrent ==
    ~overtaken => \A r \in Readers :
        reader[r] \in {"testing", "warning"} => reads[r] = Snapshot

CacheInv ==
    /\ CacheType /\ PushType /\ LockHeld /\ Ascending /\ AnswersNew /\ JudgesCurrent
    /\ QuietMeansWarned

LEMMA Answers ==
    /\ NotModified \in 0..Failed /\ Failed \in 0..Failed
    /\ 1..MaxVersion \subseteq 0..Failed /\ 1 \in 1..MaxVersion
BY DEF NotModified, Failed

LEMMA InitCacheInv == Init => CacheInv
<1> SUFFICES ASSUME Init PROVE CacheInv
  OBVIOUS
<1>1. policies \in Seq(1..MaxVersion) /\ Len(policies) = 0
  BY EmptySeq DEF Init
<1>2. CacheType
  BY <1>1, Answers DEF Init, CacheType, FetcherStates, ReaderStates
<1>3. PushType /\ LockHeld /\ AnswersNew /\ JudgesCurrent /\ QuietMeansWarned
  BY DEF Init, PushType, LockHeld, AnswersNew, JudgesCurrent, QuietMeansWarned
<1>4. Ascending
  BY <1>1 DEF Ascending, NoPolicyBuiltTwice
<1> QED BY <1>2, <1>3, <1>4 DEF CacheInv

-----------------------------------------------------------------------------
(* One lemma for each part of the invariant, one step for each action that   *)
(* can disturb it.                                                           *)

ReadActions == \E r \in Readers : Evaluate(r) \/ ReadRuns(r)

\* Why a fetch begins, and what the socket does, is nothing to the cache.
LEMMA NextCases ==
    ASSUME Next
    PROVE  \/ Publish \/ Expire \/ Line
           \/ \E f \in Fetchers : FetchBegins(f) \/ FetchRuns(f)
           \/ \E r \in Readers : Evaluate(r) \/ ReadRuns(r)
BY DEF Next, Announced, Fetch, Fetchers

LEMMA LineKeeps ==
    ASSUME Line
    PROVE  UNCHANGED <<server, policies, fetching, warning, reading>>
BY DEF Line, OpenChannel, Connected, Disconnected, Goes

LEMMA PushStep == PushType /\ Next => PushType'
BY DEF PushType, Next, Publish, Expire, Line, OpenChannel, Connected, Disconnected, Goes,
   Announced, Fetch, FetchBegins, FetchRuns, Acquire, Asked, AskFails, Keep, Touch, Load,
   ClearWarned, Evaluate, ReadRuns, StaleTest, Warn, Match, pushing

LEMMA TypeStep == CacheType /\ Next => CacheType'
<1> SUFFICES ASSUME CacheType, Next PROVE CacheType'
  OBVIOUS
<1> USE DEF CacheType, FetcherStates, ReaderStates, fetching, warning, reading,
        FetchGoes, ReadGoes, Overtakes
<1>1. CASE Publish
  BY <1>1 DEF Publish
<1>2. CASE Expire
  BY <1>2 DEF Expire
<1>3. ASSUME NEW f \in Fetchers, FetchBegins(f) \/ FetchRuns(f) PROVE CacheType'
  <2>1. CASE FetchBegins(f) \/ Acquire(f)
    BY <2>1 DEF FetchBegins, Acquire
  <2>2. CASE Asked(f) \/ AskFails(f)
    <3>1. answer' \in [Fetchers -> 0..Failed]
      BY <2>2, Answers DEF Asked, AskFails
    <3> QED BY <2>2, <3>1 DEF Asked, AskFails
  <2>3. CASE Keep(f)
    BY <2>3 DEF Keep
  <2>4. CASE Touch(f)
    BY <2>4 DEF Touch
  <2>5. CASE Load(f)
    <3>1. policies' \in Seq(1..MaxVersion)
      BY <2>5 DEF Load
    <3> QED BY <2>5, <3>1 DEF Load
  <2>6. CASE ClearWarned(f)
    BY <2>6 DEF ClearWarned
  <2> QED BY <1>3, <2>1, <2>2, <2>3, <2>4, <2>5, <2>6 DEF FetchRuns
<1>4. ASSUME NEW r \in Readers, Evaluate(r) \/ ReadRuns(r) PROVE CacheType'
  <2>1. CASE Evaluate(r)
    <3>1. Snapshot \in Nat
      BY DEF Snapshot
    <3> QED BY <2>1, <3>1 DEF Evaluate
  <2>2. CASE StaleTest(r)
    BY <2>2 DEF StaleTest
  <2>3. CASE Warn(r)
    BY <2>3 DEF Warn
  <2>4. CASE Match(r)
    BY <2>4 DEF Match
  <2> QED BY <1>4, <2>1, <2>2, <2>3, <2>4 DEF ReadRuns
<1>5. CASE Line
  BY <1>5, LineKeeps
<1> QED BY <1>1, <1>2, <1>3, <1>4, <1>5, NextCases

\* Time, readers and the server leave the fetchers and what they hold alone.
LEMMA OthersKeepFetchers ==
    ASSUME Publish \/ Expire \/ Line \/ ReadActions
    PROVE  UNCHANGED <<policies, lock, fetcher, answer, Held, Snapshot>>
BY LineKeeps DEF Publish, Expire, ReadActions, Evaluate, ReadRuns, StaleTest, Warn, Match,
   fetching, Held, Snapshot

LEMMA LockStep == CacheType /\ LockHeld /\ Next => LockHeld'
<1> SUFFICES ASSUME CacheType, LockHeld, Next PROVE LockHeld'
  OBVIOUS
<1>1. CASE Publish \/ Expire \/ Line \/ ReadActions
  BY <1>1, OthersKeepFetchers DEF LockHeld
<1>2. ASSUME NEW f \in Fetchers, FetchBegins(f) \/ FetchRuns(f) PROVE LockHeld'
  <2> USE DEF CacheType, LockHeld, FetcherStates, FetchGoes
  <2>1. CASE FetchBegins(f)
    BY <2>1 DEF FetchBegins
  <2>2. CASE Acquire(f)
    BY <2>2 DEF Acquire
  <2>3. CASE Asked(f) \/ AskFails(f)
    BY <2>3 DEF Asked, AskFails
  <2>4. CASE Keep(f) \/ ClearWarned(f)
    BY <2>4 DEF Keep, ClearWarned
  <2>5. CASE Touch(f) \/ Load(f)
    BY <2>5 DEF Touch, Load
  <2> QED BY <1>2, <2>1, <2>2, <2>3, <2>4, <2>5 DEF FetchRuns
<1> QED BY <1>1, <1>2, NextCases DEF ReadActions

\* The version in force was published, or is 0.
LEMMA HeldPublished ==
    ASSUME CacheType, Ascending
    PROVE  Held \in 0..server
BY DEF CacheType, Ascending, Held, Snapshot

LEMMA AnswersStep ==
    ASSUME CacheType, LockHeld, Ascending, AnswersNew, Next
    PROVE  AnswersNew'
<1> USE DEF AnswersNew
<1>1. CASE Publish \/ Expire \/ Line \/ ReadActions
  <2>1. server \in Nat /\ server' \in Nat /\ server <= server'
    BY <1>1, LineKeeps DEF CacheType, Publish, Expire, ReadActions, Evaluate, ReadRuns,
       StaleTest, Warn, Match
  <2>2. UNCHANGED <<fetcher, answer, Held>>
    BY <1>1, OthersKeepFetchers
  <2> QED BY <2>1, <2>2
<1>2. ASSUME NEW f \in Fetchers, FetchBegins(f) \/ FetchRuns(f) PROVE AnswersNew'
  <2>1. UNCHANGED server
    BY <1>2 DEF FetchBegins, FetchRuns, Acquire, Asked, AskFails, Keep, Touch, Load,
       ClearWarned
  <2>2. CASE Asked(f)
    <3>1. Held' = Held
      BY <2>2 DEF Asked, Held, Snapshot
    <3>2. answer'[f] \in 1..MaxVersion => Held < server /\ answer'[f] = server
      BY <2>2, HeldPublished DEF Asked, CacheType, NotModified
    <3>3. \A g \in Fetchers \ {f} : answer'[g] = answer[g] /\ fetcher'[g] = fetcher[g]
      BY <2>2 DEF Asked, FetchGoes, CacheType
    <3>4. server \in Nat
      BY DEF CacheType
    <3> QED BY <2>1, <3>1, <3>2, <3>3, <3>4
  <2>3. CASE AskFails(f)
    BY <2>1, <2>3 DEF AskFails, FetchGoes, CacheType, Failed, Held, Snapshot
  <2>4. CASE Load(f)
    \* Nobody else holds the lock, so nobody else has an answer.
    <3>1. \A g \in Fetchers : fetcher'[g] # "answered"
      BY <2>4 DEF Load, FetchGoes, LockHeld, CacheType
    <3> QED BY <3>1
  <2>5. CASE FetchBegins(f) \/ Acquire(f) \/ Keep(f) \/ Touch(f) \/ ClearWarned(f)
    <3>1. UNCHANGED <<answer, Held>>
      BY <2>5 DEF FetchBegins, Acquire, Keep, Touch, ClearWarned, fetching, Held, Snapshot
    <3>2. \A g \in Fetchers : fetcher'[g] = "answered" => fetcher[g] = "answered"
      BY <2>5 DEF FetchBegins, Acquire, Keep, Touch, ClearWarned, FetchGoes, CacheType
    <3> QED BY <2>1, <3>1, <3>2
  <2> QED BY <1>2, <2>2, <2>3, <2>4, <2>5 DEF FetchRuns
<1> QED BY <1>1, <1>2, NextCases DEF ReadActions

LEMMA AscendingStep ==
    ASSUME CacheType, Ascending, AnswersNew, Next
    PROVE  Ascending'
<1>1. CASE UNCHANGED policies
  <2>1. server \in Nat /\ server' \in Nat /\ server <= server'
    <3>1. server' = server \/ server' = server + 1
      BY NextCases, LineKeeps DEF Publish, Expire, FetchBegins, FetchRuns, Acquire, Asked,
         AskFails, Keep, Touch, Load, ClearWarned, Evaluate, ReadRuns, StaleTest, Warn, Match
    <3> QED BY <3>1 DEF CacheType
  <2>2. \A i \in 1..Len(policies) : policies[i] \in Nat
    BY DEF CacheType
  <2> QED BY <1>1, <2>1, <2>2 DEF Ascending, NoPolicyBuiltTwice
<1>2. ASSUME NEW f \in Fetchers, Load(f) PROVE Ascending'
  <2>1. /\ Held < answer[f] /\ answer[f] <= server /\ answer[f] \in 1..MaxVersion
        /\ policies' = Append(policies, answer[f]) /\ UNCHANGED server
    BY <1>2 DEF Load, FetchGoes, AnswersNew
  <2>2. /\ Len(policies) \in Nat /\ Len(policies') = Len(policies) + 1
        /\ \A i \in 1..Len(policies) : policies'[i] = policies[i] /\ policies[i] \in Nat
        /\ policies'[Len(policies) + 1] = answer[f]
    BY <2>1 DEF CacheType
  <2>3. \A i \in 1..Len(policies) : policies[i] <= Held
    BY <2>2 DEF Ascending, NoPolicyBuiltTwice, Held, Snapshot
  <2>4. Held \in Nat /\ server \in Nat
    BY HeldPublished DEF CacheType
  <2>5. \A i \in 1..Len(policies') : policies'[i] <= server'
    BY <2>1, <2>2, <2>4 DEF Ascending
  <2>6. NoPolicyBuiltTwice'
    <3> SUFFICES ASSUME NEW m \in 1..Len(policies'), NEW n \in 1..Len(policies'), m < n
                 PROVE  policies'[m] < policies'[n]
      BY DEF NoPolicyBuiltTwice
    <3>1. m \in 1..Len(policies)
      BY <2>2
    <3>2. CASE n \in 1..Len(policies)
      BY <2>2, <3>1, <3>2 DEF Ascending, NoPolicyBuiltTwice
    <3>3. CASE n = Len(policies) + 1
      BY <2>1, <2>2, <2>3, <2>4, <3>1, <3>3
    <3> QED BY <2>2, <3>2, <3>3
  <2> QED BY <2>5, <2>6 DEF Ascending
<1>3. \/ UNCHANGED policies
      \/ \E f \in Fetchers : Load(f)
  BY NextCases, LineKeeps DEF Publish, Expire, FetchBegins, FetchRuns, Acquire, Asked, AskFails, Keep,
     Touch, ClearWarned, Evaluate, ReadRuns, StaleTest, Warn, Match
<1> QED BY <1>1, <1>2, <1>3

\* Every step that changes the snapshot in force says so in `overtaken`.
LEMMA JudgesStep ==
    ASSUME CacheType, JudgesCurrent, Next
    PROVE  JudgesCurrent'
<1> USE DEF JudgesCurrent
<1>1. CASE Publish \/ Expire \/ Line
  BY <1>1, LineKeeps DEF Publish, Expire, reading, warning, Snapshot
<1>2. ASSUME NEW f \in Fetchers, FetchBegins(f) \/ FetchRuns(f) PROVE JudgesCurrent'
  <2>1. CASE Load(f)
    BY <2>1 DEF Load, Overtakes, reading, CacheType
  <2>2. CASE Touch(f) \/ ClearWarned(f)
    BY <2>2 DEF Touch, ClearWarned, Overtakes, reading, Snapshot, CacheType
  <2>3. CASE FetchBegins(f) \/ Acquire(f) \/ Asked(f) \/ AskFails(f) \/ Keep(f)
    BY <2>3 DEF FetchBegins, Acquire, Asked, AskFails, Keep, reading, warning, Snapshot
  <2> QED BY <1>2, <2>1, <2>2, <2>3 DEF FetchRuns
<1>3. ASSUME NEW r \in Readers, Evaluate(r) \/ ReadRuns(r) PROVE JudgesCurrent'
  <2>1. UNCHANGED <<Snapshot, overtaken>>
    BY <1>3 DEF Evaluate, ReadRuns, StaleTest, Warn, Match, warning, Snapshot
  <2>2. CASE Evaluate(r)
    BY <2>1, <2>2 DEF Evaluate, ReadGoes, CacheType
  <2>3. CASE ReadRuns(r)
    BY <2>1, <2>3 DEF ReadRuns, StaleTest, Warn, Match, ReadGoes, CacheType
  <2> QED BY <1>3, <2>2, <2>3
<1> QED BY <1>1, <1>2, <1>3, NextCases

LEMMA QuietStep ==
    ASSUME CacheType, JudgesCurrent, QuietMeansWarned, Next
    PROVE  QuietMeansWarned'
<1> USE DEF QuietMeansWarned
<1>1. CASE Publish \/ Expire \/ Line
  BY <1>1, LineKeeps DEF Publish, Expire, warning, fetching
<1>2. ASSUME NEW f \in Fetchers, FetchBegins(f) \/ FetchRuns(f) PROVE QuietMeansWarned'
  <2>1. CASE Touch(f) \/ Load(f)
    \* The fetcher has yet to clear the flag.
    BY <2>1 DEF Touch, Load, FetchGoes, CacheType
  <2>2. CASE ClearWarned(f)
    BY <2>2 DEF ClearWarned
  <2>3. CASE FetchBegins(f) \/ Acquire(f) \/ Asked(f) \/ AskFails(f) \/ Keep(f)
    <3>1. UNCHANGED <<staleWarned, overtaken, warned>>
      BY <2>3 DEF FetchBegins, Acquire, Asked, AskFails, Keep, warning
    <3>2. \A g \in Fetchers : fetcher[g] = "clearing" => fetcher'[g] = "clearing"
      BY <2>3 DEF FetchBegins, Acquire, Asked, AskFails, Keep, FetchGoes, CacheType
    <3> QED BY <3>1, <3>2
  <2> QED BY <1>2, <2>1, <2>2, <2>3 DEF FetchRuns
<1>3. ASSUME NEW r \in Readers, Evaluate(r) \/ ReadRuns(r) PROVE QuietMeansWarned'
  <2>1. CASE Warn(r)
    \* It judged the snapshot in force, unless a refresh overtook it.
    BY <2>1 DEF Warn, ReadGoes, fetching, JudgesCurrent
  <2>2. CASE Evaluate(r) \/ StaleTest(r) \/ Match(r)
    BY <2>2 DEF Evaluate, StaleTest, Match, fetching, warning
  <2> QED BY <1>3, <2>1, <2>2 DEF ReadRuns
<1> QED BY <1>1, <1>2, <1>3, NextCases

LEMMA StutterCacheInv == CacheInv /\ UNCHANGED vars => CacheInv'
BY DEF CacheInv, vars, CacheType, PushType, LockHeld, Ascending, NoPolicyBuiltTwice,
   AnswersNew, JudgesCurrent, QuietMeansWarned, Held, Snapshot

LEMMA NextCacheInv == CacheInv /\ [Next]_vars => CacheInv'
<1> SUFFICES ASSUME CacheInv, Next PROVE CacheInv'
  BY StutterCacheInv
<1>1. CacheType' /\ PushType' /\ LockHeld'
  BY TypeStep, PushStep, LockStep DEF CacheInv
<1>2. Ascending' /\ AnswersNew'
  BY AscendingStep, AnswersStep DEF CacheInv
<1>3. JudgesCurrent' /\ QuietMeansWarned'
  BY JudgesStep, QuietStep DEF CacheInv
<1> QED BY <1>1, <1>2, <1>3 DEF CacheInv

LEMMA CacheInvariant == Spec => []CacheInv
BY InitCacheInv, NextCacheInv, PTL DEF Spec

-----------------------------------------------------------------------------
\* However many threads fetch at once, a policy version is turned into a snapshot
\* at most once, and later snapshots are of later versions.
THEOREM PoliciesBuiltOnce == Spec => []NoPolicyBuiltTwice
<1>1. CacheInv => NoPolicyBuiltTwice
  BY DEF CacheInv, Ascending
<1> QED BY <1>1, CacheInvariant, PTL

\* The flag that keeps evaluate() quiet stands for a warning about the snapshot in
\* force, unless a refresh overtook a reader.
THEOREM QuietJustified == Spec => []QuietMeansWarned
<1>1. CacheInv => QuietMeansWarned
  BY DEF CacheInv
<1> QED BY <1>1, CacheInvariant, PTL

\* A step of the cache is a publication, a refresh to a version between the one in
\* force and the one published, or nothing to whoever reads the copy.
LEMMA FreshStep ==
    CacheInv /\ [Next]_vars => [Copy!Next]_<<server, Held>>
<1> SUFFICES ASSUME CacheInv, [Next]_vars PROVE [Copy!Next]_<<server, Held>>
  OBVIOUS
<1> USE DEF Copy!Next, Copy!Publish, Copy!Refresh
<1>1. CASE Publish
  BY <1>1 DEF Publish, Held, Snapshot
<1>2. ASSUME NEW f \in Fetchers, Load(f) PROVE Copy!Refresh
  <2>1. /\ Held < answer[f] /\ answer[f] <= server /\ answer[f] \in 1..MaxVersion
        /\ policies' = Append(policies, answer[f]) /\ UNCHANGED server
    BY <1>2 DEF Load, FetchGoes, CacheInv, AnswersNew
  <2>2. Held' = answer[f]
    BY <2>1 DEF Held, Snapshot, CacheInv, CacheType
  <2>3. Held \in Nat /\ server \in Nat
    BY HeldPublished DEF CacheInv, CacheType
  <2> QED BY <2>1, <2>2, <2>3
<1>3. \/ Publish \/ \E f \in Fetchers : Load(f)
      \/ UNCHANGED <<server, policies>>
  BY NextCases, LineKeeps DEF Expire, FetchBegins, FetchRuns, Acquire, Asked, AskFails, Keep, Touch,
     ClearWarned, Evaluate, ReadRuns, StaleTest, Warn, Match, vars
<1>4. CASE UNCHANGED <<server, policies>>
  BY <1>4 DEF Held, Snapshot
<1> QED BY <1>1, <1>2, <1>3, <1>4

\* The cache implements FreshCache: the policy in force is one the server
\* published, and never goes back to an older one.
THEOREM CacheIsFresh == Spec => ImplementsFreshCache
<1>1. Init => Copy!Init
  BY DEF Init, Copy!Init, Held, Snapshot
<1> QED BY <1>1, CacheInvariant, FreshStep, PTL DEF Spec, ImplementsFreshCache, Copy!Spec

-----------------------------------------------------------------------------
(* RealtimeChannel                                                           *)
(*                                                                           *)
(* While the channel runs, an outage is covered by a poll thread, and by     *)
(* one.  Until stop() is called the WebSocket thread alone starts and stops  *)
(* the polling, so the invariant follows its position: where it may be there *)
(* is nobody (Quiet), there is the one poller of the outage (Polling), or    *)
(* there is at most the one that on_open is about to wait for (Waited).      *)

WsStates == {"start", "loop", "built", "dialing", "opened", "pollSet", "pollRef",
             "pollBind", "pollJoin", "pollReset", "listening", "updating", "returned", "pollTest",
             "pollClear", "spawn", "backoff", "done"}

ChannelTypes ==
    /\ library \in BOOLEAN /\ slow \in BOOLEAN
    /\ stop \in BOOLEAN /\ connected \in BOOLEAN /\ pollStop \in BOOLEAN
    /\ poller \in [Pollers -> {"none", "waiting", "deciding", "updating", "exited"}]
    /\ pollThread \in Pollers \cup {None}
    /\ joining \in [{"ws", "stop"} -> Pollers \cup {None}]
    /\ wpc \in WsStates
    /\ spc \in {"running", "pollSet", "pollRef", "pollBind", "pollJoin", "pollReset",
                "close", "joinWs", "stopped", "raised"}

\* No poll thread is there, but for those that outlasted a join.
NobodyPolls == slow \/ \A i \in Pollers : ~Alive(i)
Quiet == pollThread = None /\ NobodyPolls

\* At most the poll thread the channel knows is there.
Waited == slow \/ \A i \in Pollers : Alive(i) => i = pollThread

\* The poll thread the channel knows is there and will go on.
Polling ==
    pollThread # None /\ Alive(pollThread) /\ ~pollStop /\ ~connected /\ Waited

Phase ==
    /\ wpc \in {"start", "returned"} => ~connected /\ (Quiet \/ Polling)
    /\ wpc \in {"loop", "built", "dialing", "opened"} => ~connected /\ (Quiet \/ Polling)
    /\ wpc \in {"pollSet", "pollRef"} => Waited
    /\ wpc = "pollBind" => Waited /\ pollThread # None
    /\ wpc = "pollJoin" => Waited /\ pollThread # None /\ joining["ws"] = pollThread
    /\ wpc = "pollReset" => NobodyPolls
    /\ wpc \in {"listening", "updating"} => Quiet
    /\ wpc = "pollTest" => ~connected /\ (Quiet \/ Polling)
    /\ wpc = "pollClear" => ~connected /\ NobodyPolls
    /\ wpc = "spawn" => ~connected /\ NobodyPolls /\ ~pollStop
    /\ wpc \in {"backoff", "done"} => Polling

ChannelInv == ChannelTypes /\ (stop <=> spc # "running") /\ (~stop => Phase)

\* While the channel runs its app does whenever there may be a socket; and a stop()
\* that met the socket up has it closed, orders every poll thread to stop and finds
\* none to wait for.
CalmInv ==
    /\ ~stop => ~calm /\ (wpc = "dialing" \/ Online => app = "running")
    /\ calm =>
          /\ wpc \in {"listening", "updating", "returned", "done"}
          /\ spc \in {"pollSet", "pollRef", "close", "joinWs", "stopped"}
          /\ pollThread = None
          /\ spc # "pollSet" => pollStop
          /\ app \in {"running", "closing", "ended"}
          /\ spc \in {"joinWs", "stopped"} => app # "running"

-----------------------------------------------------------------------------
LEMMA InitChannel == ChannelInit => ChannelInv
<1> SUFFICES ASSUME ChannelInit PROVE ChannelInv
  OBVIOUS
<1>1. ChannelTypes
  BY DEF ChannelInit, ChannelTypes, WsStates
<1>2. Quiet /\ ~connected
  BY DEF ChannelInit, Quiet, NobodyPolls, Alive, Gone
<1>3. Phase
  BY <1>2 DEF ChannelInit, Phase
<1> QED
  BY <1>1, <1>3 DEF ChannelInit, ChannelInv

\* Once stop() has been called there is nothing left to keep but the types.
LEMMA WsTypes ==
    ASSUME ChannelInv, WsRuns \/ Dropped
    PROVE  ChannelTypes' /\ UNCHANGED <<stop, spc>>
<1> USE DEF ChannelInv, ChannelTypes, WsStates, WsGo, WsKeeps,
        flags, world, given, threads
<1>1. CASE RunWithReconnect \/ LoopTest \/ RunForever
  BY <1>1 DEF RunWithReconnect, LoopTest, RunForever
<1>2. CASE DialSucceeds \/ OnOpen
  BY <1>2 DEF DialSucceeds, OnOpen
<1>3. CASE OnMessage \/ OnMessageDone
  BY <1>3 DEF OnMessage, OnMessageDone
<1>4. CASE Returned \/ BackoffOver
  BY <1>4 DEF Returned, BackoffOver
<1>5. CASE DialFails \/ CloseSeen \/ Dropped
  BY <1>5 DEF DialFails, CloseSeen, Dropped, Closed
<1>6. CASE PollTest \/ PollClear
  BY <1>6 DEF PollTest, PollClear, AfterPolling
<1>7. CASE Spawn
  BY <1>7 DEF Spawn, AfterPolling
<1>8. CASE PollSet("ws") \/ PollRef("ws")
  BY <1>8 DEF PollSet, PollRef, Go, At, After
<1>9. CASE PollBind("ws")
  BY <1>9 DEF PollBind, Go, At
<1>10. CASE PollJoin("ws") \/ PollReset("ws")
  BY <1>10 DEF PollJoin, PollReset, Go, At,
     After
<1> QED
  BY <1>1, <1>2, <1>3, <1>4, <1>5, <1>6, <1>7, <1>8, <1>9, <1>10 DEF WsRuns,
     StopPolling

\* The WebSocket thread, as long as stop() has not been called.
LEMMA WsPhase ==
    ASSUME ChannelInv, WsRuns \/ Dropped, ~stop
    PROVE  Phase'
<1> USE DEF ChannelInv, ChannelTypes, WsGo, WsKeeps, flags,
        world, given, threads,
            Phase, Quiet, NobodyPolls, Waited, Polling, Alive, Gone
<1>0. None \notin Pollers
  BY ChannelAssumption DEF ChannelAssumption
<1>1. CASE RunWithReconnect
  BY <1>0, <1>1 DEF RunWithReconnect
<1>2. CASE LoopTest \/ RunForever \/ DialSucceeds
  BY <1>0, <1>2 DEF LoopTest, RunForever, DialSucceeds
<1>3. CASE OnOpen
  BY <1>0, <1>3 DEF OnOpen
<1>4. CASE DialFails \/ CloseSeen \/ Dropped
  BY <1>0, <1>4 DEF DialFails, CloseSeen, Dropped,
     Closed
<1>5. CASE OnMessage \/ OnMessageDone
  BY <1>0, <1>5 DEF OnMessage, OnMessageDone
<1>6. CASE Returned \/ BackoffOver
  BY <1>0, <1>6 DEF Returned, BackoffOver
<1>7. CASE PollTest
  BY <1>0, <1>7 DEF PollTest, AfterPolling
<1>8. CASE PollClear
  BY <1>0, <1>8 DEF PollClear
<1>9. CASE Spawn
  BY <1>0, <1>9 DEF Spawn, AfterPolling
<1>10. CASE PollSet("ws")
  BY <1>0, <1>10 DEF PollSet, Go, At, After
<1>11. CASE PollRef("ws")
  BY <1>0, <1>11 DEF PollRef, Go, At, After
<1>12. CASE PollBind("ws")
  BY <1>0, <1>12 DEF PollBind, Go, At, After
<1>13. CASE PollJoin("ws")
  BY <1>0, <1>13 DEF PollJoin, Go, At, After
<1>14. CASE PollReset("ws")
  BY <1>0, <1>14 DEF PollReset, Go, At, After
<1> QED
  BY <1>1, <1>2, <1>3, <1>4, <1>5, <1>6, <1>7, <1>8, <1>9, <1>10, <1>11, <1>12, <1>13,
     <1>14
     DEF WsRuns, StopPolling

\* A poll thread may end, but not while it stands in for the socket.
LEMMA PollerKeeps ==
    ASSUME ChannelInv, NEW i \in Pollers, PollerRuns(i)
    PROVE  ChannelInv'
<1> USE DEF PollerRuns, PollStopped, PollTimeout,
        PollReconnected, PollUpdate, PollUpdated,
            PollMoves, flags, world, given
<1>1. /\ ChannelTypes'
      /\ UNCHANGED <<stop, spc, wpc, joining, connected, pollStop, pollThread, slow>>
  BY DEF ChannelInv, ChannelTypes, WsStates
<1>2. /\ \A j \in Pollers \ {i} : poller'[j] = poller[j]
      /\ Alive(i)
      /\ Alive(i)' \/ pollStop \/ connected
  BY DEF ChannelInv, ChannelTypes, Alive, Gone
<1>3. (Quiet => Quiet') /\ (NobodyPolls => NobodyPolls')
  BY <1>1, <1>2 DEF Quiet, NobodyPolls, Alive
<1>4. (Waited => Waited') /\ (Polling => Polling')
  BY <1>1, <1>2, ChannelAssumption DEF ChannelAssumption, Waited, Polling, Alive,
     ChannelInv, ChannelTypes
<1> QED
  BY <1>1, <1>3, <1>4 DEF ChannelInv, Phase

\* From its first step on stop() is past what Phase is about.
LEMMA StopKeeps ==
    ASSUME ChannelInv, StopBegin \/ StopRuns
    PROVE  ChannelInv'
<1> USE DEF flags, world, given
<1>1. ChannelTypes' /\ stop' /\ spc' # "running"
  <2> USE DEF ChannelInv, ChannelTypes
  <2>1. CASE StopBegin
    BY <2>1 DEF StopBegin
  <2>2. CASE PollSet("stop")
    BY <2>2 DEF PollSet, Go, At
  <2>3. CASE PollRef("stop")
    BY <2>3 DEF PollRef, Go, At, After
  <2>4. CASE PollBind("stop")
    BY <2>4 DEF PollBind, Go, At
  <2>5. CASE PollJoin("stop")
    BY <2>5 DEF PollJoin, Go, At
  <2>6. CASE PollReset("stop")
    BY <2>6 DEF PollReset, Go, At, After
  <2>7. CASE CloseWs \/ JoinWs
    BY <2>7 DEF CloseWs, JoinWs
  <2> QED
    BY <2>1, <2>2, <2>3, <2>4, <2>5, <2>6, <2>7 DEF StopRuns,
       StopPolling
<1> QED
  BY <1>1 DEF ChannelInv

LEMMA NextChannel ==
    ASSUME ChannelInv, [ChannelNext]_channelVars
    PROVE  ChannelInv'
<1>1. CASE WsRuns \/ Dropped
  BY <1>1, WsTypes, WsPhase DEF ChannelInv
<1>2. CASE Change \/ UNCHANGED channelVars
  <2>1. UNCHANGED <<library, slow, stop, connected, pollStop, pollThread, poller, wpc,
                    spc, joining>>
    BY <1>2 DEF Change, channelVars, threads, flags,
       world, given
  <2> QED
    BY <2>1 DEF ChannelInv, ChannelTypes, Phase, Quiet, NobodyPolls, Waited, Polling,
       Alive
<1> QED
  BY <1>1, <1>2, PollerKeeps, StopKeeps DEF ChannelNext

\* A step of the WebSocket thread, or of the world, does not disturb a stop().
LEMMA CalmWs ==
    ASSUME ChannelInv, CalmInv, WsRuns \/ Dropped
    PROVE  CalmInv'
<1> USE DEF ChannelInv, CalmInv, WsGo, WsKeeps, flags,
        world, given, threads, Online
<1>1. CASE RunWithReconnect \/ LoopTest \/ RunForever
  BY <1>1 DEF RunWithReconnect, LoopTest, RunForever
<1>2. CASE DialSucceeds \/ OnOpen
  BY <1>2 DEF DialSucceeds, OnOpen
<1>3. CASE OnMessage \/ OnMessageDone
  BY <1>3 DEF OnMessage, OnMessageDone
<1>4. CASE Returned \/ BackoffOver
  BY <1>4 DEF Returned, BackoffOver
<1>5. CASE DialFails \/ CloseSeen \/ Dropped
  BY <1>5 DEF DialFails, CloseSeen, Dropped, Closed
<1>6. CASE PollTest \/ PollClear \/ Spawn
  BY <1>6 DEF PollTest, PollClear, Spawn, AfterPolling
<1>7. CASE PollSet("ws") \/ PollRef("ws")
  BY <1>7 DEF PollSet, PollRef, Go, At, After
<1>8. CASE PollBind("ws")
  BY <1>8 DEF PollBind, Go, At
<1>9. CASE PollJoin("ws") \/ PollReset("ws")
  BY <1>9 DEF PollJoin, PollReset, Go, At, After
<1> QED
  BY <1>1, <1>2, <1>3, <1>4, <1>5, <1>6, <1>7, <1>8, <1>9 DEF WsRuns,
     StopPolling

\* stop() itself: where it meets the socket up nobody polls (Quiet).
LEMMA CalmStop ==
    ASSUME ChannelInv, CalmInv, StopBegin \/ StopRuns
    PROVE  CalmInv'
<1> USE DEF ChannelInv, CalmInv, flags, world, given
<1>1. CASE StopBegin
  BY <1>1 DEF StopBegin, Phase, Quiet, Online
<1>2. CASE PollSet("stop") \/ PollRef("stop")
  BY <1>2 DEF PollSet, PollRef, Go, At, After
<1>3. CASE PollBind("stop") \/ PollJoin("stop") \/ PollReset("stop")
  BY <1>3 DEF PollBind, PollJoin, PollReset, Go,
     At
<1>4. CASE CloseWs \/ JoinWs
  BY <1>4 DEF CloseWs, JoinWs
<1> QED
  BY <1>1, <1>2, <1>3, <1>4 DEF StopRuns, StopPolling

LEMMA NextCalm ==
    ASSUME ChannelInv, CalmInv, [ChannelNext]_channelVars
    PROVE  CalmInv'
<1>1. CASE \/ Change \/ UNCHANGED channelVars
           \/ \E i \in Pollers : PollerRuns(i)
  <2>1. UNCHANGED <<stop, pollStop, pollThread, wpc, spc, app, calm>>
    BY <1>1 DEF Change, channelVars, threads, flags,
       world, given, PollerRuns, PollStopped,
                PollTimeout, PollReconnected, PollUpdate,
                PollUpdated
  <2> QED
    BY <2>1 DEF CalmInv, Online
<1> QED
  BY <1>1, CalmWs, CalmStop DEF ChannelNext

-----------------------------------------------------------------------------
(* The theorems *)

\* The invariant holds in every state.
THEOREM ChannelInvariant == ChannelSpec => []ChannelInv
<1>1. ChannelInv /\ [ChannelNext]_channelVars => ChannelInv'
  BY NextChannel
<1> QED
  BY <1>1, InitChannel, PTL DEF ChannelSpec

\* However the socket fails and reconnects, an outage is covered by a poll thread that will
\* go on, and where no on_update outlasts a join there is never a second one
\* (realtime.py:27, 183-220).
THEOREM PollingIsCovered == ChannelSpec => []PollingCoversOutage
<1>1. ChannelInv => PollingCoversOutage
  <2> SUFFICES ASSUME ChannelInv, ~stop PROVE PollingCoversOutage
    BY DEF PollingCoversOutage
  <2> DEFINE alive == {i \in Pollers : Alive(i)}
  <2>1. wpc \in {"backoff", "done"} =>
            pollThread # None /\ Alive(pollThread) /\ ~pollStop
    BY DEF ChannelInv, Phase, Polling
  <2>2. ASSUME ~slow PROVE Cardinality(alive) <= 1
    <3>1. \A i, j \in alive : i = j
      BY <2>2 DEF ChannelInv, ChannelTypes, WsStates, Phase, Quiet, NobodyPolls, Waited,
         Polling
    <3>2. CASE alive = {}
      BY <3>2, FS_EmptySet
    <3>3. CASE alive # {}
      <4>1. PICK i \in alive : alive = {i}
        BY <3>1, <3>3
      <4>2. Cardinality({i}) = 1
        BY FS_Singleton
      <4> QED
        BY <4>1, <4>2
    <3> QED
      BY <3>2, <3>3
  <2> QED
    BY <2>1, <2>2 DEF PollingCoversOutage
<1> QED
  BY <1>1, ChannelInvariant, PTL

\* A stop() called while the socket is up fails at nothing, leaves no socket that runs
\* or will, and no poll thread without an order to stop, whatever drops or is slow
\* meanwhile (realtime.py:85-95).
THEOREM StopIsComplete == ChannelSpec => []StopEnds
<1>1. ChannelInit => CalmInv
  BY DEF ChannelInit, CalmInv, Online
<1>2. CalmInv => StopEnds
  BY DEF CalmInv, StopEnds
<1>3. ChannelInv /\ CalmInv /\ [ChannelNext]_channelVars => CalmInv'
  BY NextCalm
<1> QED
  BY <1>1, <1>2, <1>3, ChannelInvariant, PTL DEF ChannelSpec
=============================================================================
