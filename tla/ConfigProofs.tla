---------------------------- MODULE ConfigProofs ----------------------------
(***************************************************************************)
(* The config manager, for any callers and any number of versions: what    *)
(* the listener is told, when the refresh thread is there, and that the    *)
(* cache does not go back while fetches come one after the other.  The     *)
(* client's own options, whatever its layers of configuration say.  And    *)
(* what these options do to an event: which ones a sampling rate keeps,    *)
(* and what the scrubber makes of any payload, whatever the hook did to it.*)
(***************************************************************************)
EXTENDS ConfigManager, ConfigLoading, EventBoundary, SequenceTheorems,
        FiniteSetTheorems, TLAPS

ManagerTypes ==
    /\ server \in Nat /\ cached \in Nat
    /\ thread \in [Threads ->
           {"none", "idle", "waiting", "asking", "answered", "telling", "exited"}]
    /\ answer \in [Threads -> Nat]
    /\ refreshStop \in BOOLEAN /\ started \in BOOLEAN
    /\ old \in Nat /\ told \in Nat
    /\ control \in {"idle", "joining"}

\* The server is ahead of every answer and of the cache.
ServerAhead ==
    /\ cached <= server /\ server \in 1..MaxVersion
    /\ \A t \in Threads : answer[t] \in Good => answer[t] <= server

\* As long as no two fetches overlapped, one thread at most has an answer in its hands,
\* and nothing newer was installed since it came.
OneAnswer ==
    "overlap" \notin past =>
        \A t \in Threads : thread[t] = "answered" =>
            /\ answer[t] \in Good => cached <= answer[t]
            /\ \A u \in Threads \ {t} : thread[u] # "answered"

\* As long as no caller changed the cache and on_change raised nothing, the refresh thread
\* compares what it fetches with what the listener knows, and what it is about to tell it
\* is in the cache.
ListenerKnows ==
    past \cap {"foreign", "raised"} = {} =>
        /\ thread["refresh"] # "telling" => told = cached
        /\ thread["refresh"] = "telling" => answer["refresh"] = cached
        /\ Fetching("refresh") => old = cached

\* Without a mishap the thread is there from a start to a stop, and gone after the join.
RefreshThere ==
    "mishap" \notin past =>
        /\ started => control = "idle" /\ Alive /\ ~refreshStop
        /\ ~started /\ control = "idle" => ~Alive

ManagerInv ==
    /\ ManagerTypes /\ ServerAhead /\ OneAnswer /\ ListenerKnows /\ RefreshThere
    /\ \A t \in Callers : thread[t] \in {"idle", "asking", "answered"}

-----------------------------------------------------------------------------
LEMMA Constants == "refresh" \notin Callers /\ MaxVersion \in Nat \ {0}
  BY ManagerAssumption

LEMMA InitManager == Init => ManagerInv
<1> SUFFICES ASSUME Init PROVE ManagerInv
  OBVIOUS
<1> USE Constants DEF Init, Threads, Refused, Good
<1>0. MaxVersion \in Nat /\ MaxVersion >= 1
  OBVIOUS
<1>1. ManagerTypes
  <2>1. thread \in [Threads ->
                    {"none", "idle", "waiting", "asking", "answered", "telling", "exited"}]
    OBVIOUS
  <2>2. answer \in [Threads -> Nat]
    BY <1>0
  <2> QED
    BY <2>1, <2>2 DEF ManagerTypes
<1>2. ServerAhead
  BY <1>0 DEF ServerAhead
<1>3. OneAnswer /\ ListenerKnows
  BY DEF OneAnswer, ListenerKnows, Fetching
<1>4. RefreshThere
  BY DEF RefreshThere, Alive
<1> QED
  BY <1>1, <1>2, <1>3, <1>4 DEF ManagerInv

\* Whatever the thread, an answer comes from the server as it is.
LEMMA RequestKeeps ==
    ASSUME ManagerInv, NEW t \in Threads, Request(t)
    PROVE  ManagerInv'
<1> USE Constants DEF Request, Goes, Remember, Settings, Threads
<1>1. ManagerTypes'
  BY DEF ManagerInv, ManagerTypes, Refused, Garbled, ServerAhead
<1>2. ServerAhead'
  BY DEF ManagerInv, ManagerTypes, ServerAhead, Refused, Garbled, Good
<1>3. OneAnswer'
  <2>1. ASSUME "overlap" \notin past'
        PROVE  "overlap" \notin past /\ \A u \in Threads \ {t} : ~Fetching(u)
    BY <2>1
  <2>2. answer'[t] \in Good => answer'[t] = server
    BY DEF ManagerInv, ManagerTypes, Refused, Garbled, Good
  <2>3. \A u \in Threads \ {t} : thread'[u] = thread[u]
    BY DEF ManagerInv, ManagerTypes
  <2> QED
    BY <2>1, <2>2, <2>3 DEF ManagerInv, OneAnswer, ServerAhead, Fetching
<1>4. ListenerKnows'
  BY DEF ManagerInv, ManagerTypes, ListenerKnows, Fetching
<1>5. RefreshThere'
  BY DEF ManagerInv, ManagerTypes, RefreshThere, Alive
<1>6. \A u \in Callers : thread'[u] \in {"idle", "asking", "answered"}
  BY DEF ManagerInv, ManagerTypes
<1> QED
  BY <1>1, <1>2, <1>3, <1>4, <1>5, <1>6 DEF ManagerInv

\* The steps of a caller.
LEMMA CallerKeeps ==
    ASSUME ManagerInv, NEW t \in Callers, Caller(t)
    PROVE  ManagerInv'
<1> USE Constants DEF Goes, Threads, Settings
<1>1. CASE Request(t)
  BY <1>1, RequestKeeps
<1>2. CASE CallFetch(t) \/ Get(t) \/ CallerFails(t)
  <2>1. /\ UNCHANGED <<server, cached, answer, Settings, past>>
        /\ thread'["refresh"] = thread["refresh"]
        /\ \A u \in Threads \ {t} : thread'[u] = thread[u]
        /\ thread'[t] \in {"idle", "asking"}
        /\ thread' \in [Threads ->
              {"none", "idle", "waiting", "asking", "answered", "telling", "exited"}]
    BY <1>2 DEF ManagerInv, ManagerTypes, CallFetch, Get, CallerFails
  <2> QED
    BY <2>1 DEF ManagerInv, ManagerTypes, ServerAhead, OneAnswer, ListenerKnows, RefreshThere,
                Alive, Fetching
<1>3. CASE CallerInstalls(t)
  <2> USE <1>3 DEF CallerInstalls, Install, Remember
  <2>1. /\ thread' = [thread EXCEPT ![t] = "idle"] /\ thread[t] = "answered"
        /\ cached' = answer[t] /\ answer[t] \in Good
        /\ UNCHANGED <<server, answer, refreshStop, old, told, control, started>>
    OBVIOUS
  <2>2. "mishap" \in past <=> "mishap" \in past'
    OBVIOUS
  <2>3. "overlap" \in past <=> "overlap" \in past'
    OBVIOUS
  <2>4. ManagerTypes'
    BY <2>1 DEF ManagerInv, ManagerTypes, Good
  <2>5. ServerAhead'
    BY <2>1 DEF ManagerInv, ServerAhead
  <2>6. OneAnswer'
    BY <2>1, <2>3 DEF ManagerInv, ManagerTypes, OneAnswer
  <2>7. ListenerKnows'
    <3>1. "foreign" \notin past' => "foreign" \notin past /\ cached' = cached
      OBVIOUS
    <3>2. thread'["refresh"] = thread["refresh"]
      BY <2>1
    <3> QED
      BY <2>1, <3>1, <3>2 DEF ManagerInv, ListenerKnows, Fetching
  <2>8. RefreshThere'
    BY <2>1, <2>2 DEF ManagerInv, ManagerTypes, RefreshThere, Alive
  <2>9. \A u \in Callers : thread'[u] \in {"idle", "asking", "answered"}
    BY <2>1 DEF ManagerInv, ManagerTypes
  <2> QED
    BY <2>4, <2>5, <2>6, <2>7, <2>8, <2>9 DEF ManagerInv
<1> QED
  BY <1>1, <1>2, <1>3 DEF Caller

\* The steps of the refresh thread.
LEMMA RefreshKeeps ==
    ASSUME ManagerInv, RefreshRuns
    PROVE  ManagerInv'
<1> USE Constants DEF Goes, Threads, Settings
<1>1. CASE Request("refresh")
  BY <1>1, RequestKeeps
<1>2. CASE RefreshStops
  BY <1>2 DEF RefreshStops, ManagerInv, ManagerTypes, ServerAhead, OneAnswer, ListenerKnows,
              RefreshThere, Alive, Fetching
<1>3. CASE RefreshWakes
  BY <1>3 DEF RefreshWakes, ManagerInv, ManagerTypes, ServerAhead, OneAnswer, ListenerKnows,
              RefreshThere, Alive, Fetching
<1>4. CASE RefreshInstalls
  <2> USE DEF RefreshInstalls, Install
  <2> DEFINE to == IF old # answer["refresh"] THEN "telling" ELSE "waiting"
  <2>1. /\ to \in {"telling", "waiting"} /\ (to = "waiting" => old = answer["refresh"])
        /\ thread["refresh"] = "answered" /\ thread' = [thread EXCEPT !["refresh"] = to]
        /\ cached' = answer["refresh"] /\ answer["refresh"] \in Good
        /\ UNCHANGED <<server, answer, refreshStop, old, told, control, started, past>>
    BY <1>4
  <2> HIDE DEF to
  <2>2. ManagerTypes'
    BY <2>1 DEF ManagerInv, ManagerTypes
  <2>3. ServerAhead' /\ OneAnswer'
    BY <2>1 DEF ManagerInv, ManagerTypes, ServerAhead, OneAnswer
  <2>4. ListenerKnows'
    BY <2>1 DEF ManagerInv, ManagerTypes, ListenerKnows, Fetching
  <2>5. RefreshThere'
    BY <2>1 DEF ManagerInv, ManagerTypes, RefreshThere, Alive
  <2>6. \A u \in Callers : thread'[u] \in {"idle", "asking", "answered"}
    BY <2>1 DEF ManagerInv, ManagerTypes
  <2> QED
    BY <2>2, <2>3, <2>4, <2>5, <2>6 DEF ManagerInv
<1>5. CASE RefreshRefused
  BY <1>5 DEF RefreshRefused, ManagerInv, ManagerTypes, ServerAhead, OneAnswer, ListenerKnows,
              RefreshThere, Alive, Fetching
<1>6. CASE RefreshDies
  BY <1>6 DEF RefreshDies, Remember, ManagerInv, ManagerTypes, ServerAhead, OneAnswer,
              ListenerKnows, RefreshThere, Alive, Fetching
<1>7. CASE RefreshTells
  BY <1>7 DEF RefreshTells, Tells, ManagerInv, ManagerTypes, ServerAhead,
              OneAnswer, ListenerKnows, RefreshThere, Alive, Fetching
<1>8. CASE ListenerRefuses
  BY <1>8 DEF ListenerRefuses, Tells, Remember, ManagerInv, ManagerTypes,
              ServerAhead, OneAnswer, ListenerKnows, RefreshThere, Alive, Fetching
<1>9. CASE ListenerDies
  BY <1>9 DEF ListenerDies, Tells, ManagerInv, ManagerTypes, ServerAhead,
              OneAnswer, ListenerKnows, RefreshThere, Alive, Fetching
<1> QED
  BY <1>1, <1>2, <1>3, <1>4, <1>5, <1>6, <1>7, <1>8, <1>9 DEF RefreshRuns

\* The thread that starts and stops the refresh.
LEMMA ControlKeeps ==
    ASSUME ManagerInv, Control
    PROVE  ManagerInv'
<1> USE Constants DEF Threads, Refreshing
<1>1. CASE StartRefresh
  BY <1>1 DEF StartRefresh, ManagerInv, ManagerTypes, ServerAhead, OneAnswer, ListenerKnows,
              RefreshThere, Alive, Fetching
<1>2. CASE AlreadyRunning
  BY <1>2 DEF AlreadyRunning, ManagerInv, ManagerTypes, ServerAhead, OneAnswer, ListenerKnows,
              RefreshThere, Alive, Fetching
<1>3. CASE StopRefresh
  BY <1>3 DEF StopRefresh, ManagerInv, ManagerTypes, ServerAhead, OneAnswer, ListenerKnows,
              RefreshThere, Alive, Fetching
<1>4. CASE JoinRefresh
  BY <1>4 DEF JoinRefresh, Remember, ManagerInv, ManagerTypes, ServerAhead, OneAnswer,
              ListenerKnows, RefreshThere, Alive, Fetching
<1> QED
  BY <1>1, <1>2, <1>3, <1>4 DEF Control

LEMMA NextManager == ManagerInv /\ [Next]_vars => ManagerInv'
<1> SUFFICES ASSUME ManagerInv, [Next]_vars PROVE ManagerInv'
  OBVIOUS
<1>1. CASE Publish
  BY <1>1, Constants DEF Publish, ManagerInv, ManagerTypes, ServerAhead, OneAnswer,
         ListenerKnows, RefreshThere, Alive, Fetching, Good
<1>2. CASE UNCHANGED vars
  BY <1>2 DEF vars, ManagerInv, ManagerTypes, ServerAhead, OneAnswer, ListenerKnows,
              RefreshThere, Alive, Fetching
<1> QED
  BY <1>1, <1>2, CallerKeeps, RefreshKeeps, ControlKeeps DEF Next

-----------------------------------------------------------------------------
(* The theorems *)

\* The invariant holds in every state.
THEOREM ManagerInvariant == Spec => []ManagerInv
<1> QED
  BY InitManager, NextManager, PTL DEF Spec

\* Between two refreshes the listener knows what is in the cache, as long as nobody else
\* changes it and on_change raises nothing (config_manager.py:107-133).
THEOREM ListenerIsTold == Spec => []ListenerUpToDate
<1>1. ManagerInv => ListenerUpToDate
  BY DEF ManagerInv, ListenerKnows, ListenerUpToDate
<1> QED
  BY <1>1, ManagerInvariant, PTL

\* After start_refresh there is a thread that is not told to stop, unless a join timed out,
\* a body was garbled or on_change raised anything but a RuntimeError
\* (config_manager.py:99-147).
THEOREM RefreshIsRunning == Spec => []StartedMeansRunning
<1>1. ManagerInv => StartedMeansRunning
  BY DEF ManagerInv, RefreshThere, StartedMeansRunning
<1> QED
  BY <1>1, ManagerInvariant, PTL

\* A step of one fetch at a time: the cache does not go back, nor ahead of the server.
LEMMA CacheStep ==
    ASSUME ManagerInv, ManagerInv', [Next]_vars
    PROVE  ("overlap" \notin past => cached' >= cached) /\ cached' <= server'
<1>1. cached' <= server'
  BY DEF ManagerInv, ServerAhead
<1>2. \/ cached' = cached
      \/ \E t \in Threads : thread[t] = "answered" /\ answer[t] \in Good /\ cached' = answer[t]
  BY DEF Next, vars, Publish, Caller, CallFetch, Get, Request, CallerInstalls,
       CallerFails, RefreshRuns, RefreshStops, RefreshWakes, RefreshInstalls, RefreshTells,
       ListenerRefuses, ListenerDies, Tells, RefreshRefused, RefreshDies, Control,
       StartRefresh, AlreadyRunning, StopRefresh, JoinRefresh, Refreshing, Install, Goes,
       Threads
<1> QED
  BY <1>1, <1>2 DEF ManagerInv, ManagerTypes, OneAnswer

\* The cache does not go back as long as fetches come one after the other, and never runs
\* ahead of the server (config_manager.py:40-66).
THEOREM CacheGoesOn == Spec => NeverGoesBack
<1> QED
  BY CacheStep, ManagerInvariant, PTL DEF Spec, NeverGoesBack

\* In every behaviour in which no two fetches overlap, the manager is the fresh copy that
\* realtime.py:30-32 promises it to be; where they do overlap it is not (see
\* ImplementsFreshCache).
THEOREM FreshWithoutOverlap ==
    Spec /\ []("overlap" \notin past) => ImplementsFreshCache
<1>1. Init => Copy!Init
  BY DEF Init, Copy!Init
<1>2. ASSUME ManagerInv, ManagerInv', [Next]_vars, "overlap" \notin past
      PROVE  [Copy!Next]_<<server, cached>>
  <2>1. CASE Publish
    BY <2>1 DEF Publish, Copy!Publish, Copy!Next
  <2>2. CASE server' = server
    <3>1. cached' >= cached /\ cached' <= server
      BY <1>2, <2>2, CacheStep
    <3>2. cached' \in Nat /\ cached \in Nat /\ server \in Nat
      BY <1>2 DEF ManagerInv, ManagerTypes
    <3> QED
      BY <2>2, <3>1, <3>2 DEF Copy!Refresh, Copy!Next
  <2>3. Publish \/ server' = server
    BY <1>2 DEF Next, vars, Caller, CallFetch, Get, Request, CallerInstalls, CallerFails,
         RefreshRuns, RefreshStops, RefreshWakes, RefreshInstalls, RefreshTells,
         ListenerRefuses, ListenerDies, Tells, RefreshRefused, RefreshDies, Control,
         StartRefresh, AlreadyRunning, StopRefresh, JoinRefresh, Refreshing, Install
  <2> QED
    BY <2>1, <2>2, <2>3
<1> QED
  BY <1>1, <1>2, ManagerInvariant, PTL DEF Spec, ImplementsFreshCache, Copy!Spec

-----------------------------------------------------------------------------
(* The precedence of the layers (ConfigLoading).                              *)

\* A migrated file says what it said, without the retired options, and the new name for
\* the old one.
LEMMA MigratedFile ==
    ASSUME ConfigAssumption, NEW says
    PROVE  /\ DOMAIN Migrated(says) =
                {o \in DOMAIN says \cup {New} :
                   IF o \in DOMAIN says THEN o \notin Retired \cup {Old} ELSE Old \in DOMAIN says}
           /\ \A o \in DOMAIN Migrated(says) :
                 Migrated(says)[o] = IF o \in DOMAIN says THEN says[o] ELSE says[Old]
<1> DEFINE renamed == IF Old \in DOMAIN says THEN Over(says, [o \in {New} |-> says[Old]]) ELSE says
<1>1. Migrated(says) = [o \in DOMAIN renamed \ (Retired \cup {Old}) |-> renamed[o]]
  BY DEF Migrated, Restrict
<1>2. New \notin Retired \cup {Old}
  BY DEF ConfigAssumption
<1>3. /\ DOMAIN renamed = DOMAIN says \cup (IF Old \in DOMAIN says THEN {New} ELSE {})
      /\ \A o \in DOMAIN renamed :
            renamed[o] = IF o \in DOMAIN says THEN says[o] ELSE says[Old]
  BY DEF Over
<1> HIDE DEF renamed
<1> QED
  BY <1>1, <1>2, <1>3

\* What load_config takes from a file.
LEMMA FileSays ==
    ASSUME ConfigAssumption, NEW file
    PROVE  /\ \A o : o \in DOMAIN Said(file) <=> ByFile(o, file) \/ ByOldName(o, file)
           /\ \A o : ByFile(o, file) => o \in DOMAIN file.says /\ Said(file)[o] = FileValue(o, file)
           /\ \A o : ByOldName(o, file) => Said(file)[o] = FileValue(Old, file)
<1> USE DEF ByFile, ByOldName, Says, FileValue
<1>1. CASE file.format = "mapping"
  <2>1. Said(file) = Migrated(file.says)
    BY <1>1 DEF Said
  <2>2. New \notin Retired \cup {Old}
    BY DEF ConfigAssumption
  <2>3. /\ DOMAIN Migrated(file.says) = {o \in DOMAIN file.says \cup {New} :
              IF o \in DOMAIN file.says THEN o \notin Retired \cup {Old}
              ELSE Old \in DOMAIN file.says}
        /\ \A o \in DOMAIN Migrated(file.says) :
              Migrated(file.says)[o] = IF o \in DOMAIN file.says THEN file.says[o] ELSE file.says[Old]
    BY MigratedFile
  <2>4. \A o : o \in DOMAIN Said(file) <=> ByFile(o, file) \/ ByOldName(o, file)
    BY <1>1, <2>1, <2>2, <2>3
  <2>5. \A o : ByFile(o, file) => o \in DOMAIN file.says /\ Said(file)[o] = FileValue(o, file)
    BY <1>1, <2>1, <2>3, <2>4
  <2>6. \A o : ByOldName(o, file) => Said(file)[o] = FileValue(Old, file)
    BY <1>1, <2>1, <2>2, <2>3, <2>4
  <2> QED
    BY <2>4, <2>5, <2>6
<1>2. CASE file.format = "lines"
  <2> DEFINE says == [o \in DOMAIN file.says |-> Read(file.says[o].text)]
  <2>1. Said(file) = Migrated(says)
    BY <1>2 DEF Said
  <2>2. New \notin Retired \cup {Old}
    BY DEF ConfigAssumption
  <2>3. DOMAIN says = DOMAIN file.says
    OBVIOUS
  <2>4. \A o \in DOMAIN file.says : says[o] = Read(file.says[o].text)
    OBVIOUS
  <2> HIDE DEF says
  <2>5. /\ DOMAIN Migrated(says) = {o \in DOMAIN says \cup {New} :
              IF o \in DOMAIN says THEN o \notin Retired \cup {Old} ELSE Old \in DOMAIN says}
        /\ \A o \in DOMAIN Migrated(says) :
              Migrated(says)[o] = IF o \in DOMAIN says THEN says[o] ELSE says[Old]
    BY MigratedFile
  <2>6. \A o : o \in DOMAIN Said(file) <=> ByFile(o, file) \/ ByOldName(o, file)
    BY <1>2, <2>1, <2>2, <2>3, <2>5
  <2>7. \A o : ByFile(o, file) => o \in DOMAIN file.says /\ Said(file)[o] = FileValue(o, file)
    BY <1>2, <2>1, <2>3, <2>4, <2>5, <2>6
  <2>8. \A o : ByOldName(o, file) => Said(file)[o] = FileValue(Old, file)
    BY <1>2, <2>1, <2>2, <2>3, <2>4, <2>5, <2>6
  <2> QED
    BY <2>6, <2>7, <2>8
<1>3. CASE file.format \notin {"mapping", "lines"}
  <2>1. Said(file) = [o \in {} |-> Null]
    BY <1>3 DEF Said
  <2> QED
    BY <1>3, <2>1
<1> QED
  BY <1>1, <1>2, <1>3

\* The three layers below the arguments.
LEMMA LoadedSays ==
    ASSUME ConfigAssumption, NEW file, NEW env
    PROVE  /\ DOMAIN Loaded(file, env) = DOMAIN Defaults \cup DOMAIN Said(file)
           /\ \A o \in DOMAIN Loaded(file, env) :
                 LET value == IF ByEnvironment(o, env) THEN Read(env[o])
                              ELSE IF o \in DOMAIN Said(file) THEN Said(file)[o]
                              ELSE Defaults[o]
                 IN \/ Loaded(file, env)[o] = value
                    \/ /\ o = "api_key" /\ ~Truthy(value)
                       /\ Loaded(file, env)[o] = IF o \in DOMAIN env THEN Verbatim(env[o]) ELSE Null
<1> DEFINE config == Over(Environment(env), Over(Said(file), Defaults))
<1>1. /\ DOMAIN config = DOMAIN Defaults \cup DOMAIN Said(file)
      /\ \A o \in DOMAIN config :
            config[o] = IF ByEnvironment(o, env) THEN Read(env[o])
                        ELSE IF o \in DOMAIN Said(file) THEN Said(file)[o] ELSE Defaults[o]
  BY DEF Over, Environment, ByEnvironment
<1>2. config = [o \in DOMAIN config |-> config[o]]
  BY DEF Over
<1>3. Loaded(file, env) =
        IF Truthy(config["api_key"]) THEN config
        ELSE [config EXCEPT !["api_key"] =
                IF "api_key" \in DOMAIN env THEN Verbatim(env["api_key"]) ELSE Null]
  BY DEF Loaded
<1> HIDE DEF config
<1> QED
  BY <1>1, <1>2, <1>3

\* With all the options that are required, each is what the highest layer that names it says.
LEMMA OptionsSay ==
    ASSUME ConfigAssumption, NEW file, NEW env, NEW args, DOMAIN args \subseteq DOMAIN Defaults,
           \A o \in Required : Truthy(Options(file, env, args)[o])
    PROVE  PrecedenceHolds(file, env, args, Options(file, env, args))
<1> DEFINE options == Options(file, env, args)
           loaded == Loaded(file, env)
           value(o) == IF ByEnvironment(o, env) THEN Read(env[o])
                       ELSE IF o \in DOMAIN Said(file) THEN Said(file)[o]
                       ELSE Defaults[o]
<1>1. \A o : ByOldName(o, file) => o \in DOMAIN Defaults
  BY DEF ByOldName, ConfigAssumption
<1>2. DOMAIN loaded = DOMAIN Defaults \cup {o \in DOMAIN file.says : ByFile(o, file)}
  <2>1. DOMAIN loaded = DOMAIN Defaults \cup DOMAIN Said(file)
    BY LoadedSays
  <2>2. \A o \in DOMAIN Said(file) : ByFile(o, file) \/ o \in DOMAIN Defaults
    BY <1>1, FileSays
  <2>3. \A o \in DOMAIN Said(file) : ByFile(o, file) => o \in DOMAIN file.says
    BY FileSays
  <2>4. \A o : ByFile(o, file) => o \in DOMAIN Said(file)
    BY FileSays
  <2> HIDE DEF loaded
  <2> QED
    BY <2>1, <2>2, <2>3, <2>4
<1>3. \A o \in DOMAIN loaded :
         \/ loaded[o] = value(o)
         \/ /\ o = "api_key" /\ ~Truthy(value(o))
            /\ loaded[o] = IF o \in DOMAIN env THEN Verbatim(env[o]) ELSE Null
  BY LoadedSays
<1>4. /\ DOMAIN options = DOMAIN loaded
      /\ \A o \in DOMAIN options :
            options[o] = IF ByArgument(o, args) THEN Verbatim(args[o]) ELSE loaded[o]
  <2> DEFINE given == Arguments(args)
  <2>1. \A o : o \in DOMAIN given <=> ByArgument(o, args)
    BY DEF Arguments, Restrict, ByArgument
  <2>2. \A o \in DOMAIN given : given[o] = Verbatim(args[o])
    BY DEF Arguments, Restrict
  <2>3. DOMAIN given \subseteq DOMAIN loaded
    BY <1>2, <2>1 DEF ByArgument
  <2>4. options = Over(given, loaded)
    BY DEF Options
  <2> HIDE DEF given, loaded, options
  <2> QED
    BY <2>1, <2>2, <2>3, <2>4 DEF Over
<1>5. ~Truthy(Null)
  BY DEF Truthy
<1> SUFFICES ASSUME NEW o \in DOMAIN options, ~ByArgument(o, args)
             PROVE  IF ByEnvironment(o, env)
                    THEN \/ options[o] = Read(env[o])
                         \/ o = "api_key" /\ options[o] = Verbatim(env[o])
                    ELSE options[o] = value(o)
  <2> HIDE DEF options, loaded
  <2>1. \A o \in DOMAIN options : ~ByEnvironment(o, env) =>
           /\ ByFile(o, file) => value(o) = FileValue(o, file)
           /\ ByOldName(o, file) => value(o) = FileValue(Old, file)
           /\ ~ByFile(o, file) /\ ~ByOldName(o, file) => value(o) = Defaults[o]
    BY FileSays
  <2> HIDE DEF value
  <2> QED
    BY <1>2, <1>4, <2>1 DEF PrecedenceHolds, options
<1>6. options[o] = loaded[o]
  BY <1>4
<1>7. CASE loaded[o] = value(o)
  BY <1>6, <1>7
<1>8. CASE loaded[o] # value(o)
  <2>1. o = "api_key" /\ ~Truthy(value(o))
    BY <1>3, <1>4, <1>8
  <2>2. loaded[o] = IF o \in DOMAIN env THEN Verbatim(env[o]) ELSE Null
    BY <1>3, <1>4, <1>8
  <2>3. o \in DOMAIN env <=> ByEnvironment(o, env)
    BY <2>1 DEF ByEnvironment, ConfigAssumption
  <2>4. Truthy(options[o])
    BY <2>1 DEF ConfigAssumption
  <2> QED
    BY <1>5, <1>6, <2>1, <2>2, <2>3, <2>4
<1> QED
  BY <1>7, <1>8

\* For every set of options and whatever the layers say, an option of a client is what
\* the highest layer that names it says.
THEOREM PrecedenceCorrect == LoadingSpec => []Precedence
<1>1. LoadingInit => Precedence
  BY DEF LoadingInit, Precedence
<1>2. ASSUME Precedence, LoadingNext
      PROVE  Precedence'
  <2>1. PICK file \in Files, env \in Environments, args \in Given : Construct(file, env, args)
    BY <1>2 DEF LoadingNext
  <2> DEFINE options == Options(file, env, args)
  <2>2. PrecedenceHolds(file, env, args, options)
    BY <2>1, OptionsSay, ConfigAssumption DEF Construct, ConfigAssumption
  <2>3. client' = [file |-> file, env |-> env, args |-> args, options |-> options]
    BY <2>1 DEF Construct
  <2> HIDE DEF options
  <2>4. /\ client'.file = file /\ client'.env = env
        /\ client'.args = args /\ client'.options = options
    BY <2>3
  <2> QED
    BY <2>2, <2>4 DEF Precedence, PrecedenceHolds, ByArgument, ByEnvironment, ByFile,
                      ByOldName, Says, FileValue
<1>3. ASSUME Precedence, UNCHANGED client
      PROVE  Precedence'
  BY <1>3 DEF Precedence
<1> QED
  BY <1>1, <1>2, <1>3, PTL DEF LoadingSpec

-----------------------------------------------------------------------------
(* What the scrubber makes of a payload, for every heap.  Induction comes    *)
(* from the pigeonhole principle: a set of the numbers up to n that has 0    *)
(* and each one's successor, but not n, would go one to one into itself      *)
(* without 0.                                                                *)

LEMMA Induction ==
    ASSUME NEW n \in Nat, NEW S \in SUBSET (0..n), 0 \in S,
           \A i \in S : i < n => i + 1 \in S
    PROVE  n \in S
<1> SUFFICES ASSUME n \notin S PROVE FALSE
  OBVIOUS
<1> DEFINE next == [i \in S |-> i + 1]
<1>1. \A i \in S : i < n
  OBVIOUS
<1>2. IsFiniteSet(S)
  <2>1. IsFiniteSet(0..n)
    BY FS_Interval
  <2> QED BY <2>1, FS_Subset
<1>3. next \in Injection(S, S \ {0})
  BY <1>1 DEF Injection, IsInjective
<1>4. IsFiniteSet(S \ {0}) /\ Cardinality(S) <= Cardinality(S \ {0})
  BY <1>2, <1>3, FS_Injection, FS_RemoveElement
<1>5. Cardinality(S \ {0}) = Cardinality(S) - 1 /\ Cardinality(S) \in Nat
  BY <1>2, FS_RemoveElement, FS_CardinalityType
<1> QED BY <1>4, <1>5

\* The entries that are kept are entries of the object.
LEMMA KeptEntries ==
    ASSUME NEW heap \in Heaps, NEW o \in Objects
    PROVE  LET entries == heap[o].entries  kept == Kept(entries)
           IN /\ Len(entries) \in Nat
              /\ \A i \in DOMAIN kept : i \in Nat
              /\ \A i \in Nat \ {0} : i \in DOMAIN kept <=> i <= MaxItems /\ i <= Len(entries)
              /\ \A i \in DOMAIN kept : kept[i] = entries[i] /\ entries[i].value \in Values
<1> DEFINE entries == heap[o].entries
           kept == Kept(entries)
           l == Len(entries)
           last == IF l > MaxItems THEN MaxItems ELSE l
           Entries == [key : {"open", "denied"}, value : Values]
<1>1. entries \in Seq(Entries)
  BY DEF Heaps
<1> HIDE DEF entries
<1>2. l \in Nat /\ DOMAIN entries = 1..l
  BY <1>1
<1>3. MaxItems \in Nat
  BY ScrubbingAssumption DEF ScrubbingAssumption
<1> HIDE DEF l
<1>4. last \in 0..l /\ last <= MaxItems /\ (last = l \/ last = MaxItems)
  BY <1>2, <1>3
<1>5. kept = SubSeq(entries, 1, last)
  BY DEF Kept, kept, l
<1> HIDE DEF last, kept
<1>6. DOMAIN kept = 1..last /\ \A i \in 1..last : kept[i] = entries[i]
  BY <1>4, <1>5
<1>7. \A i \in 1..last : entries[i] \in Entries
  <2> HIDE DEF Entries
  <2>1. \A i \in 1..l : entries[i] \in Entries
    BY <1>1, <1>2
  <2> QED BY <1>2, <1>4, <2>1
<1>8. \A i \in 1..last : entries[i].value \in Values
  BY <1>7
<1>9. \A i \in Nat \ {0} : i \in 1..last <=> i <= MaxItems /\ i <= l
  BY <1>2, <1>3, <1>4
<1> QED BY <1>2, <1>6, <1>8, <1>9 DEF entries, kept, l

\* A copy depends on the copies of what is below, and on nothing else.
LEMMA CopiedBelow ==
    ASSUME NEW heap \in Heaps, NEW f, NEW g, NEW visit \in Visits,
           (~TooDeep(visit.depth) /\ visit.value \in Objects) =>
               \A v \in Values : f[Below(visit, v)] = g[Below(visit, v)]
    PROVE  Copied(heap, f, visit) = Copied(heap, g, visit)
<1>1. CASE TooDeep(visit.depth) \/ visit.value \notin Objects
  BY <1>1 DEF Copied
<1>2. CASE ~TooDeep(visit.depth) /\ visit.value \in Objects
  <2> DEFINE object == heap[visit.value]
             kept == Kept(object.entries)
             copy(s, entry) == IF Denied(object, entry) THEN Leaf("redacted")
                               ELSE s[Below(visit, entry.value)]
             items(s) == [i \in DOMAIN kept |-> copy(s, kept[i])]
  <2>1. \A i \in DOMAIN kept : kept[i].value \in Values
    BY <1>2, KeptEntries
  <2>2. \A i \in DOMAIN kept : copy(f, kept[i]) = copy(g, kept[i])
    <3> HIDE DEF kept, object
    <3> QED BY <1>2, <2>1
  <2>3. items(f) = items(g)
    <3> HIDE DEF kept, object, copy
    <3> QED BY <2>2
  <2> HIDE DEF items
  <2>4. \A s : s \in {f, g} =>
           Copied(heap, s, visit) =
             IF visit.value \in visit.seen THEN Leaf("circular")
             ELSE [items |-> items(s),
                   truncated |-> object.kind = "dict" /\ Len(object.entries) > MaxItems]
    BY <1>2 DEF Copied, items
  <2> QED BY <2>3, <2>4
<1> QED BY <1>1, <1>2

\* Scrub is well defined: level by level from the deepest, there is a function that
\* copies each value as Copied says.
LEMMA ScrubUnfolds ==
    ASSUME NEW heap \in Heaps, NEW visit \in Visits
    PROVE  Scrub(heap)[visit] = Copied(heap, Scrub(heap), visit)
<1> DEFINE Deep(k) == {w \in Visits : w.depth + k > MaxDepth}
           Solves(g, k) == g = [w \in Deep(k) |-> Copied(heap, g, w)]
           Solved == {k \in 0..(MaxDepth + 1) : \E g : Solves(g, k)}
<1>0. MaxDepth \in Nat
  BY ScrubbingAssumption DEF ScrubbingAssumption
<1>1. 0 \in Solved
  <2> DEFINE g == [w \in Deep(0) |-> Leaf("max-depth")]
  <2>1. \A w \in Deep(0) : TooDeep(w.depth)
    BY <1>0 DEF Visits, TooDeep
  <2> HIDE DEF g
  <2>2. \A w \in Deep(0) : Copied(heap, g, w) = Leaf("max-depth")
    <3> HIDE DEF Deep
    <3> QED BY <2>1 DEF Copied
  <2>3. Solves(g, 0)
    <3> HIDE DEF Deep
    <3> QED BY <2>2 DEF g
  <2> HIDE DEF Solves
  <2> QED BY <1>0, <2>3
<1>2. ASSUME NEW k \in Solved, k < MaxDepth + 1
      PROVE  k + 1 \in Solved
  <2>1. PICK g : Solves(g, k)
    OBVIOUS
  <2> DEFINE h == [w \in Deep(k + 1) |-> Copied(heap, g, w)]
  <2>2. ASSUME NEW w \in Deep(k + 1), ~TooDeep(w.depth), w.value \in Objects,
               NEW v \in Values
        PROVE  Below(w, v) \in Deep(k)
    <3>1. w.depth \in 0..(MaxDepth + 1) /\ w.seen \in SUBSET Objects
      BY DEF Visits
    <3>2. w.depth + 1 \in 0..(MaxDepth + 1) /\ (w.depth + 1) + k > MaxDepth
      BY <1>0, <2>2, <3>1 DEF TooDeep
    <3>3. w.seen \cup {w.value} \in SUBSET Objects
      BY <2>2, <3>1
    <3> QED BY <3>2, <3>3 DEF Below, Visits
  <2>3. \A w \in Deep(k) : w \in Deep(k + 1) /\ g[w] = Copied(heap, g, w)
    <3>1. \A w \in Deep(k) : g[w] = Copied(heap, g, w)
      <4> HIDE DEF Deep
      <4> QED BY <2>1
    <3>2. \A w \in Deep(k) : w \in Deep(k + 1)
      BY <1>0 DEF Visits
    <3> QED BY <3>1, <3>2
  <2> HIDE DEF Deep
  <2>4. \A w \in Deep(k) : h[w] = g[w]
    BY <2>3
  <2>5. \A w \in Deep(k + 1) : w \in Visits
    BY DEF Deep
  <2> HIDE DEF h
  <2>6. \A w \in Deep(k + 1) : Copied(heap, h, w) = Copied(heap, g, w)
    BY <2>2, <2>4, <2>5, CopiedBelow
  <2>7. Solves(h, k + 1)
    BY <2>6 DEF h
  <2> HIDE DEF Solves
  <2>8. k + 1 \in 0..(MaxDepth + 1)
    BY <1>0, <1>2
  <2> QED BY <2>7, <2>8
<1>3. MaxDepth + 1 \in Solved
  <2> HIDE DEF Solved
  <2>1. Solved \in SUBSET (0..(MaxDepth + 1))
    BY DEF Solved
  <2> QED BY <1>0, <1>1, <1>2, <2>1, Induction
<1>4. Deep(MaxDepth + 1) = Visits
  <2>1. \A w \in Visits : w.depth \in 0..(MaxDepth + 1)
    BY DEF Visits
  <2>2. \A w \in Visits : w.depth + (MaxDepth + 1) > MaxDepth
    BY <1>0, <2>1
  <2> QED BY <2>2
<1>5. PICK g : g = [w \in Visits |-> Copied(heap, g, w)]
  <2> HIDE DEF Deep
  <2> QED BY <1>3, <1>4
<1>6. Scrub(heap) = [w \in Visits |-> Copied(heap, Scrub(heap), w)]
  BY <1>5 DEF Scrub
<1> QED BY <1>6

\* What a path comes through, step by step: both functions are well defined.
LEMMA ReachedUnfolds ==
    ASSUME NEW heap, NEW root, NEW path, Len(path) \in Nat
    PROVE  LET v == Reached(heap, root, path)
           IN /\ v[0] = root
              /\ \A n \in 1..Len(path) : v[n] = Child(heap, v[n - 1], path[n])
<1> DEFINE l == Len(path)
           Solves(g, k) == g = [n \in 0..k |-> IF n = 0 THEN root
                                               ELSE Child(heap, g[n - 1], path[n])]
           Solved == {k \in 0..l : \E g : Solves(g, k)}
<1>1. 0 \in Solved
  <2> DEFINE g == [n \in 0..0 |-> root]
  <2>1. Solves(g, 0)
    OBVIOUS
  <2> HIDE DEF Solves
  <2> QED BY <2>1
<1>2. ASSUME NEW k \in Solved, k < l
      PROVE  k + 1 \in Solved
  <2>1. PICK g : Solves(g, k)
    OBVIOUS
  <2> DEFINE h == [n \in 0..(k + 1) |-> IF n = 0 THEN root
                                        ELSE Child(heap, g[n - 1], path[n])]
  <2>2. \A n \in 0..k : h[n] = g[n]
    BY <2>1
  <2>3. \A n \in 0..(k + 1) : n # 0 => h[n - 1] = g[n - 1]
    <3>1. \A n \in 0..(k + 1) : n # 0 => n - 1 \in 0..k
      OBVIOUS
    <3> HIDE DEF h
    <3> QED BY <2>2, <3>1
  <2>4. Solves(h, k + 1)
    BY <2>3
  <2> HIDE DEF Solves
  <2> QED BY <1>2, <2>4
<1>3. l \in Solved
  <2> HIDE DEF Solved, l
  <2>1. Solved \in SUBSET (0..l)
    BY DEF Solved
  <2>2. l \in Nat
    BY DEF l
  <2> QED BY <1>1, <1>2, <2>1, <2>2, Induction
<1>4. PICK g : Solves(g, l)
  BY <1>3
<1> DEFINE v == Reached(heap, root, path)
<1>5. v = [n \in 0..Len(path) |-> IF n = 0 THEN root ELSE Child(heap, v[n - 1], path[n])]
  BY <1>4 DEF Reached
<1> HIDE DEF v
<1> QED BY <1>5 DEF v

LEMMA FollowedUnfolds ==
    ASSUME NEW copy, NEW path, Len(path) \in Nat
    PROVE  LET f == Followed(copy, path)
           IN /\ f[0] = copy
              /\ \A n \in 1..Len(path) : f[n] = Item(f[n - 1], path[n])
<1> DEFINE l == Len(path)
           Solves(g, k) == g = [n \in 0..k |-> IF n = 0 THEN copy
                                               ELSE Item(g[n - 1], path[n])]
           Solved == {k \in 0..l : \E g : Solves(g, k)}
<1>1. 0 \in Solved
  <2> DEFINE g == [n \in 0..0 |-> copy]
  <2>1. Solves(g, 0)
    OBVIOUS
  <2> HIDE DEF Solves
  <2> QED BY <2>1
<1>2. ASSUME NEW k \in Solved, k < l
      PROVE  k + 1 \in Solved
  <2>1. PICK g : Solves(g, k)
    OBVIOUS
  <2> DEFINE h == [n \in 0..(k + 1) |-> IF n = 0 THEN copy
                                        ELSE Item(g[n - 1], path[n])]
  <2>2. \A n \in 0..k : h[n] = g[n]
    BY <2>1
  <2>3. \A n \in 0..(k + 1) : n # 0 => h[n - 1] = g[n - 1]
    <3>1. \A n \in 0..(k + 1) : n # 0 => n - 1 \in 0..k
      OBVIOUS
    <3> HIDE DEF h
    <3> QED BY <2>2, <3>1
  <2>4. Solves(h, k + 1)
    BY <2>3
  <2> HIDE DEF Solves
  <2> QED BY <1>2, <2>4
<1>3. l \in Solved
  <2> HIDE DEF Solved, l
  <2>1. Solved \in SUBSET (0..l)
    BY DEF Solved
  <2>2. l \in Nat
    BY DEF l
  <2> QED BY <1>1, <1>2, <2>1, <2>2, Induction
<1>4. PICK g : Solves(g, l)
  BY <1>3
<1> DEFINE f == Followed(copy, path)
<1>5. f = [n \in 0..Len(path) |-> IF n = 0 THEN copy ELSE Item(f[n - 1], path[n])]
  BY <1>4 DEF Followed
<1> HIDE DEF f
<1> QED BY <1>5 DEF f

\* One step into the copy of a value.
LEMMA ItemOf ==
    ASSUME NEW heap \in Heaps, NEW visit \in Visits, NEW i \in 1..MaxItems
    PROVE  LET object == heap[visit.value]  entry == object.entries[i]
           IN Item(Scrub(heap)[visit], i) =
                IF /\ ~TooDeep(visit.depth) /\ visit.value \notin visit.seen
                   /\ HasEntry(heap, visit.value, i)
                THEN IF Denied(object, entry) THEN Leaf("redacted")
                     ELSE Scrub(heap)[Below(visit, entry.value)]
                ELSE Leaf("nothing")
<1> DEFINE object == heap[visit.value]
           kept == Kept(object.entries)
           copy == Scrub(heap)[visit]
           items == [n \in DOMAIN kept |->
                       IF Denied(object, kept[n]) THEN Leaf("redacted")
                       ELSE Scrub(heap)[Below(visit, kept[n].value)]]
<1>1. \A text : "items" \notin DOMAIN Leaf(text)
  BY DEF Leaf
<1>2. copy = Copied(heap, Scrub(heap), visit)
  BY ScrubUnfolds
<1>3. CASE TooDeep(visit.depth) \/ visit.value \notin Objects \/ visit.value \in visit.seen
  <2>1. \E text : copy = Leaf(text)
    <3> HIDE DEF copy
    <3> QED BY <1>2, <1>3 DEF Copied
  <2> HIDE DEF copy
  <2>2. Item(copy, i) = Leaf("nothing")
    BY <1>1, <2>1 DEF Item
  <2> QED BY <1>3, <2>2 DEF HasEntry, copy
<1>4. CASE ~TooDeep(visit.depth) /\ visit.value \in Objects /\ visit.value \notin visit.seen
  <2>1. copy = [items |-> items,
                truncated |-> object.kind = "dict" /\ Len(object.entries) > MaxItems]
    <3> HIDE DEF copy
    <3> QED BY <1>2, <1>4 DEF Copied
  <2>2. "items" \in DOMAIN copy /\ copy.items = items
    <3> HIDE DEF items, copy
    <3> QED BY <2>1
  <2>3. i \in Nat \ {0} /\ i <= MaxItems
    BY ScrubbingAssumption DEF ScrubbingAssumption
  <2>4. i \in DOMAIN kept <=> HasEntry(heap, visit.value, i)
    BY <1>4, <2>3, KeptEntries DEF HasEntry
  <2>5. i \in DOMAIN kept => kept[i] = object.entries[i]
    BY <1>4, KeptEntries
  <2>6. Item(copy, i) = IF i \in DOMAIN kept THEN items[i] ELSE Leaf("nothing")
    <3>1. DOMAIN items = DOMAIN kept
      OBVIOUS
    <3> HIDE DEF items, copy, kept
    <3> QED BY <2>2, <3>1 DEF Item
  <2>7. i \in DOMAIN kept =>
           items[i] = IF Denied(object, object.entries[i]) THEN Leaf("redacted")
                      ELSE Scrub(heap)[Below(visit, object.entries[i].value)]
    <3> HIDE DEF kept, object
    <3> QED BY <2>5
  <2> HIDE DEF items, copy, kept, object
  <2>8. Item(copy, i) =
           IF HasEntry(heap, visit.value, i)
           THEN IF Denied(object, object.entries[i]) THEN Leaf("redacted")
                ELSE Scrub(heap)[Below(visit, object.entries[i].value)]
           ELSE Leaf("nothing")
    BY <2>4, <2>6, <2>7
  <2> QED BY <1>4, <2>8 DEF copy, object
<1> QED BY <1>3, <1>4

\* The call of _scrub for the value that n steps of a path come to.
VisitAt(v, n) == [value |-> v[n], depth |-> n, seen |-> {v[m] : m \in 0..(n - 1)}]

\* The path goes through a denied key at its n-th step.
SecretStep(heap, v, path, n) ==
    /\ HasEntry(heap, v[n - 1], path[n])
    /\ Denied(heap[v[n - 1]], heap[v[n - 1]].entries[path[n]])

LEMMA PathSteps ==
    ASSUME NEW path \in Paths
    PROVE  /\ Len(path) \in Nat /\ Len(path) <= MaxDepth + 1
           /\ \A n \in 1..Len(path) : path[n] \in 1..MaxItems
<1>0. MaxDepth \in Nat /\ MaxItems \in Nat
  BY ScrubbingAssumption DEF ScrubbingAssumption
<1>1. PICK k \in 0..(MaxDepth + 1) : path \in [1..k -> 1..MaxItems]
  BY DEF Paths
<1>2. Len(path) = k
  BY <1>0, <1>1
<1> QED BY <1>0, <1>1, <1>2

\* One more step, into the copy of a value that the scrubber has come to.
LEMMA NextVisit ==
    ASSUME NEW heap \in Heaps, NEW root \in Values, NEW path \in Paths,
           NEW n \in 0..(Len(path) - 1),
           VisitAt(Reached(heap, root, path), n) \in Visits
    PROVE  LET v == Reached(heap, root, path)
               f == Followed(Scrubbed(heap, root), path)
           IN f[n] = Scrub(heap)[VisitAt(v, n)] =>
                IF n <= MaxDepth /\ HasEntry(heap, v[n], path[n + 1])
                   /\ v[n] \notin {v[m] : m \in 0..(n - 1)}
                THEN IF SecretStep(heap, v, path, n + 1) THEN f[n + 1] = Leaf("redacted")
                     ELSE /\ VisitAt(v, n + 1) \in Visits
                          /\ f[n + 1] = Scrub(heap)[VisitAt(v, n + 1)]
                ELSE f[n + 1] = Leaf("nothing")
<1> DEFINE v == Reached(heap, root, path)
           f == Followed(Scrubbed(heap, root), path)
           visit == VisitAt(v, n)
           i == path[n + 1]
           entry == heap[v[n]].entries[i]
<1>0. MaxDepth \in Nat /\ MaxItems \in Nat
  BY ScrubbingAssumption DEF ScrubbingAssumption
<1>1. /\ Len(path) \in Nat /\ Len(path) <= MaxDepth + 1 /\ n \in Nat /\ n + 1 \in 1..Len(path)
      /\ (n + 1) - 1 = n /\ n + 1 <= MaxDepth + 1
  BY <1>0, PathSteps
<1>2. i \in 1..MaxItems
  BY <1>1, PathSteps
<1>3. f[n + 1] = Item(f[n], i)
  <2>1. \A m \in 1..Len(path) : f[m] = Item(f[m - 1], path[m])
    BY <1>1, FollowedUnfolds
  <2> HIDE DEF f
  <2> QED BY <1>1, <2>1
<1>4. v[n + 1] = Child(heap, v[n], i)
  <2>1. \A m \in 1..Len(path) : v[m] = Child(heap, v[m - 1], path[m])
    BY <1>1, ReachedUnfolds
  <2> HIDE DEF v
  <2> QED BY <1>1, <2>1
<1> HIDE DEF v, f
<1>5. visit \in Visits /\ visit.value = v[n] /\ visit.depth = n
      /\ visit.seen = {v[m] : m \in 0..(n - 1)}
  BY DEF v, VisitAt
<1> HIDE DEF visit, i, entry
<1>6. Item(Scrub(heap)[visit], i) =
         IF n <= MaxDepth /\ v[n] \notin visit.seen /\ HasEntry(heap, v[n], i)
         THEN IF Denied(heap[v[n]], entry) THEN Leaf("redacted")
              ELSE Scrub(heap)[Below(visit, entry.value)]
         ELSE Leaf("nothing")
  <2>1. ~TooDeep(n) <=> n <= MaxDepth
    BY <1>0, <1>1 DEF TooDeep
  <2> QED BY <1>2, <1>5, <2>1, ItemOf DEF entry
<1>7. ASSUME HasEntry(heap, v[n], i)
      PROVE  Below(visit, entry.value) = VisitAt(v, n + 1) /\ VisitAt(v, n + 1) \in Visits
  <2>1. v[n + 1] = entry.value
    BY <1>4, <1>7 DEF Child, entry
  <2>2. {v[m] : m \in 0..((n + 1) - 1)} = {v[m] : m \in 0..(n - 1)} \cup {v[n]}
    <3>1. \A m : m \in 0..((n + 1) - 1) <=> m \in 0..(n - 1) \/ m = n
      BY <1>1
    <3> QED BY <3>1
  <2>3. Below(visit, entry.value) = VisitAt(v, n + 1)
    BY <1>5, <2>1, <2>2 DEF Below, VisitAt
  <2>4. entry.value \in Values
    <3>1. v[n] \in Objects /\ i <= Len(heap[v[n]].entries)
      BY <1>7 DEF HasEntry
    <3>2. i \in Nat \ {0} /\ i <= MaxItems
      BY <1>0, <1>2
    <3> QED BY <3>1, <3>2, KeptEntries DEF entry
  <2>5. VisitAt(v, n + 1).seen \in SUBSET Objects
    <3>1. visit.seen \in SUBSET Objects
      BY <1>5 DEF Visits
    <3>2. v[n] \in Objects
      BY <1>7 DEF HasEntry
    <3> QED BY <1>5, <2>2, <3>1, <3>2 DEF VisitAt
  <2>6. n + 1 \in 0..(MaxDepth + 1)
    BY <1>0, <1>1
  <2>7. VisitAt(v, n + 1) \in Visits
    BY <2>1, <2>4, <2>5, <2>6 DEF VisitAt, Visits
  <2> QED BY <2>3, <2>7
<1>8. SecretStep(heap, v, path, n + 1) <=> HasEntry(heap, v[n], i) /\ Denied(heap[v[n]], entry)
  BY <1>1 DEF SecretStep, i, entry
<1>9. f[n] = Scrub(heap)[visit] =>
         IF n <= MaxDepth /\ HasEntry(heap, v[n], i) /\ v[n] \notin visit.seen
         THEN IF SecretStep(heap, v, path, n + 1) THEN f[n + 1] = Leaf("redacted")
              ELSE /\ VisitAt(v, n + 1) \in Visits
                   /\ f[n + 1] = Scrub(heap)[VisitAt(v, n + 1)]
         ELSE f[n + 1] = Leaf("nothing")
  BY <1>3, <1>6, <1>7, <1>8
<1> QED BY <1>5, <1>9 DEF v, f, visit, i

\* The scrubber comes first to the root.
LEMMA FirstVisit ==
    ASSUME NEW heap \in Heaps, NEW root \in Values, NEW path \in Paths
    PROVE  LET v == Reached(heap, root, path)
           IN /\ v[0] = root /\ VisitAt(v, 0) \in Visits
              /\ Followed(Scrubbed(heap, root), path)[0] = Scrub(heap)[VisitAt(v, 0)]
<1> DEFINE v == Reached(heap, root, path)
<1>0. MaxDepth \in Nat
  BY ScrubbingAssumption DEF ScrubbingAssumption
<1>1. v[0] = root /\ Followed(Scrubbed(heap, root), path)[0] = Scrubbed(heap, root)
  BY PathSteps, ReachedUnfolds, FollowedUnfolds
<1> HIDE DEF v
<1>2. VisitAt(v, 0) = [value |-> root, depth |-> 0, seen |-> {}]
  <2>1. {v[m] : m \in 0..(0 - 1)} = {}
    OBVIOUS
  <2> QED BY <1>1, <2>1 DEF VisitAt
<1>3. VisitAt(v, 0) \in Visits
  BY <1>0, <1>2 DEF Visits
<1> QED BY <1>1, <1>2, <1>3 DEF v, Scrubbed

\* Along any path there is nothing more in the copy, a redaction, or what the scrubber
\* made of the value there, having met no denied key on the way.
LEMMA Follows ==
    ASSUME NEW heap \in Heaps, NEW root \in Values, NEW path \in Paths
    PROVE  LET v == Reached(heap, root, path)
               l == Len(path)
           IN \/ Found(Scrubbed(heap, root), path) \in {Leaf("redacted"), Leaf("nothing")}
              \/ /\ VisitAt(v, l) \in Visits
                 /\ \A n \in 1..l : ~SecretStep(heap, v, path, n)
                 /\ Found(Scrubbed(heap, root), path) = Scrub(heap)[VisitAt(v, l)]
<1> DEFINE v == Reached(heap, root, path)
           f == Followed(Scrubbed(heap, root), path)
           l == Len(path)
           Cut(n) == f[n] \in {Leaf("redacted"), Leaf("nothing")}
           Met(n) == /\ VisitAt(v, n) \in Visits
                     /\ \A m \in 1..n : ~SecretStep(heap, v, path, m)
                     /\ f[n] = Scrub(heap)[VisitAt(v, n)]
           Fine == {n \in 0..l : Cut(n) \/ Met(n)}
<1>0. l \in Nat
  BY PathSteps
<1>1. 0 \in Fine
  <2>1. Met(0)
    BY FirstVisit
  <2> HIDE DEF Met, Cut
  <2> QED BY <1>0, <2>1
<1>2. ASSUME NEW n \in Fine, n < l
      PROVE  n + 1 \in Fine
  <2>1. n \in 0..(l - 1) /\ n \in Nat /\ n + 1 \in 1..l /\ n + 1 \in 0..l /\ (n + 1) - 1 = n
    <3> HIDE DEF Met, Cut, l
    <3> QED BY <1>0, <1>2
  <2>2. CASE Cut(n)
    <3>1. f[n + 1] = Item(f[n], path[n + 1])
      <4>1. \A m \in 1..l : f[m] = Item(f[m - 1], path[m])
        BY <1>0, FollowedUnfolds
      <4> HIDE DEF f
      <4> QED BY <2>1, <4>1
    <3> HIDE DEF f
    <3>2. f[n + 1] = Leaf("nothing")
      BY <2>2, <3>1 DEF Item, Leaf
    <3> QED BY <2>1, <3>2
  <2>3. CASE Met(n)
    <3>1. \/ f[n + 1] \in {Leaf("redacted"), Leaf("nothing")}
          \/ /\ ~SecretStep(heap, v, path, n + 1)
             /\ VisitAt(v, n + 1) \in Visits
             /\ f[n + 1] = Scrub(heap)[VisitAt(v, n + 1)]
      BY <2>1, <2>3, NextVisit
    <3> HIDE DEF f, v
    <3>2. CASE f[n + 1] \in {Leaf("redacted"), Leaf("nothing")}
      BY <2>1, <3>2
    <3>3. CASE /\ ~SecretStep(heap, v, path, n + 1)
               /\ VisitAt(v, n + 1) \in Visits
               /\ f[n + 1] = Scrub(heap)[VisitAt(v, n + 1)]
      <4>1. \A m \in 1..(n + 1) : m \in 1..n \/ m = n + 1
        BY <2>1
      <4>2. Met(n + 1)
        BY <2>3, <3>3, <4>1
      <4> HIDE DEF Met, Cut
      <4> QED BY <2>1, <4>2
    <3> QED BY <3>1, <3>2, <3>3
  <2> HIDE DEF Met, Cut
  <2> QED BY <2>2, <2>3
<1>3. l \in Fine
  <2> HIDE DEF Fine, l
  <2>1. Fine \in SUBSET (0..l)
    BY DEF Fine
  <2> QED BY <1>0, <1>1, <1>2, <2>1, Induction
<1>4. Cut(l) \/ Met(l)
  <2> HIDE DEF Cut, Met
  <2> QED BY <1>3
<1> QED BY <1>4 DEF Found

\* Along a path within the limits, through no denied key and no object twice, the copy
\* has whatever is there.
LEMMA Keeps ==
    ASSUME NEW heap \in Heaps, NEW root \in Values, NEW path \in Paths,
           ~Secret(heap, root, path), ~Repeats(heap, root, path), Len(path) <= MaxDepth
    PROVE  LET v == Reached(heap, root, path)
               l == Len(path)
           IN \/ v[l] = "nothing" /\ Found(Scrubbed(heap, root), path) = Leaf("nothing")
              \/ /\ VisitAt(v, l) \in Visits
                 /\ Found(Scrubbed(heap, root), path) = Scrub(heap)[VisitAt(v, l)]
<1> DEFINE v == Reached(heap, root, path)
           f == Followed(Scrubbed(heap, root), path)
           l == Len(path)
           Ended(n) == v[n] = "nothing" /\ f[n] = Leaf("nothing")
           Met(n) == VisitAt(v, n) \in Visits /\ f[n] = Scrub(heap)[VisitAt(v, n)]
           Fine == {n \in 0..l : Ended(n) \/ Met(n)}
<1>0. l \in Nat /\ MaxDepth \in Nat /\ "nothing" \notin Objects
  BY PathSteps, ScrubbingAssumption DEF ScrubbingAssumption
<1>1. 0 \in Fine
  <2>1. Met(0)
    BY FirstVisit
  <2> HIDE DEF Met, Ended
  <2> QED BY <1>0, <2>1
<1>2. ASSUME NEW n \in Fine, n < l
      PROVE  n + 1 \in Fine
  <2>1. n \in 0..(l - 1) /\ n \in Nat /\ n + 1 \in 1..l /\ n + 1 \in 0..l /\ (n + 1) - 1 = n
        /\ n <= MaxDepth
    <3> HIDE DEF Met, Ended, l
    <3>1. l <= MaxDepth
      BY DEF l
    <3> QED BY <1>0, <1>2, <3>1
  <2>2. v[n + 1] = Child(heap, v[n], path[n + 1])
    <3>1. \A m \in 1..l : v[m] = Child(heap, v[m - 1], path[m])
      BY <1>0, ReachedUnfolds
    <3> HIDE DEF v
    <3> QED BY <2>1, <3>1
  <2>3. f[n + 1] = Item(f[n], path[n + 1])
    <3>1. \A m \in 1..l : f[m] = Item(f[m - 1], path[m])
      BY <1>0, FollowedUnfolds
    <3> HIDE DEF f
    <3> QED BY <2>1, <3>1
  <2>4. CASE Ended(n)
    <3> HIDE DEF f, v
    <3>1. v[n + 1] = "nothing"
      BY <1>0, <2>2, <2>4 DEF Child, HasEntry
    <3>2. f[n + 1] = Leaf("nothing")
      BY <2>3, <2>4 DEF Item, Leaf
    <3> QED BY <2>1, <3>1, <3>2
  <2>5. CASE Met(n)
    <3>1. ~SecretStep(heap, v, path, n + 1)
      <4>1. ~HasEntry(heap, v[n], path[n + 1])
            \/ ~(heap[v[n]].kind = "dict" /\ heap[v[n]].entries[path[n + 1]].key = "denied")
        BY <2>1 DEF Secret
      <4> HIDE DEF v
      <4> QED BY <2>1, <4>1 DEF SecretStep, Denied
    <3>2. HasEntry(heap, v[n], path[n + 1]) => v[n] \notin {v[m] : m \in 0..(n - 1)}
      <4>1. \A m, k \in 0..(l - 1) : ~(m < k /\ v[m] = v[k] /\ v[k] \in Objects)
        BY DEF Repeats
      <4> HIDE DEF v
      <4>2. \A m \in 0..(n - 1) : m \in 0..(l - 1) /\ m < n
        BY <1>0, <2>1
      <4> QED BY <2>1, <4>1, <4>2 DEF HasEntry
    <3>3. IF HasEntry(heap, v[n], path[n + 1])
          THEN /\ VisitAt(v, n + 1) \in Visits
               /\ f[n + 1] = Scrub(heap)[VisitAt(v, n + 1)]
          ELSE f[n + 1] = Leaf("nothing")
      <4>1. IF n <= MaxDepth /\ HasEntry(heap, v[n], path[n + 1])
               /\ v[n] \notin {v[m] : m \in 0..(n - 1)}
            THEN IF SecretStep(heap, v, path, n + 1) THEN f[n + 1] = Leaf("redacted")
                 ELSE /\ VisitAt(v, n + 1) \in Visits
                      /\ f[n + 1] = Scrub(heap)[VisitAt(v, n + 1)]
            ELSE f[n + 1] = Leaf("nothing")
        BY <2>1, <2>5, NextVisit
      <4> HIDE DEF f, v
      <4> QED BY <2>1, <3>1, <3>2, <4>1
    <3> HIDE DEF f, v
    <3>4. CASE HasEntry(heap, v[n], path[n + 1])
      BY <2>1, <3>3, <3>4
    <3>5. CASE ~HasEntry(heap, v[n], path[n + 1])
      BY <2>1, <2>2, <3>3, <3>5 DEF Child
    <3> QED BY <3>4, <3>5
  <2> HIDE DEF Met, Ended
  <2> QED BY <2>4, <2>5
<1>3. l \in Fine
  <2> HIDE DEF Fine, l
  <2>1. Fine \in SUBSET (0..l)
    BY DEF Fine
  <2> QED BY <1>0, <1>1, <1>2, <2>1, Induction
<1>4. Ended(l) \/ Met(l)
  <2> HIDE DEF Ended, Met
  <2> QED BY <1>3
<1> QED BY <1>4 DEF Found

\* For every payload, whatever it shares and however it is nested: what the scrubber lets
\* out has no credential in it, neither one that looks like one nor anything at or below
\* a denied key.
THEOREM ScrubKeepsSecrets ==
    ASSUME NEW heap \in Heaps, NEW root \in Values
    PROVE  NothingEscapesFrom(heap, root, Scrubbed(heap, root))
<1> SUFFICES ASSUME NEW path \in Paths
             PROVE  LET found == Found(Scrubbed(heap, root), path)
                    IN /\ found # Leaf("credential")
                       /\ Secret(heap, root, path) => found \in {Leaf("redacted"), Leaf("nothing")}
  BY DEF NothingEscapesFrom
<1> DEFINE v == Reached(heap, root, path)
           visit == VisitAt(v, Len(path))
           found == Found(Scrubbed(heap, root), path)
<1>1. Leaf("redacted") # Leaf("credential") /\ Leaf("nothing") # Leaf("credential")
  BY DEF Leaf
<1>2. CASE found \in {Leaf("redacted"), Leaf("nothing")}
  <2> HIDE DEF found
  <2> QED BY <1>1, <1>2 DEF found
<1>3. CASE /\ visit \in Visits /\ found = Scrub(heap)[visit]
           /\ \A n \in 1..Len(path) : ~SecretStep(heap, v, path, n)
  <2>1. ~Secret(heap, root, path)
    BY <1>3 DEF Secret, SecretStep, Denied
  <2>2. Scrub(heap)[visit] = Copied(heap, Scrub(heap), visit)
    <3> HIDE DEF visit
    <3> QED BY <1>3, ScrubUnfolds
  <2>3. Copied(heap, Scrub(heap), visit) # Leaf("credential")
    <3> DEFINE copy == Copied(heap, Scrub(heap), visit)
    <3>1. \/ \E text : text # "credential" /\ copy = Leaf(text)
          \/ \E items, truncated : copy = [items |-> items, truncated |-> truncated]
      <4> HIDE DEF visit
      <4> QED BY DEF Copied
    <3> HIDE DEF copy
    <3>2. ASSUME NEW items, NEW truncated
          PROVE  [items |-> items, truncated |-> truncated] # Leaf("credential")
      <4>1. "items" \in DOMAIN [items |-> items, truncated |-> truncated]
            /\ "items" \notin DOMAIN Leaf("credential")
        BY DEF Leaf
      <4> QED BY <4>1
    <3>3. \A text : text # "credential" => Leaf(text) # Leaf("credential")
      <4>1. \A text : Leaf(text).text = text
        BY DEF Leaf
      <4> QED BY <4>1
    <3> QED BY <3>1, <3>2, <3>3 DEF copy
  <2> HIDE DEF found, visit
  <2> QED BY <1>3, <2>1, <2>2, <2>3 DEF found
<1> QED BY <1>2, <1>3, Follows

\* For every payload: a path within the limits that comes through no denied key and
\* through no object twice ends in the copy in the same text, in an object, or as circular
\* where it comes back to an object it went through; and an end the payload does not have
\* the copy does not have either.
THEOREM ScrubKeepsTheRest ==
    ASSUME NEW heap \in Heaps, NEW root \in Values
    PROVE  NothingLostFrom(heap, root, Scrubbed(heap, root))
<1> SUFFICES ASSUME NEW path \in Paths, ~Secret(heap, root, path),
                    ~Repeats(heap, root, path), Len(path) <= MaxDepth
             PROVE  LET v == Reached(heap, root, path)
                        end == v[Len(path)]
                        back == \E m \in 0..(Len(path) - 1) : v[m] = end
                        found == Found(Scrubbed(heap, root), path)
                    IN IF end = "nothing" THEN found = Leaf("nothing")
                       ELSE IF end = "credential" THEN found = Leaf("redacted")
                       ELSE IF end \notin Objects THEN found = Leaf(end)
                       ELSE IF back THEN found = Leaf("circular")
                       ELSE "items" \in DOMAIN found
  BY DEF NothingLostFrom
<1> DEFINE v == Reached(heap, root, path)
           l == Len(path)
           end == v[l]
           back == \E m \in 0..(l - 1) : v[m] = end
           visit == VisitAt(v, l)
           found == Found(Scrubbed(heap, root), path)
<1>1. CASE end = "nothing" /\ found = Leaf("nothing")
  BY <1>1
<1>2. CASE visit \in Visits /\ found = Scrub(heap)[visit]
  <2>1. /\ end \in Values /\ visit.value = end
        /\ ~TooDeep(visit.depth)
        /\ end \in visit.seen <=> back
    <3> HIDE DEF v
    <3>1. visit.value = end /\ visit.depth = l /\ visit.seen = {v[m] : m \in 0..(l - 1)}
      BY DEF VisitAt
    <3>2. ~TooDeep(l)
      BY PathSteps, ScrubbingAssumption DEF ScrubbingAssumption, TooDeep
    <3> HIDE DEF visit, end
    <3> QED BY <1>2, <3>1, <3>2 DEF Visits
  <2>2. end # "nothing"
    <3> HIDE DEF end
    <3> QED BY <2>1, ScrubbingAssumption DEF ScrubbingAssumption, Values, Leaves
  <2>3. "credential" \notin Objects
    BY ScrubbingAssumption DEF ScrubbingAssumption, Leaves
  <2> HIDE DEF visit, found, end, back
  <2>4. found = Copied(heap, Scrub(heap), visit)
    BY <1>2, ScrubUnfolds
  <2>5. IF end \notin Objects THEN found = Leaf(IF end = "credential" THEN "redacted" ELSE end)
        ELSE IF back THEN found = Leaf("circular")
        ELSE \E items, truncated : found = [items |-> items, truncated |-> truncated]
    BY <2>1, <2>4 DEF Copied
  <2>6. \A items, truncated : "items" \in DOMAIN [items |-> items, truncated |-> truncated]
    OBVIOUS
  <2> QED BY <2>2, <2>3, <2>5, <2>6 DEF end, back, found
<1> QED BY <1>1, <1>2, Keeps

\* For every payload: the copy has containers down to MaxDepth only, no more than MaxItems
\* in each, and leaves out nothing but what is beyond that; of a dict it says so.
THEOREM ScrubIsBounded ==
    ASSUME NEW heap \in Heaps, NEW root \in Values
    PROVE  TruncatedFrom(heap, root, Scrubbed(heap, root))
<1> DEFINE Fine(found, end, l) ==
             /\ end \in Objects /\ l <= MaxDepth /\ Len(found.items) <= MaxItems
             /\ Len(found.items) < Len(heap[end].entries) => Len(found.items) = MaxItems
             /\ found.truncated <=> /\ heap[end].kind = "dict"
                                    /\ Len(found.items) < Len(heap[end].entries)
<1> SUFFICES ASSUME NEW path \in Paths, "items" \in DOMAIN Found(Scrubbed(heap, root), path)
             PROVE  Fine(Found(Scrubbed(heap, root), path),
                         Reached(heap, root, path)[Len(path)], Len(path))
  BY DEF TruncatedFrom
<1> DEFINE v == Reached(heap, root, path)
           l == Len(path)
           end == v[l]
           visit == VisitAt(v, l)
           found == Found(Scrubbed(heap, root), path)
<1>0. \A text : "items" \notin DOMAIN Leaf(text)
  BY DEF Leaf
<1>1. visit \in Visits /\ found = Scrub(heap)[visit]
  <2>1. found \notin {Leaf("redacted"), Leaf("nothing")}
    <3> HIDE DEF found
    <3> QED BY <1>0 DEF found
  <2> QED BY <2>1, Follows
<1>2. visit.value = end /\ visit.depth = l
  BY DEF VisitAt
<1>3. found = Copied(heap, Scrub(heap), visit)
  <2> HIDE DEF visit, found
  <2> QED BY <1>1, ScrubUnfolds
<1>4. "items" \in DOMAIN found
  OBVIOUS
<1> HIDE DEF visit, found, end
<1>5. ~TooDeep(l) /\ end \in Objects
  BY <1>0, <1>2, <1>3, <1>4 DEF Copied
<1> DEFINE entries == heap[end].entries
           kept == Kept(entries)
<1>6. PICK items : /\ found = [items |-> items,
                               truncated |-> heap[end].kind = "dict" /\ Len(entries) > MaxItems]
                   /\ \E image : items = [n \in DOMAIN kept |-> image[n]]
  <2> DEFINE copy(entry) == IF Denied(heap[end], entry) THEN Leaf("redacted")
                            ELSE Scrub(heap)[Below(visit, entry.value)]
             items == [n \in DOMAIN kept |-> copy(kept[n])]
  <2>1. found = [items |-> items,
                 truncated |-> heap[end].kind = "dict" /\ Len(entries) > MaxItems]
    BY <1>0, <1>2, <1>3, <1>4, <1>5 DEF Copied
  <2>2. items = [n \in DOMAIN kept |-> items[n]]
    OBVIOUS
  <2> HIDE DEF items
  <2> QED BY <2>1, <2>2
<1> DEFINE most == Len(entries)
           last == IF most > MaxItems THEN MaxItems ELSE most
<1>7. most \in Nat /\ MaxItems \in Nat /\ MaxDepth \in Nat /\ l \in Nat
  BY <1>5, KeptEntries, PathSteps, ScrubbingAssumption DEF ScrubbingAssumption
<1>8. DOMAIN kept = 1..last
  <2>1. kept = SubSeq(entries, 1, last)
    BY DEF Kept
  <2>2. entries \in Seq([key : {"open", "denied"}, value : Values])
    BY <1>5 DEF Heaps
  <2> HIDE DEF entries
  <2> QED BY <1>7, <2>1, <2>2
<1>9. Len(items) = last
  <2> HIDE DEF kept, most
  <2>1. last \in Nat
    BY <1>7
  <2> HIDE DEF last
  <2> QED BY <1>6, <1>8, <2>1
<1>10. /\ found.items = items
       /\ found.truncated = (heap[end].kind = "dict" /\ most > MaxItems)
  <2> DEFINE cut == heap[end].kind = "dict" /\ most > MaxItems
  <2>1. found = [items |-> items, truncated |-> cut]
    BY <1>6
  <2> HIDE DEF cut
  <2>2. found.items = items /\ found.truncated = cut
    BY <2>1
  <2> QED BY <2>2 DEF cut
<1>11. l <= MaxDepth
  <2> HIDE DEF l
  <2> QED BY <1>5, <1>7 DEF TooDeep
<1>12. last <= MaxItems /\ (last < most <=> most > MaxItems) /\ (last < most => last = MaxItems)
  <2> HIDE DEF most
  <2> QED BY <1>7
<1> HIDE DEF last, l
<1> QED BY <1>5, <1>9, <1>10, <1>11, <1>12 DEF l, end, found

\* What a hook leaves, if it does not drop the event, is a heap.
LEMMA HookLeavesHeaps ==
    ASSUME NEW heap \in Heaps, NEW h \in HookKinds, Hooked(h, heap) # None
    PROVE  Hooked(h, heap) \in Heaps
<1> DEFINE Entries == [key : {"open", "denied"}, value : Values]
           Containers == [kind : {"dict", "list"}, entries : Seq(Entries)]
           more(c) == [c EXCEPT !.entries = @ \o Added]
           outer == [heap EXCEPT !["payload"].entries = @ \o Added]
<1>1. Added \in Seq(Entries)
  <2>1. Entry("denied", "text") \in Entries /\ Entry("open", "credential") \in Entries
    BY DEF Entry, Values, Leaves
  <2> HIDE DEF Entries
  <2> QED BY <2>1 DEF Added
<1>2. heap \in [Objects -> Containers] /\ Heaps = [Objects -> Containers]
  BY DEF Heaps
<1> HIDE DEF Entries
<1>3. \A c \in Containers : more(c) \in Containers
  <2> SUFFICES ASSUME NEW c \in Containers PROVE more(c) \in Containers
    OBVIOUS
  <2>1. c.entries \o Added \in Seq(Entries)
    <3>1. c.entries \in Seq(Entries)
      OBVIOUS
    <3> QED BY <1>1, <3>1, ConcatProperties
  <2> QED BY <2>1
<1> HIDE DEF Containers
<1>4. \A f \in [Objects -> Containers], o \in Objects :
         [f EXCEPT ![o].entries = @ \o Added] \in [Objects -> Containers]
  BY <1>3
<1>5. {"payload", "context"} \subseteq Objects
  BY BoundaryAssumption DEF BoundaryAssumption
<1>6. CASE h \in {"none", "keep", "drop"}
  BY <1>2, <1>6 DEF Hooked
<1>7. CASE h \in {"raise", "nonsense"}
  BY <1>2, <1>4, <1>5, <1>7 DEF Hooked
<1>8. CASE h = "annotate"
  <2>1. Hooked(h, heap) = [outer EXCEPT !["context"].entries = @ \o Added]
    BY <1>8 DEF Hooked
  <2>2. outer \in [Objects -> Containers]
    BY <1>2, <1>4, <1>5
  <2> HIDE DEF outer
  <2>3. [outer EXCEPT !["context"].entries = @ \o Added] \in [Objects -> Containers]
    BY <1>4, <1>5, <2>2
  <2> QED BY <1>2, <2>1, <2>3
<1> QED BY <1>6, <1>7, <1>8 DEF HookKinds

-----------------------------------------------------------------------------
(* What the rate among these options does to events (EventBoundary).  What a *)
(* call returned tells the decision that was made of it, and that decision   *)
(* depends on the bucket of the first actor field alone.                     *)

Outcomes ==
    [event : Events, payload : Payloads, door : {"client", "log"},
     result : {"sampled", "filtered", "queued"}, type : {FinalType(e) : e \in Events},
     copy : {None} \cup {Queued(heap) : heap \in Heaps}]

\* What the hook that is configured leaves of the payload of a call (Left).
LeftOf(call) == IF call.door = "client" THEN Hooked(hook, call.payload) ELSE call.payload

Decided(call) ==
    /\ call.door = "client" => (call.result = "sampled" <=> ~ShouldSend(call.event, rate))
    /\ call.result = "queued" => LeftOf(call) \in Heaps /\ call.copy = Queued(LeftOf(call))

BoundaryInv ==
    /\ rate \in Rates /\ hook \in Hooks
    /\ calls \in Seq(Outcomes)
    /\ \A n \in DOMAIN calls : Decided(calls[n])

LEMMA BucketIsNat ==
    ASSUME NEW e \in Events
    PROVE  Bucket(e) \in Nat
<1> DEFINE key == IF ActorKey(e) = None THEN <<"event", e.name>>
                  ELSE ActorKey(e)
<1>1. key \in DOMAIN BucketOf
  BY BucketsAssumption DEF BucketsAssumption
<1> HIDE DEF key
<1>2. BucketOf[key] \in 0..(Full - 1) /\ Full \in Nat
  BY <1>1, BucketsAssumption, BoundaryAssumption DEF BucketsAssumption, BoundaryAssumption
<1>3. BucketOf[key] \in Nat
  BY <1>2
<1> QED BY <1>3 DEF Bucket, key

\* identity_key comes before the other fields.
LEMMA IdentityDecides ==
    ASSUME NEW e \in Events,
           e.actor["identity_key"] \notin Placeholders \cup {None}
    PROVE  ActorKey(e) = <<"identity_key", e.actor["identity_key"]>>
           /\ ActorKey(e) # None
<1> DEFINE fields == ActorFields
           given == {n \in DOMAIN fields :
                       e.actor[fields[n]] \notin Placeholders \cup {None}}
           first == CHOOSE i \in given : \A j \in given : i <= j
<1>1. DOMAIN fields = 1..3 /\ fields[1] = "identity_key"
  BY DEF ActorFields
<1>2. given \in SUBSET (1..3) /\ 1 \in given
  BY <1>1
<1> HIDE DEF given, fields
<1>3. first \in given /\ \A j \in given : first <= j
  <2>1. \E i \in given : \A j \in given : i <= j
    BY <1>2
  <2> QED BY <2>1
<1>4. first = 1
  <2> HIDE DEF first
  <2> QED BY <1>2, <1>3
<1>5. Foremost(fields, given) = "identity_key"
  BY <1>1, <1>4 DEF Foremost
<1>6. ActorKey(e) = <<"identity_key", e.actor["identity_key"]>>
  BY <1>2, <1>5 DEF ActorKey, fields, given
<1>7. 1 \in DOMAIN ActorFields
  BY <1>1 DEF fields
<1>8. <<"identity_key", e.actor["identity_key"]>> # None
  BY <1>1, <1>7, BucketsAssumption DEF fields, BucketsAssumption
<1> QED BY <1>6, <1>8

LEMMA SamplingGrows ==
    ASSUME NEW e \in Events,
           NEW low \in Rates \ {Unreadable}, NEW high \in Rates \ {Unreadable},
           low <= high, ShouldSend(e, low)
    PROVE  ShouldSend(e, high)
<1> DEFINE bucket == Bucket(e)
<1>1. low \in Nat /\ high \in Nat /\ Full \in Nat /\ bucket \in Nat
  BY BucketIsNat, BoundaryAssumption DEF BoundaryAssumption
<1> HIDE DEF bucket
<1>2. low >= Full \/ NeverSampled(e) \/ (low > 0 /\ bucket < low)
  BY DEF ShouldSend, bucket
<1>3. high >= Full \/ NeverSampled(e) \/ (high > 0 /\ bucket < high)
  BY <1>1, <1>2
<1> QED BY <1>3 DEF ShouldSend, bucket

LEMMA BoundaryRecords ==
    ASSUME BoundaryInv, NEW call \in Outcomes, Decided(call),
           calls' = Append(calls, call), UNCHANGED <<rate, hook>>
    PROVE  BoundaryInv'
<1>1. calls' \in Seq(Outcomes)
  BY AppendProperties DEF BoundaryInv
<1>2. \A n \in DOMAIN calls' : calls'[n] = call \/ (n \in DOMAIN calls /\ calls'[n] = calls[n])
  BY AppendProperties DEF BoundaryInv
<1>3. \A n \in DOMAIN calls' : Decided(calls'[n])
  BY <1>2 DEF BoundaryInv
<1>4. \A n \in DOMAIN calls' : Decided(calls[n])'
  BY <1>3 DEF Decided, LeftOf
<1> QED BY <1>1, <1>4 DEF BoundaryInv

LEMMA BoundaryStep == BoundaryInv /\ [BoundaryNext]_boundaryVars => BoundaryInv'
<1> SUFFICES ASSUME BoundaryInv, [BoundaryNext]_boundaryVars
             PROVE  BoundaryInv'
  OBVIOUS
<1> DEFINE call(e, p, door, result, copy) ==
             [event |-> e, payload |-> p, door |-> door, result |-> result,
              type |-> FinalType(e), copy |-> copy]
<1>1. CASE UNCHANGED boundaryVars
  BY <1>1 DEF boundaryVars, BoundaryInv, Decided, LeftOf
<1>2. ASSUME NEW e \in Events, NEW p \in Payloads, SendEvent(e, p)
      PROVE  BoundaryInv'
  <2> DEFINE left == Hooked(hook, p)
  <2>1. UNCHANGED <<rate, hook>>
    BY <1>2 DEF SendEvent
  <2>2. left # None => left \in Heaps
    BY HookLeavesHeaps, BoundaryAssumption DEF BoundaryAssumption, BoundaryInv
  <2>3. PICK result \in {"sampled", "filtered", "queued"},
             copy \in {None} \cup {Queued(heap) : heap \in Heaps} :
           /\ calls' = Append(calls, call(e, p, "client", result, copy))
           /\ result = "sampled" <=> ~ShouldSend(e, rate)
           /\ result = "queued" => left \in Heaps /\ copy = Queued(left)
    <3> HIDE DEF left
    <3>1. CASE /\ ~ShouldSend(e, rate)
               /\ calls' = Append(calls, call(e, p, "client", "sampled", None))
      BY <3>1
    <3>2. CASE /\ ShouldSend(e, rate)
               /\ calls' = Append(calls, call(e, p, "client", "filtered", None))
      BY <3>2
    <3>3. CASE /\ ShouldSend(e, rate) /\ left # None
               /\ calls' = Append(calls, call(e, p, "client", "queued", Queued(left)))
      BY <2>2, <3>3
    <3> QED BY <1>2, <3>1, <3>2, <3>3 DEF SendEvent, Record, left
  <2> DEFINE new == call(e, p, "client", result, copy)
  <2>4. new \in Outcomes
    BY DEF Outcomes
  <2>5. /\ new.door = "client" /\ new.event = e /\ new.result = result
        /\ new.copy = copy /\ new.payload = p
    OBVIOUS
  <2> HIDE DEF new, left
  <2>6. LeftOf(new) = left
    BY <2>5 DEF LeftOf, left
  <2>7. Decided(new)
    BY <2>3, <2>5, <2>6 DEF Decided
  <2> QED BY <2>1, <2>3, <2>4, <2>7, BoundaryRecords DEF new
<1>3. ASSUME NEW e \in Events, NEW p \in Payloads, Emit(e, p)
      PROVE  BoundaryInv'
  <2> DEFINE new == call(e, p, "log", "queued", Queued(p))
  <2>1. UNCHANGED <<rate, hook>> /\ calls' = Append(calls, new)
    BY <1>3 DEF Emit, Record
  <2>2. p \in Heaps
    BY BoundaryAssumption DEF BoundaryAssumption
  <2>3. new \in Outcomes
    BY <2>2 DEF Outcomes
  <2>4. new.door = "log" /\ new.copy = Queued(p) /\ new.payload = p
    OBVIOUS
  <2> HIDE DEF new
  <2>5. LeftOf(new) = p
    BY <2>4 DEF LeftOf
  <2>6. Decided(new)
    BY <2>2, <2>4, <2>5 DEF Decided
  <2> QED BY <2>1, <2>3, <2>6, BoundaryRecords
<1> QED BY <1>1, <1>2, <1>3 DEF BoundaryNext

LEMMA BoundaryInvariant == BoundarySpec => []BoundaryInv
<1>1. BoundaryInit => BoundaryInv
  BY EmptySeq DEF BoundaryInit, BoundaryInv
<1> QED BY <1>1, BoundaryStep, PTL DEF BoundarySpec

LEMMA BoundaryKeepsSequences == BoundaryInv => SequenceWhole
<1> SUFFICES ASSUME BoundaryInv PROVE SequenceWhole
  OBVIOUS
<1>1. \A n \in ByClient :
         /\ n \in DOMAIN calls /\ calls[n].event \in Events
         /\ Thinned(n) <=> ~ShouldSend(calls[n].event, rate)
  <2> SUFFICES ASSUME NEW n \in ByClient
               PROVE  /\ n \in DOMAIN calls /\ calls[n].event \in Events
                      /\ Thinned(n) <=> ~ShouldSend(calls[n].event, rate)
    OBVIOUS
  <2> DEFINE sent == calls[n]
  <2>1. n \in DOMAIN calls /\ sent.door = "client"
    BY DEF ByClient
  <2>2. sent \in Outcomes /\ Decided(sent)
    BY <2>1 DEF BoundaryInv
  <2>3. sent.event \in Events
    <3> HIDE DEF sent
    <3> QED BY <2>2 DEF Outcomes
  <2>4. sent.result = "sampled" <=> ~ShouldSend(sent.event, rate)
    <3> HIDE DEF sent
    <3> QED BY <2>1, <2>2 DEF Decided
  <2> QED BY <2>1, <2>3, <2>4 DEF Thinned
<1>2. ASSUME NEW m \in ByClient, NEW n \in ByClient,
             calls[m].event.actor["identity_key"] = calls[n].event.actor["identity_key"],
             calls[m].event.actor["identity_key"] \notin Placeholders \cup {None},
             ~NeverSampled(calls[m].event), ~NeverSampled(calls[n].event)
      PROVE  Thinned(m) = Thinned(n)
  <2>1. ActorKey(calls[m].event) = ActorKey(calls[n].event)
        /\ ActorKey(calls[m].event) # None
    BY <1>1, <1>2, IdentityDecides
  <2>2. Bucket(calls[m].event) = Bucket(calls[n].event)
    BY <2>1 DEF Bucket
  <2>3. ShouldSend(calls[m].event, rate) <=> ShouldSend(calls[n].event, rate)
    BY <1>2, <2>2 DEF ShouldSend
  <2>4. Thinned(m) \in BOOLEAN /\ Thinned(n) \in BOOLEAN
    BY DEF Thinned
  <2> QED BY <1>1, <2>3, <2>4
<1>3. ASSUME NEW n \in ByClient, NEW low \in Rates \ {Unreadable},
             NEW high \in Rates \ {Unreadable}, low <= high,
             ShouldSend(calls[n].event, low)
      PROVE  ShouldSend(calls[n].event, high)
  BY <1>1, <1>3, SamplingGrows
<1> QED BY <1>2, <1>3 DEF SequenceWhole

\* For any rates, hooks, events and assignment of buckets: of one person's events that
\* may be sampled either all are dropped or none is, whatever session or address they
\* come with, and what is kept at one rate is kept at every higher one.
THEOREM SequencesKept == BoundarySpec => []SequenceWhole
<1> QED BY BoundaryKeepsSequences, BoundaryInvariant, PTL

\* What is in the queue is what the scrubber made of what the hook left.
LEMMA InQueueIsScrubbed ==
    ASSUME BoundaryInv, NEW n \in InQueue
    PROVE  /\ Left(n) \in Heaps /\ "payload" \in Values
           /\ calls[n].copy = Scrubbed(Left(n), "payload")
<1>1. n \in DOMAIN calls /\ calls[n].result = "queued"
  BY DEF InQueue
<1>2. LeftOf(calls[n]) \in Heaps /\ calls[n].copy = Queued(LeftOf(calls[n]))
  BY <1>1 DEF BoundaryInv, Decided
<1>3. Left(n) = LeftOf(calls[n])
  BY DEF Left, LeftOf
<1>4. "payload" \in Values
  BY BoundaryAssumption DEF BoundaryAssumption, Values
<1> QED BY <1>2, <1>3, <1>4 DEF Queued

\* For any payloads, any hook that a user may give, and both ways into the queue: what has
\* been queued has no credential of what the hook left, nor anything at or below a denied key.
THEOREM ScrubbedIsLast == BoundarySpec => []NothingEscapes
<1>1. BoundaryInv => NothingEscapes
  BY InQueueIsScrubbed, ScrubKeepsSecrets DEF NothingEscapes
<1> QED BY <1>1, BoundaryInvariant, PTL

\* For any payloads and hooks, and both ways into the queue: what the hook left and is no
\* credential is still there in what has been queued, within the limits.
THEOREM NothingIsLost == BoundarySpec => []NothingLost
<1>1. BoundaryInv => NothingLost
  BY InQueueIsScrubbed, ScrubKeepsTheRest DEF NothingLost
<1> QED BY <1>1, BoundaryInvariant, PTL

\* For any payloads and hooks, and both ways into the queue: what is queued is bounded, and
\* cut at the limits only.
THEOREM QueuedIsBounded == BoundarySpec => []TruncatedAtLimits
<1>1. BoundaryInv => TruncatedAtLimits
  BY InQueueIsScrubbed, ScrubIsBounded DEF TruncatedAtLimits
<1> QED BY <1>1, BoundaryInvariant, PTL
=============================================================================
