---------------------------- MODULE ConfigManager ----------------------------
(***************************************************************************)
(* ConfigManager (config_manager.py): fetch() by the realtime channel and  *)
(* the application, get() by its threads, and the refresh thread with its  *)
(* on_change, between start_refresh and stop_refresh.  The configs are     *)
(* abstracted to the version the server published them as; some versions   *)
(* are an empty set, as is what the cache starts with (version 0).         *)
(* fetch() holds the lock for the assignment alone.  The API is external.  *)
(***************************************************************************)
EXTENDS Naturals

CONSTANTS
    Callers,        \* threads that call fetch() or get()
    EmptyVersions,  \* versions that hold no config
    MaxVersion      \* bound: versions the server publishes

ASSUME ManagerAssumption ==
    /\ "refresh" \notin Callers
    /\ EmptyVersions \subseteq Nat /\ 0 \in EmptyVersions
    /\ MaxVersion \in Nat \ {0}

VARIABLES
    server,         \* the version the server publishes
    cached,         \* the version in _configs
    thread,         \* where each thread is
    answer,         \* what the API answered it: a version, Refused or Garbled
    refreshStop,    \* _refresh_stop
    old,            \* the refresh thread's copy of _configs before its fetch
    told,           \* the version on_change was last told about in full
    control,        \* where the thread is that starts and stops the refresh
    started,        \* whether its last call was start_refresh
    past            \* what has happened so far (history): "foreign", a caller has
                    \* changed the cache; "overlap", two fetches ran at a time;
                    \* "mishap", the refresh thread died or outlasted its join;
                    \* "raised", on_change raised before it was told everything

vars == <<server, cached, thread, answer, refreshStop, old, told, control, started,
          past>>

Threads == Callers \cup {"refresh"}
Refused == MaxVersion + 1   \* no answer or an error status: RuntimeError
Garbled == MaxVersion + 2   \* a body that is no JSON: not a RuntimeError
Good == 0..MaxVersion

Init ==
    /\ server = 1 /\ cached = 0
    /\ thread = [t \in Threads |-> IF t = "refresh" THEN "none" ELSE "idle"]
    /\ answer = [t \in Threads |-> Refused]
    /\ refreshStop = FALSE /\ old = 0 /\ told = 0
    /\ control = "idle" /\ started = FALSE /\ past = {}

Publish ==
    /\ server < MaxVersion /\ server' = server + 1
    /\ UNCHANGED <<cached, thread, answer, refreshStop, old, told, control, started, past>>

Goes(t, from, to) == thread[t] = from /\ thread' = [thread EXCEPT ![t] = to]
Settings == <<refreshStop, old, told, control, started>>
Remember(what, happens) == past' = IF happens THEN past \cup {what} ELSE past
Fetching(t) == thread[t] \in {"asking", "answered"}

-----------------------------------------------------------------------------
(* fetch() *)

Request(t) ==               \* the API answers
    /\ Goes(t, "asking", "answered")
    /\ \E a \in {server, Refused, Garbled} : answer' = [answer EXCEPT ![t] = a]
    /\ Remember("overlap", \E u \in Threads \ {t} : Fetching(u))
    /\ UNCHANGED <<server, cached, Settings>>

Install(t, to) ==           \* with self._lock: self._configs = configs
    /\ answer[t] \in Good /\ Goes(t, "answered", to)
    /\ cached' = answer[t]
    /\ UNCHANGED <<server, answer>>

-----------------------------------------------------------------------------
(* A caller: fetch() itself, or get()/all() *)

CallFetch(t) ==
    /\ Goes(t, "idle", "asking")
    /\ UNCHANGED <<server, cached, answer, Settings, past>>

Get(t) ==                   \* an empty cache is fetched, a filled one is read
    /\ Goes(t, "idle", IF cached \in EmptyVersions THEN "asking" ELSE "idle")
    /\ UNCHANGED <<server, cached, answer, Settings, past>>

CallerInstalls(t) ==
    /\ Install(t, "idle") /\ Remember("foreign", cached' # cached)
    /\ UNCHANGED Settings

CallerFails(t) ==           \* the error is raised or logged; the cache stays
    /\ answer[t] \notin Good /\ Goes(t, "answered", "idle")
    /\ UNCHANGED <<server, cached, answer, Settings, past>>

Caller(t) ==
    \/ CallFetch(t) \/ Get(t) \/ Request(t) \/ CallerInstalls(t) \/ CallerFails(t)

-----------------------------------------------------------------------------
(* The refresh thread *)

RefreshStops ==             \* _refresh_stop.wait(interval) returns True
    /\ refreshStop /\ Goes("refresh", "waiting", "exited")
    /\ UNCHANGED <<server, cached, answer, Settings, past>>

RefreshWakes ==             \* with self._lock: old = dict(self._configs)
    /\ ~refreshStop /\ Goes("refresh", "waiting", "asking")
    /\ old' = cached
    /\ UNCHANGED <<server, cached, answer, refreshStop, told, control, started, past>>

\* Fault: the old configs are read from the cache after the fetch, so nothing differs.
RefreshComparesLate == Install("refresh", "waiting") /\ UNCHANGED <<Settings, past>>

\* new = self.fetch(); on_change is called if old and new differ in some key.
RefreshInstalls ==
    /\ Install("refresh", IF old # answer["refresh"] THEN "telling" ELSE "waiting")
    /\ UNCHANGED <<Settings, past>>

Tells(to) == Goes("refresh", "telling", to) /\ UNCHANGED <<server, cached, answer>>

RefreshTells ==             \* on_change returned for every key that changed
    /\ Tells("waiting")
    /\ told' = answer["refresh"]
    /\ UNCHANGED <<refreshStop, old, control, started, past>>

\* on_change raised a RuntimeError for some key: logged like a failed fetch, and the
\* keys that were to come are told by no later refresh.
ListenerRefuses ==
    /\ Tells("waiting") /\ Remember("raised", TRUE)
    /\ UNCHANGED Settings

ListenerDies ==             \* on_change raised anything else, which ends the thread
    /\ Tells("exited") /\ past' = past \cup {"raised", "mishap"}
    /\ UNCHANGED Settings

\* Fault: a failed fetch leaves an empty cache.
RefreshRefusedEmpties ==
    /\ answer["refresh"] = Refused /\ Goes("refresh", "answered", "waiting")
    /\ cached' = 0
    /\ UNCHANGED <<server, answer, Settings, past>>

\* Fault: a failed fetch ends the thread.
RefreshRefusedExits ==
    /\ answer["refresh"] = Refused /\ Goes("refresh", "answered", "exited")
    /\ UNCHANGED <<server, cached, answer, Settings, past>>

RefreshRefused ==           \* except RuntimeError: log
    /\ answer["refresh"] = Refused /\ Goes("refresh", "answered", "waiting")
    /\ UNCHANGED <<server, cached, answer, Settings, past>>

RefreshDies ==              \* any other exception of fetch() ends the thread
    /\ answer["refresh"] = Garbled /\ Goes("refresh", "answered", "exited")
    /\ Remember("mishap", TRUE)
    /\ UNCHANGED <<server, cached, answer, Settings>>

RefreshRuns ==
    \/ RefreshStops \/ RefreshWakes \/ Request("refresh")
    \/ RefreshInstalls \/ RefreshTells \/ ListenerRefuses \/ ListenerDies
    \/ RefreshRefused \/ RefreshDies

-----------------------------------------------------------------------------
(* start_refresh and stop_refresh, called by one thread *)

Alive == thread["refresh"] \notin {"none", "exited"}
Refreshing == UNCHANGED <<server, cached, answer, old, told>>

\* Fault: the order to stop stays in force.
StartUncleared ==
    /\ control = "idle" /\ ~started /\ ~Alive
    /\ started' = TRUE
    /\ thread' = [thread EXCEPT !["refresh"] = "waiting"]
    /\ UNCHANGED <<refreshStop, control, past>> /\ Refreshing

StartRefresh ==             \* clear the event and start a thread
    /\ control = "idle" /\ ~started /\ ~Alive
    /\ started' = TRUE /\ refreshStop' = FALSE
    /\ thread' = [thread EXCEPT !["refresh"] = "waiting"]
    /\ UNCHANGED <<control, past>> /\ Refreshing

AlreadyRunning ==           \* log and return
    /\ control = "idle" /\ ~started /\ Alive
    /\ started' = TRUE
    /\ UNCHANGED <<control, refreshStop, thread, past>> /\ Refreshing

StopRefresh ==
    /\ control = "idle" /\ started
    /\ control' = "joining" /\ started' = FALSE /\ refreshStop' = TRUE
    /\ UNCHANGED <<thread, past>> /\ Refreshing

\* join(timeout=5): a fetch may take 10 s, and on_change any time.
JoinRefresh ==
    /\ control = "joining" /\ control' = "idle"
    /\ ~Alive \/ Fetching("refresh") \/ thread["refresh"] = "telling"
    /\ Remember("mishap", Alive)
    /\ UNCHANGED <<started, refreshStop, thread>> /\ Refreshing

Control == StartRefresh \/ AlreadyRunning \/ StopRefresh \/ JoinRefresh

-----------------------------------------------------------------------------
Next ==
    \/ Publish
    \/ \E t \in Callers : Caller(t)
    \/ RefreshRuns \/ Control

Spec == Init /\ [][Next]_vars

\* The refresh thread runs, on_change comes back to it, and of requests made for ever
\* some are answered.  Nobody need call anything, and the callers may hang in theirs.
FairSpec ==
    /\ Spec
    /\ WF_vars(RefreshRuns) /\ WF_vars(JoinRefresh)
    /\ SF_vars(Request("refresh") /\ answer'["refresh"] \in Good)

-----------------------------------------------------------------------------
(* Properties *)

\* config_manager.py:111: on_change is "called for every key whose value changed": as
\* long as nobody else changes the cache and it raises nothing itself, the listener knows
\* between two refreshes what is in it, whatever fetches failed and however often the
\* thread was replaced.  (What a push or a caller brings in it is never told, nor what was
\* left to tell when it raised.)
ListenerUpToDate ==
    (thread["refresh"] = "waiting" /\ past \cap {"foreign", "raised"} = {}) => told = cached

\* While a refresh thread is there and not told to stop, what the server publishes
\* arrives in the cache, although single fetches fail and callers interfere.
ConfigArrives ==
    \A v \in 1..MaxVersion :
        (server >= v /\ Alive) ~> (cached >= v \/ refreshStop \/ "mishap" \in past)

\* realtime.py:30-32: "a duplicated or out-of-order notification costs one extra
\* fetch and can never corrupt state": the cache never goes back to configs
\* older than those it had ...
Copy == INSTANCE FreshCache WITH latest <- server, held <- cached
ImplementsFreshCache == Copy!Spec

\* ... which is so as long as fetches come one after the other.
NeverGoesBack == [][("overlap" \notin past => cached' >= cached) /\ cached' <= server']_vars

\* config_manager.py:107: start_refresh is to "start a background thread that re-fetches
\* every interval seconds": as long as no join timed out, no body was garbled and
\* on_change raised nothing but RuntimeErrors, there is one, and it is not told to stop.
StartedMeansRunning ==
    (started /\ control = "idle" /\ "mishap" \notin past) => (Alive /\ ~refreshStop)
=============================================================================
