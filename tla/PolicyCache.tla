----------------------------- MODULE PolicyCache -----------------------------
(***************************************************************************)
(* SecurityPolicyCache (policy_cache.py): the threads that fetch the policy*)
(* - start-up, WebSocket, poll thread, and old poll threads that outlived  *)
(* their join - take a lock around the whole request; the threads that     *)
(* evaluate requests take none.  A PolicySnapshot is an object: `policies` *)
(* lists the versions of those built so far, the last one is self._snapshot*)
(* and a reader keeps the one it started with.  The clock is abstracted to *)
(* which snapshots are older than max_staleness; as only the last one is   *)
(* ever refreshed, these are the first so many.  The API is external.      *)
(* Why they fetch is part of the model: start-up does it once, before it   *)
(* opens the channel, the WebSocket thread for every message, and the poll *)
(* thread while there is no socket.  What a channel does to find out about *)
(* its socket is RealtimeChannel's matter, stop() ClientLifecycle's: here  *)
(* the channel is not stopped.                                             *)
(***************************************************************************)
EXTENDS Naturals, Sequences

CONSTANTS
    Feed,           \* the start-up thread, and then the WebSocket thread of the channel
    Others,         \* other threads that call fetch(): to poll, or for the application
    Readers,        \* threads that call evaluate()
    Nobody,         \* the owner of a free lock
    MaxVersion,     \* bound: versions the server publishes
    MaxLoads        \* bound: snapshots built

Fetchers == {Feed} \cup Others

ASSUME CacheAssumption ==
    /\ Feed \notin Others /\ Nobody \notin Fetchers
    /\ MaxVersion \in Nat \ {0} /\ MaxLoads \in Nat \ {0}

VARIABLES
    server,         \* the version the server publishes; 1 is the first
    policies,       \* the versions of the snapshots built, in order
    lock,           \* the owner of _fetch_lock
    fetcher,        \* where each fetcher is
    answer,         \* what the API answered it: a version, NotModified, Failed
    stale,          \* the snapshots 1..stale are older than max_staleness
    staleWarned,    \* _stale_warned
    reader,         \* where each reader is
    reads,          \* the snapshot it evaluates against
    warned,         \* whether the snapshot in force was warned about
    overtaken,      \* a refresh ended while somebody was judging its age (history)
    socket,         \* the channel's: "none" before it is opened, "down", "up"
    told,           \* Feed is to fetch: the start-up is due, a message in the socket
    missed          \* what Feed was told last it failed to fetch (history)

vars == <<server, policies, lock, fetcher, answer, stale, staleWarned, reader,
          reads, warned, overtaken, socket, told, missed>>
fetching == <<lock, fetcher, answer>>
warning == <<stale, staleWarned, warned, overtaken>>
reading == <<reader, reads>>
pushing == <<socket, told, missed>>

NotModified == 0            \* status 304; versions start at 1
Failed == MaxVersion + 1    \* no answer, another status, or an unusable body

Snapshot == Len(policies)   \* self._snapshot; 0 is None
Held == IF Snapshot = 0 THEN 0 ELSE policies[Snapshot]

Init ==
    /\ server = 1 /\ policies = <<>> /\ lock = Nobody
    /\ fetcher = [f \in Fetchers |-> "idle"]
    /\ answer = [f \in Fetchers |-> Failed]
    /\ stale = 0 /\ staleWarned = FALSE /\ warned = FALSE /\ overtaken = FALSE
    /\ reader = [r \in Readers |-> "idle"]
    /\ reads = [r \in Readers |-> 0]
    /\ socket = "none" /\ told = TRUE /\ missed = FALSE

-----------------------------------------------------------------------------
(* The world: the server publishes, time passes, a connection is made or lost *)

Publish ==                  \* security.update, to a socket that is there
    /\ server < MaxVersion /\ server' = server + 1
    /\ told' = (told \/ socket = "up")
    /\ UNCHANGED <<policies, fetching, warning, reading, socket, missed>>

Expire ==
    /\ \E n \in 1..Snapshot : n > stale /\ stale' = n
    /\ UNCHANGED <<server, policies, fetching, staleWarned, warned, overtaken, reading>>
    /\ UNCHANGED pushing

\* What the channel comes to know it does on Feed, between two calls of on_update.
Goes(from, to) ==
    /\ socket = from /\ socket' = to /\ fetcher[Feed] = "idle"
    /\ missed' = FALSE
    /\ UNCHANGED <<server, policies, fetching, warning, reading>>

\* start_realtime, with the real-time option and once the start-up has fetched.
OpenChannel == ~told /\ UNCHANGED told /\ Goes("none", "down")

\* Fault: the subscription's own message is not among the update messages.
ConnectedUntold == UNCHANGED told /\ Goes("down", "up")

Connected == told' = TRUE /\ Goes("down", "up")        \* security.subscribed

Disconnected == told' = FALSE /\ Goes("up", "down")    \* what was in the socket is lost

Line == OpenChannel \/ Connected \/ Disconnected

-----------------------------------------------------------------------------
(* fetch() *)

Overtakes ==
    overtaken' = (overtaken \/ \E r \in Readers : reader[r] \in {"testing", "warning"})

FetchGoes(f, from, to) ==
    fetcher[f] = from /\ fetcher' = [fetcher EXCEPT ![f] = to]

FetchBegins(f) ==
    /\ FetchGoes(f, "idle", "waiting")
    /\ UNCHANGED <<server, policies, lock, answer, warning, reading, socket>>

\* The start-up's fetch; on_update for a message, of which there may be more.
Announced == told /\ told' = FALSE /\ missed' = FALSE /\ FetchBegins(Feed)

Fetch(f) == FetchBegins(f) /\ UNCHANGED <<told, missed>>
Poll(f) == socket = "down" /\ Fetch(f)     \* every 15 s

\* Fault: fetch() without the lock.
AcquireUnlocked(f) ==
    /\ FetchGoes(f, "waiting", "asking")
    /\ lock' = f
    /\ UNCHANGED <<server, policies, answer, warning, reading, pushing>>

Acquire(f) ==               \* with self._fetch_lock
    /\ FetchGoes(f, "waiting", "asking")
    /\ lock = Nobody /\ lock' = f
    /\ UNCHANGED <<server, policies, answer, warning, reading, pushing>>

\* Fault: If-None-Match is not sent.
AskedAfresh(f) ==
    /\ FetchGoes(f, "asking", "answered")
    /\ answer' = [answer EXCEPT ![f] = server]
    /\ UNCHANGED <<server, policies, lock, warning, reading, pushing>>

\* The API answers GET with If-None-Match: the version in force, if there is
\* one.  A fetch without a usable answer, or without headers to ask with, fails.
Asked(f) ==
    /\ FetchGoes(f, "asking", "answered")
    /\ answer' = [answer EXCEPT ![f] = IF Held = server THEN NotModified ELSE server]
    /\ UNCHANGED <<server, policies, lock, warning, reading, pushing>>

AskFails(f) ==
    /\ FetchGoes(f, "asking", "answered")
    /\ answer' = [answer EXCEPT ![f] = Failed]
    /\ UNCHANGED <<server, policies, lock, warning, reading, pushing>>

Keep(f) ==                  \* return current
    /\ answer[f] = Failed /\ FetchGoes(f, "answered", "idle")
    /\ lock' = Nobody /\ missed' = (missed \/ f = Feed)
    /\ UNCHANGED <<server, policies, answer, warning, reading, socket, told>>

Touch(f) ==                 \* current.fetched_at = time.time()
    /\ answer[f] = NotModified /\ FetchGoes(f, "answered", "clearing")
    /\ stale' = IF stale = Snapshot THEN Snapshot - 1 ELSE stale
    /\ warned' = FALSE /\ Overtakes
    /\ UNCHANGED <<server, policies, lock, answer, staleWarned, reading, pushing>>

Load(f) ==                  \* PolicySnapshot(payload); self._snapshot = snapshot
    /\ answer[f] \in 1..MaxVersion /\ FetchGoes(f, "answered", "clearing")
    /\ Len(policies) < MaxLoads /\ policies' = Append(policies, answer[f])
    /\ warned' = FALSE /\ Overtakes
    /\ UNCHANGED <<server, lock, answer, stale, staleWarned, reading, pushing>>

\* Fault: a refresh does not arm the warning again.
ClearNothing(f) ==
    /\ FetchGoes(f, "clearing", "idle")
    /\ lock' = Nobody /\ Overtakes
    /\ UNCHANGED <<server, policies, answer, stale, staleWarned, warned, reading, pushing>>

ClearWarned(f) ==           \* self._stale_warned = False; return
    /\ FetchGoes(f, "clearing", "idle")
    /\ staleWarned' = FALSE /\ lock' = Nobody /\ Overtakes
    /\ UNCHANGED <<server, policies, answer, stale, warned, reading, pushing>>

FetchRuns(f) ==
    \/ Acquire(f) \/ Asked(f) \/ AskFails(f)
    \/ Keep(f) \/ Touch(f) \/ Load(f) \/ ClearWarned(f)

-----------------------------------------------------------------------------
(* evaluate() *)

ReadGoes(r, from, to) == reader[r] = from /\ reader' = [reader EXCEPT ![r] = to]

Evaluate(r) ==              \* with no snapshot it returns None
    /\ Snapshot > 0 /\ ReadGoes(r, "idle", "testing")
    /\ reads' = [reads EXCEPT ![r] = Snapshot]
    /\ UNCHANGED <<server, policies, fetching, warning, pushing>>

StaleTest(r) ==             \* if self._stale_warned or age <= max: return
    /\ ReadGoes(r, "testing", IF staleWarned \/ reads[r] > stale THEN "matching"
                              ELSE "warning")
    /\ UNCHANGED <<server, policies, fetching, warning, reads, pushing>>

Warn(r) ==
    /\ ReadGoes(r, "warning", "matching")
    /\ staleWarned' = TRUE
    /\ warned' = (warned \/ reads[r] = Snapshot)
    /\ UNCHANGED <<server, policies, fetching, stale, overtaken, reads, pushing>>

Match(r) ==                 \* rules and controls of the one snapshot; return
    /\ ReadGoes(r, "matching", "idle")
    /\ reads' = [reads EXCEPT ![r] = 0]
    /\ UNCHANGED <<server, policies, fetching, warning, pushing>>

ReadRuns(r) == StaleTest(r) \/ Warn(r) \/ Match(r)

-----------------------------------------------------------------------------
Next ==
    \/ Publish \/ Expire \/ Line
    \/ Announced \/ \E f \in Others : Fetch(f)
    \/ \E f \in Fetchers : FetchRuns(f)
    \/ \E r \in Readers : Evaluate(r) \/ ReadRuns(r)

Spec == Init /\ [][Next]_vars

\* Feed does what it is told.  While there is no socket somebody polls: the backoff
\* between two dials doubles to 60 s and is never reset, so however often the socket
\* comes and goes, polls every 15 s find their time (RealtimeChannel's
\* PollingCoversOutage and ChangeNoticed): strong fairness.  A fetcher runs and is in
\* the end let through by the lock: fetches are seconds apart.  Of the requests made
\* for ever some are answered.  Nothing makes the channel open, a connection come or
\* go, the application fetch, or anyone evaluate.
FairSpec ==
    /\ Spec
    /\ WF_vars(Announced) /\ SF_vars(\E f \in Others : Poll(f))
    /\ \A f \in Fetchers : WF_vars(FetchRuns(f)) /\ SF_vars(Acquire(f))
    /\ SF_vars(\E f \in Fetchers : Asked(f))

-----------------------------------------------------------------------------
(* Properties *)

\* The policy in force is one the server published and never goes back to an
\* older one, although several threads fetch at the same time and the answers
\* take as long as they like: the lock held across the request sees to it.
Copy == INSTANCE FreshCache WITH latest <- server, held <- Held
ImplementsFreshCache == Copy!Spec

\* A snapshot is loaded only when it is new: the version asked with is the one
\* in force when the answer arrives, so no policy is built twice.
NoPolicyBuiltTwice == \A m, n \in 1..Len(policies) : m < n => policies[m] < policies[n]

\* policy_cache.py:424: "Subscribe to policy-change pushes, with the usual polling
\* fallback": once the channel is opened, what the server publishes comes into force - published
\* before the channel was there, into an outage, or into a socket that is lost with
\* the message in it, and although single fetches fail.  The exception lasts as long
\* as the socket: what failed for the last message nobody repeats (realtime.py:164)
\* until there is another, or an outage to poll in.
PolicyArrives ==
    \A v \in 1..MaxVersion : (server >= v /\ socket # "none") ~> (Held >= v \/ missed)

\* policy_cache.py:38: "How long a snapshot may go unrefreshed before we start warning":
\* the flag that keeps evaluate() quiet means that the snapshot in force was warned
\* about.  (A reader that a refresh overtakes sets it for a snapshot it never judged.)
QuietMeansWarned ==
    (staleWarned /\ ~overtaken /\ \A f \in Fetchers : fetcher[f] # "clearing") => warned
=============================================================================
