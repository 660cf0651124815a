--------------------------- MODULE DependencyScan ---------------------------
(***************************************************************************)
(* The dependency scans an operator asks for (client.py): the poll thread  *)
(* fetches the open requests, emits a health report for each and           *)
(* acknowledges it, while the application stops the client and starts it   *)
(* again.  The platform is external: it keeps a request open until it is   *)
(* acknowledged, and the last acknowledgement counts.  A report is an      *)
(* event; what becomes of it behind the queue is EventPipeline's matter.   *)
(***************************************************************************)
EXTENDS Naturals, FiniteSets

CONSTANTS
    None,
    Requests,       \* scan requests an operator may make
    Garbled,        \* an entry of a list of requests that is no dict
    MaxStarts       \* bound: calls of start()

ASSUME ScanAssumption ==
    /\ None \notin Requests \cup Nat /\ Garbled \notin Requests
    /\ MaxStarts \in Nat \ {0}

VARIABLES
    request,        \* Requests -> "unmade", "open", or the verdict on it
    report,         \* Requests -> the last report made for it: "none", "out" if the
                    \* processor is there to take it from the queue, or "stranded"
    poller,         \* Pollers -> where the thread is
    todo, current,  \* Pollers -> the entries still to handle, the one in hand
    scanner,        \* _scan_request_thread
    scanStop,       \* _scan_request_stop
    control,        \* the application's thread, in start() or stop() or between
    starts,         \* calls of start() so far
    past            \* history: Slow, stop() gave up on a poller; Ended, a garbled list
                    \* ended one; Lost(r), a success of r was stored, but no answer came

threadVars == <<poller, todo, current>>
lifecycle == <<scanner, scanStop, control, starts>>
vars == <<request, report, threadVars, lifecycle, past>>

Slow == <<"slow", None>>
Ended == <<"ended", None>>
Lost(r) == <<"lost", r>>
Pollers == 1..MaxStarts             \* the poll threads: that of the n-th start is n
Verdicts == {"succeeded", "failed"}
Working == {"fetching", "next", "reporting", "acking", "nacking"}
Live(p) == poller[p] \in Working \cup {"waiting"}
ProcessorRuns == control # "stopped"

Init ==                             \* __init__, which calls start()
    /\ request = [r \in Requests |-> "unmade"] /\ report = [r \in Requests |-> "none"]
    /\ poller = [p \in Pollers |-> "off"] /\ todo = [p \in Pollers |-> {}]
    /\ current = [p \in Pollers |-> None]
    /\ scanner = None /\ scanStop = FALSE
    /\ control = "starting" /\ starts = 1 /\ past = {}

Goes(p, from, to) == poller[p] = from /\ poller' = [poller EXCEPT ![p] = to]

-----------------------------------------------------------------------------
(* The operator *)

Ask(r) ==
    /\ request[r] = "unmade" /\ request' = [request EXCEPT ![r] = "open"]
    /\ UNCHANGED <<report, threadVars, lifecycle, past>>

-----------------------------------------------------------------------------
(* The poll thread *)

Wait(p) ==                          \* _scan_request_stop.wait(poll_interval)
    /\ Goes(p, "waiting", IF scanStop THEN "ended" ELSE "fetching")
    /\ UNCHANGED <<request, report, todo, current, lifecycle, past>>

\* fetch_dependency_scan_requests: a payload that is no list of requests counts as an
\* empty one.  (And an entry without a request_id as none.)
Fetched(p) ==
    /\ Goes(p, "fetching", "next")
    /\ \E junk \in SUBSET {Garbled} :
         todo' = [todo EXCEPT ![p] = {r \in Requests : request[r] = "open"} \cup junk]
    /\ UNCHANGED <<request, report, current, lifecycle, past>>

\* Fault: the exception of a failed poll ends the thread.
FetchEnds(p) ==
    /\ Goes(p, "fetching", "ended")
    /\ UNCHANGED <<request, report, todo, current, lifecycle, past>>

FetchFailed(p) ==
    /\ Goes(p, "fetching", "waiting")
    /\ UNCHANGED <<request, report, todo, current, lifecycle, past>>

RoundOver(p) ==
    /\ todo[p] = {} /\ Goes(p, "next", "waiting")
    /\ UNCHANGED <<request, report, todo, current, lifecycle, past>>

\* An entry that is no dict raises outside the try, and the thread ends.
EntryRaises(p) ==
    /\ Garbled \in todo[p] /\ Goes(p, "next", "ended")
    /\ past' = past \cup {Ended}
    /\ UNCHANGED <<request, report, todo, current, lifecycle>>

NextRequest(p) ==
    \E r \in todo[p] \ {Garbled} :
        /\ Goes(p, "next", "reporting")
        /\ todo' = [todo EXCEPT ![p] = @ \ {r}]
        /\ current' = [current EXCEPT ![p] = r]
        /\ UNCHANGED <<request, report, lifecycle, past>>

Queued == IF ProcessorRuns THEN "out" ELSE "stranded"

\* Fault: what emit_dependency_health_report returns is ignored.
ReportUnasked(p) ==
    \E queued \in BOOLEAN :
        /\ Goes(p, "reporting", "acking")
        /\ report' = IF queued THEN [report EXCEPT ![current[p]] = Queued] ELSE report
        /\ UNCHANGED <<request, todo, current, lifecycle, past>>

\* emit_dependency_health_report: it looks everything up, which takes as long as it
\* likes, and hands the report to send_event, which may not take it: because of the
\* sampling rate, the hook or the queue.  It raises nothing.
Report(p) ==
    \E queued \in BOOLEAN :
        /\ Goes(p, "reporting", IF queued THEN "acking" ELSE "nacking")
        /\ report' = IF queued THEN [report EXCEPT ![current[p]] = Queued] ELSE report
        /\ UNCHANGED <<request, todo, current, lifecycle, past>>

\* acknowledge_dependency_scan_request(succeeded=True): whatever keeps the answer
\* from coming, a failure is acknowledged next.
Ack(p) ==
    \E stored, answered \in BOOLEAN :
        /\ answered => stored
        /\ Goes(p, "acking", IF answered THEN "next" ELSE "nacking")
        /\ request' = IF stored THEN [request EXCEPT ![current[p]] = "succeeded"] ELSE request
        /\ past' = IF stored /\ ~answered THEN past \cup {Lost(current[p])} ELSE past
        /\ current' = IF answered THEN [current EXCEPT ![p] = None] ELSE current
        /\ UNCHANGED <<report, todo, lifecycle>>

\* ... (succeeded=False): that it failed is only logged.
Nack(p, stored) ==
    /\ Goes(p, "nacking", "next")
    /\ request' = IF stored THEN [request EXCEPT ![current[p]] = "failed"] ELSE request
    /\ current' = [current EXCEPT ![p] = None]
    /\ UNCHANGED <<report, todo, lifecycle, past>>

PollStep(p) ==
    \/ Wait(p) \/ Fetched(p) \/ FetchFailed(p)
    \/ RoundOver(p) \/ EntryRaises(p) \/ NextRequest(p)
    \/ Report(p) \/ Ack(p) \/ \E stored \in BOOLEAN : Nack(p, stored)

-----------------------------------------------------------------------------
(* start() and stop() of the client *)

Start ==                            \* the processor first
    /\ control \in {"idle", "stopped"} /\ starts < MaxStarts
    /\ control' = "starting" /\ starts' = starts + 1
    /\ report' = [r \in Requests |-> IF report[r] = "stranded" THEN "out" ELSE report[r]]
    /\ UNCHANGED <<request, threadVars, scanner, scanStop, past>>

\* Fault: a poller that lives is no reason not to start one.
StartScanAlways ==
    /\ control = "starting" /\ control' = "idle" /\ scanStop' = FALSE
    /\ Goes(starts, "off", "waiting") /\ scanner' = starts
    /\ UNCHANGED <<request, report, todo, current, starts, past>>

\* _start_dependency_scan_request_polling
StartScan ==
    /\ control = "starting" /\ control' = "idle"
    /\ IF \E p \in Pollers : p = scanner /\ Live(p)
       THEN UNCHANGED <<poller, scanner, scanStop>>
       ELSE /\ scanStop' = FALSE
            /\ Goes(starts, "off", "waiting") /\ scanner' = starts
    /\ UNCHANGED <<request, report, todo, current, starts, past>>

Stop ==                             \* _scan_request_stop.set()
    /\ control = "idle" /\ control' = "joining" /\ scanStop' = TRUE
    /\ UNCHANGED <<request, report, threadVars, scanner, starts, past>>

\* join(timeout=3): a poller that waits ends at once, one that works may not.
Join ==
    /\ control = "joining" /\ control' = "stopping" /\ scanner' = None
    /\ \A p \in Pollers : p = scanner => poller[p] # "waiting"
    /\ past' = IF \E p \in Pollers : p = scanner /\ Live(p) THEN past \cup {Slow} ELSE past
    /\ UNCHANGED <<request, report, threadVars, scanStop, starts>>

StopProcessor ==                    \* comes last
    /\ control = "stopping" /\ control' = "stopped"
    /\ UNCHANGED <<request, report, threadVars, scanner, scanStop, starts, past>>

-----------------------------------------------------------------------------
Next ==
    \/ \E r \in Requests : Ask(r)
    \/ \E p \in Pollers : PollStep(p)
    \/ Start \/ StartScan \/ Stop \/ Join \/ StopProcessor

Spec == Init /\ [][Next]_vars

\* Threads run and requests to the platform end; of polls and acknowledgements made for
\* ever some go through.
FairSpec ==
    /\ Spec /\ WF_vars(StartScan) /\ WF_vars(Join) /\ WF_vars(StopProcessor)
    /\ \A p \in Pollers :
         WF_vars(PollStep(p)) /\ SF_vars(Fetched(p)) /\ SF_vars(Nack(p, TRUE))

-----------------------------------------------------------------------------
(* Properties *)

\* client.py:1619: what is acknowledged with "Dependency health report emitted by SDK."
\* was: its report is in the queue or past it, and the processor is there to take it,
\* although poller and stop() go at their own speed.  (A poller that stop() gave up on
\* may report into a queue that nobody empties.)
SucceededIsReported ==
    \A r \in Requests : request[r] = "succeeded" =>
        report[r] = "out" \/ (report[r] = "stranded" /\ Slow \in past)

\* A verdict stands: the failure that follows when something goes wrong never takes back
\* a success the platform has confirmed, nor does a second poller decide a request again,
\* however stops, starts and rounds follow each other.  (A success whose answer was lost
\* is taken back, and a poller that stop() gave up on may meet its successor.)
VerdictStands ==
    [][\A r \in Requests :
          (request[r] \in Verdicts /\ Lost(r) \notin past /\ Slow \notin past)
              => request'[r] = request[r]]_vars

\* README.md:631-634: a request an operator made is picked up and answered, although
\* single polls and acknowledgements fail and pollers come and go, as long as the client
\* is not stopped and the platform's lists are sound.
RequestAnswered ==
    \A r \in Requests :
        request[r] = "open" ~> (request[r] \in Verdicts \/ scanStop \/ Ended \in past)
=============================================================================
