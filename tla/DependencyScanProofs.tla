------------------------ MODULE DependencyScanProofs ------------------------
(***************************************************************************)
(* For any number of requests and of starts: a success is told only of a   *)
(* report that was made, and a verdict stands.                             *)
(*                                                                         *)
(* Both rest on there being one poll thread as long as stop() has given up *)
(* on none: then nobody but the poller that has a request in its list or   *)
(* in hand decides it, so it is still open.                                *)
(***************************************************************************)
EXTENDS DependencyScan, TLAPS

InHand == {"reporting", "acking", "nacking"}

ScanTypes ==
    /\ request \in [Requests -> {"unmade", "open"} \cup Verdicts]
    /\ report \in [Requests -> {"none", "out", "stranded"}]
    /\ poller \in [Pollers -> {"off", "waiting", "ended"} \cup Working]
    /\ todo \in [Pollers -> SUBSET (Requests \cup {Garbled})]
    /\ current \in [Pollers -> Requests \cup {None}]
    /\ scanner \in Pollers \cup {None}
    /\ control \in {"starting", "idle", "joining", "stopping", "stopped"}
    /\ starts \in Pollers

HasRequest == \A p \in Pollers : poller[p] \in InHand <=> current[p] # None

\* As long as stop() gave up on none, the poller that lives is the one the client knows;
\* and while the processor does not run the client knows none.
OnePoller ==
    /\ Slow \in past \/ \A p \in Pollers : Live(p) => p = scanner
    /\ control \in {"stopping", "stopped"} => scanner = None

\* What is about to be acknowledged, or was, has a report.
Reported ==
    /\ \A p \in Pollers : poller[p] = "acking" => report[current[p]] # "none"
    /\ \A r \in Requests : request[r] = "succeeded" => report[r] # "none"
    /\ \A r \in Requests : report[r] = "stranded" => Slow \in past

\* What a poller has in its list, or in hand, nobody has decided.
Undecided ==
    Slow \in past \/
    \A p \in Pollers :
        /\ poller[p] \in InHand \cup {"next"} =>
              \A r \in todo[p] \ {Garbled} : request[r] = "open" /\ r # current[p]
        /\ poller[p] \in {"reporting", "acking"} => request[current[p]] = "open"
        /\ poller[p] = "nacking" => request[current[p]] = "open" \/ Lost(current[p]) \in past

ScanInv == ScanTypes /\ HasRequest /\ OnePoller /\ Reported /\ Undecided

-----------------------------------------------------------------------------
LEMMA InitScanInv == Init => ScanInv
<1> SUFFICES ASSUME Init PROVE ScanInv
  OBVIOUS
<1>1. ScanTypes
  BY ScanAssumption DEF Init, ScanTypes, Pollers, Verdicts, Working
<1>2. HasRequest /\ OnePoller /\ Reported /\ Undecided
  BY DEF Init, HasRequest, OnePoller, Reported, Undecided, InHand, Live, Working, Pollers
<1> QED
  BY <1>1, <1>2 DEF ScanInv

LEMMA Distinct ==
    /\ None \notin Requests /\ Garbled \notin Requests /\ None \notin Pollers
    /\ \A r \in Requests : Slow # Lost(r) /\ Ended # Slow /\ Ended # Lost(r)
BY ScanAssumption DEF Slow, Ended, Lost, Pollers

-----------------------------------------------------------------------------
(* What a step of a poll thread preserves *)

LEMMA PollTypes ==
    ASSUME ScanTypes, HasRequest, NEW p \in Pollers, PollStep(p)
    PROVE  ScanTypes' /\ HasRequest'
<1> USE Distinct DEF ScanTypes, HasRequest, Goes, lifecycle, InHand, Working, Verdicts
<1>1. CASE Wait(p)
  BY <1>1 DEF Wait
<1>2. CASE Fetched(p)
  BY <1>2 DEF Fetched
<1>3. CASE FetchFailed(p) \/ RoundOver(p) \/ EntryRaises(p)
  BY <1>3 DEF FetchFailed, RoundOver, EntryRaises
<1>4. CASE NextRequest(p)
  BY <1>4 DEF NextRequest
<1>5. CASE Report(p)
  BY <1>5 DEF Report, Queued
<1>6. CASE Ack(p)
  BY <1>6 DEF Ack
<1>7. CASE \E stored \in BOOLEAN : Nack(p, stored)
  BY <1>7 DEF Nack
<1> QED
  BY <1>1, <1>2, <1>3, <1>4, <1>5, <1>6, <1>7 DEF PollStep

\* A step of a poll thread is that of a live one and starts none.
LEMMA PollOnePoller ==
    ASSUME ScanTypes, OnePoller, NEW p \in Pollers, PollStep(p)
    PROVE  /\ OnePoller' /\ Live(p) /\ (Slow \in past' <=> Slow \in past)
           /\ Slow \notin past => \A q \in Pollers : Live(q)' => q = p
<1>1. Live(p) /\ \A q \in Pollers : Live(q)' => Live(q)
  BY DEF PollStep, ScanTypes, Live, Working, Goes, Wait, Fetched, FetchFailed, RoundOver,
         EntryRaises, NextRequest, Report, Ack, Nack
<1>2. UNCHANGED <<scanner, control>>
  BY DEF PollStep, lifecycle, Wait, Fetched, FetchFailed, RoundOver, EntryRaises,
         NextRequest, Report, Ack, Nack
<1>3. past' = past \/ past' = past \cup {Ended} \/ \E r : past' = past \cup {Lost(r)}
  BY DEF PollStep, Wait, Fetched, FetchFailed, RoundOver, EntryRaises, NextRequest, Report,
         Ack, Nack
<1>4. Slow \in past' <=> Slow \in past
  BY <1>3 DEF Slow, Ended, Lost
<1> QED
  BY <1>1, <1>2, <1>4 DEF OnePoller

\* A report is stranded only by a poller that stop() gave up on.
LEMMA PollReported ==
    ASSUME ScanInv, NEW p \in Pollers, PollStep(p)
    PROVE  Reported'
<1> USE DEF ScanInv, ScanTypes, HasRequest, Reported, Goes, InHand
<1>0. OnePoller' /\ Live(p) /\ (Slow \in past' <=> Slow \in past)
  BY PollOnePoller
<1>1. CASE Wait(p) \/ Fetched(p) \/ FetchFailed(p) \/ RoundOver(p) \/ EntryRaises(p)
  BY <1>0, <1>1 DEF Wait, Fetched, FetchFailed, RoundOver, EntryRaises
<1>2. CASE NextRequest(p)
  BY <1>0, <1>2 DEF NextRequest
<1>3. CASE Report(p)
  <2>1. current[p] \in Requests /\ poller[p] = "reporting"
    BY <1>3 DEF Report
  <2>2. Queued = "stranded" => Slow \in past
    BY <1>0, Distinct DEF Queued, ProcessorRuns, OnePoller
  <2>3. Queued \in {"out", "stranded"}
    BY DEF Queued
  <2> QED
    BY <1>0, <1>3, <2>1, <2>2, <2>3 DEF Report
<1>4. CASE Ack(p)
  BY <1>0, <1>4 DEF Ack
<1>5. CASE \E stored \in BOOLEAN : Nack(p, stored)
  BY <1>0, <1>5 DEF Nack
<1> QED
  BY <1>1, <1>2, <1>3, <1>4, <1>5 DEF PollStep

LEMMA PollUndecided ==
    ASSUME ScanInv, NEW p \in Pollers, PollStep(p)
    PROVE  Undecided'
<1> DEFINE Safe(q) ==
      /\ poller[q] \in InHand \cup {"next"} =>
            \A r \in todo[q] \ {Garbled} : request[r] = "open" /\ r # current[q]
      /\ poller[q] \in {"reporting", "acking"} => request[current[q]] = "open"
      /\ poller[q] = "nacking" => request[current[q]] = "open" \/ Lost(current[q]) \in past
<1> SUFFICES ASSUME Slow \notin past' PROVE Safe(p)'
  <2>1. Slow \notin past' => \A q \in Pollers : Live(q)' => q = p
    BY PollOnePoller DEF ScanInv
  <2>2. Slow \notin past' => \A q \in Pollers : q # p => Safe(q)'
    BY <2>1 DEF Live, Working, InHand
  <2> QED
    BY <2>2 DEF Undecided
<1>0. Slow \notin past /\ Safe(p)
  BY PollOnePoller DEF ScanInv, Undecided
<1> USE <1>0, Distinct DEF ScanInv, ScanTypes, HasRequest, InHand, Goes, Lost
<1>1. CASE Wait(p) \/ FetchFailed(p) \/ RoundOver(p) \/ EntryRaises(p)
  BY <1>1 DEF Wait, FetchFailed, RoundOver, EntryRaises
<1>2. CASE Fetched(p)
  <2>1. poller[p]' = "next" /\ current[p]' = None /\ UNCHANGED request
    BY <1>2 DEF Fetched
  <2>2. \A r \in todo[p]' \ {Garbled} : r \in Requests /\ request[r] = "open"
    BY <1>2 DEF Fetched
  <2> QED
    BY <2>1, <2>2
<1>3. CASE NextRequest(p)
  BY <1>3 DEF NextRequest
<1>4. CASE Report(p)
  <2>1. UNCHANGED <<request, todo, current>> /\ poller[p] = "reporting"
    BY <1>4 DEF Report
  <2>2. request[current[p]] = "open"
        /\ \A r \in todo[p] \ {Garbled} : request[r] = "open" /\ r # current[p]
    BY <2>1
  <2> QED
    BY <2>1, <2>2
<1>5. CASE Ack(p)
  BY <1>5 DEF Ack
<1>6. CASE \E stored \in BOOLEAN : Nack(p, stored)
  BY <1>6 DEF Nack
<1> QED
  BY <1>1, <1>2, <1>3, <1>4, <1>5, <1>6 DEF PollStep

-----------------------------------------------------------------------------
(* What the application's and the operator's steps preserve *)

AppStep == Start \/ StartScan \/ Stop \/ Join \/ StopProcessor

LEMMA AskScanInv == ASSUME ScanInv, NEW r \in Requests, Ask(r) PROVE ScanInv'
<1> USE DEF Ask, ScanInv, threadVars, lifecycle
<1>1. ScanTypes'
  BY DEF ScanTypes
<1>2. HasRequest' /\ OnePoller'
  BY DEF HasRequest, OnePoller, Live
<1>3. Reported'
  BY DEF Reported, ScanTypes
<1>4. Undecided'
  BY DEF Undecided, ScanTypes
<1> QED
  BY <1>1, <1>2, <1>3, <1>4

LEMMA AppScanInv == ASSUME ScanInv, AppStep PROVE ScanInv'
<1> USE DEF ScanInv
<1>1. CASE Start
  <2>1. starts + 1 \in Pollers /\ starts \in Pollers
    BY <1>1, ScanAssumption DEF Start, ScanTypes, Pollers
  <2>2. ScanTypes'
    BY <1>1, <2>1 DEF Start, ScanTypes, threadVars
  <2>3. HasRequest' /\ OnePoller' /\ Undecided'
    BY <1>1 DEF Start, HasRequest, OnePoller, Undecided, Live, threadVars
  <2>4. Reported'
    BY <1>1 DEF Start, Reported, threadVars, ScanTypes, HasRequest, InHand
  <2> QED
    BY <2>2, <2>3, <2>4
<1>2. CASE StartScan
  <2>1. ScanTypes' /\ HasRequest'
    BY <1>2, Distinct DEF StartScan, ScanTypes, HasRequest, Goes, InHand
  <2>2. OnePoller'
    BY <1>2 DEF StartScan, OnePoller, ScanTypes, Goes, Live, Working
  <2>3. Reported' /\ Undecided'
    BY <1>2 DEF StartScan, Reported, Undecided, ScanTypes, Goes, InHand
  <2> QED
    BY <2>1, <2>2, <2>3
<1>3. CASE Stop
  BY <1>3 DEF Stop, ScanTypes, HasRequest, OnePoller, Reported, Undecided, Live, threadVars
<1>4. CASE Join
  <2>1. Slow \in past => Slow \in past'
    BY <1>4 DEF Join
  <2>2. ScanTypes' /\ HasRequest'
    BY <1>4 DEF Join, ScanTypes, HasRequest, threadVars
  <2>3. OnePoller'
    BY <1>4 DEF Join, OnePoller, Live, Working, threadVars
  <2>4. Reported'
    BY <1>4, <2>1 DEF Join, Reported, threadVars
  <2>5. Undecided'
    BY <1>4, <2>1 DEF Join, Undecided, threadVars
  <2> QED
    BY <2>2, <2>3, <2>4, <2>5
<1>5. CASE StopProcessor
  BY <1>5 DEF StopProcessor, ScanTypes, HasRequest, OnePoller, Reported, Undecided, Live,
              threadVars
<1> QED
  BY <1>1, <1>2, <1>3, <1>4, <1>5 DEF AppStep

LEMMA NextScanInv == ASSUME ScanInv, [Next]_vars PROVE ScanInv'
<1>1. CASE \E r \in Requests : Ask(r)
  BY <1>1, AskScanInv
<1>2. CASE \E p \in Pollers : PollStep(p)
  BY <1>2, PollTypes, PollOnePoller, PollReported, PollUndecided DEF ScanInv
<1>3. CASE AppStep
  BY <1>3, AppScanInv
<1>4. CASE UNCHANGED vars
  BY <1>4 DEF vars, threadVars, lifecycle, ScanInv, ScanTypes, HasRequest, OnePoller,
              Reported, Undecided, Live
<1> QED
  BY <1>1, <1>2, <1>3, <1>4 DEF Next, AppStep

-----------------------------------------------------------------------------
(* The theorems *)

\* The invariant holds in every state.
THEOREM ScanInvariant == Spec => []ScanInv
<1>1. Init => ScanInv
  BY InitScanInv
<1>2. ScanInv /\ [Next]_vars => ScanInv'
  BY NextScanInv
<1> QED
  BY <1>1, <1>2, PTL DEF Spec

\* A success is told only of a report that was made, and that the processor takes unless
\* stop() gave up on its poller (client.py:1611-1621).
THEOREM SuccessIsReported == Spec => []SucceededIsReported
<1>1. ScanInv => SucceededIsReported
  BY DEF ScanInv, Reported, ScanTypes, SucceededIsReported
<1> QED
  BY <1>1, ScanInvariant, PTL

\* No step takes a verdict back, unless the answer to a success was lost or stop() gave up
\* on a poller (client.py:1622-1632).
THEOREM VerdictsStand == Spec => VerdictStands
<1> DEFINE Stands == \A r \in Requests :
      (request[r] \in Verdicts /\ Lost(r) \notin past /\ Slow \notin past)
          => request'[r] = request[r]
<1>1. ASSUME ScanInv, [Next]_vars PROVE Stands
  <2> SUFFICES ASSUME NEW r \in Requests, request[r] \in Verdicts, Lost(r) \notin past,
                      Slow \notin past
               PROVE  request'[r] = request[r]
    OBVIOUS
  <2> USE <1>1 DEF ScanInv, ScanTypes
  <2>1. ASSUME NEW o \in Requests, Ask(o) PROVE request'[r] = request[r]
    BY <2>1 DEF Ask, Verdicts
  <2>2. ASSUME NEW p \in Pollers, PollStep(p) PROVE request'[r] = request[r]
    <3>1. CASE Ack(p)
      BY <3>1 DEF Ack, Goes, Undecided, Verdicts
    <3>2. CASE \E stored \in BOOLEAN : Nack(p, stored)
      BY <3>2 DEF Nack, Goes, Undecided, Verdicts
    <3> QED
      BY <2>2, <3>1, <3>2 DEF PollStep, Wait, Fetched, FetchFailed, RoundOver, EntryRaises,
         NextRequest, Report
  <2>3. CASE AppStep \/ UNCHANGED vars
    BY <2>3 DEF AppStep, vars, Start, StartScan, Stop, Join, StopProcessor
  <2> QED
    BY <2>1, <2>2, <2>3 DEF Next, AppStep
<1>2. ScanInv /\ [Next]_vars => [Stands]_vars
  BY <1>1
<1> QED
  BY <1>2, ScanInvariant, PTL DEF Spec, VerdictStands
=============================================================================
