--------------------------- MODULE RealtimeChannel ---------------------------
(***************************************************************************)
(* RealtimeChannel (realtime.py), from start() to stop(): the WebSocket    *)
(* thread that reconnects for ever, the polling threads that stand in while*)
(* the socket is down, and the thread that calls stop().                   *)
(*                                                                         *)
(* The server announces that something changed; on_update is then expected *)
(* to fetch it.  What matters of on_update is when it is called, so a call *)
(* is recorded as `seen`: the server's version at that moment.  A call may *)
(* take longer than a join waits.  websocket-client and the server are     *)
(* external.                                                               *)
(***************************************************************************)
EXTENDS Naturals, FiniteSets

CONSTANTS
    Pollers,        \* poll thread objects alive at the same time, at most
    None,           \* no thread
    MaxChanges      \* bound: changes the server announces

ASSUME ChannelAssumption ==
    /\ IsFiniteSet(Pollers) /\ None \notin Pollers
    /\ MaxChanges \in Nat

VARIABLES
    library,        \* whether websocket-client can be imported
    slow,           \* whether on_update may take longer than a join waits
    stop,           \* _stop_event
    connected,      \* _connected
    pollStop,       \* _poll_stop
    pollThread,     \* _poll_thread: a poller or None
    poller,         \* where each poll thread is
    app,            \* the WebSocketApp of this round: built, running, closing
    wpc, spc,       \* where the WebSocket thread and the caller of stop() are
    joining,        \* the thread each of the two waits for in _stop_polling
    notice,         \* the server sent a message that is still in the socket
    latest, seen,   \* the server's version; the last one on_update looked at
    calm            \* stop() was called while the socket was up (history)

threads == <<wpc, spc, joining, poller>>
flags == <<stop, connected, pollStop>>
given == <<library, slow>>
world == <<given, app, notice, latest, seen, calm>>
channelVars == <<threads, flags, pollThread, world>>

Gone == {"none", "exited"}
Alive(i) == poller[i] \notin Gone

ChannelInit ==
    /\ library \in BOOLEAN /\ slow \in BOOLEAN
    /\ stop = FALSE /\ connected = FALSE /\ pollStop = FALSE
    /\ pollThread = None /\ poller = [i \in Pollers |-> "none"]
    /\ app = "none" /\ wpc = "start" /\ spc = "running"
    /\ joining = [c \in {"ws", "stop"} |-> None]
    /\ notice = FALSE /\ latest = 0 /\ seen = 0 /\ calm = FALSE

-----------------------------------------------------------------------------
(* _run_with_reconnect *)

WsGo(from, to) == wpc = from /\ wpc' = to
\* A step of the WebSocket thread that moves nothing else but what is named.
WsKeeps == UNCHANGED <<spc, joining, poller>>

RunWithReconnect ==             \* start(); the import either works or not
    /\ WsGo("start", IF library THEN "loop" ELSE "pollTest")
    /\ WsKeeps /\ UNCHANGED <<flags, pollThread, world>>

LoopTest ==                     \* while not stop: build a WebSocketApp
    /\ WsGo("loop", IF stop THEN "done" ELSE "built")
    /\ app' = IF stop THEN app ELSE "built"
    /\ WsKeeps /\ UNCHANGED <<given, calm, flags, pollThread, notice, latest, seen>>

RunForever ==
    /\ WsGo("built", "dialing")
    /\ app' = "running"
    /\ WsKeeps /\ UNCHANGED <<given, calm, flags, pollThread, notice, latest, seen>>

\* Fault: the subscription's own message is not among the update messages.
DialUnannounced ==
    /\ WsGo("dialing", "opened")
    /\ WsKeeps /\ UNCHANGED <<flags, pollThread, world>>

\* The connection is made: the server subscribes us and says so, and on_open
\* runs: it sets _connected and then stops the polling.
DialSucceeds ==
    /\ WsGo("dialing", "opened")
    /\ notice' = TRUE
    /\ WsKeeps /\ UNCHANGED <<given, calm, flags, pollThread, app, latest, seen>>

OnOpen ==
    /\ WsGo("opened", "pollSet")
    /\ connected' = TRUE
    /\ WsKeeps /\ UNCHANGED <<stop, pollStop, pollThread, world>>

\* No connection, or the end of one: on_close, and run_forever returns.
Closed(from) ==
    /\ WsGo(from, "returned")
    /\ connected' = FALSE
    /\ app' = "ended" /\ notice' = FALSE
    /\ WsKeeps /\ UNCHANGED <<given, calm, stop, pollStop, pollThread, latest, seen>>

DialFails == Closed("dialing")
Dropped == Closed("listening")
CloseSeen == app = "closing" /\ Closed("listening")

OnMessage ==                    \* an update message: call on_update
    /\ notice /\ WsGo("listening", "updating")
    /\ notice' = FALSE /\ seen' = latest
    /\ WsKeeps /\ UNCHANGED <<given, calm, flags, pollThread, app, latest>>

OnMessageDone ==
    /\ WsGo("updating", "listening")
    /\ WsKeeps /\ UNCHANGED <<flags, pollThread, world>>

Returned ==                     \* if stop: break; otherwise poll meanwhile
    /\ WsGo("returned", IF stop THEN "done" ELSE "pollTest")
    /\ WsKeeps /\ UNCHANGED <<flags, pollThread, world>>

BackoffOver ==                  \* _stop_event.wait(backoff), either way
    /\ WsGo("backoff", "loop")
    /\ WsKeeps /\ UNCHANGED <<flags, pollThread, world>>

-----------------------------------------------------------------------------
(* _start_polling, on the WebSocket thread *)

AfterPolling == IF library THEN "backoff" ELSE "done"

PollTest ==                     \* one is alive already: return
    /\ WsGo("pollTest", IF pollThread # None /\ Alive(pollThread)
                          THEN AfterPolling ELSE "pollClear")
    /\ WsKeeps /\ UNCHANGED <<flags, pollThread, world>>

\* Fault: the order to stop stays in force.
PollNotCleared ==
    /\ WsGo("pollClear", "spawn")
    /\ WsKeeps /\ UNCHANGED <<flags, pollThread, world>>

PollClear ==
    /\ WsGo("pollClear", "spawn")
    /\ pollStop' = FALSE
    /\ WsKeeps /\ UNCHANGED <<stop, connected, pollThread, world>>

Spawn ==
    /\ WsGo("spawn", AfterPolling)
    /\ \E i \in {i \in Pollers : ~Alive(i)} :
         poller' = [poller EXCEPT ![i] = "waiting"] /\ pollThread' = i
    /\ UNCHANGED <<spc, joining, flags, world>>

-----------------------------------------------------------------------------
(* The loop of a poll thread *)

PollMoves(i, from, to) == poller[i] = from /\ poller' = [poller EXCEPT ![i] = to]

PollStopped(i) ==               \* _poll_stop.wait(15) returns True
    /\ pollStop /\ PollMoves(i, "waiting", "exited")
    /\ UNCHANGED <<wpc, spc, joining, flags, pollThread, world>>

PollTimeout(i) ==
    /\ ~pollStop /\ PollMoves(i, "waiting", "deciding")
    /\ UNCHANGED <<wpc, spc, joining, flags, pollThread, world>>

PollReconnected(i) ==           \* the socket is back: return
    /\ connected /\ PollMoves(i, "deciding", "exited")
    /\ UNCHANGED <<wpc, spc, joining, flags, pollThread, world>>

PollUpdate(i) ==                \* on_update
    /\ ~connected /\ PollMoves(i, "deciding", "updating")
    /\ seen' = latest
    /\ UNCHANGED <<given, calm, wpc, spc, joining, flags, pollThread, app, notice,
                   latest>>

PollUpdated(i) ==
    /\ PollMoves(i, "updating", "waiting")
    /\ UNCHANGED <<wpc, spc, joining, flags, pollThread, world>>

-----------------------------------------------------------------------------
(* _stop_polling, called by on_open on the WebSocket thread ("ws") and by    *)
(* stop() ("stop").  At(c) is where the caller is, and afterwards on_open    *)
(* listens to the socket and stop() goes on to close it.                     *)

At(c) == IF c = "ws" THEN wpc ELSE spc
Go(c, from, to) ==
    /\ At(c) = from
    /\ IF c = "ws" THEN wpc' = to /\ UNCHANGED spc ELSE spc' = to /\ UNCHANGED wpc
After(c) == IF c = "ws" THEN "listening" ELSE "close"

PollSet(c) ==
    /\ Go(c, "pollSet", "pollRef")
    /\ pollStop' = TRUE
    /\ UNCHANGED <<joining, poller, stop, connected, pollThread, world>>

PollRef(c) ==                   \* if self._poll_thread is not None
    /\ Go(c, "pollRef", IF pollThread = None THEN After(c) ELSE "pollBind")
    /\ UNCHANGED <<joining, poller, flags, pollThread, world>>

\* self._poll_thread.join: the attribute is read a second time.  If the other
\* caller has reset it meanwhile, None has no join.  websocket-client catches
\* what on_open raises; stop() lets it escape.
PollBind(c) ==
    /\ Go(c, "pollBind", IF pollThread # None THEN "pollJoin"
                         ELSE IF c = "ws" THEN "listening" ELSE "raised")
    /\ joining' = [joining EXCEPT ![c] = pollThread]
    /\ UNCHANGED <<poller, flags, pollThread, world>>

\* join(timeout=3): it is over, or busy in an on_update that takes longer; the
\* bound on Pollers shows here, as long as it is the last one it is waited for.
PollJoin(c) ==
    /\ Go(c, "pollJoin", "pollReset")
    /\ \/ ~Alive(joining[c])
       \/ /\ slow /\ poller[joining[c]] = "updating"
          /\ \E i \in Pollers : ~Alive(i)
    /\ joining' = [joining EXCEPT ![c] = None]
    /\ UNCHANGED <<poller, flags, pollThread, world>>

PollReset(c) ==
    /\ Go(c, "pollReset", After(c))
    /\ pollThread' = None
    /\ UNCHANGED <<joining, poller, flags, world>>

StopPolling(c) == PollSet(c) \/ PollRef(c) \/ PollBind(c) \/ PollJoin(c) \/ PollReset(c)

-----------------------------------------------------------------------------
(* stop() *)

StopBegin ==
    /\ spc = "running" /\ wpc # "start" /\ spc' = "pollSet"
    /\ stop' = TRUE /\ calm' = (wpc \in {"listening", "updating"})
    /\ UNCHANGED <<wpc, joining, poller, connected, pollStop, pollThread, given, app,
                   notice, latest, seen>>

\* Fault: a socket is closed only once it is known to be connected no more.
CloseWsLater ==
    /\ spc = "close" /\ spc' = "joinWs"
    /\ app' = IF app = "running" /\ ~connected THEN "closing" ELSE app
    /\ UNCHANGED <<given, calm, wpc, joining, poller, flags, pollThread, notice,
                   latest, seen>>

\* WebSocketApp.close ends a running connection; an app that is only built
\* takes no notice, run_forever starts from scratch.
CloseWs ==
    /\ spc = "close" /\ spc' = "joinWs"
    /\ app' = IF app = "running" THEN "closing" ELSE app
    /\ UNCHANGED <<given, calm, wpc, joining, poller, flags, pollThread, notice,
                   latest, seen>>

\* join(timeout=5): over, or it waits on the network, a join or on_update.
JoinWs ==
    /\ spc = "joinWs" /\ spc' = "stopped"
    /\ wpc \in {"done", "dialing", "listening", "updating", "pollJoin"}
    /\ UNCHANGED <<wpc, joining, poller, flags, pollThread, world>>

-----------------------------------------------------------------------------
(* The server *)

Online == wpc \in {"opened", "pollSet", "pollRef", "pollBind", "pollJoin",
                   "pollReset", "listening", "updating"}

Change ==
    /\ latest < MaxChanges /\ latest' = latest + 1
    /\ notice' = (notice \/ Online)
    /\ UNCHANGED <<given, calm, threads, flags, pollThread, app, seen>>

-----------------------------------------------------------------------------
WsRuns ==
    \/ RunWithReconnect \/ LoopTest \/ RunForever \/ DialSucceeds \/ DialFails
    \/ OnOpen \/ CloseSeen \/ OnMessage \/ OnMessageDone \/ Returned
    \/ BackoffOver \/ PollTest \/ PollClear \/ Spawn \/ StopPolling("ws")
PollerRuns(i) ==
    \/ PollStopped(i) \/ PollTimeout(i) \/ PollReconnected(i)
    \/ PollUpdate(i) \/ PollUpdated(i)
StopRuns == StopPolling("stop") \/ CloseWs \/ JoinWs

ChannelNext ==
    \/ WsRuns \/ Dropped
    \/ \E i \in Pollers : PollerRuns(i)
    \/ StopBegin \/ StopRuns
    \/ Change

ChannelSpec == ChannelInit /\ [][ChannelNext]_channelVars

\* Fairness.  Threads are scheduled, a dial ends, close() ends a connection and
\* a message in the socket is read.  The backoff doubles to 60 s and is never
\* reset while a poller waits 15 s, so in a channel that keeps flapping some
\* poller's wait ends, and it decides, before the next dial: strong fairness.
\* Nothing makes the server change, a connection drop or anyone call stop().
ChannelFairSpec ==
    /\ ChannelSpec
    /\ WF_channelVars(WsRuns) /\ WF_channelVars(StopRuns)
    /\ \A i \in Pollers : WF_channelVars(PollerRuns(i))
    /\ SF_channelVars(\E i \in Pollers : PollTimeout(i))
    /\ SF_channelVars(\E i \in Pollers : PollUpdate(i))
    /\ SF_channelVars(OnMessage)

-----------------------------------------------------------------------------
(* Properties *)

\* While the channel runs and has no socket - it waits to dial again, or has no
\* library to dial with - a poll thread is there, and not about to leave: a
\* thread that was told to stop, or that took the socket for connected, is never
\* mistaken for one that polls.  And a reconnect ends the polling before the next
\* outage starts it again, as long as no on_update outlasts the join: realtime.py:27,
\* "a polling thread fires every 15 s".
PollingCoversOutage ==
    /\ (~stop /\ wpc \in {"backoff", "done"}) =>
          pollThread # None /\ Alive(pollThread) /\ ~pollStop
    /\ (~stop /\ ~slow) => Cardinality({i \in Pollers : Alive(i)}) <= 1

\* Every change on the server is followed by an on_update that can see it, in
\* whichever order the socket fails, reconnects and delivers, and with or
\* without the library.
ChangeNoticed ==
    \A v \in 1..MaxChanges : latest >= v ~> (seen >= v \/ stop)

\* realtime.py:86: stop() does "Shut down the WebSocket and any active polling thread."
\* Called while the socket is up it does, whatever drops or is slow meanwhile: it does
\* not fail, the socket it leaves will not run, and no poll thread is without an order
\* to stop.  (Called between two connections it may miss each of the three.)
StopEnds ==
    calm =>
        /\ spc # "raised"
        /\ spc = "stopped" => app \notin {"built", "running"}
        /\ (spc = "stopped" /\ wpc = "done") => \A i \in Pollers : Alive(i) => pollStop
=============================================================================
