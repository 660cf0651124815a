---------------------------- MODULE ProcessHooks ----------------------------
(***************************************************************************)
(* What the clients of one process change in the process they share: the   *)
(* request methods of requests and httpx (client.py, "instrumentation"),   *)
(* the handlers of the loggers and the hook for uncaught exceptions        *)
(* (log_capture.py).  A patched method is the sequence of the clients      *)
(* whose wrappers a call goes through, the library's own being <<>>.       *)
(***************************************************************************)
EXTENDS Naturals, Sequences, FiniteSets

CONSTANTS
    Clients,
    Loggers,        \* "root" among them
    Unset,
    MaxWrappers     \* bound: wrappers around one method

ASSUME HooksAssumption ==
    /\ "root" \in Loggers /\ MaxWrappers \in Nat
    /\ Clients \cap {Unset, "own", "python"} = {} /\ Unset \notin Seq(Clients)

VARIABLES
    method,         \* [requests, client, async]: the method as it is patched
    original,       \* Clients -> [requests, client, async]: what the client has saved
    instrumented,   \* Clients -> the libraries its flags name
    handlers,       \* Loggers -> the clients whose handler is there
    hook,           \* sys.excepthook and its like: a client, "own", or "python"
    installed,      \* Clients -> _installed
    asked,          \* Clients -> loggers the application wants captured (history)
    crossed         \* history: a client has put back a method it was not the outermost
                    \* wrapper of

patchVars == <<method, original, instrumented, crossed>>
logVars == <<handlers, hook, installed, asked>>
hooksVars == <<patchVars, logVars>>

Methods == {"requests", "client", "async"}
MethodsOf(lib) == IF lib = "requests" THEN {"requests"} ELSE {"client", "async"}

HooksInit ==
    /\ method = [m \in Methods |-> <<>>]
    /\ original = [c \in Clients |-> [m \in Methods |-> Unset]]
    /\ instrumented = [c \in Clients |-> {}]
    /\ handlers = [l \in Loggers |-> {}] /\ hook \in {"own", "python"}
    /\ installed = [c \in Clients |-> FALSE] /\ asked = [c \in Clients |-> {}]
    /\ crossed = FALSE

-----------------------------------------------------------------------------
(* Instrumentation *)

Enabled(c, lib) == lib \in instrumented[c]

\* The client keeps the method it finds and puts a wrapper around it; httpx.AsyncClient
\* only when asked to.
Enable(c, lib, async) ==
    LET touched == MethodsOf(lib) \ (IF async THEN {} ELSE {"async"})
    IN /\ ~Enabled(c, lib)
       /\ \A m \in touched : Len(method[m]) < MaxWrappers
       /\ original' = [original EXCEPT ![c] =
                         [m \in Methods |-> IF m \in touched THEN method[m] ELSE @[m]]]
       /\ method' = [m \in Methods |-> IF m \in touched THEN <<c>> \o method[m] ELSE method[m]]
       /\ instrumented' = [instrumented EXCEPT ![c] = @ \cup {lib}]
       /\ UNCHANGED <<logVars, crossed>>

\* Fault: of httpx only Client is put back.
RestoredSync(c, libs) ==
    [m \in Methods |->
        IF original[c][m] # Unset /\ m # "async" /\ \E lib \in libs : m \in MethodsOf(lib)
        THEN original[c][m] ELSE method[m]]

\* The methods once the client has put back those it has saved, of the libraries given.
Restored(c, libs) ==
    [m \in Methods |->
        IF original[c][m] # Unset /\ \E lib \in libs : m \in MethodsOf(lib) /\ Enabled(c, lib)
        THEN original[c][m] ELSE method[m]]

Forgotten(c, libs) ==
    [m \in Methods |->
        IF \E lib \in libs : m \in MethodsOf(lib) THEN Unset ELSE original[c][m]]

Crosses(c, libs) ==
    \E lib \in libs, m \in Methods :
        m \in MethodsOf(lib) /\ original[c][m] # Unset /\ Head(method[m]) # c

Disabled(c, libs) ==
    /\ crossed' = (crossed \/ Crosses(c, libs))
    /\ method' = Restored(c, libs)
    /\ original' = [original EXCEPT ![c] = Forgotten(c, libs)]
    /\ instrumented' = [instrumented EXCEPT ![c] = @ \ libs]

Disable(c, lib) == Enabled(c, lib) /\ Disabled(c, {lib}) /\ UNCHANGED logVars

-----------------------------------------------------------------------------
(* Log capture *)

\* start_capture does nothing at all while the capturer is installed.
Capturing(c, names) ==
    IF installed[c] THEN UNCHANGED <<handlers, hook, installed>>
    ELSE /\ handlers' = [l \in Loggers |->
                           IF l \in names THEN handlers[l] \cup {c} ELSE handlers[l]]
         /\ hook' = c /\ installed' = [installed EXCEPT ![c] = TRUE]

CaptureLogs(c, names) ==
    /\ Capturing(c, names)
    /\ asked' = [asked EXCEPT ![c] = @ \cup names]
    /\ UNCHANGED patchVars

\* stop_capture leaves the hook, and the capturer installed.
StopCapturing(c, names) ==
    /\ handlers' = [l \in Loggers |->
                      IF l \in names THEN handlers[l] \ {c} ELSE handlers[l]]
    /\ asked' = [asked EXCEPT ![c] = @ \ names]
    /\ UNCHANGED <<hook, installed, patchVars>>

\* Fault: the root logger is not in loggerDict.
LetGoNamed(c) == [l \in Loggers |-> IF l = "root" THEN handlers[l] ELSE handlers[l] \ {c}]

LetGo(c) == [l \in Loggers |-> handlers[l] \ {c}]

\* What stop() does to the process: stop_all, whatever was captured, then both disables.
StopClient(c) ==
    /\ handlers' = LetGo(c) /\ hook' = "python"
    /\ installed' = [installed EXCEPT ![c] = FALSE]
    /\ asked' = [asked EXCEPT ![c] = {}]
    /\ Disabled(c, {"requests", "httpx"})

HooksNext ==
    \E c \in Clients :
        \/ \E lib \in {"requests", "httpx"} :
              \/ \E async \in BOOLEAN : Enable(c, lib, async)
              \/ Disable(c, lib)
        \/ \E names \in SUBSET Loggers \ {{}} : CaptureLogs(c, names) \/ StopCapturing(c, names)
        \/ StopClient(c)

HooksSpec == HooksInit /\ [][HooksNext]_hooksVars

-----------------------------------------------------------------------------
(* Properties *)

Wrappings(c, m) == Cardinality({n \in DOMAIN method[m] : method[m][n] = c})

\* Whatever was enabled, disabled and stopped before, as long as the wrappers came off in
\* the reverse of the order they were put on: a call through an instrumented library is
\* reported once by each client that instruments it and by no other, so that no call
\* counts twice in the project's graph; and once no client does, the method is the
\* library's own again (client.py:622, "Restore original requests Session.request").
TrackedOnce ==
    ~crossed => \A c \in Clients :
        /\ \A lib \in {"requests", "httpx"} :
              Wrappings(c, IF lib = "httpx" THEN "client" ELSE lib)
                  = IF lib \in instrumented[c] THEN 1 ELSE 0
        /\ Wrappings(c, "async") <= Wrappings(c, "client")

\* No logger keeps the handler of a client that was not asked for it, or stopped, and no
\* crash is reported through a client that is not capturing.
OnlyAsked ==
    /\ \A l \in Loggers : \A c \in handlers[l] : l \in asked[c]
    /\ hook \in Clients => installed[hook]
=============================================================================
