-------------------------- MODULE GracefulShutdown --------------------------
(***************************************************************************)
(* The life of one API process around the shutdown handler of              *)
(* apps/api/src/main.ts: it boots, serves requests, and on a signal closes *)
(* the HTTP server, the Nest application, the database pool and the        *)
(* telemetry exporter in that order, each awaited, against a deadline.     *)
(*                                                                         *)
(* The handler is an async function, so one run of it exists per signal    *)
(* that starts one; only the flag shuttingDown keeps two from interleaving.*)
(* A database and an exporter are taken to be configured: the code skips   *)
(* the corresponding await otherwise.                                      *)
(***************************************************************************)
EXTENDS Naturals, FiniteSets

CONSTANTS
    Signals,     \* signals the process has a handler for
    Requests,    \* HTTP requests clients may send
    MaxSignals   \* bound: times each signal is sent

ASSUME ShutdownAssumption == MaxSignals \in Nat

VARIABLES
    process,       \* "booting", "up" or "exited"
    exitCode,      \* how the process ended
    handlers,      \* signals whose process.once listener is still registered
    sent,          \* how often each signal was sent
    shuttingDown,  \* the flag of main.ts
    stage,         \* what each signal's run of shutdown() awaits
    deadline,      \* signals whose run has its forceExit timer armed
    listening,     \* the HTTP server accepts connections
    request,       \* what became of each request
    dbOpen,        \* the connection pool answers queries
    dbCloses,      \* history: calls of dbClient.close()
    flushed,       \* the telemetry exporter was shut down
    timedOut       \* history: a forceExit timer fired

signalVars == <<handlers, sent, shuttingDown>>
resourceVars == <<dbOpen, dbCloses, flushed>>
vars == <<process, exitCode, signalVars, stage, deadline, listening, request,
          resourceVars, timedOut>>

Stages == {"none", "closingServer", "closingApp", "closingDb", "flushing"}
\* process.exit(0), process.exit(1), death by a signal, and the end that Node
\* comes to by itself when nothing is left to wait for, with status 0.
Codes == {"none", "success", "failure", "killed", "drained"}

\* An orphaned request is one whose client has left while its handler goes on;
\* it is abandoned when that handler has ended, too.
Fates == {"unsent", "inFlight", "answered", "refused", "cut", "orphaned",
          "abandoned"}

\* Requests with an open connection, and those whose handler runs.
InFlight == {r \in Requests : request[r] = "inFlight"}
Handled == {r \in Requests : request[r] \in {"inFlight", "orphaned"}}

Init ==
    /\ process = "booting"
    /\ exitCode = "none"
    /\ handlers = {}
    /\ sent = [s \in Signals |-> 0]
    /\ shuttingDown = FALSE
    /\ stage = [s \in Signals |-> "none"]
    /\ deadline = {}
    /\ listening = FALSE
    /\ request = [r \in Requests |-> "unsent"]
    /\ dbOpen = TRUE
    /\ dbCloses = 0
    /\ flushed = FALSE
    /\ timedOut = FALSE

\* The end of the process, however it comes: requests in flight are cut, and
\* the handlers that nobody waits for are lost with it.
Exit(code) ==
    /\ process' = "exited"
    /\ exitCode' = code
    /\ listening' = FALSE
    /\ request' = [r \in Requests |->
                      CASE request[r] = "inFlight" -> "cut"
                        [] request[r] = "orphaned" -> "abandoned"
                        [] OTHER -> request[r]]

-----------------------------------------------------------------------------
\* app.listen resolves and both process.once listeners are registered.
Boot ==
    /\ process = "booting"
    /\ process' = "up"
    /\ listening' = TRUE
    /\ handlers' = Signals
    /\ UNCHANGED <<exitCode, sent, shuttingDown, stage, deadline, request,
                   resourceVars, timedOut>>

\* A client connects: accepted while the server listens, refused otherwise.
Arrive(r) ==
    /\ process = "up"
    /\ request[r] = "unsent"
    /\ request' = [request EXCEPT ![r] =
                      IF listening THEN "inFlight" ELSE "refused"]
    /\ UNCHANGED <<process, exitCode, signalVars, stage, deadline, listening,
                   resourceVars, timedOut>>

Respond(r) ==
    /\ process = "up"
    /\ request[r] = "inFlight"
    /\ request' = [request EXCEPT ![r] = "answered"]
    /\ UNCHANGED <<process, exitCode, signalVars, stage, deadline, listening,
                   resourceVars, timedOut>>

\* The client disconnects. Its handler is not told and goes on ...
ClientLeaves(r) ==
    /\ process = "up"
    /\ request[r] = "inFlight"
    /\ request' = [request EXCEPT ![r] = "orphaned"]
    /\ UNCHANGED <<process, exitCode, signalVars, stage, deadline, listening,
                   resourceVars, timedOut>>

\* ... and ends some time later.
HandlerEnds(r) ==
    /\ process = "up"
    /\ request[r] = "orphaned"
    /\ request' = [request EXCEPT ![r] = "abandoned"]
    /\ UNCHANGED <<process, exitCode, signalVars, stage, deadline, listening,
                   resourceVars, timedOut>>

Send(s) ==
    /\ process # "exited"
    /\ sent[s] < MaxSignals
    /\ sent' = [sent EXCEPT ![s] = @ + 1]

\* No listener (still booting, or the once-listener has run): the default
\* disposition ends the process on the spot.
Killed(s) ==
    /\ Send(s)
    /\ s \notin handlers
    /\ Exit("killed")
    /\ UNCHANGED <<handlers, shuttingDown, stage, deadline, resourceVars,
                   timedOut>>

\* The listener runs and returns at once: a shutdown is under way.
Ignored(s) ==
    /\ Send(s)
    /\ s \in handlers
    /\ shuttingDown
    /\ handlers' = handlers \ {s}
    /\ UNCHANGED <<process, exitCode, shuttingDown, stage, deadline, listening,
                   request, resourceVars, timedOut>>

(* Definitions named ...Deviation are bugs this code could have. The       *)
(* specification never uses one: each is put in the place of the           *)
(* definition after it to see that a property notices.                     *)

\* Connections in flight are not waited for.
BeginDeviation1(s) ==
    /\ shuttingDown' = TRUE
    /\ deadline' = deadline \cup {s}
    /\ stage' = [stage EXCEPT ![s] = "closingApp"]
    /\ listening' = FALSE

\* No timer is armed.
BeginDeviation2(s) ==
    /\ shuttingDown' = TRUE
    /\ deadline' = deadline
    /\ stage' = [stage EXCEPT ![s] =
                    IF listening THEN "closingServer" ELSE "closingApp"]
    /\ listening' = FALSE

\* The listener starts a shutdown, up to its first await: the flag, the
\* timer, httpServer.close(). Closing a server that is not listening calls
\* back with an error, which is logged and treated like success.
Begin(s) ==
    /\ shuttingDown' = TRUE
    /\ deadline' = deadline \cup {s}
    /\ stage' = [stage EXCEPT ![s] =
                    IF listening THEN "closingServer" ELSE "closingApp"]
    /\ listening' = FALSE

\* The flag is not tested: a second signal starts a second run.
StartShutdownDeviation(s) ==
    /\ Send(s)
    /\ s \in handlers
    /\ handlers' = handlers \ {s}
    /\ Begin(s)
    /\ UNCHANGED <<process, exitCode, request, resourceVars, timedOut>>

StartShutdown(s) ==
    /\ Send(s)
    /\ s \in handlers
    /\ ~shuttingDown
    /\ handlers' = handlers \ {s}
    /\ Begin(s)
    /\ UNCHANGED <<process, exitCode, request, resourceVars, timedOut>>

\* close() is not awaited.
ServerClosedDeviation(s) ==
    /\ process = "up"
    /\ stage[s] = "closingServer"
    /\ stage' = [stage EXCEPT ![s] = "closingApp"]
    /\ UNCHANGED <<process, exitCode, signalVars, deadline, listening, request,
                   resourceVars, timedOut>>

\* The callback of httpServer.close(): the last connection has ended. The
\* server knows connections, not handlers, so orphaned ones may still run.
ServerClosed(s) ==
    /\ process = "up"
    /\ stage[s] = "closingServer"
    /\ InFlight = {}
    /\ stage' = [stage EXCEPT ![s] = "closingApp"]
    /\ UNCHANGED <<process, exitCode, signalVars, deadline, listening, request,
                   resourceVars, timedOut>>

\* app.close() resolves; dbClient.close() ends the pool from here on.
AppClosed(s) ==
    /\ process = "up"
    /\ stage[s] = "closingApp"
    /\ stage' = [stage EXCEPT ![s] = "closingDb"]
    /\ dbOpen' = FALSE
    /\ dbCloses' = dbCloses + 1
    /\ UNCHANGED <<process, exitCode, signalVars, deadline, listening, request,
                   flushed, timedOut>>

\* dbClient.close() resolves; observability.shutdown() is called.
DbClosed(s) ==
    /\ process = "up"
    /\ stage[s] = "closingDb"
    /\ stage' = [stage EXCEPT ![s] = "flushing"]
    /\ UNCHANGED <<process, exitCode, signalVars, deadline, listening, request,
                   resourceVars, timedOut>>

\* observability.shutdown() resolves: clearTimeout, process.exit(0).
Finished(s) ==
    /\ process = "up"
    /\ stage[s] = "flushing"
    /\ flushed' = TRUE
    /\ deadline' = deadline \ {s}
    /\ stage' = [stage EXCEPT ![s] = "none"]
    /\ Exit("success")
    /\ UNCHANGED <<signalVars, dbOpen, dbCloses, timedOut>>

\* One of the awaited calls rejects: clearTimeout, process.exit(1); what is
\* left of the sequence is not run.
StepFailed(s) ==
    /\ process = "up"
    /\ stage[s] \in {"closingApp", "closingDb", "flushing"}
    /\ deadline' = deadline \ {s}
    /\ stage' = [stage EXCEPT ![s] = "none"]
    /\ Exit("failure")
    /\ UNCHANGED <<signalVars, resourceVars, timedOut>>

\* SHUTDOWN_TIMEOUT_MS have passed since the signal.
ForceExit(s) ==
    /\ process = "up"
    /\ s \in deadline
    /\ deadline' = deadline \ {s}
    /\ timedOut' = TRUE
    /\ Exit("failure")
    /\ UNCHANGED <<signalVars, stage, resourceVars>>

\* The timer of the deadline is unref'd: it does not keep the process alive.
\* When the server is closed and the step that is awaited never settles and
\* holds nothing that does (no socket of the pool, no timer), the event loop
\* is empty and Node ends the process, with status 0.
Drained(s) ==
    /\ process = "up"
    /\ stage[s] \in {"closingApp", "closingDb", "flushing"}
    /\ InFlight = {}
    /\ Exit("drained")
    /\ UNCHANGED <<signalVars, stage, deadline, resourceVars, timedOut>>

Next ==
    \/ Boot
    \/ \E r \in Requests : Arrive(r)
    \/ \E r \in Requests : Respond(r)
    \/ \E r \in Requests : ClientLeaves(r)
    \/ \E r \in Requests : HandlerEnds(r)
    \/ \E s \in Signals : Killed(s)
    \/ \E s \in Signals : Ignored(s)
    \/ \E s \in Signals : StartShutdown(s)
    \/ \E s \in Signals : ServerClosed(s)
    \/ \E s \in Signals : AppClosed(s)
    \/ \E s \in Signals : DbClosed(s)
    \/ \E s \in Signals : Finished(s)
    \/ \E s \in Signals : StepFailed(s)
    \/ \E s \in Signals : ForceExit(s)
    \/ \E s \in Signals : Drained(s)

Spec == Init /\ [][Next]_vars

\* Time passes, so an armed timer fires. Neither clients nor the awaited
\* calls are assumed to make progress.
FairSpec == Spec /\ \A s \in Signals : WF_vars(ForceExit(s))

-----------------------------------------------------------------------------
(***************************************************************************)
(* Properties                                                              *)
(***************************************************************************)

\* Type invariant.
TypeOK ==
    /\ process \in {"booting", "up", "exited"}
    /\ exitCode \in Codes
    /\ handlers \subseteq Signals
    /\ sent \in [Signals -> 0 .. MaxSignals]
    /\ shuttingDown \in BOOLEAN
    /\ stage \in [Signals -> Stages]
    /\ deadline \subseteq Signals
    /\ listening \in BOOLEAN
    /\ request \in [Requests -> Fates]
    /\ dbOpen \in BOOLEAN
    /\ dbCloses \in Nat
    /\ flushed \in BOOLEAN
    /\ timedOut \in BOOLEAN

\* Exit status 0 is only reported when no connected client's request was cut,
\* whatever signals arrived meanwhile; and the run of shutdown() that reports
\* it has closed the pool and flushed the spans. (The process that ends by
\* itself at a step which never settles has status 0 as well, and may leave
\* both undone.)
CleanExit ==
    /\ exitCode \in {"success", "drained"} =>
           \A r \in Requests : request[r] \notin {"inFlight", "cut"}
    /\ exitCode = "success" => ~dbOpen /\ flushed

\* A handler that finds the database pool closed under it is one whose client
\* has left, and the pool is ended at most once, however the signals interleave
\* (a second pool.end() rejects, and would turn a clean shutdown into status 1).
PoolOutlivesRequests ==
    /\ \A r \in Handled : dbOpen \/ request[r] = "orphaned"
    /\ dbCloses <= 1

Cut == \E r \in Requests : request[r] = "cut"

\* The handler's own exits cut a connected client's request only after the
\* deadline: neither a completed run, nor a step that fails, nor an event loop
\* that is empty, nor a run started by the other signal ends the process under
\* a request. What is left is death by a signal that finds no listener.
CutIsExplained == Cut => timedOut \/ exitCode = "killed"

\* Once a shutdown has begun the process ends, even if a client never lets go
\* of its connection or a lifecycle hook never returns while something else
\* keeps the event loop busy.
ShutdownTerminates == shuttingDown ~> process = "exited"
=============================================================================
