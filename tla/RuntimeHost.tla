----------------------------- MODULE RuntimeHost -----------------------------
(***************************************************************************)
(* How a process hosts an application: RuntimeShutdown (runtime/shutdown.ts)*)
(* and ProcessShutdownHooks (runtime/shutdown-hooks.ts) as the Node adapter*)
(* (packages/node/src/index.ts) and the Bun adapter (adapters/bun.ts) put  *)
(* them together with serve() and the native server.                       *)
(*                                                                         *)
(* The application inside is the contract AppLifecycle, which Kernel is    *)
(* shown to implement: its phase and the executions under way.  The native *)
(* server is external: what it does between the adapter's calls is free.   *)
(***************************************************************************)
CONSTANTS
    Adapters,   \* those that may host the application, of "node" and "bun"
    Callers,    \* code that may call close() once each, and again when refused
    Leases      \* requests that may be executed

ASSUME AdaptersAssumption == Adapters \subseteq {"node", "bun"}

VARIABLES
    adapter,    \* the adapter that has created the application
    phase,      \* the application's phase
    work,       \* the requests it is executing
    drain,      \* the extensions' drain(): none, busy or done
    started,    \* RuntimeShutdown.#started
    closed,     \* RuntimeShutdown.#closed
    attempt,    \* where #close is; "none" when #closing is unset
    safe,       \* safeCleanupBoundaryReached of this attempt
    errors,     \* this attempt has collected an error
    resource,   \* resourceClosing of this attempt
    caller,     \* what became of each caller's close()
    hooksOn,    \* the SIGINT and SIGTERM handlers are installed
    disposed,   \* ProcessShutdownHooks.#disposed
    loop,       \* where the signal handler's retry loop is
    retryNeeds, \* what the retryAfter it awaits still waits for
    serve,      \* where serve() is
    server,     \* the adapter's server variable is set
    socket,     \* the native server
    closing     \* serverClosingPromise

appVars   == <<phase, work, drain>>
closeVars == <<started, closed, attempt, safe, errors, resource>>
hookVars  == <<hooksOn, disposed, loop, retryNeeds>>
serveVars == <<serve, server, socket, closing>>
hostVars  == <<appVars, closeVars, caller, hookVars, serveVars>>
vars == <<adapter, hostVars>>

App == INSTANCE AppLifecycle

-----------------------------------------------------------------------------
\* create() has initialized the application and installed the hooks, unless
\* its shutdownHooks option is false.
Init ==
    /\ adapter \in Adapters
    /\ phase = "open" /\ work = {} /\ drain = "none"
    /\ started = FALSE /\ closed = FALSE /\ attempt = "none"
    /\ safe = FALSE /\ errors = FALSE /\ resource = "resolved"
    /\ caller = [c \in Callers |-> "idle"]
    /\ hooksOn \in BOOLEAN /\ disposed = FALSE /\ loop = "idle" /\ retryNeeds = {}
    /\ serve = "idle" /\ server = FALSE /\ socket = "none" /\ closing = "none"

-----------------------------------------------------------------------------
(* The application                                                         *)

Admit(l) ==
    /\ socket \in {"listening", "closing"}
    /\ App!Admit(l)
    /\ UNCHANGED <<drain, closeVars, caller, hookVars, serveVars>>

Finish(l) ==
    /\ App!Finish(l)
    /\ retryNeeds' = IF work' = {} THEN retryNeeds \ {"idle"} ELSE retryNeeds
    /\ UNCHANGED <<drain, closeVars, caller, hooksOn, disposed, loop, serveVars>>

\* A drain that was rejected is started again by the next attempt.
DrainEnds(ok) ==
    /\ drain = "busy"
    /\ drain' = IF ok THEN "done" ELSE "none"
    /\ retryNeeds' = retryNeeds \ {"drain"}
    /\ UNCHANGED <<phase, work, closeVars, caller, hooksOn, disposed, loop, serveVars>>

-----------------------------------------------------------------------------
(* RuntimeShutdown.close()                                                 *)

\* serverClosingPromise resolves.
ServerClosed == closing' = "resolved" /\ resource' = "resolved" /\ server' = FALSE

\* Fault: a listen() under way is not waited for.
CloseListeningOnly ==
    IF closing = "none" /\ server
    THEN IF socket = "listening"
         THEN closing' = "native" /\ socket' = "closing" /\ resource' = "pending"
         ELSE closing' = "resolved" /\ resource' = "resolved" /\ UNCHANGED socket
    ELSE /\ resource' = IF closing = "native" THEN "pending" ELSE "resolved"
         /\ UNCHANGED <<closing, socket>>

\* beginServerClose: the promise is shared until it fails.  Node first waits
\* for a pending listen().
BeginServerClose ==
    IF closing = "none" /\ server
    THEN /\ resource' = "pending"
         /\ IF adapter = "node"
            THEN closing' = "awaitListen" /\ UNCHANGED socket
            ELSE closing' = "native" /\ socket' = "closing"
    ELSE /\ resource' = IF closing \in {"awaitListen", "native"} THEN "pending" ELSE "resolved"
         /\ UNCHANGED <<closing, socket>>

\* Fault: the signal handlers stay installed.
BeginAttemptHooked ==
    /\ started' = TRUE
    /\ attempt' = "application"
    /\ safe' = FALSE /\ errors' = FALSE
    /\ BeginServerClose
    /\ phase' = IF phase = "open" THEN "closing" ELSE phase
    /\ drain' \in IF phase # "closed" /\ drain = "none" THEN {"busy", "done"} ELSE {drain}
    /\ UNCHANGED <<work, closed, hooksOn, disposed>>

\* #close up to its first await: beginClose, which disposes the hooks and stops
\* the server, then closeApplication, which starts the drains that are not
\* still running.
BeginAttempt ==
    /\ started' = TRUE
    /\ attempt' = "application"
    /\ safe' = FALSE /\ errors' = FALSE
    /\ hooksOn' = FALSE /\ disposed' = TRUE
    /\ BeginServerClose
    /\ phase' = IF phase = "open" THEN "closing" ELSE phase
    /\ drain' \in IF phase # "closed" /\ drain = "none" THEN {"busy", "done"} ELSE {drain}
    /\ UNCHANGED <<work, closed>>

JoinAttempt ==
    UNCHANGED <<closeVars, hooksOn, disposed, appVars, socket, closing>>

\* A caller that finds everything closed is answered at once.
CallClose == IF attempt = "none" THEN BeginAttempt ELSE JoinAttempt

Close(c) ==
    /\ caller[c] \in {"idle", "rejected"}
    /\ IF closed
       THEN caller' = [caller EXCEPT ![c] = "resolved"] /\ JoinAttempt
       ELSE caller' = [caller EXCEPT ![c] = "waiting"] /\ CallClose
    /\ UNCHANGED <<loop, retryNeeds, serve, server>>

-----------------------------------------------------------------------------
(* The attempt                                                             *)

AttemptMoves == UNCHANGED <<drain, caller, hookVars, serveVars, started, closed, resource>>

AppReleases ==
    /\ attempt = "application" /\ drain # "busy"
    /\ App!Release
    /\ UNCHANGED <<attempt, safe, errors>> /\ AttemptMoves

\* closeApplication settles past the safe boundary, perhaps with the errors of
\* cleanup hooks; an application that had stopped before is closed at once.
AppCloses ==
    /\ attempt = "application" /\ phase \in {"releasing", "closed"}
    /\ phase' = "closed" /\ UNCHANGED work
    /\ attempt' = "resources"
    /\ safe' = TRUE
    /\ errors' \in IF phase = "releasing" THEN {errors, TRUE} ELSE {errors}
    /\ AttemptMoves

\* A timeout: ApplicationShutdownError before the safe boundary.
AppGivesUp ==
    /\ attempt = "application" /\ phase = "closing"
    /\ work # {} \/ drain = "busy"
    /\ attempt' = "resources"
    /\ errors' = TRUE
    /\ UNCHANGED <<phase, work, safe>> /\ AttemptMoves

\* Fault: the native server is always waited for.
ResourcesAlwaysAwaited == resource # "pending"

\* closeResources: the native server is waited for only past the boundary.
ResourcesReady == safe => resource # "pending"

\* Everything the attempt's promise answers, at once.
Answer(waiting, answer) ==
    caller' = [c \in Callers |-> IF caller[c] = waiting THEN answer ELSE caller[c]]

RetryNeeds == {n \in {"idle", "drain"} : IF n = "idle" THEN work # {} ELSE drain = "busy"}

\* Fault: the handler leaves the states of its loop.
LoopAnyAttempt ==
    /\ loop' = IF safe THEN "gaveUp" ELSE "retrying"
    /\ retryNeeds' = RetryNeeds

\* The signal handler retries only an unsafe failure, once retryAfter settles.
LoopAfterFailure ==
    IF loop # "closing" THEN UNCHANGED <<loop, retryNeeds>>
    ELSE IF safe THEN loop' = "gaveUp" /\ UNCHANGED retryNeeds
    ELSE loop' = "waiting" /\ retryNeeds' = RetryNeeds

AttemptFails ==
    /\ attempt' = "none"
    /\ Answer("waiting", "rejected")
    /\ LoopAfterFailure
    /\ UNCHANGED closed

AttemptSucceeds ==
    /\ attempt' = "none"
    /\ closed' = TRUE
    /\ Answer("waiting", "resolved")
    /\ loop' = IF loop = "closing" THEN "done" ELSE loop
    /\ UNCHANGED retryNeeds

\* Only Node has a devtools transport, whose closing may fail.
AttemptEnds ==
    /\ attempt = "resources"
    /\ ResourcesReady
    /\ \E transportFails \in (IF adapter = "node" THEN BOOLEAN ELSE {FALSE}) :
           IF errors \/ transportFails \/ (safe /\ resource = "rejected")
           THEN AttemptFails
           ELSE AttemptSucceeds
    /\ serve' = IF serve = "failing" THEN "rejected" ELSE serve
    /\ UNCHANGED <<appVars, started, safe, errors, resource, hooksOn, disposed,
                   server, socket, closing>>

-----------------------------------------------------------------------------
(* ProcessShutdownHooks                                                    *)

\* SIGINT or SIGTERM while the handlers are installed.
Signal ==
    /\ hooksOn /\ loop = "idle"
    /\ loop' = "closing"
    /\ CallClose
    /\ UNCHANGED <<caller, retryNeeds, serve, server>>

Retry ==
    /\ loop = "waiting" /\ retryNeeds = {}
    /\ IF closed
       THEN loop' = "done" /\ JoinAttempt
       ELSE loop' = "closing" /\ CallClose
    /\ UNCHANGED <<caller, retryNeeds, serve, server>>

-----------------------------------------------------------------------------
(* serve()                                                                 *)

\* Refused after shutdown has begun, and the second time.
MayServe == serve = "idle" /\ ~started

\* The shutdownHooks option of serve().
SetHooks == hooksOn' \in IF disposed THEN {hooksOn} ELSE BOOLEAN

\* serve() up to Node's listen(), which is asynchronous.
NodeServe ==
    /\ adapter = "node" /\ MayServe
    /\ SetHooks
    /\ serve' = "binding" /\ server' = TRUE /\ socket' = "binding"
    /\ UNCHANGED <<appVars, closeVars, caller, disposed, loop, retryNeeds, closing>>

\* The 'listening' or the 'error' event of the native server.
NodeBinds ==
    /\ socket = "binding"
    /\ socket' \in {"listening", "bindFailed"}
    /\ UNCHANGED <<appVars, closeVars, caller, hookVars, serve, server, closing>>

\* Fault: started is not looked at again after the await.
NodeServesRegardless ==
    /\ serve = "binding" /\ socket \notin {"binding", "bindFailed"}
    /\ serve' = "served"
    /\ UNCHANGED <<appVars, closeVars, caller, hookVars, server, socket, closing>>

\* serve() after the listen() it awaited; by now shutdown may have begun.
NodeServes ==
    /\ serve = "binding" /\ socket \notin {"binding", "bindFailed"}
    /\ ~started
    /\ serve' = "served"
    /\ UNCHANGED <<appVars, closeVars, caller, hookVars, server, socket, closing>>

\* The port is taken, and the next one may be tried.
NodeTriesNextPort ==
    /\ serve = "binding" /\ socket = "bindFailed"
    /\ ~started
    /\ socket' = "binding"
    /\ UNCHANGED <<appVars, closeVars, caller, hookVars, serve, server, closing>>

\* Whatever serve() throws, it closes everything first.
CloseAndThrow ==
    /\ IF closed
       THEN serve' = "rejected" /\ JoinAttempt
       ELSE serve' = "failing" /\ CallClose
    /\ UNCHANGED <<caller, loop, retryNeeds, server>>

NodeServeFails ==
    /\ serve = "binding" /\ socket # "binding"
    /\ started \/ socket = "bindFailed"
    /\ CloseAndThrow

\* Bun.serve() has bound a port when it returns: the whole of serve() is a step.
BunServe ==
    /\ adapter = "bun" /\ MayServe
    /\ SetHooks
    /\ serve' = "served" /\ server' = TRUE /\ socket' = "listening"
    /\ UNCHANGED <<appVars, closeVars, caller, disposed, loop, retryNeeds, closing>>

\* It is not available, or throws before it has bound a port (no address being free,
\* or an invalid option).
BunServeFails ==
    /\ adapter = "bun" /\ MayServe
    /\ CloseAndThrow

-----------------------------------------------------------------------------
(* The native server closes                                                *)

\* The continuation of beginServerClose after a pending listen().
ListenAwaited ==
    /\ closing = "awaitListen" /\ socket # "binding"
    /\ IF socket = "listening"
       THEN closing' = "native" /\ socket' = "closing" /\ UNCHANGED <<server, resource>>
       ELSE ServerClosed /\ UNCHANGED socket
    /\ UNCHANGED <<appVars, started, closed, attempt, safe, errors, caller, hookVars, serve>>

\* Faults: a native close that fails loses the server, or is never reported.
NativeClosesLosingServer(ok) ==
    /\ closing = "native"
    /\ closing' = IF ok THEN "resolved" ELSE "none"
    /\ resource' = IF ok THEN "resolved" ELSE "rejected"
    /\ server' = FALSE
    /\ socket' \in IF ok THEN {"closed"} ELSE {"listening", "closed"}
    /\ UNCHANGED <<appVars, started, closed, attempt, safe, errors, caller, hookVars, serve>>
NativeClosesSilently(ok) ==
    /\ closing = "native"
    /\ socket' = "closed"
    /\ IF ok THEN ServerClosed ELSE closing' = "none" /\ UNCHANGED <<resource, server>>
    /\ UNCHANGED <<appVars, started, closed, attempt, safe, errors, caller, hookVars, serve>>

\* The last connection has ended, or the native close reports an error: Node's
\* only when the server had stopped, Bun's with the server left as it may be.
NativeCloses(ok) ==
    /\ closing = "native"
    /\ IF ok
       THEN ServerClosed /\ socket' = "closed"
       ELSE /\ closing' = "none" /\ resource' = "rejected"
            /\ socket' \in IF adapter = "node" THEN {"closed"} ELSE {"listening", "closed"}
            /\ UNCHANGED server
    /\ UNCHANGED <<appVars, started, closed, attempt, safe, errors, caller, hookVars, serve>>

-----------------------------------------------------------------------------
AppNext ==
    \/ \E l \in Leases : Admit(l) \/ Finish(l)
    \/ \E ok \in BOOLEAN : DrainEnds(ok)

AttemptNext == AppReleases \/ AppCloses \/ AppGivesUp \/ AttemptEnds

ServeNext ==
    \/ NodeServe \/ NodeBinds \/ NodeServes \/ NodeTriesNextPort \/ NodeServeFails
    \/ BunServe \/ BunServeFails

NativeNext == ListenAwaited \/ \E ok \in BOOLEAN : NativeCloses(ok)

Next ==
    /\ \/ \E c \in Callers : Close(c)
       \/ Signal \/ Retry
       \/ AppNext \/ AttemptNext \/ ServeNext \/ NativeNext
    /\ UNCHANGED adapter

Spec == Init /\ [][Next]_vars

-----------------------------------------------------------------------------
(* Fairness.  The adapter's continuations run, the kernel's timeouts bound *)
(* closeApplication and the operating system answers listen().             *)
HostFairness ==
    /\ WF_hostVars(AttemptNext)
    /\ WF_hostVars(Retry)
    /\ WF_hostVars(NodeBinds)
    /\ WF_hostVars(NodeServes \/ NodeServeFails)
    /\ WF_hostVars(ListenAwaited)

FairSpec == Spec /\ HostFairness

\* What the peers may add: clients go away, requests end, and a drain that is
\* started again and again does not fail for ever.
PeerFairness ==
    /\ WF_hostVars(\E ok \in BOOLEAN : NativeCloses(ok))
    /\ \A l \in Leases : WF_hostVars(Finish(l))
    /\ SF_hostVars(DrainEnds(TRUE))

-----------------------------------------------------------------------------
(* Properties                                                              *)

TypeOK ==
    /\ adapter \in Adapters
    /\ phase \in {"open", "closing", "releasing", "closed"}
    /\ work \subseteq Leases
    /\ drain \in {"none", "busy", "done"}
    /\ started \in BOOLEAN /\ closed \in BOOLEAN
    /\ attempt \in {"none", "application", "resources"}
    /\ safe \in BOOLEAN /\ errors \in BOOLEAN
    /\ resource \in {"pending", "resolved", "rejected"}
    /\ caller \in [Callers -> {"idle", "waiting", "resolved", "rejected"}]
    /\ hooksOn \in BOOLEAN /\ disposed \in BOOLEAN
    /\ loop \in {"idle", "closing", "waiting", "done", "gaveUp"}
    /\ retryNeeds \subseteq {"idle", "drain"}
    /\ serve \in {"idle", "binding", "served", "failing", "rejected"}
    /\ server \in BOOLEAN
    /\ socket \in {"none", "binding", "bindFailed", "listening", "closing", "closed"}
    /\ closing \in {"none", "awaitListen", "native", "resolved"}

\* close() resolves, to anybody, only when nothing is left: the application is
\* stopped, and no server accepts, will accept after a listen() that was under
\* way, or still serves a connection.
ClosedMeansQuiet ==
    closed \/ (\E c \in Callers : caller[c] = "resolved") =>
        /\ phase = "closed" /\ work = {}
        /\ socket \in {"none", "bindFailed", "closed"}
        /\ closing \in {"none", "resolved"}

\* Once shutdown has begun, however it began, no handler is left that would
\* swallow the next signal, and none is installed again.
HooksOffOnceStarted == started => ~hooksOn /\ disposed

\* serve() hands out a server only before shutdown begins, although it decided
\* to listen long before.
ServedBeforeShutdown == [][serve # "served" /\ serve' = "served" => ~started']_vars

\* A server that outlives its close attempts is never forgotten: as long as it
\* holds a socket, a further close() can still close it.
ServerNotLost == socket \in {"binding", "listening", "closing"} => server

\* An attempt that did not reach the safe boundary answers its callers without
\* waiting for connections to end.
UnsafeAnswersPromptly == attempt # "none" /\ phase = "closing" ~> attempt = "none" \/ safe

\* Everybody who called close() is answered, a failing serve() throws, and after a
\* signal the application is released in the end.
EveryoneAnswered ==
    PeerFairness =>
        /\ loop = "closing" ~> phase = "closed"
        /\ \A c \in Callers : caller[c] = "waiting" ~> caller[c] # "waiting"
        /\ serve = "failing" ~> serve = "rejected"

=============================================================================
