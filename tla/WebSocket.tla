------------------------------ MODULE WebSocket ------------------------------
(***************************************************************************)
(* The runtime of the WebSocket extension (websocket/extension.ts): the    *)
(* handshake of an upgrade(), the session it establishes (its handler, its *)
(* chain of sends and its one close operation), and the drain() that       *)
(* closes sessions with 1001 and terminates those that do not answer.      *)
(*                                                                         *)
(* A connection is external (the WebSocketConnectionDriver an adapter      *)
(* binds): its send(), close() and terminate() settle when and how they    *)
(* like, and its peer may end it at any time.  Middlewares and handlers    *)
(* are user code.                                                          *)
(***************************************************************************)
EXTENDS Integers

CONSTANTS
    Sessions,    \* upgrade requests, each at most once
    Connecting,  \* those the middlewares of the route may let through
    Outputs,     \* those to a route with output messages, whose context has send()
    MaxQueued    \* bound: sends of a session that wait behind the current one

ASSUME SocketAssumption ==
    Connecting \subseteq Sessions /\ Outputs \subseteq Sessions /\ MaxQueued \in Nat \ {0}

VARIABLES
    state,      \* running, draining or stopped
    upgrade,    \* per request, where upgrade() is
    lease,      \* its execution lease: none, active or completed
    conn,       \* the connection: none, open, closed, or broken (closed rejects)
    session,    \* the session's state: open, closing or closed
    queued,     \* sends that wait for their turn in sendTail
    sending,    \* the send whose turn it is: none, encoding or sending
    failed,     \* transportFailed
    closing,    \* where closeOperation is; "none" when it is undefined
    handler,    \* where completion is
    rejected,   \* completion has rejected, or will
    drain,      \* where the extension's drain() is
    stopping    \* per session, where that drain is with it

handshakeVars == <<upgrade, lease>>
sendVars      == <<queued, sending, failed>>
sessionVars   == <<session, sendVars, closing, handler, rejected>>
drainVars     == <<state, drain, stopping>>
vars == <<handshakeVars, conn, sessionVars, drainVars>>

Init ==
    /\ state = "running"
    /\ upgrade = [s \in Sessions |-> "none"]
    /\ lease = [s \in Sessions |-> "none"]
    /\ conn = [s \in Sessions |-> "none"]
    /\ session = [s \in Sessions |-> "open"]
    /\ queued = [s \in Sessions |-> 0]
    /\ sending = [s \in Sessions |-> "none"]
    /\ failed = [s \in Sessions |-> FALSE]
    /\ closing = [s \in Sessions |-> "none"]
    /\ handler = [s \in Sessions |-> "none"]
    /\ rejected = [s \in Sessions |-> FALSE]
    /\ drain = "none"
    /\ stopping = [s \in Sessions |-> "none"]

Set(f, s, value) == f' = [f EXCEPT ![s] = value]

\* Upgrades that have entered the IngressGate and not left it.
Entered == {s \in Sessions : upgrade[s] \in {"layers", "driver", "leaving", "terminating"}}

\* The sessions of the runtime whose completion has not settled.
ActiveSessions == {s \in Sessions : handler[s] \notin {"none", "done"}}

Leased == {s \in Sessions : lease[s] = "active"}

-----------------------------------------------------------------------------
(* upgrade()                                                               *)

\* Up to validateOpeningRequest, which is awaited.
Upgrade(s) ==
    /\ state = "running" /\ upgrade[s] = "none"
    /\ Set(upgrade, s, "opening")
    /\ UNCHANGED <<lease, conn, sessionVars, drainVars>>

\* An invalid request, or one that finds the runtime draining after the await.
RefuseOpening(s) ==
    /\ upgrade[s] = "opening"
    /\ Set(upgrade, s, "refused")
    /\ UNCHANGED <<lease, conn, sessionVars, drainVars>>

\* ingress.enter() and beginExecution(); then the handshake's middlewares.
Enter(s) ==
    /\ upgrade[s] = "opening" /\ state = "running"
    /\ Set(upgrade, s, "layers")
    /\ Set(lease, s, "active")
    /\ UNCHANGED <<conn, sessionVars, drainVars>>

\* upgrade() ends without a session: it completes the lease and leaves the gate.
LeaveWithout(s, how) == Set(upgrade, s, how) /\ Set(lease, s, "completed")

\* A middleware answers by itself or throws, or the signal is aborted (the client
\* goes away, the kernel aborts its leases) before the terminal is reached.
LayersEnd(s) ==
    /\ upgrade[s] = "layers"
    /\ LeaveWithout(s, "refused")
    /\ UNCHANGED <<conn, sessionVars, drainVars>>

\* The terminal calls driver.upgrade().
ReachTerminal(s) ==
    /\ s \in Connecting /\ upgrade[s] = "layers"
    /\ Set(upgrade, s, "driver")
    /\ UNCHANGED <<lease, conn, sessionVars, drainVars>>

DriverFails(s) ==
    /\ upgrade[s] = "driver"
    /\ LeaveWithout(s, "refused")
    /\ UNCHANGED <<conn, sessionVars, drainVars>>

DriverUpgrades(s) ==
    /\ upgrade[s] = "driver"
    /\ Set(upgrade, s, "leaving")
    /\ Set(conn, s, "open")
    /\ UNCHANGED <<lease, sessionVars, drainVars>>

\* A middleware throws while the next() it has called is still pending: the
\* error leaves composeLayers at once, and upgrade() sees no connection yet.
LayersAbandon(s) ==
    /\ upgrade[s] = "driver"
    /\ LeaveWithout(s, "abandoned")
    /\ UNCHANGED <<conn, sessionVars, drainVars>>

AbandonedUpgrades(s) ==
    /\ upgrade[s] = "abandoned" /\ conn[s] = "none"
    /\ Set(conn, s, "open")
    /\ UNCHANGED <<handshakeVars, sessionVars, drainVars>>

\* A middleware throws after its next(), or the signal was aborted meanwhile:
\* the connection is terminated, which is awaited.
LayersFail(s) ==
    /\ upgrade[s] = "leaving"
    /\ Set(upgrade, s, "terminating")
    /\ UNCHANGED <<lease, conn, sessionVars, drainVars>>

\* What terminate() makes of a connection when it resolves, and may when not.
Terminated(s, ok) ==
    conn' = [conn EXCEPT ![s] = IF ok /\ @ = "open" THEN "closed" ELSE @]

HandshakeTerminated(s, ok) ==
    /\ upgrade[s] = "terminating"
    /\ Terminated(s, ok)
    /\ LeaveWithout(s, "refused")
    /\ UNCHANGED <<sessionVars, drainVars>>

\* createSession(), which calls the handler; upgrade() leaves the gate.  One that
\* finds the runtime draining answers only when its session has ended.
Establish(s) ==
    /\ upgrade[s] = "leaving"
    /\ Set(upgrade, s, IF state = "running" THEN "accepted" ELSE "late")
    /\ Set(handler, s, "running")
    /\ UNCHANGED <<lease, conn, session, sendVars, closing, rejected, drainVars>>

LateAnswer(s) ==
    /\ upgrade[s] = "late" /\ handler[s] = "done"
    /\ Set(upgrade, s, "refused")
    /\ UNCHANGED <<lease, conn, sessionVars, drainVars>>

-----------------------------------------------------------------------------
(* The connection                                                          *)

\* connection.closed settles: the peer, the network, or an answer to close().
ConnectionEnds(s, how) ==
    /\ conn[s] = "open"
    /\ Set(conn, s, how)
    /\ UNCHANGED <<handshakeVars, sessionVars, drainVars>>

\* Its reaction in the session.
ClosedSeen(s) ==
    /\ handler[s] # "none"
    /\ conn[s] \in {"closed", "broken"} /\ session[s] # "closed"
    /\ Set(session, s, "closed")
    /\ UNCHANGED <<handshakeVars, conn, sendVars, closing, handler, rejected, drainVars>>

-----------------------------------------------------------------------------
(* send()                                                                  *)

\* By the handler or whoever was given its context; refused unless open.
Send(s) ==
    /\ s \in Outputs /\ handler[s] # "none"
    /\ session[s] = "open" /\ ~failed[s] /\ queued[s] < MaxQueued
    /\ Set(queued, s, queued[s] + 1)
    /\ UNCHANGED <<handshakeVars, conn, session, sending, failed, closing, handler, rejected,
                   drainVars>>

\* Fault: the chain takes a turn nobody asked for.
SendTurnUnasked(s) ==
    /\ handler[s] # "none" /\ sending[s] = "none"
    /\ Set(queued, s, queued[s] - 1)
    /\ Set(sending, s, IF session[s] = "open" /\ ~failed[s] THEN "encoding" ELSE "none")
    /\ UNCHANGED <<handshakeVars, conn, session, failed, closing, handler, rejected, drainVars>>

\* The turn of the next send, which looks at the state again.
SendTurn(s) ==
    /\ queued[s] > 0 /\ sending[s] = "none"
    /\ Set(queued, s, queued[s] - 1)
    /\ Set(sending, s, IF session[s] = "open" /\ ~failed[s] THEN "encoding" ELSE "none")
    /\ UNCHANGED <<handshakeVars, conn, session, failed, closing, handler, rejected, drainVars>>

\* encodeMessage(), which awaits the schema; then connection.send().
Encoded(s, ok) ==
    /\ sending[s] = "encoding"
    /\ Set(sending, s, IF ok THEN "sending" ELSE "none")
    /\ UNCHANGED <<handshakeVars, conn, session, queued, failed, closing, handler, rejected,
                   drainVars>>

Sent(s, ok) ==
    /\ sending[s] = "sending"
    /\ Set(sending, s, "none")
    /\ Set(failed, s, failed[s] \/ ~ok)
    /\ UNCHANGED <<handshakeVars, conn, session, queued, closing, handler, rejected, drainVars>>

-----------------------------------------------------------------------------
(* close()                                                                 *)

\* The first call starts the one operation; others share it, and after the end
\* there is nothing to do.
StartsClose(s) == closing[s] = "none" /\ session[s] # "closed"

CallClose(s) ==
    IF StartsClose(s) THEN Set(session, s, "closing") /\ Set(closing, s, "awaitSends")
    ELSE UNCHANGED <<session, closing>>

Close(s) ==
    /\ handler[s] # "none" /\ StartsClose(s)
    /\ CallClose(s)
    /\ UNCHANGED <<handshakeVars, conn, sendVars, handler, rejected, drainVars>>

\* Fault: close() does not wait for the sends before it.
CloseAtOnce(s) ==
    /\ closing[s] = "awaitSends"
    /\ Set(closing, s, "calling")
    /\ UNCHANGED <<handshakeVars, conn, session, sendVars, handler, rejected, drainVars>>

\* sendTail has settled: connection.close().
SendsAwaited(s) ==
    /\ closing[s] = "awaitSends" /\ queued[s] = 0 /\ sending[s] = "none"
    /\ Set(closing, s, "calling")
    /\ UNCHANGED <<handshakeVars, conn, session, sendVars, handler, rejected, drainVars>>

CloseCalled(s, ok) ==
    /\ closing[s] = "calling"
    /\ Set(closing, s, IF ok THEN "awaitClosed" ELSE "rejected")
    /\ UNCHANGED <<handshakeVars, conn, session, sendVars, handler, rejected, drainVars>>

ClosedAwaited(s) ==
    /\ closing[s] = "awaitClosed" /\ session[s] = "closed"
    /\ Set(closing, s, IF conn[s] = "broken" THEN "rejected" ELSE "resolved")
    /\ UNCHANGED <<handshakeVars, conn, session, sendVars, handler, rejected, drainVars>>

CloseSettled(s) == closing[s] \in {"resolved", "rejected"}

-----------------------------------------------------------------------------
(* completion                                                              *)

\* The handler has returned or thrown: its session is closed if it is open.
HandlerEnds(s) ==
    /\ handler[s] = "running"
    /\ IF session[s] = "open"
       THEN CallClose(s) /\ Set(handler, s, "closing")
       ELSE Set(handler, s, "awaitClosed") /\ UNCHANGED <<session, closing>>
    /\ UNCHANGED <<handshakeVars, conn, sendVars, rejected, drainVars>>

\* A close() that fails after a handler that threw is completion's error.
HandlerClosed(s) ==
    /\ handler[s] = "closing" /\ CloseSettled(s)
    /\ Set(handler, s, "awaitClosed")
    /\ \E fails \in {FALSE, closing[s] = "rejected"} : Set(rejected, s, fails)
    /\ UNCHANGED <<handshakeVars, conn, session, sendVars, closing, drainVars>>

\* Fault: completion does not wait for the connection.
CompleteUnclosed(s) ==
    /\ handler[s] = "awaitClosed"
    /\ Set(handler, s, "done")
    /\ Set(lease, s, "completed")
    /\ Set(rejected, s, rejected[s] \/ conn[s] = "broken")
    /\ UNCHANGED <<upgrade, conn, session, sendVars, closing, drainVars>>

\* The connection has ended, well or not: the lease is completed.
Complete(s) ==
    /\ handler[s] = "awaitClosed" /\ session[s] = "closed"
    /\ Set(handler, s, "done")
    /\ Set(lease, s, "completed")
    /\ Set(rejected, s, rejected[s] \/ conn[s] = "broken")
    /\ UNCHANGED <<upgrade, conn, session, sendVars, closing, drainVars>>

-----------------------------------------------------------------------------
(* drain(), and what the kernel does around it                             *)

\* The kernel starts a drain when shutdown begins, and again after one that was
\* rejected.
Drain ==
    /\ state # "stopped" /\ drain \in {"none", "rejected"}
    /\ state' = "draining"
    /\ drain' = "ingress"
    /\ UNCHANGED <<handshakeVars, conn, sessionVars, stopping>>

\* ingress.waitForIdle() has resolved: close(1001) of every session.
CloseSessions ==
    /\ drain = "ingress" /\ Entered = {}
    /\ drain' = "sessions"
    /\ stopping' = [s \in Sessions |-> IF s \in ActiveSessions THEN "graceful" ELSE "none"]
    /\ session' = [s \in Sessions |->
           IF s \in ActiveSessions /\ StartsClose(s) THEN "closing" ELSE session[s]]
    /\ closing' = [s \in Sessions |->
           IF s \in ActiveSessions /\ StartsClose(s) THEN "awaitSends" ELSE closing[s]]
    /\ UNCHANGED <<state, handshakeVars, conn, sendVars, handler, rejected>>

\* The close and the completion have both resolved.
ClosedGracefully(s) ==
    /\ closing[s] = "resolved" \/ (closing[s] = "none" /\ conn[s] = "closed")
    /\ handler[s] = "done" /\ ~rejected[s]

Graceful(s) ==
    /\ stopping[s] = "graceful" /\ ClosedGracefully(s)
    /\ Set(stopping, s, "done")
    /\ UNCHANGED <<state, drain, handshakeVars, conn, sessionVars>>

\* Fault: a close that does not answer is waited for.
OnlyRefused(s) ==
    /\ stopping[s] = "graceful" /\ closing[s] = "rejected"
    /\ Set(stopping, s, "terminating")
    /\ UNCHANGED <<state, drain, handshakeVars, conn, sessionVars>>

\* webSocketGracefulShutdownBudget is over, or one of them has rejected: the
\* connection is terminated.
GraceOver(s) ==
    /\ stopping[s] = "graceful" /\ ~ClosedGracefully(s)
    /\ Set(stopping, s, "terminating")
    /\ UNCHANGED <<state, drain, handshakeVars, conn, sessionVars>>

SessionTerminated(s, ok) ==
    /\ stopping[s] = "terminating"
    /\ Terminated(s, ok)
    /\ Set(stopping, s, IF ok THEN "completion" ELSE "failed")
    /\ UNCHANGED <<state, drain, handshakeVars, sessionVars>>

CompletionAwaited(s) ==
    /\ stopping[s] = "completion" /\ handler[s] = "done"
    /\ Set(stopping, s, "done")
    /\ UNCHANGED <<state, drain, handshakeVars, conn, sessionVars>>

\* Promise.allSettled has settled.
DrainSettles ==
    /\ drain = "sessions"
    /\ \A s \in Sessions : stopping[s] \in {"none", "done", "failed"}
    /\ drain' = IF \E s \in Sessions : stopping[s] = "failed" THEN "rejected" ELSE "resolved"
    /\ UNCHANGED <<state, stopping, handshakeVars, conn, sessionVars>>

\* close(), past the safe boundary (Kernel!SafeCleanupBoundary).
CloseRuntime ==
    /\ drain \in {"resolved", "rejected"} /\ Leased = {} /\ state = "draining"
    /\ state' = "stopped"
    /\ UNCHANGED <<drain, stopping, handshakeVars, conn, sessionVars>>

-----------------------------------------------------------------------------
HandshakeNext(s) ==
    \/ Upgrade(s) \/ RefuseOpening(s) \/ Enter(s) \/ LayersEnd(s) \/ ReachTerminal(s)
    \/ DriverFails(s) \/ DriverUpgrades(s) \/ LayersAbandon(s) \/ AbandonedUpgrades(s)
    \/ LayersFail(s) \/ Establish(s) \/ LateAnswer(s)
    \/ \E ok \in BOOLEAN : HandshakeTerminated(s, ok)

ConnectionNext(s) == \E how \in {"closed", "broken"} : ConnectionEnds(s, how)

\* What the driver answers to the calls of a session.
DriverAnswers(s) == \E ok \in BOOLEAN : Sent(s, ok) \/ CloseCalled(s, ok)

SessionStep(s) ==
    \/ ClosedSeen(s) \/ SendTurn(s) \/ SendsAwaited(s) \/ ClosedAwaited(s)
    \/ HandlerClosed(s) \/ Complete(s)
    \/ \E ok \in BOOLEAN : Encoded(s, ok)

DrainStep(s) ==
    \/ Graceful(s) \/ GraceOver(s) \/ CompletionAwaited(s)
    \/ \E ok \in BOOLEAN : SessionTerminated(s, ok)

Next ==
    \/ \E s \in Sessions :
           \/ HandshakeNext(s) \/ ConnectionNext(s) \/ DriverAnswers(s) \/ SessionStep(s)
           \/ Send(s) \/ Close(s) \/ HandlerEnds(s) \/ DrainStep(s)
    \/ Drain \/ CloseSessions \/ DrainSettles \/ CloseRuntime

Spec == Init /\ [][Next]_vars

\* The extension's continuations and timers run; middlewares and drivers finish a
\* handshake; once a connection has ended, its driver's calls settle (driver.ts)
\* and the handler, whose signal is aborted, ends.  Nothing is assumed of a peer.
SocketFairness ==
    /\ WF_vars(CloseSessions \/ DrainSettles)
    /\ \A s \in Sessions :
           /\ WF_vars(RefuseOpening(s) \/ Enter(s))
           /\ WF_vars(LayersEnd(s) \/ ReachTerminal(s))
           /\ WF_vars(DriverFails(s) \/ DriverUpgrades(s))
           /\ WF_vars(LayersFail(s) \/ Establish(s))
           /\ WF_vars(\E ok \in BOOLEAN : HandshakeTerminated(s, ok))
           /\ WF_vars(LateAnswer(s))
           /\ WF_vars(SessionStep(s))
           /\ WF_vars(conn[s] # "open" /\ DriverAnswers(s))
           /\ WF_vars(session[s] = "closed" /\ HandlerEnds(s))
           /\ WF_vars(DrainStep(s))

FairSpec == Spec /\ SocketFairness

\* What the host may add: it calls close() again when the drain was rejected, and
\* terminate() does not fail for ever.
RetryFairness ==
    /\ WF_vars(drain = "rejected" /\ Leased # {} /\ Drain)
    /\ \A s \in Sessions : SF_vars(SessionTerminated(s, TRUE))

-----------------------------------------------------------------------------
(* Properties                                                              *)

TypeOK ==
    /\ state \in {"running", "draining", "stopped"}
    /\ upgrade \in [Sessions -> {"none", "opening", "layers", "driver", "leaving", "terminating",
                                 "accepted", "late", "refused", "abandoned"}]
    /\ lease \in [Sessions -> {"none", "active", "completed"}]
    /\ conn \in [Sessions -> {"none", "open", "closed", "broken"}]
    /\ session \in [Sessions -> {"open", "closing", "closed"}]
    /\ queued \in [Sessions -> 0 .. MaxQueued]
    /\ sending \in [Sessions -> {"none", "encoding", "sending"}]
    /\ failed \in [Sessions -> BOOLEAN]
    /\ closing \in [Sessions -> {"none", "awaitSends", "calling", "awaitClosed", "resolved",
                                 "rejected"}]
    /\ handler \in [Sessions -> {"none", "running", "closing", "awaitClosed", "done"}]
    /\ rejected \in [Sessions -> BOOLEAN]
    /\ drain \in {"none", "ingress", "sessions", "resolved", "rejected"}
    /\ stopping \in [Sessions -> {"none", "graceful", "terminating", "completion", "done",
                                  "failed"}]

\* The extension keeps the promise of ExecutionLeases: the lease of a session
\* outlives its connection and its handler, however they end and whoever ends
\* them, and a drain that resolves has left no handshake, no session and no open
\* connection of one, also of the upgrades that completed while it waited.
Leases == INSTANCE ExecutionLeases WITH
    Executions <- Sessions, accepting <- state = "running", lease <- lease,
    busy <- [s \in Sessions |->
        handler[s] # "none" /\ (conn[s] = "open" \/ handler[s] # "done")],
    drained <- drain = "resolved"

ImplementsLeases == Leases!Spec

\* connection.close() never overtakes a send that was accepted before it, and no
\* send follows it.
CloseAfterSends ==
    \A s \in Sessions :
        closing[s] \in {"calling", "awaitClosed", "resolved", "rejected"} =>
            queued[s] = 0 /\ sending[s] = "none"

\* When shutdown begins every handshake and session ends, whatever peers do, if a
\* drain that failed to terminate one is retried.
SessionsEnd == RetryFairness => (drain # "none" ~> Leased = {})

\* A handshake that fails after it has started leaves no connection behind but
\* one that terminate() could not end.
FailedHandshakeTerminates == \A s \in Sessions : upgrade[s] = "abandoned" => conn[s] # "open"

=============================================================================
