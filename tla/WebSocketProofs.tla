--------------------------- MODULE WebSocketProofs ---------------------------
(***************************************************************************)
(* Machine-checked proofs about WebSocket, for any number of upgrades and  *)
(* any bound on waiting sends: a close never overtakes a send that was     *)
(* accepted before it, and the extension implements ExecutionLeases.       *)
(***************************************************************************)
EXTENDS WebSocket, TLAPS

(* The inductive invariant.                                                *)

\* A lease is active while its handshake is in the gate or its completion is
\* pending; a session exists only on a connection, and has ended only after it.
SessionInv(s) ==
    /\ upgrade[s] \in {"none", "opening"} => lease[s] = "none" /\ handler[s] = "none"
    /\ s \in Entered => handler[s] = "none"
    /\ lease[s] = "active" <=> s \in Entered \/ s \in ActiveSessions
    /\ upgrade[s] = "leaving" \/ handler[s] # "none" => conn[s] # "none"
    /\ handler[s] = "none" =>
           session[s] = "open" /\ closing[s] = "none" /\ queued[s] = 0 /\ sending[s] = "none"
    /\ session[s] = "closed" => conn[s] \in {"closed", "broken"}
    /\ handler[s] = "done" => session[s] = "closed"
    /\ closing[s] # "none" => session[s] # "open"
    /\ closing[s] \in {"calling", "awaitClosed", "resolved", "rejected"} =>
           queued[s] = 0 /\ sending[s] = "none"

\* Once the drain closes the sessions no handshake is left that could establish
\* another one, and it looks after every session whose completion is pending.
DrainInv ==
    /\ state = "running" <=> drain = "none"
    /\ drain = "sessions" =>
           \A s \in Sessions :
               s \notin Entered /\ (s \in ActiveSessions => stopping[s] \notin {"none", "done"})
    /\ drain = "resolved" => \A s \in Sessions : lease[s] # "active"

SocketInv == TypeOK /\ (\A s \in Sessions : SessionInv(s)) /\ DrainInv

-----------------------------------------------------------------------------
(* Type correctness.                                                       *)

\* The handshake keeps the types.
LEMMA HandshakeTyped ==
    ASSUME TypeOK, NEW s \in Sessions, HandshakeNext(s)
    PROVE  TypeOK'
<1> USE DEF Set, LeaveWithout, Terminated, sendVars, sessionVars, drainVars, handshakeVars
<1>1. CASE Upgrade(s) \/ RefuseOpening(s) \/ Enter(s) \/ LayersEnd(s) \/ ReachTerminal(s)
  BY <1>1 DEF TypeOK, Upgrade, RefuseOpening, Enter, LayersEnd, ReachTerminal
<1>2. CASE DriverFails(s) \/ DriverUpgrades(s) \/ LayersAbandon(s) \/ AbandonedUpgrades(s)
  BY <1>2 DEF TypeOK, DriverFails, DriverUpgrades, LayersAbandon, AbandonedUpgrades
<1>3. CASE LayersFail(s) \/ Establish(s) \/ LateAnswer(s)
  BY <1>3 DEF TypeOK, LayersFail, Establish, LateAnswer
<1>4. ASSUME NEW ok \in BOOLEAN, HandshakeTerminated(s, ok) PROVE TypeOK'
  <2>1. \E v \in {"none", "open", "closed", "broken"} : conn' = [conn EXCEPT ![s] = v]
    BY <1>4 DEF TypeOK, HandshakeTerminated
  <2> QED
    BY <1>4, <2>1 DEF TypeOK, HandshakeTerminated
<1> QED
  BY <1>1, <1>2, <1>3, <1>4 DEF HandshakeNext

\* A step of the session, of its connection or of its user keeps the types.
LEMMA SessionTyped ==
    ASSUME TypeOK, NEW s \in Sessions,
           \/ ConnectionNext(s) \/ DriverAnswers(s) \/ SessionStep(s)
           \/ Send(s) \/ Close(s) \/ HandlerEnds(s)
    PROVE  TypeOK'
<1> USE DEF Set, sendVars, sessionVars, drainVars, handshakeVars
<1>1. CASE ConnectionNext(s) \/ ClosedSeen(s)
  BY <1>1 DEF TypeOK, ConnectionNext, ConnectionEnds, ClosedSeen
<1>2. CASE Send(s) \/ SendTurn(s)
  <2>1. queued' \in [Sessions -> 0 .. MaxQueued]
    <3>1. \E v \in 0 .. MaxQueued : queued' = [queued EXCEPT ![s] = v]
      <4>1. queued[s] \in 0 .. MaxQueued /\ MaxQueued \in Nat
        BY SocketAssumption DEF TypeOK
      <4>2. CASE Send(s)
        <5>1. queued[s] + 1 \in 0 .. MaxQueued
          BY <4>1, <4>2 DEF Send
        <5> QED
          BY <4>2, <5>1 DEF Send
      <4>3. CASE SendTurn(s)
        <5>1. queued[s] - 1 \in 0 .. MaxQueued
          BY <4>1, <4>3 DEF SendTurn
        <5> QED
          BY <4>3, <5>1 DEF SendTurn
      <4> QED
        BY <1>2, <4>2, <4>3
    <3> QED
      BY <3>1 DEF TypeOK
  <2>2. sending' \in [Sessions -> {"none", "encoding", "sending"}]
    BY <1>2 DEF TypeOK, Send, SendTurn
  <2> QED
    BY <1>2, <2>1, <2>2 DEF TypeOK, Send, SendTurn
<1>3. ASSUME NEW ok \in BOOLEAN, Encoded(s, ok) PROVE TypeOK'
  BY <1>3 DEF TypeOK, Encoded
<1>4. ASSUME NEW ok \in BOOLEAN, Sent(s, ok) PROVE TypeOK'
  <2>1. failed' \in [Sessions -> BOOLEAN]
    <3>1. (failed[s] \/ ~ok) \in BOOLEAN
      OBVIOUS
    <3> QED
      BY <1>4, <3>1 DEF TypeOK, Sent
  <2> QED
    BY <1>4, <2>1 DEF TypeOK, Sent
<1>5. ASSUME NEW ok \in BOOLEAN, CloseCalled(s, ok) PROVE TypeOK'
  BY <1>5 DEF TypeOK, CloseCalled
<1>6. CASE Close(s) \/ HandlerEnds(s)
  BY <1>6 DEF TypeOK, Close, HandlerEnds, CallClose
<1>7. CASE SendsAwaited(s) \/ ClosedAwaited(s)
  BY <1>7 DEF TypeOK, SendsAwaited, ClosedAwaited
<1>8. CASE HandlerClosed(s)
  <2>1. rejected' \in [Sessions -> BOOLEAN]
    <3>1. (closing[s] = "rejected") \in BOOLEAN
      OBVIOUS
    <3> QED
      BY <1>8, <3>1 DEF TypeOK, HandlerClosed
  <2> QED
    BY <1>8, <2>1 DEF TypeOK, HandlerClosed
<1>9. CASE Complete(s)
  <2>1. rejected' \in [Sessions -> BOOLEAN]
    <3>1. (rejected[s] \/ conn[s] = "broken") \in BOOLEAN
      OBVIOUS
    <3> QED
      BY <1>9, <3>1 DEF TypeOK, Complete
  <2> QED
    BY <1>9, <2>1 DEF TypeOK, Complete
<1> QED
  BY <1>1, <1>2, <1>3, <1>4, <1>5, <1>6, <1>7, <1>8, <1>9 DEF DriverAnswers, SessionStep

\* drain() and the host's close() keep the types.
LEMMA DrainTyped ==
    ASSUME TypeOK,
           \/ Drain \/ CloseSessions \/ DrainSettles \/ CloseRuntime
           \/ \E s \in Sessions : DrainStep(s)
    PROVE  TypeOK'
<1> USE DEF Set, sendVars, sessionVars, handshakeVars
<1>1. CASE Drain \/ DrainSettles \/ CloseRuntime
  BY <1>1 DEF TypeOK, Drain, DrainSettles, CloseRuntime
<1>2. CASE CloseSessions
  <2>1. stopping' \in [Sessions -> {"none", "graceful", "terminating", "completion", "done",
                                   "failed"}]
    BY <1>2 DEF TypeOK, CloseSessions
  <2>2. session' \in [Sessions -> {"open", "closing", "closed"}]
    BY <1>2 DEF TypeOK, CloseSessions
  <2>3. closing' \in [Sessions -> {"none", "awaitSends", "calling", "awaitClosed", "resolved",
                                  "rejected"}]
    BY <1>2 DEF TypeOK, CloseSessions
  <2> QED
    BY <1>2, <2>1, <2>2, <2>3 DEF TypeOK, CloseSessions
<1>3. ASSUME NEW s \in Sessions, Graceful(s) \/ GraceOver(s) \/ CompletionAwaited(s)
      PROVE  TypeOK'
  BY <1>3 DEF TypeOK, Graceful, GraceOver, CompletionAwaited
<1>4. ASSUME NEW s \in Sessions, NEW ok \in BOOLEAN, SessionTerminated(s, ok) PROVE TypeOK'
  <2>1. \E v \in {"none", "open", "closed", "broken"} : conn' = [conn EXCEPT ![s] = v]
    BY <1>4 DEF TypeOK, SessionTerminated, Terminated
  <2> QED
    BY <1>4, <2>1 DEF TypeOK, SessionTerminated
<1> QED
  BY <1>1, <1>2, <1>3, <1>4 DEF DrainStep

\* TypeOK: every variable of the extension keeps its type in every behaviour.
THEOREM SocketTypeCorrect == Spec => []TypeOK
<1>1. Init => TypeOK
  BY SocketAssumption DEF Init, TypeOK
<1>2. TypeOK /\ [Next]_vars => TypeOK'
  <2>1. TypeOK /\ UNCHANGED vars => TypeOK'
    BY DEF vars, handshakeVars, sendVars, sessionVars, drainVars, TypeOK
  <2> QED
    BY <2>1, HandshakeTyped, SessionTyped, DrainTyped DEF Next
<1> QED
  BY <1>1, <1>2, PTL DEF Spec

-----------------------------------------------------------------------------
(* The sessions, one at a time.                                            *)

\* A step of session s leaves every other session alone.
Frame(s) ==
    \A t \in Sessions \ {s} :
        /\ upgrade'[t] = upgrade[t] /\ lease'[t] = lease[t] /\ conn'[t] = conn[t]
        /\ session'[t] = session[t] /\ queued'[t] = queued[t] /\ sending'[t] = sending[t]
        /\ closing'[t] = closing[t] /\ handler'[t] = handler[t] /\ stopping'[t] = stopping[t]

\* A lease is begun while the runtime runs, or completed by what holds it.
LeaseStep(s) ==
    \/ lease'[s] = lease[s]
    \/ lease[s] = "none" /\ lease'[s] = "active" /\ state = "running"
    \/ lease[s] = "active" /\ lease'[s] = "completed"

\* What the drain sees of a step: a handshake enters the gate while the runtime
\* runs, a session comes from a handshake, and the drain is done with one that ended.
DrainView(s) ==
    /\ s \in Entered' => s \in Entered \/ state = "running"
    /\ s \in ActiveSessions' => s \in ActiveSessions \/ s \in Entered
    /\ stopping'[s] \in {"none", "done"} => stopping'[s] = stopping[s] \/ handler[s] = "done"

StepKeeps(s) ==
    /\ UNCHANGED <<state, drain>>
    /\ Frame(s) /\ SessionInv(s)' /\ LeaseStep(s) /\ DrainView(s)

\* Every step of a handshake keeps the session's invariant.
LEMMA HandshakeKeeps ==
    ASSUME TypeOK, NEW s \in Sessions, SessionInv(s), HandshakeNext(s)
    PROVE  StepKeeps(s)
<1> USE DEF sendVars, sessionVars, drainVars, handshakeVars
<1> DEFINE Keeps(f) == \A t \in Sessions \ {s} : f'[t] = f[t]
<1>1. CASE Upgrade(s) \/ RefuseOpening(s) \/ ReachTerminal(s) \/ LayersFail(s)
  <2>1. /\ Keeps(upgrade) /\ UNCHANGED <<lease, conn, sessionVars, drainVars>>
        /\ \/ upgrade[s] = "none" /\ upgrade'[s] = "opening"
           \/ upgrade[s] = "opening" /\ upgrade'[s] = "refused"
           \/ upgrade[s] = "layers" /\ upgrade'[s] = "driver"
           \/ upgrade[s] = "leaving" /\ upgrade'[s] = "terminating"
    BY <1>1 DEF Upgrade, RefuseOpening, ReachTerminal, LayersFail, Set, TypeOK
  <2> QED
    BY <2>1 DEF StepKeeps, Frame, LeaseStep, DrainView, SessionInv, Entered, ActiveSessions
<1>2. CASE Enter(s)
  <2>1. /\ Keeps(upgrade) /\ Keeps(lease) /\ UNCHANGED <<conn, sessionVars, drainVars>>
        /\ upgrade[s] = "opening" /\ upgrade'[s] = "layers" /\ lease'[s] = "active"
        /\ state = "running"
    BY <1>2 DEF Enter, Set, TypeOK
  <2> QED
    BY <2>1 DEF StepKeeps, Frame, LeaseStep, DrainView, SessionInv, Entered, ActiveSessions
<1>3. CASE \/ LayersEnd(s) \/ DriverFails(s) \/ LayersAbandon(s)
           \/ \E ok \in BOOLEAN : HandshakeTerminated(s, ok)
  <2>1. /\ Keeps(upgrade) /\ Keeps(lease) /\ Keeps(conn) /\ UNCHANGED <<sessionVars, drainVars>>
        /\ s \in Entered /\ upgrade'[s] \in {"refused", "abandoned"}
        /\ lease'[s] = "completed"
    BY <1>3 DEF LayersEnd, DriverFails, LayersAbandon, HandshakeTerminated, LeaveWithout,
                Terminated, Set, TypeOK, Entered
  <2> QED
    BY <2>1 DEF StepKeeps, Frame, LeaseStep, DrainView, SessionInv, Entered, ActiveSessions
<1>4. CASE DriverUpgrades(s)
  <2>1. /\ Keeps(upgrade) /\ Keeps(conn) /\ UNCHANGED <<lease, sessionVars, drainVars>>
        /\ upgrade[s] = "driver" /\ upgrade'[s] = "leaving" /\ conn'[s] = "open"
    BY <1>4 DEF DriverUpgrades, Set, TypeOK
  <2> QED
    BY <2>1 DEF StepKeeps, Frame, LeaseStep, DrainView, SessionInv, Entered, ActiveSessions
<1>5. CASE AbandonedUpgrades(s)
  <2>1. /\ Keeps(conn) /\ UNCHANGED <<handshakeVars, sessionVars, drainVars>>
        /\ conn[s] = "none" /\ conn'[s] = "open"
    BY <1>5 DEF AbandonedUpgrades, Set, TypeOK
  <2> QED
    BY <2>1 DEF StepKeeps, Frame, LeaseStep, DrainView, SessionInv, Entered, ActiveSessions
<1>6. CASE Establish(s)
  <2>1. /\ Keeps(upgrade) /\ Keeps(handler)
        /\ UNCHANGED <<lease, conn, session, sendVars, closing, drainVars>>
        /\ upgrade[s] = "leaving" /\ upgrade'[s] \in {"accepted", "late"}
        /\ handler'[s] = "running"
    BY <1>6 DEF Establish, Set, TypeOK
  <2> QED
    BY <2>1 DEF StepKeeps, Frame, LeaseStep, DrainView, SessionInv, Entered, ActiveSessions
<1>7. CASE LateAnswer(s)
  <2>1. /\ Keeps(upgrade) /\ UNCHANGED <<lease, conn, sessionVars, drainVars>>
        /\ upgrade[s] = "late" /\ upgrade'[s] = "refused"
    BY <1>7 DEF LateAnswer, Set, TypeOK
  <2> QED
    BY <2>1 DEF StepKeeps, Frame, LeaseStep, DrainView, SessionInv, Entered, ActiveSessions
<1> QED
  BY <1>1, <1>2, <1>3, <1>4, <1>5, <1>6, <1>7 DEF HandshakeNext

\* Every step of a session, its connection and its sends keeps its invariant.
LEMMA SessionKeeps ==
    ASSUME TypeOK, NEW s \in Sessions, SessionInv(s),
           \/ ConnectionNext(s) \/ DriverAnswers(s) \/ SessionStep(s)
           \/ Send(s) \/ Close(s) \/ HandlerEnds(s)
    PROVE  StepKeeps(s)
<1> USE DEF sendVars, sessionVars, drainVars, handshakeVars
<1> DEFINE Keeps(f) == \A t \in Sessions \ {s} : f'[t] = f[t]
<1>1. CASE ConnectionNext(s)
  <2>1. /\ Keeps(conn) /\ UNCHANGED <<handshakeVars, sessionVars, drainVars>>
        /\ conn'[s] \in {"closed", "broken"}
    BY <1>1 DEF ConnectionNext, ConnectionEnds, Set, TypeOK
  <2> QED
    BY <2>1 DEF StepKeeps, Frame, LeaseStep, DrainView, SessionInv, Entered, ActiveSessions
<1>2. CASE ClosedSeen(s)
  <2>1. /\ Keeps(session) /\ UNCHANGED <<handshakeVars, conn, sendVars, closing, handler, drainVars>>
        /\ handler[s] # "none" /\ conn[s] \in {"closed", "broken"} /\ session'[s] = "closed"
    BY <1>2 DEF ClosedSeen, Set, TypeOK
  <2> QED
    BY <2>1 DEF StepKeeps, Frame, LeaseStep, DrainView, SessionInv, Entered, ActiveSessions
<1>3. CASE \/ Send(s) \/ SendTurn(s) \/ \E ok \in BOOLEAN : Encoded(s, ok) \/ Sent(s, ok)
  <2>1. /\ Keeps(queued) /\ Keeps(sending)
        /\ UNCHANGED <<handshakeVars, conn, session, closing, handler, drainVars>>
        /\ \/ handler[s] # "none" /\ session[s] = "open"
           \/ queued[s] # 0
           \/ sending[s] # "none" /\ UNCHANGED queued
    BY <1>3 DEF Send, SendTurn, Encoded, Sent, Set, TypeOK
  <2> QED
    BY <2>1 DEF StepKeeps, Frame, LeaseStep, DrainView, SessionInv, Entered, ActiveSessions, TypeOK
<1>4. CASE \/ SendsAwaited(s) \/ ClosedAwaited(s)
           \/ \E ok \in BOOLEAN : CloseCalled(s, ok)
  <2>1. /\ Keeps(closing)
        /\ UNCHANGED <<handshakeVars, conn, session, sendVars, handler, drainVars>>
        /\ closing[s] # "none" /\ closing'[s] # "none"
        /\ \/ closing[s] = "awaitSends" /\ queued[s] = 0 /\ sending[s] = "none"
           \/ closing[s] \in {"calling", "awaitClosed"}
    BY <1>4 DEF SendsAwaited, ClosedAwaited, CloseCalled, Set, TypeOK
  <2> QED
    BY <2>1 DEF StepKeeps, Frame, LeaseStep, DrainView, SessionInv, Entered, ActiveSessions
<1>5. CASE Close(s) \/ HandlerEnds(s)
  <2>1. /\ Keeps(session) /\ Keeps(closing) /\ Keeps(handler)
        /\ UNCHANGED <<handshakeVars, conn, sendVars, drainVars>>
        /\ handler[s] # "none" /\ handler'[s] # "none"
        /\ handler'[s] = "done" <=> handler[s] = "done"
        /\ \/ session'[s] = session[s] /\ closing'[s] = closing[s]
           \/ session[s] # "closed" /\ session'[s] = "closing" /\ closing'[s] = "awaitSends"
    BY <1>5 DEF Close, HandlerEnds, CallClose, StartsClose, Set, TypeOK
  <2> QED
    BY <2>1 DEF StepKeeps, Frame, LeaseStep, DrainView, SessionInv, Entered, ActiveSessions
<1>6. CASE HandlerClosed(s)
  <2>1. /\ Keeps(handler)
        /\ UNCHANGED <<handshakeVars, conn, session, sendVars, closing, drainVars>>
        /\ handler[s] = "closing" /\ handler'[s] = "awaitClosed"
    BY <1>6 DEF HandlerClosed, Set, TypeOK
  <2> QED
    BY <2>1 DEF StepKeeps, Frame, LeaseStep, DrainView, SessionInv, Entered, ActiveSessions
<1>7. CASE Complete(s)
  <2>1. /\ Keeps(handler) /\ Keeps(lease)
        /\ UNCHANGED <<upgrade, conn, session, sendVars, closing, drainVars>>
        /\ handler[s] = "awaitClosed" /\ handler'[s] = "done" /\ session[s] = "closed"
        /\ lease'[s] = "completed"
    BY <1>7 DEF Complete, Set, TypeOK
  <2> QED
    BY <2>1 DEF StepKeeps, Frame, LeaseStep, DrainView, SessionInv, Entered, ActiveSessions
<1> QED
  BY <1>1, <1>2, <1>3, <1>4, <1>5, <1>6, <1>7 DEF DriverAnswers, SessionStep

\* So does every step of the drain with one session.
LEMMA StoppingKeeps ==
    ASSUME TypeOK, NEW s \in Sessions, SessionInv(s), DrainStep(s)
    PROVE  StepKeeps(s)
<1> USE DEF sendVars, sessionVars, drainVars, handshakeVars
<1> DEFINE Keeps(f) == \A t \in Sessions \ {s} : f'[t] = f[t]
<1>1. /\ Keeps(stopping) /\ Keeps(conn)
      /\ UNCHANGED <<state, drain, handshakeVars, sessionVars>>
      /\ \/ conn'[s] = conn[s]
         \/ conn[s] = "open" /\ conn'[s] = "closed"
      /\ stopping'[s] # "none"
      /\ stopping'[s] = "done" => handler[s] = "done"
  <2>1. CASE Graceful(s) \/ GraceOver(s) \/ CompletionAwaited(s)
    BY <2>1 DEF Graceful, GraceOver, CompletionAwaited, ClosedGracefully, Set, TypeOK
  <2>2. ASSUME NEW ok \in BOOLEAN, SessionTerminated(s, ok)
        PROVE  /\ Keeps(stopping) /\ Keeps(conn)
               /\ UNCHANGED <<state, drain, handshakeVars, sessionVars>>
               /\ \/ conn'[s] = conn[s]
                  \/ conn[s] = "open" /\ conn'[s] = "closed"
               /\ stopping'[s] # "none" /\ stopping'[s] # "done"
    BY <2>2 DEF SessionTerminated, Terminated, Set, TypeOK
  <2> QED
    BY <2>1, <2>2 DEF DrainStep
<1> QED
  BY <1>1 DEF StepKeeps, Frame, LeaseStep, DrainView, SessionInv, Entered, ActiveSessions

-----------------------------------------------------------------------------
(* The extension, all of it.                                               *)

LocalStep(s) ==
    \/ HandshakeNext(s) \/ ConnectionNext(s) \/ DriverAnswers(s) \/ SessionStep(s)
    \/ Send(s) \/ Close(s) \/ HandlerEnds(s) \/ DrainStep(s)

\* Every step of a session, the drain's included, is as StepKeeps says.
LEMMA LocalKeeps ==
    ASSUME SocketInv, NEW s \in Sessions, LocalStep(s)
    PROVE  StepKeeps(s)
BY HandshakeKeeps, SessionKeeps, StoppingKeeps DEF SocketInv, LocalStep

\* Every step of a session keeps the invariant.
LEMMA LocalInvariant ==
    ASSUME SocketInv, NEW s \in Sessions, LocalStep(s)
    PROVE  SocketInv'
<1>1. TypeOK'
  BY HandshakeTyped, SessionTyped, DrainTyped DEF SocketInv, LocalStep
<1>2. StepKeeps(s)
  BY LocalKeeps
<1>3. \A t \in Sessions : SessionInv(t)'
  BY <1>2 DEF StepKeeps, Frame, SocketInv, SessionInv, Entered, ActiveSessions
<1>4. DrainInv'
  <2>1. UNCHANGED <<state, drain>> /\ Frame(s) /\ LeaseStep(s) /\ DrainView(s)
    BY <1>2 DEF StepKeeps
  <2>2. CASE drain = "sessions"
    <3>1. state # "running"
      BY <2>2 DEF SocketInv, DrainInv
    <3>2. \A t \in Sessions \ {s} :
              /\ t \notin Entered'
              /\ t \in ActiveSessions' => stopping'[t] \notin {"none", "done"}
      BY <2>1, <2>2 DEF Frame, SocketInv, DrainInv, Entered, ActiveSessions
    <3>3. s \notin Entered' /\ (s \in ActiveSessions' => s \in ActiveSessions)
      BY <2>1, <2>2, <3>1 DEF DrainView, SocketInv, DrainInv
    <3>4. s \in ActiveSessions' => stopping'[s] \notin {"none", "done"}
      BY <2>1, <2>2, <3>3 DEF DrainView, SocketInv, DrainInv, ActiveSessions
    <3> QED
      BY <2>1, <2>2, <3>1, <3>2, <3>3, <3>4 DEF DrainInv
  <2>3. CASE drain # "sessions"
    BY <2>1, <2>3 DEF Frame, LeaseStep, SocketInv, DrainInv
  <2> QED
    BY <2>2, <2>3
<1> QED
  BY <1>1, <1>3, <1>4 DEF SocketInv

\* The drain closes the sessions it finds once no handshake is left in the gate.
LEMMA CloseSessionsInvariant ==
    ASSUME SocketInv, CloseSessions
    PROVE  (\A s \in Sessions : SessionInv(s)') /\ DrainInv'
<1> USE DEF sendVars, sessionVars, drainVars, handshakeVars
<1>1. UNCHANGED <<state, upgrade, lease, conn, queued, sending, handler>>
  BY DEF CloseSessions
<1>2. ASSUME NEW s \in Sessions PROVE SessionInv(s)'
  <2>1. \/ session'[s] = session[s] /\ closing'[s] = closing[s]
        \/ /\ s \in ActiveSessions /\ session[s] # "closed" /\ closing[s] = "none"
           /\ session'[s] = "closing" /\ closing'[s] = "awaitSends"
    BY DEF CloseSessions, StartsClose
  <2> QED
    BY <1>1, <2>1 DEF SocketInv, SessionInv, Entered, ActiveSessions
<1>3. DrainInv'
  <2>1. /\ drain = "ingress" /\ drain' = "sessions" /\ Entered = {}
        /\ \A s \in Sessions : s \in ActiveSessions => stopping'[s] = "graceful"
    BY DEF CloseSessions
  <2> QED
    BY <1>1, <2>1 DEF SocketInv, DrainInv, Entered, ActiveSessions
<1> QED
  BY <1>2, <1>3

\* A drain that resolves has left no lease: no handshake is in the gate, and it is
\* done with every session that had not ended.
LEMMA SettlesClean ==
    ASSUME SocketInv, DrainSettles, drain' = "resolved", NEW s \in Sessions
    PROVE  lease[s] # "active"
<1>1. drain = "sessions" /\ stopping[s] \in {"none", "done"}
  BY DEF DrainSettles
<1>2. s \notin Entered /\ s \notin ActiveSessions
  BY <1>1 DEF SocketInv, DrainInv
<1> QED
  BY <1>2 DEF SocketInv, SessionInv

\* Every step of the drain and of the host keeps the invariant.
LEMMA DrainInvariant ==
    ASSUME SocketInv, Drain \/ CloseSessions \/ DrainSettles \/ CloseRuntime
    PROVE  SocketInv'
<1> USE DEF sendVars, sessionVars, handshakeVars
<1>1. TypeOK'
  BY DrainTyped DEF SocketInv
<1>2. CASE CloseSessions
  BY <1>1, <1>2, CloseSessionsInvariant DEF SocketInv
<1>3. CASE Drain \/ DrainSettles \/ CloseRuntime
  <2>1. UNCHANGED <<handshakeVars, conn, sessionVars, stopping>>
    BY <1>3 DEF Drain, DrainSettles, CloseRuntime
  <2>2. \A s \in Sessions : SessionInv(s)'
    BY <2>1 DEF SocketInv, SessionInv, Entered, ActiveSessions
  <2>3. DrainInv'
    <3>1. CASE Drain
      BY <3>1 DEF Drain, SocketInv, DrainInv
    <3>2. CASE DrainSettles
      <4>1. drain' = "resolved" => \A s \in Sessions : lease'[s] # "active"
        BY <2>1, <3>2, SettlesClean
      <4>2. drain = "sessions" /\ drain' \in {"rejected", "resolved"} /\ UNCHANGED state
        BY <3>2 DEF DrainSettles
      <4> QED
        BY <4>1, <4>2 DEF SocketInv, DrainInv
    <3>3. CASE CloseRuntime
      BY <2>1, <3>3 DEF CloseRuntime, SocketInv, DrainInv
    <3> QED
      BY <1>3, <3>1, <3>2, <3>3
  <2> QED
    BY <1>1, <2>2, <2>3 DEF SocketInv
<1> QED
  BY <1>2, <1>3

\* Stuttering keeps the invariant.
LEMMA StutterInvariant == SocketInv /\ UNCHANGED vars => SocketInv'
<1> SUFFICES ASSUME SocketInv, UNCHANGED vars PROVE SocketInv'
  OBVIOUS
<1> USE DEF vars, handshakeVars, sendVars, sessionVars, drainVars
<1>1. TypeOK'
  BY DEF SocketInv, TypeOK
<1>2. \A s \in Sessions : SessionInv(s)'
  BY DEF SocketInv, SessionInv, Entered, ActiveSessions
<1>3. DrainInv'
  BY DEF SocketInv, DrainInv, Entered, ActiveSessions
<1> QED
  BY <1>1, <1>2, <1>3 DEF SocketInv

\* SocketInv: a lease is held by a handshake in the gate or by a completion that
\* is pending, and by nothing else; a drain that closes the sessions has them all.
THEOREM SocketInductive == Spec => []SocketInv
<1>1. Init => SocketInv
  <2> SUFFICES ASSUME Init PROVE SocketInv
    OBVIOUS
  <2>1. TypeOK
    BY SocketAssumption DEF Init, TypeOK
  <2>2. (\A s \in Sessions : SessionInv(s)) /\ DrainInv
    BY DEF Init, SessionInv, DrainInv, Entered, ActiveSessions
  <2> QED
    BY <2>1, <2>2 DEF SocketInv
<1>2. SocketInv /\ [Next]_vars => SocketInv'
  BY LocalInvariant, DrainInvariant, StutterInvariant DEF Next, LocalStep
<1> QED
  BY <1>1, <1>2, PTL DEF Spec

\* CloseAfterSends: connection.close() never overtakes a send that was accepted
\* before it, whoever closes the session, the drain's 1001 included.
THEOREM ClosesFollowTheirSends == Spec => []CloseAfterSends
<1>1. SocketInv => CloseAfterSends
  BY DEF SocketInv, SessionInv, CloseAfterSends
<1> QED
  BY <1>1, SocketInductive, PTL

-----------------------------------------------------------------------------
(* The extension implements ExecutionLeases.                               *)

\* The session runs its handler, or its connection is open.
Busy(s) == handler[s] # "none" /\ (conn[s] = "open" \/ handler[s] # "done")

\* Neither unless the session's lease is active.
LEMMA IdleUnlessActive ==
    ASSUME SocketInv, NEW s \in Sessions, lease[s] # "active"
    PROVE  ~Busy(s)
BY DEF SocketInv, TypeOK, SessionInv, Entered, ActiveSessions, Busy

\* A step that neither begins nor completes a lease is work.
LEMMA WorkStep ==
    ASSUME SocketInv, SocketInv', UNCHANGED lease, (state = "running") = (state' = "running"),
           (drain = "resolved") = (drain' = "resolved")
    PROVE  Leases!Work
<1>1. \A s \in Sessions : Busy(s) \in BOOLEAN /\ Busy(s)' \in BOOLEAN
  BY DEF Busy
<1>2. ASSUME NEW s \in Sessions, lease[s] # "active"
      PROVE  ~Busy(s) /\ ~Busy(s)'
  <2>1. SocketInv /\ lease[s] # "active" => ~Busy(s)
    BY IdleUnlessActive
  <2>2. (SocketInv /\ lease[s] # "active" => ~Busy(s))'
    BY IdleUnlessActive, PTL
  <2> QED
    BY <1>2, <2>1, <2>2
<1>3. [s \in Sessions |-> Busy(s)]' \in [Sessions -> BOOLEAN]
  BY <1>1
<1>4. \A s \in Sessions :
          [t \in Sessions |-> Busy(t)]'[s] # [t \in Sessions |-> Busy(t)][s]
              => lease[s] = "active"
  BY <1>1, <1>2
<1> QED
  BY <1>3, <1>4 DEF Leases!Work, Busy

\* A step of a session begins its lease, completes it, or is work.
LEMMA LocalImplements ==
    ASSUME SocketInv, SocketInv', NEW s \in Sessions, LocalStep(s)
    PROVE  Leases!Next
<1>1. UNCHANGED <<state, drain>> /\ Frame(s) /\ LeaseStep(s)
  BY LocalKeeps DEF StepKeeps
<1>2. lease \in [Sessions -> {"none", "active", "completed"}]
      /\ lease' \in [Sessions -> {"none", "active", "completed"}]
  BY DEF SocketInv, TypeOK
<1>3. \A t \in Sessions \ {s} : lease'[t] = lease[t] /\ Busy(t)' = Busy(t)
  BY <1>1 DEF Frame, Busy
<1>4. (lease[s] # "active" => ~Busy(s)) /\ (lease'[s] # "active" => ~Busy(s)')
  <2>1. SocketInv /\ lease[s] # "active" => ~Busy(s)
    BY IdleUnlessActive
  <2>2. (SocketInv /\ lease[s] # "active" => ~Busy(s))'
    BY IdleUnlessActive, PTL
  <2> QED
    BY <2>1, <2>2
<1>5. Busy(s) \in BOOLEAN /\ Busy(s)' \in BOOLEAN
  BY DEF Busy
<1> DEFINE busy == [t \in Sessions |-> Busy(t)]
<1>6. busy' = [busy EXCEPT ![s] = Busy(s)']
  BY <1>3
<1>7. CASE lease'[s] = lease[s]
  <2>1. lease' = lease
    BY <1>2, <1>3, <1>7
  <2> QED
    BY <1>1, <2>1, WorkStep DEF Leases!Next
<1>8. CASE lease[s] = "none" /\ lease'[s] = "active" /\ state = "running"
  <2>1. lease' = [lease EXCEPT ![s] = "active"]
    BY <1>2, <1>3, <1>8
  <2>2. busy' \in {busy, [busy EXCEPT ![s] = TRUE]}
    <3>1. CASE Busy(s)' = TRUE
      BY <1>6, <3>1
    <3>2. CASE Busy(s)' = FALSE
      <4>1. Busy(s)' = Busy(s)
        BY <1>4, <1>5, <1>8, <3>2
      <4>2. busy' = busy
        BY <1>3, <4>1
      <4> QED
        BY <4>2
    <3> QED
      BY <1>5, <3>1, <3>2
  <2>3. Leases!Begin(s)
    BY <1>1, <1>8, <2>1, <2>2 DEF Leases!Begin, Busy
  <2> QED
    BY <2>3 DEF Leases!Next
<1>9. CASE lease[s] = "active" /\ lease'[s] = "completed"
  <2>1. lease' = [lease EXCEPT ![s] = "completed"]
    BY <1>2, <1>3, <1>9
  <2>2. Busy(s)' = FALSE
    BY <1>4, <1>5, <1>9
  <2>3. busy' = [busy EXCEPT ![s] = FALSE]
    BY <1>6, <2>2
  <2>4. Leases!Complete(s)
    BY <1>1, <1>9, <2>1, <2>3 DEF Leases!Complete, Busy
  <2> QED
    BY <2>4 DEF Leases!Next
<1> QED
  BY <1>1, <1>7, <1>8, <1>9 DEF LeaseStep

\* drain() stops accepting, resolves with no lease left, or is work.
LEMMA DrainImplements ==
    ASSUME SocketInv, SocketInv', Drain \/ CloseSessions \/ DrainSettles \/ CloseRuntime
    PROVE  Leases!Next
<1> USE DEF handshakeVars, sendVars, sessionVars
<1>1. UNCHANGED <<lease, handler, conn>>
  BY DEF Drain, CloseSessions, DrainSettles, CloseRuntime
<1>2. UNCHANGED [s \in Sessions |-> Busy(s)]
  BY <1>1 DEF Busy
<1>3. CASE Drain
  <2>1. Leases!StopAccepting
    BY <1>1, <1>2, <1>3 DEF Drain, Leases!StopAccepting, Busy
  <2> QED
    BY <2>1 DEF Leases!Next
<1>4. CASE DrainSettles /\ drain' = "resolved"
  <2>1. state # "running" /\ \A s \in Sessions : lease[s] # "active"
    BY <1>4, SettlesClean DEF DrainSettles, SocketInv, DrainInv
  <2>2. Leases!Drained
    BY <1>1, <1>2, <1>4, <2>1 DEF DrainSettles, Leases!Drained, Busy
  <2> QED
    BY <2>2 DEF Leases!Next
<1>5. CASE /\ (state = "running") = (state' = "running")
           /\ (drain = "resolved") = (drain' = "resolved")
  BY <1>1, <1>5, WorkStep DEF Leases!Next
<1>6. CASE CloseSessions \/ CloseRuntime
  BY <1>5, <1>6 DEF CloseSessions, CloseRuntime
<1>7. CASE DrainSettles /\ drain' # "resolved"
  BY <1>5, <1>7 DEF DrainSettles
<1> QED
  BY <1>3, <1>4, <1>6, <1>7

\* ImplementsLeases: a session's lease outlives its connection and its handler,
\* none begins once the runtime drains, and a drain that resolves has left none.
THEOREM SocketImplementsLeases == Spec => ImplementsLeases
<1>1. Init => Leases!Init
  <2> SUFFICES ASSUME Init PROVE Leases!Init
    OBVIOUS
  <2>1. \A s \in Sessions : Busy(s) = FALSE
    BY DEF Init, Busy
  <2>2. [s \in Sessions |-> Busy(s)] = [s \in Sessions |-> FALSE]
    BY <2>1
  <2>3. (state = "running") = TRUE /\ (drain = "resolved") = FALSE
    BY DEF Init
  <2> QED
    BY <2>2, <2>3 DEF Init, Leases!Init, Busy
<1>2. SocketInv /\ SocketInv' /\ [Next]_vars => [Leases!Next]_Leases!vars
  <2>1. UNCHANGED vars => UNCHANGED Leases!vars
    BY DEF vars, handshakeVars, sendVars, sessionVars, drainVars, Leases!vars
  <2> QED
    BY <2>1, LocalImplements, DrainImplements DEF Next, LocalStep
<1> QED
  BY <1>1, <1>2, SocketInductive, PTL DEF Spec, ImplementsLeases, Leases!Spec

\* Safe, as ExecutionLeases states it: a handler runs, and a connection is open,
\* only under an active lease, and none of them after a drain that resolved.
THEOREM SocketIsSafe == Spec => []Leases!Safe
<1>1. SocketInv => Leases!Safe
  <2> SUFFICES ASSUME SocketInv PROVE Leases!Safe
    OBVIOUS
  <2>1. \A s \in Sessions : Busy(s) => lease[s] = "active"
    BY IdleUnlessActive
  <2>2. drain = "resolved" => state # "running" /\ \A s \in Sessions : lease[s] # "active"
    BY DEF SocketInv, DrainInv
  <2> QED
    BY <2>1, <2>2 DEF Leases!Safe, Busy
<1> QED
  BY <1>1, SocketInductive, PTL

=============================================================================
