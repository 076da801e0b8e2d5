--------------------------- MODULE RuntimeHostProofs ---------------------------
(***************************************************************************)
(* Machine-checked proofs about RuntimeHost, for every choice of adapters, *)
(* callers and requests.                                                   *)
(***************************************************************************)
EXTENDS RuntimeHost, TLAPS

(* The inductive invariant.                                                *)

\* Shutdown has begun exactly when the hooks are disposed, and has closed the
\* application by then; whatever an attempt does comes after that.
StartedInv ==
    /\ started <=> disposed
    /\ started => ~hooksOn
    /\ started <=> phase # "open"
    /\ attempt # "none" \/ closed \/ closing # "none" => started

\* Past the safe boundary nothing executes, and an attempt that waits for its
\* resources has either closed the application or an error to report.
ApplicationInv ==
    /\ phase \in {"releasing", "closed"} => work = {}
    /\ attempt = "application" => ~safe
    /\ attempt = "resources" => safe \/ errors
    /\ attempt = "resources" /\ safe => phase = "closed"

QuietSocket == socket \in {"none", "bindFailed", "closed"}

\* serverClosingPromise, the native server and the adapter's variable agree, and
\* an attempt that has nothing to wait for has no server left.
ServerInv ==
    /\ ServerNotLost
    /\ ~started /\ socket # "none" => server
    /\ closing = "native" <=> socket = "closing"
    /\ closing = "resolved" => QuietSocket
    /\ attempt # "none" /\ resource = "resolved" =>
           QuietSocket /\ closing \in {"none", "resolved"}

\* Who was told that everything is closed was told so when it was.
AnsweredInv ==
    /\ closed => attempt = "none"
    /\ \A c \in Callers : caller[c] = "resolved" => closed
    /\ closed => phase = "closed" /\ QuietSocket /\ closing \in {"none", "resolved"}

HostInv == TypeOK /\ StartedInv /\ ApplicationInv /\ ServerInv /\ AnsweredInv

-----------------------------------------------------------------------------
(* Lemmas about the pieces the actions are built from.                     *)

\* A host that has just created its application satisfies the invariant.
LEMMA InitHost == Init => HostInv
BY AdaptersAssumption
   DEF Init, HostInv, TypeOK, StartedInv, ApplicationInv, ServerInv, ServerNotLost,
       AnsweredInv, QuietSocket

\* #close up to its first await closes what is open and stops the server; when it
\* has nothing to wait for, there is none.
LEMMA BeginAttemptHost ==
    ASSUME HostInv, CallClose, ~closed, server' = server,
           loop' \in {"idle", "closing", "waiting", "done", "gaveUp"},
           caller' \in [Callers -> {"idle", "waiting", "resolved", "rejected"}],
           \A c \in Callers : caller'[c] = "resolved" => caller[c] = "resolved",
           serve' \in {"idle", "binding", "served", "failing", "rejected"},
           UNCHANGED <<adapter, retryNeeds>>
    PROVE  HostInv'
<1> USE DEF HostInv
<1>1. CASE BeginAttempt
  <2>1. /\ resource' \in {"pending", "resolved"}
        /\ closing' \in {"none", "awaitListen", "native", "resolved"}
        /\ socket' \in {socket, "closing"}
    BY <1>1 DEF BeginAttempt, BeginServerClose, TypeOK
  <2>2. TypeOK'
    BY <1>1, <2>1 DEF BeginAttempt, TypeOK
  <2>3. StartedInv' /\ ApplicationInv'
    BY <1>1 DEF BeginAttempt, StartedInv, ApplicationInv
  <2>4. ServerInv'
    BY <1>1 DEF BeginAttempt, BeginServerClose, TypeOK, ServerInv, ServerNotLost, QuietSocket
  <2>5. AnsweredInv'
    BY <1>1 DEF BeginAttempt, AnsweredInv
  <2> QED
    BY <2>2, <2>3, <2>4, <2>5
<1>2. CASE attempt # "none" /\ JoinAttempt
  BY <1>2 DEF JoinAttempt, closeVars, appVars, TypeOK, StartedInv, ApplicationInv, ServerInv,
              ServerNotLost, QuietSocket, AnsweredInv
<1> QED
  BY <1>1, <1>2 DEF CallClose

\* A close() that finds everything closed changes nothing but its caller.
LEMMA JoinHost ==
    ASSUME HostInv, JoinAttempt, closed, server' = server,
           loop' \in {"idle", "closing", "waiting", "done", "gaveUp"},
           caller' \in [Callers -> {"idle", "waiting", "resolved", "rejected"}],
           serve' \in {"idle", "binding", "served", "failing", "rejected"},
           UNCHANGED <<adapter, retryNeeds>>
    PROVE  HostInv'
BY DEF HostInv, JoinAttempt, closeVars, appVars, TypeOK, StartedInv, ApplicationInv, ServerInv,
       ServerNotLost, QuietSocket, AnsweredInv

-----------------------------------------------------------------------------
(* Every step of the host.                                                 *)

\* close(), a signal and its retry keep the invariant.
LEMMA CloseHost ==
    HostInv /\ ((\E c \in Callers : Close(c)) \/ Signal \/ Retry) /\ UNCHANGED adapter
        => HostInv'
<1> SUFFICES ASSUME HostInv, (\E c \in Callers : Close(c)) \/ Signal \/ Retry,
                    UNCHANGED adapter
             PROVE  HostInv'
  OBVIOUS
<1>1. ASSUME NEW c \in Callers, Close(c) PROVE HostInv'
  <2>1. CASE closed
    BY <1>1, <2>1, JoinHost DEF Close, HostInv, TypeOK
  <2>2. CASE ~closed
    BY <1>1, <2>2, BeginAttemptHost DEF Close, HostInv, TypeOK
  <2> QED
    BY <2>1, <2>2
<1>2. CASE Signal
  <2>1. ~closed
    BY <1>2 DEF Signal, HostInv, StartedInv
  <2> QED
    BY <1>2, <2>1, BeginAttemptHost DEF Signal, HostInv, TypeOK
<1>3. CASE Retry
  <2>1. CASE closed
    BY <1>3, <2>1, JoinHost DEF Retry, HostInv, TypeOK
  <2>2. CASE ~closed
    BY <1>3, <2>2, BeginAttemptHost DEF Retry, HostInv, TypeOK
  <2> QED
    BY <2>1, <2>2
<1> QED
  BY <1>1, <1>2, <1>3

\* Requests that begin and end, and drains that settle, keep the invariant.
LEMMA AppHost == HostInv /\ AppNext /\ UNCHANGED adapter => HostInv'
<1> SUFFICES ASSUME HostInv, AppNext, UNCHANGED adapter PROVE HostInv'
  OBVIOUS
<1> USE DEF HostInv, closeVars, hookVars, serveVars, StartedInv, ApplicationInv, ServerInv,
            ServerNotLost, QuietSocket, AnsweredInv
<1>1. ASSUME NEW l \in Leases, Admit(l) PROVE HostInv'
  BY <1>1 DEF Admit, App!Admit, TypeOK
<1>2. ASSUME NEW l \in Leases, Finish(l) PROVE HostInv'
  BY <1>2 DEF Finish, App!Finish, TypeOK
<1>3. ASSUME NEW ok \in BOOLEAN, DrainEnds(ok) PROVE HostInv'
  BY <1>3 DEF DrainEnds, TypeOK
<1> QED
  BY <1>1, <1>2, <1>3 DEF AppNext

\* An attempt that succeeds has found a closed application and no server left.
LEMMA AttemptHost == HostInv /\ AttemptNext /\ UNCHANGED adapter => HostInv'
<1> SUFFICES ASSUME HostInv, AttemptNext, UNCHANGED adapter PROVE HostInv'
  OBVIOUS
<1> USE DEF HostInv, hookVars, serveVars, AttemptMoves
<1>1. CASE AppReleases
  BY <1>1 DEF AppReleases, App!Release, App!Move, TypeOK, StartedInv, ApplicationInv,
              ServerInv, ServerNotLost, QuietSocket, AnsweredInv
<1>2. CASE AppCloses
  <2>1. TypeOK'
    <3>1. errors' \in BOOLEAN /\ safe' \in BOOLEAN
      BY <1>2 DEF AppCloses, TypeOK
    <3> QED
      BY <3>1, <1>2 DEF AppCloses, TypeOK
  <2>2. StartedInv' /\ ServerInv'
    BY <1>2 DEF AppCloses, StartedInv, ServerInv, ServerNotLost, QuietSocket
  <2>3. ApplicationInv'
    BY <1>2 DEF AppCloses, StartedInv, ApplicationInv
  <2>4. AnsweredInv'
    BY <1>2 DEF AppCloses, QuietSocket, AnsweredInv
  <2> QED
    BY <2>1, <2>2, <2>3, <2>4
<1>3. CASE AppGivesUp
  <2>1. TypeOK'
    <3>1. errors' \in BOOLEAN
      BY <1>3 DEF AppGivesUp
    <3> QED
      BY <3>1, <1>3 DEF AppGivesUp, TypeOK
  <2>2. StartedInv' /\ ServerInv'
    BY <1>3 DEF AppGivesUp, StartedInv, ServerInv, ServerNotLost, QuietSocket
  <2>3. ApplicationInv'
    BY <1>3 DEF AppGivesUp, ApplicationInv
  <2>4. AnsweredInv'
    BY <1>3 DEF AppGivesUp, QuietSocket, AnsweredInv
  <2> QED
    BY <2>1, <2>2, <2>3, <2>4
<1>4. CASE AttemptEnds
  <2>1. attempt = "resources" /\ ~closed /\ attempt' = "none"
    BY <1>4 DEF AttemptEnds, AttemptFails, AttemptSucceeds, AnsweredInv
  <2>2. serve' \in {"idle", "binding", "served", "failing", "rejected"}
    BY <1>4 DEF AttemptEnds, TypeOK
  <2>3. CASE AttemptFails
    <3>1. loop' \in {"idle", "closing", "waiting", "done", "gaveUp"}
          /\ retryNeeds' \subseteq {"idle", "drain"}
      BY <2>3 DEF AttemptFails, LoopAfterFailure, RetryNeeds, TypeOK
    <3>2. caller' \in [Callers -> {"idle", "waiting", "resolved", "rejected"}]
          /\ \A c \in Callers : caller'[c] # "resolved"
      BY <2>1, <2>3 DEF AttemptFails, Answer, TypeOK, AnsweredInv
    <3>3. TypeOK'
      BY <1>4, <2>1, <2>2, <2>3, <3>1, <3>2
         DEF AttemptEnds, AttemptFails, appVars, TypeOK
    <3> QED
      BY <1>4, <2>1, <2>3, <3>2, <3>3
         DEF AttemptEnds, AttemptFails, appVars, StartedInv, ApplicationInv, ServerInv,
             ServerNotLost, QuietSocket, AnsweredInv
  <2>4. CASE AttemptSucceeds /\ ~errors /\ ~(safe /\ resource = "rejected")
    <3>1. safe /\ resource = "resolved"
      BY <1>4, <2>1, <2>4 DEF AttemptEnds, ResourcesReady, TypeOK, ApplicationInv
    <3>2. phase = "closed" /\ QuietSocket /\ closing \in {"none", "resolved"}
      BY <2>1, <3>1 DEF ApplicationInv, ServerInv
    <3>3. caller' \in [Callers -> {"idle", "waiting", "resolved", "rejected"}]
      BY <2>4 DEF AttemptSucceeds, Answer, TypeOK
    <3>4. TypeOK'
      BY <1>4, <2>1, <2>2, <2>4, <3>3
         DEF AttemptEnds, AttemptSucceeds, appVars, TypeOK
    <3> QED
      BY <1>4, <2>1, <2>4, <3>2, <3>4
         DEF AttemptEnds, AttemptSucceeds, appVars, StartedInv, ApplicationInv, ServerInv,
             ServerNotLost, QuietSocket, AnsweredInv
  <2> QED
    BY <1>4, <2>3, <2>4 DEF AttemptEnds
<1> QED
  BY <1>1, <1>2, <1>3, <1>4 DEF AttemptNext

\* serve() opens a server only before shutdown begins.
LEMMA ServeHost == HostInv /\ ServeNext /\ UNCHANGED adapter => HostInv'
<1> SUFFICES ASSUME HostInv, ServeNext, UNCHANGED adapter PROVE HostInv'
  OBVIOUS
<1>1. ASSUME CloseAndThrow PROVE HostInv'
  <2>1. CASE closed
    BY <1>1, <2>1, JoinHost DEF CloseAndThrow, HostInv, TypeOK
  <2>2. CASE ~closed
    BY <1>1, <2>2, BeginAttemptHost DEF CloseAndThrow, HostInv, TypeOK
  <2> QED
    BY <2>1, <2>2
<1>2. CASE NodeServeFails \/ BunServeFails
  BY <1>1, <1>2 DEF NodeServeFails, BunServeFails
<1> USE DEF HostInv, appVars, closeVars, hookVars, MayServe, SetHooks
<1>3. CASE NodeServe \/ BunServe
  <2>1. TypeOK'
    <3>1. hooksOn' \in BOOLEAN /\ server' \in BOOLEAN
      BY <1>3 DEF NodeServe, BunServe, TypeOK
    <3>2. /\ serve' \in {"binding", "served"} /\ socket' \in {"binding", "listening"}
          /\ UNCHANGED <<appVars, closeVars, caller, disposed, loop, retryNeeds, closing>>
      BY <1>3 DEF NodeServe, BunServe
    <3> QED
      BY <3>1, <3>2 DEF TypeOK
  <2>2. StartedInv' /\ ApplicationInv'
    BY <1>3 DEF NodeServe, BunServe, StartedInv, ApplicationInv
  <2>3. ServerInv'
    BY <1>3 DEF NodeServe, BunServe, StartedInv, ServerInv, ServerNotLost, QuietSocket
  <2>4. AnsweredInv'
    BY <1>3 DEF NodeServe, BunServe, StartedInv, AnsweredInv
  <2> QED
    BY <2>1, <2>2, <2>3, <2>4
<1>4. CASE NodeBinds
  BY <1>4 DEF NodeBinds, TypeOK, StartedInv, ApplicationInv, ServerInv, ServerNotLost,
              QuietSocket, AnsweredInv
<1>5. CASE NodeServes
  BY <1>5 DEF NodeServes, TypeOK, StartedInv, ApplicationInv, ServerInv, ServerNotLost,
              QuietSocket, AnsweredInv
<1>6. CASE NodeTriesNextPort
  <2>1. TypeOK'
    BY <1>6 DEF NodeTriesNextPort, TypeOK
  <2>2. StartedInv' /\ ApplicationInv'
    BY <1>6 DEF NodeTriesNextPort, StartedInv, ApplicationInv
  <2>3. ServerInv'
    BY <1>6 DEF NodeTriesNextPort, StartedInv, ServerInv, ServerNotLost, QuietSocket
  <2>4. AnsweredInv'
    BY <1>6 DEF NodeTriesNextPort, StartedInv, AnsweredInv
  <2> QED
    BY <2>1, <2>2, <2>3, <2>4
<1> QED
  BY <1>2, <1>3, <1>4, <1>5, <1>6 DEF ServeNext

\* The adapter forgets the native server only when that has closed.
LEMMA NativeHost == HostInv /\ NativeNext /\ UNCHANGED adapter => HostInv'
<1> SUFFICES ASSUME HostInv, NativeNext, UNCHANGED adapter PROVE HostInv'
  OBVIOUS
<1> USE DEF HostInv, appVars, hookVars, ServerClosed
<1>1. CASE ListenAwaited
  <2>1. TypeOK'
    <3>1. server' \in BOOLEAN
      BY <1>1 DEF ListenAwaited, TypeOK
    <3> QED
      BY <1>1, <3>1 DEF ListenAwaited, TypeOK
  <2>2. StartedInv' /\ ApplicationInv'
    BY <1>1 DEF ListenAwaited, StartedInv, ApplicationInv
  <2>3. ServerInv'
    BY <1>1 DEF ListenAwaited, TypeOK, StartedInv, ServerInv, ServerNotLost, QuietSocket
  <2>4. AnsweredInv'
    BY <1>1 DEF ListenAwaited, AnsweredInv
  <2> QED
    BY <2>1, <2>2, <2>3, <2>4
<1>2. ASSUME NEW ok \in BOOLEAN, NativeCloses(ok) PROVE HostInv'
  <2>1. TypeOK'
    <3>1. server' \in BOOLEAN
      BY <1>2 DEF NativeCloses, TypeOK
    <3> QED
      BY <1>2, <3>1 DEF NativeCloses, TypeOK
  <2>2. StartedInv' /\ ApplicationInv'
    BY <1>2 DEF NativeCloses, StartedInv, ApplicationInv
  <2>3. ServerInv'
    BY <1>2 DEF NativeCloses, StartedInv, ServerInv, ServerNotLost, QuietSocket
  <2>4. AnsweredInv'
    BY <1>2 DEF NativeCloses, AnsweredInv
  <2> QED
    BY <2>1, <2>2, <2>3, <2>4
<1> QED
  BY <1>1, <1>2 DEF NativeNext

\* HostInv: shutdown, the application, the native server and the answers that
\* callers have got agree in every behaviour.
THEOREM HostInductive == Spec => []HostInv
<1>1. HostInv /\ [Next]_vars => HostInv'
  <2>1. HostInv /\ UNCHANGED vars => HostInv'
    BY DEF vars, hostVars, appVars, closeVars, hookVars, serveVars, HostInv, TypeOK,
           StartedInv, ApplicationInv, ServerInv, ServerNotLost, QuietSocket, AnsweredInv
  <2> QED
    BY <2>1, CloseHost, AppHost, AttemptHost, ServeHost, NativeHost DEF Next
<1> QED
  BY InitHost, <1>1, PTL DEF Spec

-----------------------------------------------------------------------------
(* What the host promises.                                                 *)

\* TypeOK: every variable of the host keeps its type in every behaviour.
THEOREM HostTypeCorrect == Spec => []TypeOK
<1>1. HostInv => TypeOK
  BY DEF HostInv
<1> QED
  BY <1>1, HostInductive, PTL

\* close() resolves, to anybody and by whatever adapter, only when the application
\* is stopped and no server accepts, will accept or still serves a connection.
THEOREM ClosedIsQuiet == Spec => []ClosedMeansQuiet
<1>1. HostInv => ClosedMeansQuiet
  BY DEF HostInv, ApplicationInv, AnsweredInv, QuietSocket, ClosedMeansQuiet
<1> QED
  BY <1>1, HostInductive, PTL

\* Once shutdown has begun no signal handler is left, and none is installed again.
THEOREM HooksStayOff == Spec => []HooksOffOnceStarted
<1>1. HostInv => HooksOffOnceStarted
  BY DEF HostInv, StartedInv, HooksOffOnceStarted
<1> QED
  BY <1>1, HostInductive, PTL

\* As long as a server holds a socket, a further close() can still close it.
THEOREM ServersAreNotLost == Spec => []ServerNotLost
<1>1. HostInv => ServerNotLost
  BY DEF HostInv, ServerInv
<1> QED
  BY <1>1, HostInductive, PTL

\* serve() hands out a server only before shutdown has begun.
THEOREM ServersAreServedInTime == Spec => ServedBeforeShutdown
<1>1. [Next]_vars => [serve # "served" /\ serve' = "served" => ~started']_vars
  <2> SUFFICES ASSUME Next, serve # "served", serve' = "served" PROVE ~started'
    OBVIOUS
  <2>1. NodeServes \/ BunServe
    BY DEF Next, Close, Signal, Retry, AppNext, Admit, Finish, DrainEnds, AttemptNext,
           AppReleases, AppCloses, AppGivesUp, AttemptMoves, AttemptEnds, ServeNext, NodeServe,
           NodeBinds, NodeTriesNextPort, NodeServeFails, BunServeFails, CloseAndThrow,
           NativeNext, ListenAwaited, NativeCloses, serveVars
  <2> QED
    BY <2>1 DEF NodeServes, BunServe, MayServe, closeVars
<1> QED
  BY <1>1, PTL DEF Spec, ServedBeforeShutdown

=============================================================================
