------------------------------ MODULE HttpProofs ------------------------------
(***************************************************************************)
(* Machine-checked proofs about Http, for any number of requests and of    *)
(* streaming ones: the extension implements ExecutionLeases for the        *)
(* sources of the bodies it streams, not for handlers.                     *)
(***************************************************************************)
EXTENDS Http, TLAPS

(* The inductive invariant.                                                *)

\* A request holds its lease until it is answered or a stream owns it; a stream
\* that has finished without a cleanup has come to the end of its source, and one
\* whose lease is completed has nothing left to wait for.
RequestInv(r) ==
    /\ stage[r] = "none" => lease[r] = "none"
    /\ r \in Pending /\ body[r] = "none" => lease[r] = "active"
    /\ stage[r] = "answered" /\ body[r] = "none" => lease[r] # "active"
    /\ body[r] = "none" => pull[r] = "idle" /\ cleanup[r] = "none"
    /\ body[r] # "none" => stage[r] \in {"answering", "answered"} /\ lease[r] # "none"
    /\ finished[r] /\ cleanup[r] = "none" => ended[r]
    /\ cleanup[r] = "over" => ended[r]
    /\ body[r] # "none" /\ lease[r] = "completed" =>
           finished[r] /\ cleanup[r] \in {"none", "over"} /\ pull[r] = "idle"

\* Once the drain has aborted the streams, each that still owns a lease is waited
\* for, or its cleanup has been given up.
DrainInv ==
    /\ gate <=> drain = "none"
    /\ drain = "streams" =>
           \A r \in Requests : lease[r] = "active" => abort[r] \in {"waiting", "failed"}
    /\ drain = "resolved" => \A r \in Requests : lease[r] # "active"

HttpInv == Typed /\ (\A r \in Requests : RequestInv(r)) /\ DrainInv

-----------------------------------------------------------------------------
(* Type correctness.                                                       *)

\* The first step of a cleanup, and stop(), keep the types.
LEMMA StopTyped ==
    ASSUME Typed, NEW r \in Requests, Stop(r)
    PROVE  /\ finished' \in [Requests -> BOOLEAN]
           /\ cleanup' \in [Requests -> {"none", "cancel", "return", "awaitIdle", "loop", "next",
                                         "finish", "givenUp", "over"}]
<1>1. \A kind : FirstOfCleanup(r, kind) \in {"cancel", "finish", "awaitIdle", "return"}
  BY DEF FirstOfCleanup
<1> QED
  BY <1>1 DEF Typed, Stop, Set

\* Completing the lease, if it may be, keeps its type.
LEMMA CompleteTyped ==
    ASSUME Typed, NEW r \in Requests, CompleteIfSafe(r)
    PROVE  lease' \in [Requests -> {"none", "active", "completed"}]
BY DEF Typed, CompleteIfSafe

\* Ending the cleanup keeps the types.
LEMMA EndCleanupTyped ==
    ASSUME Typed, NEW r \in Requests, NEW ok \in BOOLEAN, EndCleanup(r, ok),
           continuing' \in [Requests -> BOOLEAN]
    PROVE  Typed'
<1>1. failed' \in [Requests -> BOOLEAN]
  <2>1. (~ok) \in BOOLEAN
    OBVIOUS
  <2> QED
    BY <2>1 DEF Typed, EndCleanup, Set
<1>2. ended' \in [Requests -> BOOLEAN]
  BY DEF Typed, EndCleanup, Set
<1>3. cleanup' \in [Requests -> {"none", "cancel", "return", "awaitIdle", "loop", "next",
                                 "finish", "givenUp", "over"}]
  BY DEF Typed, EndCleanup, Set
<1>4. lease' \in [Requests -> {"none", "active", "completed"}]
  BY CompleteTyped DEF EndCleanup
<1> QED
  BY <1>1, <1>2, <1>3, <1>4 DEF Typed, EndCleanup, CleanupOnly, requestVars

\* fetch(), up to the stream it may adopt, keeps the types.
LEMMA FetchTyped ==
    ASSUME Typed, NEW r \in Requests,
           Arrive(r) \/ FetchStep(r) \/ HandlerStarts(r) \/ HandlerEnds(r)
    PROVE  Typed'
<1> USE DEF requestVars, sourceVars, drainVars, NoStream, Set, Finish, Admit
<1>1. CASE Refuse(r) \/ BeginRefused(r) \/ NotFound(r) \/ Preflight(r)
  BY <1>1 DEF Typed, Refuse, BeginRefused, NotFound, Preflight
<1>2. ASSUME NEW gone \in BOOLEAN, Enter(r, gone) PROVE Typed'
  <2>1. aborted' \in [Requests -> BOOLEAN]
    BY <1>2 DEF Typed, Enter
  <2> QED
    BY <1>2, <2>1 DEF Typed, Enter
<1>3. CASE PreflightAnswers(r) \/ Prepared(r) \/ InputRejected(r) \/ PrepareFails(r)
  <2>1. CASE PreflightAnswers(r)
    BY <2>1 DEF Typed, PreflightAnswers
  <2>2. CASE Prepared(r) \/ InputRejected(r) \/ PrepareFails(r)
    BY <2>2 DEF Typed, Prepared, InputRejected, PrepareFails
  <2> QED
    BY <1>3, <2>1, <2>2
<1>4. CASE LayerThrows(r) \/ Mapped(r) \/ Answer(r) \/ HandlerStarts(r) \/ HandlerEnds(r)
  <2>1. CASE LayerThrows(r) \/ Mapped(r)
    BY <2>1 DEF Typed, LayerThrows, Mapped
  <2>2. CASE Answer(r)
    BY <2>2 DEF Typed, Answer
  <2>3. CASE HandlerStarts(r) \/ HandlerEnds(r)
    BY <2>3 DEF Typed, HandlerStarts, HandlerEnds
  <2> QED
    BY <1>4, <2>1, <2>2, <2>3
<1>5. ASSUME NEW gone \in BOOLEAN, PreflightFallsThrough(r, gone) PROVE Typed'
  <2>1. aborted' \in [Requests -> BOOLEAN]
    BY <1>5 DEF Typed, PreflightFallsThrough
  <2> QED
    BY <1>5, <2>1 DEF Typed, PreflightFallsThrough
<1>6. ASSUME NEW outcome \in {"response", "result", "error", "rejected"}, LayersEnd(r, outcome)
      PROVE  Typed'
  <2>1. /\ lease' = lease \/ Set(lease, r, "completed")
        /\ \E v \in {"answered", "finalizing", "mapping", "answering"} : Set(stage, r, v)
    BY <1>6 DEF LayersEnd
  <2> QED
    BY <1>6, <2>1 DEF Typed, LayersEnd
<1>7. ASSUME NEW ok \in BOOLEAN, Finalized(r, ok) PROVE Typed'
  BY <1>7 DEF Typed, Finalized
<1>8. ASSUME NEW kind \in {"leased", "events"}, Adopt(r, kind),
             stage' \in [Requests -> {"none", "preflight", "preparing", "layers", "finalizing",
                                     "mapping", "answering", "answered"}]
      PROVE  Typed'
  <2>1. finished' \in [Requests -> BOOLEAN]
    BY <1>8 DEF Typed, Adopt
  <2>2. FirstOfCleanup(r, kind) \in {"cancel", "finish", "awaitIdle", "return"}
    BY DEF FirstOfCleanup
  <2>3. cleanup' \in [Requests -> {"none", "cancel", "return", "awaitIdle", "loop", "next",
                                   "finish", "givenUp", "over"}]
    BY <1>8, <2>2 DEF Typed, Adopt
  <2> QED
    BY <1>8, <2>1, <2>3 DEF Typed, Adopt
<1>9. CASE RespondBody(r)
  <2>1. Set(stage, r, "answered") /\ Adopt(r, "leased")
    BY <1>9 DEF RespondBody
  <2>2. stage' \in [Requests -> {"none", "preflight", "preparing", "layers", "finalizing",
                                 "mapping", "answering", "answered"}]
    BY <2>1 DEF Typed
  <2> QED
    BY <1>8, <2>1, <2>2
<1>10. ASSUME NEW kind \in {"leased", "events"}, FinalizedStream(r, kind) \/ MappedStream(r, kind)
       PROVE  Typed'
  BY <1>8, <1>10 DEF Typed, FinalizedStream, MappedStream
<1> QED
  BY <1>1, <1>2, <1>3, <1>4, <1>5, <1>6, <1>7, <1>9, <1>10 DEF Arrive, FetchStep

\* What reads a stream, or ends it, keeps the types.
LEMMA StreamTyped ==
    ASSUME Typed, NEW r \in Requests,
           Pull(r) \/ SourceAnswers(r) \/ Cancel(r) \/ AbortLease(r) \/ DeadlinePasses(r)
    PROVE  Typed'
<1> USE DEF requestVars, sourceVars, drainVars, StreamOnly
<1>1. CASE Pull(r)
  BY <1>1 DEF Typed, Pull, Set
<1>2. CASE PullItem(r)
  <2>1. pull' \in [Requests -> {"idle", "read", "validate"}]
    BY <1>2 DEF Typed, PullItem, Set
  <2> QED
    BY <1>2, <2>1, CompleteTyped DEF Typed, PullItem
<1>3. CASE PullDone(r)
  <2>1. pull' \in [Requests -> {"idle", "read", "validate"}]
    BY <1>3 DEF Typed, PullDone, Set
  <2>2. finished' \in [Requests -> BOOLEAN] /\ ended' \in [Requests -> BOOLEAN]
    BY <1>3 DEF Typed, PullDone, Set
  <2>3. continuing' \in [Requests -> BOOLEAN]
    BY <1>3 DEF Typed, PullDone, Set
  <2> QED
    BY <1>3, <2>1, <2>2, <2>3, CompleteTyped DEF Typed, PullDone
<1>4. CASE PullFails(r)
  <2>1. pull' \in [Requests -> {"idle", "read", "validate"}]
    BY <1>4 DEF Typed, PullFails, Set
  <2>2. CASE body[r] = "leased"
    <3>1. finished' \in [Requests -> BOOLEAN] /\ ended' \in [Requests -> BOOLEAN]
      <4>1. Set(finished, r, TRUE) /\ Set(ended, r, TRUE)
        BY <1>4, <2>2 DEF PullFails
      <4> QED
        BY <4>1 DEF Typed, Set
    <3>2. lease' \in [Requests -> {"none", "active", "completed"}]
      BY <1>4, <2>2, CompleteTyped DEF PullFails
    <3>3. UNCHANGED <<cleanup, failed, continuing>> /\ StreamOnly
      BY <1>4, <2>2 DEF PullFails
    <3> QED
      BY <2>1, <3>1, <3>2, <3>3 DEF Typed
  <2>3. CASE body[r] # "leased"
    BY <1>4, <2>1, <2>3, CompleteTyped, StopTyped DEF Typed, PullFails
  <2> QED
    BY <2>2, <2>3
<1>5. ASSUME NEW ok \in BOOLEAN, Validated(r, ok) PROVE Typed'
  <2>1. pull' \in [Requests -> {"idle", "read", "validate"}]
    BY <1>5 DEF Typed, Validated, Set
  <2>2. CASE ok
    BY <1>5, <2>1, <2>2, CompleteTyped DEF Typed, Validated
  <2>3. CASE ~ok
    BY <1>5, <2>1, <2>3, CompleteTyped, StopTyped DEF Typed, Validated
  <2> QED
    BY <2>2, <2>3
<1>6. CASE Cancel(r)
  BY <1>6, StopTyped DEF Typed, Cancel
<1>7. CASE AbortLease(r)
  <2>1. aborted' \in [Requests -> BOOLEAN]
    BY <1>7 DEF Typed, AbortLease, Set
  <2>2. CASE body[r] # "none" /\ ~finished[r]
    BY <1>7, <2>1, <2>2, StopTyped DEF Typed, AbortLease
  <2>3. CASE ~(body[r] # "none" /\ ~finished[r])
    BY <1>7, <2>1, <2>3 DEF Typed, AbortLease
  <2> QED
    BY <2>2, <2>3
<1>8. CASE DeadlinePasses(r)
  BY <1>8 DEF Typed, DeadlinePasses, DrainOnly, Set
<1> QED
  BY <1>1, <1>2, <1>3, <1>4, <1>5, <1>6, <1>7, <1>8 DEF SourceAnswers

\* A step of a cleanup keeps the types.
LEMMA CleanupTyped ==
    ASSUME Typed, NEW r \in Requests, CleanupStep(r)
    PROVE  Typed'
<1>1. ASSUME NEW v \in {"awaitIdle", "loop", "next", "finish", "givenUp"}, Set(cleanup, r, v),
             UNCHANGED <<lease, failed, ended>>, CleanupOnly,
             continuing' \in [Requests -> BOOLEAN],
             abort' \in [Requests -> {"none", "waiting", "failed", "ok"}]
      PROVE  Typed'
  BY <1>1 DEF Typed, CleanupOnly, requestVars, Set
<1>2. ASSUME Set(continuing, r, FALSE) PROVE continuing' \in [Requests -> BOOLEAN]
  BY <1>2 DEF Typed, Set
<1>3. CASE IdleAwaited(r) \/ CleanupLoops(r)
  <2>1. \E v \in {"loop", "next", "finish"} : Set(cleanup, r, v)
    BY <1>3 DEF IdleAwaited, CleanupLoops
  <2> QED
    BY <1>1, <1>3, <2>1 DEF IdleAwaited, CleanupLoops, Typed
<1>4. CASE CleanupFinishes(r) \/ \E ok \in BOOLEAN : SourceCancelled(r, ok)
  <2>1. UNCHANGED continuing /\ \E ok \in BOOLEAN : EndCleanup(r, ok)
    BY <1>4 DEF CleanupFinishes, SourceCancelled
  <2>2. continuing' \in [Requests -> BOOLEAN]
    BY <2>1 DEF Typed
  <2> QED
    BY <2>1, <2>2, EndCleanupTyped
<1>5. CASE DeadlineExceeded(r)
  <2>1. abort' \in [Requests -> {"none", "waiting", "failed", "ok"}]
    BY <1>5 DEF DeadlineExceeded, Typed
  <2> QED
    BY <1>1, <1>5, <2>1 DEF DeadlineExceeded, Typed
<1>6. ASSUME NEW result \in {"done", "more", "error"}, CleanupReturns(r, result) PROVE Typed'
  <2>1. CASE result = "done"
    BY <1>2, <1>6, <2>1, EndCleanupTyped DEF CleanupReturns
  <2>2. CASE result = "more"
    <3>1. /\ Set(cleanup, r, "awaitIdle") /\ Set(continuing, r, TRUE)
          /\ UNCHANGED <<lease, failed, ended, abort>> /\ CleanupOnly
      BY <1>6, <2>2 DEF CleanupReturns
    <3>2. continuing' \in [Requests -> BOOLEAN]
      BY <3>1 DEF Typed, Set
    <3> QED
      BY <1>1, <3>1, <3>2 DEF Typed
  <2>3. CASE result = "error"
    <3>1. EndCleanup(r, FALSE) /\ UNCHANGED continuing
      BY <1>6, <2>3 DEF CleanupReturns
    <3> QED
      BY <3>1, EndCleanupTyped DEF Typed
  <2> QED
    BY <2>1, <2>2, <2>3
<1>7. ASSUME NEW result \in {"item", "done", "error"}, CleanupNext(r, result) PROVE Typed'
  <2>1. CASE result = "item"
    BY <1>1, <1>7, <2>1 DEF CleanupNext, Typed
  <2>2. CASE result = "done"
    BY <1>2, <1>7, <2>2, EndCleanupTyped DEF CleanupNext
  <2>3. CASE result = "error"
    <3>1. EndCleanup(r, FALSE) /\ UNCHANGED continuing
      BY <1>7, <2>3 DEF CleanupNext
    <3> QED
      BY <3>1, EndCleanupTyped DEF Typed
  <2> QED
    BY <2>1, <2>2, <2>3
<1> QED
  BY <1>3, <1>4, <1>5, <1>6, <1>7 DEF CleanupStep

\* drain() and the kernel keep the types.
LEMMA DrainTyped == Typed /\ (KernelStops \/ Drain \/ DrainStep) => Typed'
<1> SUFFICES ASSUME Typed, KernelStops \/ Drain \/ DrainStep PROVE Typed'
  OBVIOUS
<1> USE DEF requestVars, DrainOnly
<1>1. CASE KernelStops \/ Drain \/ DrainSettles
  <2>1. gate' \in BOOLEAN /\ running' \in BOOLEAN
    BY <1>1 DEF Typed, KernelStops, Drain, DrainSettles
  <2>2. drain' \in {"none", "ingress", "streams", "resolved", "rejected"}
    BY <1>1 DEF Typed, KernelStops, Drain, DrainSettles
  <2> QED
    BY <1>1, <2>1, <2>2 DEF Typed, KernelStops, Drain, DrainSettles
<1>2. CASE AbortStreams
  <2>1. aborted' \in [Requests -> BOOLEAN] /\ finished' \in [Requests -> BOOLEAN]
    BY <1>2 DEF Typed, AbortStreams
  <2>2. \A r \in Requests :
            FirstOfCleanup(r, body[r]) \in {"cancel", "finish", "awaitIdle", "return"}
    BY DEF FirstOfCleanup
  <2>3. cleanup' \in [Requests -> {"none", "cancel", "return", "awaitIdle", "loop", "next",
                                   "finish", "givenUp", "over"}]
    BY <1>2, <2>2 DEF Typed, AbortStreams
  <2>4. deadline' \in [Requests -> {"none", "future", "past"}]
    BY <1>2 DEF Typed, AbortStreams
  <2>5. abort' \in [Requests -> {"none", "waiting", "failed", "ok"}]
    BY <1>2 DEF Typed, AbortStreams
  <2> QED
    BY <1>2, <2>1, <2>3, <2>4, <2>5 DEF Typed, AbortStreams
<1>3. ASSUME NEW r \in Requests, StreamAborted(r) PROVE Typed'
  BY <1>3 DEF Typed, StreamAborted, Set
<1> QED
  BY <1>1, <1>2, <1>3 DEF DrainStep

-----------------------------------------------------------------------------
(* The requests, one at a time.                                            *)

\* A step of request r leaves every other request alone.
Frame(r) ==
    \A q \in Requests \ {r} :
        /\ stage'[q] = stage[q] /\ lease'[q] = lease[q] /\ body'[q] = body[q]
        /\ pull'[q] = pull[q] /\ finished'[q] = finished[q] /\ cleanup'[q] = cleanup[q]
        /\ ended'[q] = ended[q] /\ abort'[q] = abort[q]

\* A lease is begun through the gate, perhaps to end at once, or is completed.
LeaseStep(r) ==
    \/ lease'[r] = lease[r]
    \/ lease[r] = "none" /\ lease'[r] = "active" /\ gate
    \/ lease[r] = "none" /\ lease'[r] = "completed" /\ gate /\ body[r] = "none" /\ body'[r] = "none"
    \/ lease[r] = "active" /\ lease'[r] = "completed"

StepKeeps(r) ==
    /\ UNCHANGED <<gate, drain>>
    /\ Frame(r) /\ RequestInv(r)' /\ LeaseStep(r)
    /\ abort'[r] = abort[r] \/ abort'[r] = "failed"

\* Every step of fetch() that adopts no stream keeps the request's invariant.
LEMMA FetchKeeps ==
    ASSUME Typed, NEW r \in Requests, RequestInv(r),
           \/ Arrive(r) \/ HandlerStarts(r) \/ HandlerEnds(r)
           \/ PreflightAnswers(r) \/ Prepared(r) \/ InputRejected(r) \/ PrepareFails(r)
           \/ LayerThrows(r) \/ Mapped(r) \/ Answer(r)
           \/ \E gone \in BOOLEAN : PreflightFallsThrough(r, gone)
           \/ \E outcome \in {"response", "result", "error", "rejected"} : LayersEnd(r, outcome)
           \/ \E ok \in BOOLEAN : Finalized(r, ok)
    PROVE  StepKeeps(r)
<1> USE DEF sourceVars, drainVars, NoStream
<1> DEFINE Keeps(f) == \A q \in Requests \ {r} : f'[q] = f[q]
<1>1. UNCHANGED <<body, pull, finished, cleanup, ended, gate, drain, abort>>
  BY DEF Arrive, Refuse, BeginRefused, NotFound, Preflight, Enter, HandlerStarts, HandlerEnds,
         PreflightAnswers, Prepared, InputRejected, PrepareFails, LayerThrows, Mapped, Answer,
         PreflightFallsThrough, LayersEnd, Finalized
<1>2. Keeps(stage) /\ Keeps(lease)
  <2>1. CASE Arrive(r) \/ HandlerStarts(r) \/ HandlerEnds(r)
    BY <2>1 DEF Arrive, Refuse, BeginRefused, NotFound, Preflight, Enter, HandlerStarts,
                HandlerEnds, Admit, Set, Typed
  <2>2. CASE \/ PreflightAnswers(r) \/ Prepared(r) \/ InputRejected(r) \/ PrepareFails(r)
             \/ LayerThrows(r) \/ Mapped(r) \/ Answer(r)
    BY <2>2 DEF PreflightAnswers, Prepared, InputRejected, PrepareFails, LayerThrows, Mapped,
                Answer, Finish, Set, Typed
  <2>3. CASE \/ \E gone \in BOOLEAN : PreflightFallsThrough(r, gone)
             \/ \E outcome \in {"response", "result", "error", "rejected"} : LayersEnd(r, outcome)
             \/ \E ok \in BOOLEAN : Finalized(r, ok)
    BY <2>3 DEF PreflightFallsThrough, LayersEnd, Finalized, Finish, Admit, Set, Typed
  <2> QED
    BY <2>1, <2>2, <2>3
<1>3. \/ stage'[r] = stage[r] /\ lease'[r] = lease[r]
      \/ stage[r] = "none" /\ stage'[r] = "answered" /\ lease'[r] = lease[r]
      \/ stage[r] = "none" /\ stage'[r] = "answered" /\ lease'[r] = "completed" /\ gate
      \/ stage[r] = "none" /\ stage'[r] \in {"preflight", "preparing"} /\ lease'[r] = "active" /\ gate
      \/ stage[r] = "answering" /\ stage'[r] = "answered" /\ body[r] # "none" /\ lease'[r] = lease[r]
      \/ r \in Pending /\ body[r] = "none" /\ stage'[r] = "answered" /\ lease'[r] = "completed"
      \/ r \in Pending /\ body[r] = "none" /\ stage'[r] \notin {"none", "answered"}
         /\ lease'[r] = "active"
  <2>1. CASE Arrive(r) \/ HandlerStarts(r) \/ HandlerEnds(r)
    BY <2>1 DEF Arrive, Refuse, BeginRefused, NotFound, Preflight, Enter, HandlerStarts,
                HandlerEnds, Admit, Set, Typed
  <2>2. CASE \/ PreflightAnswers(r) \/ Prepared(r) \/ InputRejected(r) \/ PrepareFails(r)
             \/ LayerThrows(r) \/ Mapped(r)
    BY <2>2 DEF PreflightAnswers, Prepared, InputRejected, PrepareFails, LayerThrows, Mapped,
                Finish, Set, Typed, RequestInv, Pending
  <2>3. CASE Answer(r)
    BY <2>3 DEF Answer, Finish, Set, Typed, Pending
  <2>4. CASE \E gone \in BOOLEAN : PreflightFallsThrough(r, gone)
    BY <2>4 DEF PreflightFallsThrough, Finish, Admit, Set, Typed, RequestInv, Pending
  <2>5. ASSUME NEW outcome \in {"response", "result", "error", "rejected"}, LayersEnd(r, outcome)
        PROVE  \/ stage'[r] = "answered" /\ lease'[r] = "completed"
               \/ stage'[r] \notin {"none", "answered"} /\ lease' = lease
    <3>1. \/ Finish(r)
          \/ lease' = lease /\ \E v \in {"finalizing", "mapping", "answering"} : Set(stage, r, v)
      BY <2>5 DEF LayersEnd
    <3> QED
      BY <3>1 DEF Finish, Set, Typed
  <2>6. CASE \E outcome \in {"response", "result", "error", "rejected"} : LayersEnd(r, outcome)
    BY <2>5, <2>6 DEF LayersEnd, RequestInv, Pending
  <2>7. CASE \E ok \in BOOLEAN : Finalized(r, ok)
    BY <2>7 DEF Finalized, Finish, Set, Typed, RequestInv, Pending
  <2> QED
    BY <2>1, <2>2, <2>3, <2>4, <2>6, <2>7
<1>4. RequestInv(r)'
  BY <1>1, <1>3 DEF RequestInv, Pending
<1>5. LeaseStep(r)
  BY <1>1, <1>3 DEF RequestInv, LeaseStep, Pending
<1> QED
  BY <1>1, <1>2, <1>4, <1>5 DEF StepKeeps, Frame

\* So does the adoption of a stream, which finds none before it and whose cleanup
\* starts at once under a lease that is aborted already.
LEMMA AdoptKeeps ==
    ASSUME Typed, NEW r \in Requests, RequestInv(r),
           \/ RespondBody(r)
           \/ \E kind \in {"leased", "events"} : FinalizedStream(r, kind) \/ MappedStream(r, kind)
    PROVE  StepKeeps(r)
<1> USE DEF drainVars
<1> DEFINE Keeps(f) == \A q \in Requests \ {r} : f'[q] = f[q]
<1>1. /\ \E kind \in {"leased", "events"} : Adopt(r, kind)
      /\ stage[r] \in {"layers", "finalizing", "mapping"}
      /\ stage'[r] \in {"answering", "answered"} /\ Keeps(stage)
  BY DEF RespondBody, FinalizedStream, MappedStream, Set, Typed
<1>2. PICK kind \in {"leased", "events"} : Adopt(r, kind)
  BY <1>1
<1>3. FirstOfCleanup(r, kind) \in {"cancel", "finish", "awaitIdle", "return"}
  BY DEF FirstOfCleanup
<1>4. /\ UNCHANGED <<lease, pull, ended, gate, drain, abort>>
      /\ Keeps(body) /\ Keeps(finished) /\ Keeps(cleanup)
      /\ body'[r] # "none" /\ finished'[r] = aborted[r]
      /\ cleanup'[r] = (IF aborted[r] THEN FirstOfCleanup(r, kind) ELSE "none")
  BY <1>2 DEF Adopt, Set, Typed
<1>5. \/ finished'[r] /\ cleanup'[r] \in {"cancel", "finish", "awaitIdle", "return"}
      \/ ~finished'[r] /\ cleanup'[r] = "none"
  BY <1>3, <1>4 DEF Typed
<1>6. body[r] = "none" /\ lease[r] = "active"
  BY <1>1 DEF RequestInv, Pending
<1>7. RequestInv(r)'
  BY <1>1, <1>4, <1>5, <1>6 DEF RequestInv, Pending
<1> QED
  BY <1>1, <1>4, <1>7 DEF StepKeeps, Frame, LeaseStep

\* stop() leaves a cleanup, and that of a stream which has one alone.
LEMMA StopEffect ==
    ASSUME Typed, NEW r \in Requests, Stop(r)
    PROVE  /\ \A q \in Requests \ {r} : finished'[q] = finished[q] /\ cleanup'[q] = cleanup[q]
           /\ finished'[r]
           /\ \/ cleanup'[r] = cleanup[r] /\ cleanup[r] # "none"
              \/ /\ cleanup[r] \in {"none", "givenUp"}
                 /\ cleanup'[r] \in {"cancel", "finish", "awaitIdle", "return"}
<1>1. FirstOfCleanup(r, body[r]) \in {"cancel", "finish", "awaitIdle", "return"}
  BY DEF FirstOfCleanup
<1> QED
  BY <1>1 DEF Stop, Set, Typed

\* A step that ends with completeIfSafe keeps the invariant, if a stream that has
\* finished without a cleanup, or whose cleanup is over, has come to its end.
LEMMA SafeCompletion ==
    ASSUME Typed, NEW r \in Requests, RequestInv(r), CompleteIfSafe(r),
           UNCHANGED <<stage, body>>, body[r] # "none",
           pull[r] # "idle" \/ cleanup[r] \notin {"none", "over"},
           finished'[r] /\ cleanup'[r] = "none" => ended'[r],
           cleanup'[r] = "over" => ended'[r]
    PROVE  /\ \A q \in Requests \ {r} : lease'[q] = lease[q]
           /\ RequestInv(r)' /\ LeaseStep(r)
<1>1. lease[r] = "active"
  BY DEF RequestInv, Typed
<1>2. /\ \A q \in Requests \ {r} : lease'[q] = lease[q]
      /\ \/ lease'[r] = "active"
         \/ /\ lease'[r] = "completed"
            /\ finished'[r] /\ cleanup'[r] \in {"none", "over"} /\ pull'[r] = "idle"
  BY <1>1 DEF CompleteIfSafe, Typed
<1>3. RequestInv(r)'
  BY <1>1, <1>2 DEF RequestInv, Pending
<1> QED
  BY <1>1, <1>2, <1>3 DEF LeaseStep

\* Every step of a stream keeps the request's invariant.
LEMMA StreamKeeps ==
    ASSUME Typed, NEW r \in Requests, RequestInv(r),
           Pull(r) \/ SourceAnswers(r) \/ Cancel(r) \/ AbortLease(r) \/ DeadlinePasses(r)
    PROVE  StepKeeps(r)
<1> USE DEF requestVars, sourceVars, drainVars, StreamOnly
<1> DEFINE Keeps(f) == \A q \in Requests \ {r} : f'[q] = f[q]
<1>1. CASE Pull(r)
  <2>1. /\ UNCHANGED <<stage, lease, body, finished, cleanup, ended, gate, drain, abort>>
        /\ body[r] # "none" /\ ~finished[r] /\ Keeps(pull)
    BY <1>1 DEF Pull, Set, Typed
  <2> QED
    BY <2>1 DEF StepKeeps, Frame, LeaseStep, RequestInv, Pending
<1>2. CASE PullItem(r)
  <2>1. /\ UNCHANGED <<stage, body, finished, cleanup, ended, gate, drain, abort>>
        /\ pull[r] # "idle" /\ body[r] # "none" /\ Keeps(pull) /\ CompleteIfSafe(r)
    BY <1>2 DEF PullItem, Set, Typed, RequestInv
  <2>2. (finished'[r] /\ cleanup'[r] = "none" => ended'[r]) /\ (cleanup'[r] = "over" => ended'[r])
    BY <2>1 DEF RequestInv
  <2> QED
    BY <2>1, <2>2, SafeCompletion DEF StepKeeps, Frame
<1>3. CASE PullDone(r)
  <2>1. /\ UNCHANGED <<stage, body, cleanup, gate, drain, abort>>
        /\ pull[r] # "idle" /\ body[r] # "none" /\ CompleteIfSafe(r)
        /\ Keeps(pull) /\ Keeps(finished) /\ Keeps(ended) /\ ended'[r]
    BY <1>3 DEF PullDone, Set, Typed, RequestInv
  <2> QED
    BY <2>1, SafeCompletion DEF StepKeeps, Frame
<1>4. CASE PullFails(r)
  <2>1. /\ UNCHANGED <<stage, body, gate, drain, abort>>
        /\ pull[r] # "idle" /\ body[r] # "none" /\ CompleteIfSafe(r) /\ Keeps(pull)
    BY <1>4 DEF PullFails, Set, Typed, RequestInv
  <2>2. CASE body[r] = "leased"
    <3>1. UNCHANGED cleanup /\ Keeps(finished) /\ Keeps(ended) /\ ended'[r]
      BY <1>4, <2>2 DEF PullFails, Set, Typed
    <3> QED
      BY <2>1, <3>1, SafeCompletion DEF StepKeeps, Frame
  <2>3. CASE body[r] # "leased"
    <3>1. Stop(r) /\ UNCHANGED ended
      BY <1>4, <2>3 DEF PullFails
    <3>2. (finished'[r] /\ cleanup'[r] = "none" => ended'[r]) /\ (cleanup'[r] = "over" => ended'[r])
      BY <3>1, StopEffect DEF RequestInv
    <3> QED
      BY <2>1, <3>1, <3>2, StopEffect, SafeCompletion DEF StepKeeps, Frame
  <2> QED
    BY <2>2, <2>3
<1>5. ASSUME NEW ok \in BOOLEAN, Validated(r, ok) PROVE StepKeeps(r)
  <2>1. /\ UNCHANGED <<stage, body, ended, gate, drain, abort>>
        /\ pull[r] # "idle" /\ body[r] # "none" /\ CompleteIfSafe(r) /\ Keeps(pull)
    BY <1>5 DEF Validated, Set, Typed, RequestInv
  <2>2. CASE ok
    <3>1. UNCHANGED <<finished, cleanup>>
      BY <1>5, <2>2 DEF Validated
    <3>2. (finished'[r] /\ cleanup'[r] = "none" => ended'[r]) /\ (cleanup'[r] = "over" => ended'[r])
      BY <2>1, <3>1 DEF RequestInv
    <3> QED
      BY <2>1, <3>1, <3>2, SafeCompletion DEF StepKeeps, Frame
  <2>3. CASE ~ok
    <3>1. Stop(r)
      BY <1>5, <2>3 DEF Validated
    <3>2. (finished'[r] /\ cleanup'[r] = "none" => ended'[r]) /\ (cleanup'[r] = "over" => ended'[r])
      BY <2>1, <3>1, StopEffect DEF RequestInv
    <3> QED
      BY <2>1, <3>1, <3>2, StopEffect, SafeCompletion DEF StepKeeps, Frame
  <2> QED
    BY <2>2, <2>3
<1>6. ASSUME Stop(r), UNCHANGED <<stage, lease, body, pull, ended, gate, drain, abort>>,
             body[r] # "none", lease[r] = "active"
      PROVE  StepKeeps(r)
  BY <1>6, StopEffect DEF StepKeeps, Frame, LeaseStep, RequestInv, Pending
<1>7. CASE Cancel(r)
  BY <1>6, <1>7 DEF Cancel, ActiveStreams
<1>8. CASE AbortLease(r)
  <2>1. CASE body[r] # "none" /\ ~finished[r]
    BY <1>6, <1>8, <2>1 DEF AbortLease
  <2>2. CASE ~(body[r] # "none" /\ ~finished[r])
    <3>1. UNCHANGED <<stage, lease, body, pull, finished, cleanup, ended, gate, drain, abort>>
      BY <1>8, <2>2 DEF AbortLease
    <3> QED
      BY <3>1 DEF StepKeeps, Frame, LeaseStep, RequestInv, Pending
  <2> QED
    BY <2>1, <2>2
<1>9. CASE DeadlinePasses(r)
  <2>1. UNCHANGED <<stage, lease, body, pull, finished, cleanup, ended, gate, drain, abort>>
    BY <1>9 DEF DeadlinePasses, DrainOnly
  <2> QED
    BY <2>1 DEF StepKeeps, Frame, LeaseStep, RequestInv, Pending
<1> QED
  BY <1>1, <1>2, <1>3, <1>4, <1>5, <1>7, <1>8, <1>9 DEF SourceAnswers

\* Every step of a cleanup keeps the request's invariant.
LEMMA CleanupKeeps ==
    ASSUME Typed, NEW r \in Requests, RequestInv(r), CleanupStep(r)
    PROVE  StepKeeps(r)
<1> USE DEF requestVars
<1> DEFINE Keeps(f) == \A q \in Requests \ {r} : f'[q] = f[q]
<1>1. ASSUME NEW ok \in BOOLEAN, EndCleanup(r, ok), cleanup[r] \notin {"none", "over"}
      PROVE  StepKeeps(r)
  <2>1. /\ UNCHANGED <<stage, body, pull, finished, gate, drain, abort>>
        /\ Keeps(cleanup) /\ Keeps(ended) /\ ended'[r] /\ CompleteIfSafe(r)
    BY <1>1 DEF EndCleanup, CleanupOnly, Set, Typed
  <2>2. body[r] # "none"
    BY <1>1 DEF RequestInv
  <2> QED
    BY <1>1, <2>1, <2>2, SafeCompletion DEF StepKeeps, Frame
<1>2. ASSUME NEW v \in {"awaitIdle", "loop", "next", "finish", "givenUp"}, Set(cleanup, r, v),
             UNCHANGED <<lease, ended>>, CleanupOnly, cleanup[r] \notin {"none", "over"},
             Keeps(abort), abort'[r] = abort[r] \/ abort'[r] = "failed"
      PROVE  StepKeeps(r)
  <2>1. /\ UNCHANGED <<stage, body, pull, finished, gate, drain>>
        /\ Keeps(cleanup) /\ cleanup'[r] = v
    BY <1>2 DEF CleanupOnly, Set, Typed
  <2> QED
    BY <1>2, <2>1 DEF StepKeeps, Frame, LeaseStep, RequestInv, Pending
<1>3. CASE IdleAwaited(r) \/ CleanupLoops(r)
  <2>1. \E v \in {"loop", "next", "finish"} : Set(cleanup, r, v)
    BY <1>3 DEF IdleAwaited, CleanupLoops
  <2> QED
    BY <1>2, <1>3, <2>1 DEF IdleAwaited, CleanupLoops
<1>4. CASE CleanupFinishes(r) \/ \E ok \in BOOLEAN : SourceCancelled(r, ok)
  BY <1>1, <1>4 DEF CleanupFinishes, SourceCancelled
<1>5. CASE DeadlineExceeded(r)
  <2>1. Keeps(abort) /\ (abort'[r] = abort[r] \/ abort'[r] = "failed")
    BY <1>5 DEF DeadlineExceeded, Typed
  <2> QED
    BY <1>2, <1>5, <2>1 DEF DeadlineExceeded
<1>6. ASSUME NEW result \in {"done", "more", "error"}, CleanupReturns(r, result)
      PROVE  StepKeeps(r)
  <2>1. CASE result \in {"done", "error"}
    BY <1>1, <1>6, <2>1 DEF CleanupReturns
  <2>2. CASE result = "more"
    BY <1>2, <1>6, <2>2 DEF CleanupReturns
  <2> QED
    BY <2>1, <2>2
<1>7. ASSUME NEW result \in {"item", "done", "error"}, CleanupNext(r, result)
      PROVE  StepKeeps(r)
  <2>1. CASE result \in {"done", "error"}
    BY <1>1, <1>7, <2>1 DEF CleanupNext
  <2>2. CASE result = "item"
    BY <1>2, <1>7, <2>2 DEF CleanupNext
  <2> QED
    BY <2>1, <2>2
<1> QED
  BY <1>3, <1>4, <1>5, <1>6, <1>7 DEF CleanupStep

-----------------------------------------------------------------------------
(* The extension, all of it.                                               *)

LocalStep(r) ==
    \/ Arrive(r) \/ FetchStep(r) \/ HandlerStarts(r) \/ HandlerEnds(r)
    \/ Pull(r) \/ SourceAnswers(r) \/ Cancel(r) \/ AbortLease(r)
    \/ CleanupStep(r) \/ DeadlinePasses(r)

\* Every step of a request is as StepKeeps says.
LEMMA LocalKeeps ==
    ASSUME HttpInv, NEW r \in Requests, LocalStep(r)
    PROVE  StepKeeps(r)
<1>1. Typed /\ RequestInv(r)
  BY DEF HttpInv
<1>2. CASE Arrive(r) \/ FetchStep(r) \/ HandlerStarts(r) \/ HandlerEnds(r)
  BY <1>1, <1>2, FetchKeeps, AdoptKeeps DEF FetchStep
<1>3. CASE Pull(r) \/ SourceAnswers(r) \/ Cancel(r) \/ AbortLease(r) \/ DeadlinePasses(r)
  BY <1>1, <1>3, StreamKeeps
<1>4. CASE CleanupStep(r)
  BY <1>1, <1>4, CleanupKeeps
<1> QED
  BY <1>2, <1>3, <1>4 DEF LocalStep

\* Every step of a request keeps the invariant.
LEMMA LocalInvariant ==
    ASSUME HttpInv, NEW r \in Requests, LocalStep(r)
    PROVE  HttpInv'
<1>1. Typed'
  BY FetchTyped, StreamTyped, CleanupTyped DEF HttpInv, LocalStep
<1>2. StepKeeps(r)
  BY LocalKeeps
<1>3. \A q \in Requests : RequestInv(q)'
  BY <1>2 DEF StepKeeps, Frame, HttpInv, RequestInv, Pending
<1>4. DrainInv'
  <2>1. UNCHANGED <<gate, drain>> /\ Frame(r) /\ LeaseStep(r)
        /\ (abort'[r] = abort[r] \/ abort'[r] = "failed")
    BY <1>2 DEF StepKeeps
  <2> QED
    BY <2>1 DEF Frame, LeaseStep, HttpInv, DrainInv
<1> QED
  BY <1>1, <1>3, <1>4 DEF HttpInv

\* Aborting the streams starts or joins each one's cleanup, and waits for each.
LEMMA AbortInvariant ==
    ASSUME HttpInv, AbortStreams
    PROVE  (\A r \in Requests : RequestInv(r)') /\ DrainInv'
<1>1. UNCHANGED <<stage, lease, body, pull, ended, gate>>
  BY DEF AbortStreams, DrainOnly, requestVars
<1>2. ASSUME NEW r \in Requests PROVE RequestInv(r)'
  <2>1. finished'[r] <=> finished[r] \/ r \in ActiveStreams
    BY DEF AbortStreams, HttpInv, Typed
  <2>2. \/ r \notin ActiveStreams /\ cleanup'[r] = cleanup[r]
        \/ r \in ActiveStreams /\ cleanup[r] # "none" /\ cleanup'[r] = cleanup[r]
        \/ /\ r \in ActiveStreams
           /\ cleanup'[r] \in {"cancel", "finish", "awaitIdle", "return"}
    <3>1. FirstOfCleanup(r, body[r]) \in {"cancel", "finish", "awaitIdle", "return"}
      BY DEF FirstOfCleanup
    <3> QED
      BY <3>1 DEF AbortStreams
  <2> QED
    BY <1>1, <2>1, <2>2 DEF HttpInv, RequestInv, Pending, ActiveStreams
<1>3. DrainInv'
  <2>1. /\ drain = "ingress" /\ drain' = "streams" /\ Pending = {}
        /\ \A r \in Requests : r \in ActiveStreams => abort'[r] = "waiting"
    BY DEF AbortStreams
  <2>2. \A r \in Requests : lease[r] = "active" => r \in ActiveStreams
    BY <2>1 DEF HttpInv, RequestInv, Pending, ActiveStreams
  <2> QED
    BY <1>1, <2>1, <2>2 DEF HttpInv, DrainInv
<1> QED
  BY <1>2, <1>3

\* A drain that resolves has left no lease, neither waited for nor given up.
LEMMA SettlesClean ==
    ASSUME HttpInv, DrainSettles, drain' = "resolved", NEW r \in Requests
    PROVE  lease[r] # "active"
<1>1. drain = "streams" /\ abort[r] # "waiting" /\ abort[r] # "failed"
  BY DEF DrainSettles
<1> QED
  BY <1>1 DEF HttpInv, DrainInv

\* Every step of the drain and of the kernel keeps the invariant.
LEMMA DrainInvariant ==
    ASSUME HttpInv, KernelStops \/ Drain \/ DrainStep
    PROVE  HttpInv'
<1> USE DEF DrainOnly, requestVars
<1>1. Typed'
  BY DrainTyped DEF HttpInv
<1>2. CASE AbortStreams
  BY <1>1, <1>2, AbortInvariant DEF HttpInv
<1>3. CASE KernelStops \/ Drain \/ DrainSettles \/ \E r \in Requests : StreamAborted(r)
  <2>1. UNCHANGED <<stage, lease, body, pull, finished, cleanup, ended>>
    BY <1>3 DEF KernelStops, Drain, DrainSettles, StreamAborted
  <2>2. \A r \in Requests : RequestInv(r)'
    BY <2>1 DEF HttpInv, RequestInv, Pending
  <2>3. DrainInv'
    <3>1. CASE KernelStops
      BY <2>1, <3>1 DEF KernelStops, HttpInv, DrainInv
    <3>2. CASE Drain
      BY <3>2 DEF Drain, HttpInv, DrainInv
    <3>3. CASE DrainSettles
      <4>1. drain' = "resolved" => \A r \in Requests : lease'[r] # "active"
        BY <2>1, <3>3, SettlesClean
      <4>2. drain = "streams" /\ drain' \in {"rejected", "resolved"} /\ UNCHANGED gate
        BY <3>3 DEF DrainSettles
      <4> QED
        BY <4>1, <4>2 DEF HttpInv, DrainInv
    <3>4. ASSUME NEW r \in Requests, StreamAborted(r) PROVE DrainInv'
      <4>1. /\ lease[r] = "completed" /\ UNCHANGED <<gate, drain>>
            /\ \A q \in Requests \ {r} : abort'[q] = abort[q]
        BY <3>4 DEF StreamAborted, Set, HttpInv, Typed
      <4> QED
        BY <2>1, <4>1 DEF HttpInv, DrainInv
    <3> QED
      BY <1>3, <3>1, <3>2, <3>3, <3>4
  <2> QED
    BY <1>1, <2>2, <2>3 DEF HttpInv
<1> QED
  BY <1>2, <1>3 DEF DrainStep

\* Stuttering keeps the invariant.
LEMMA StutterInvariant == HttpInv /\ UNCHANGED vars => HttpInv'
<1> SUFFICES ASSUME HttpInv, UNCHANGED vars PROVE HttpInv'
  OBVIOUS
<1> USE DEF vars, requestVars, sourceVars, drainVars
<1>1. Typed'
  BY DEF HttpInv, Typed
<1>2. \A r \in Requests : RequestInv(r)'
  BY DEF HttpInv, RequestInv, Pending
<1>3. DrainInv'
  BY DEF HttpInv, DrainInv
<1> QED
  BY <1>1, <1>2, <1>3 DEF HttpInv

\* HttpInv: a request is answered with its lease completed or with a stream that
\* owns it, and a drain past the gate knows every stream that still does.
THEOREM HttpInductive == Spec => []HttpInv
<1>1. Init => HttpInv
  <2> SUFFICES ASSUME Init PROVE HttpInv
    OBVIOUS
  <2>1. Typed
    BY DEF Init, Typed
  <2>2. (\A r \in Requests : RequestInv(r)) /\ DrainInv
    BY DEF Init, RequestInv, DrainInv, Pending
  <2> QED
    BY <2>1, <2>2 DEF HttpInv
<1>2. HttpInv /\ [Next]_vars => HttpInv'
  BY LocalInvariant, DrainInvariant, StutterInvariant DEF Next, LocalStep
<1> QED
  BY <1>1, <1>2, PTL DEF Spec

\* TypeOK: every variable keeps its type, and a request inside the gate that has
\* no stream holds its own lease, also when a preflight falls through to a route.
THEOREM HttpTypeCorrect == Spec => []TypeOK
<1>1. HttpInv => TypeOK
  BY DEF HttpInv, RequestInv, LeaseUntilAnswered, TypeOK
<1> QED
  BY <1>1, HttpInductive, PTL

-----------------------------------------------------------------------------
(* The extension implements ExecutionLeases.                               *)

\* Nothing of a body's source is under way, or to come, without an active lease.
LEMMA IdleUnlessActive ==
    ASSUME HttpInv, NEW r \in Requests, lease[r] # "active"
    PROVE  ~Busy(r)
BY DEF HttpInv, Typed, RequestInv, Busy, InFlight, Cleaning

\* A step that neither begins nor completes a lease is work.
LEMMA WorkStep ==
    ASSUME HttpInv, HttpInv', UNCHANGED <<lease, gate>>,
           (drain = "resolved") = (drain' = "resolved")
    PROVE  Leases!Work
<1>1. \A r \in Requests : Busy(r) \in BOOLEAN /\ Busy(r)' \in BOOLEAN
  BY DEF Busy
<1>2. ASSUME NEW r \in Requests, lease[r] # "active"
      PROVE  ~Busy(r) /\ ~Busy(r)'
  <2>1. HttpInv /\ lease[r] # "active" => ~Busy(r)
    BY IdleUnlessActive
  <2>2. (HttpInv /\ lease[r] # "active" => ~Busy(r))'
    BY IdleUnlessActive, PTL
  <2> QED
    BY <1>2, <2>1, <2>2
<1>3. [r \in Requests |-> Busy(r)]' \in [Requests -> BOOLEAN]
  BY <1>1
<1>4. \A r \in Requests :
          [q \in Requests |-> Busy(q)]'[r] # [q \in Requests |-> Busy(q)][r]
              => lease[r] = "active"
  BY <1>1, <1>2
<1> QED
  BY <1>3, <1>4 DEF Leases!Work

\* A step of a request begins its lease, completes it, does both, or is work.
LEMMA LocalImplements ==
    ASSUME HttpInv, HttpInv', NEW r \in Requests, LocalStep(r)
    PROVE  Leases!Next
<1>1. UNCHANGED <<gate, drain>> /\ Frame(r) /\ LeaseStep(r)
  BY LocalKeeps DEF StepKeeps
<1>2. lease \in [Requests -> {"none", "active", "completed"}]
      /\ lease' \in [Requests -> {"none", "active", "completed"}]
  BY DEF HttpInv, Typed
<1>3. \A q \in Requests \ {r} : lease'[q] = lease[q] /\ Busy(q)' = Busy(q)
  BY <1>1 DEF Frame, Busy, InFlight, Cleaning
<1>4. (lease[r] # "active" => ~Busy(r)) /\ (lease'[r] # "active" => ~Busy(r)')
  <2>1. HttpInv /\ lease[r] # "active" => ~Busy(r)
    BY IdleUnlessActive
  <2>2. (HttpInv /\ lease[r] # "active" => ~Busy(r))'
    BY IdleUnlessActive, PTL
  <2> QED
    BY <2>1, <2>2
<1>5. Busy(r) \in BOOLEAN /\ Busy(r)' \in BOOLEAN
  BY DEF Busy
<1> DEFINE busy == [q \in Requests |-> Busy(q)]
<1>6. busy' = [busy EXCEPT ![r] = Busy(r)']
  BY <1>3
<1>7. CASE lease'[r] = lease[r]
  <2>1. lease' = lease
    BY <1>2, <1>3, <1>7
  <2> QED
    BY <1>1, <2>1, WorkStep DEF Leases!Next
<1>8. CASE lease[r] = "none" /\ lease'[r] = "active" /\ gate
  <2>1. lease' = [lease EXCEPT ![r] = "active"]
    BY <1>2, <1>3, <1>8
  <2>2. busy' \in {busy, [busy EXCEPT ![r] = TRUE]}
    <3>1. CASE Busy(r)' = TRUE
      BY <1>6, <3>1
    <3>2. CASE Busy(r)' = FALSE
      <4>1. Busy(r)' = Busy(r)
        BY <1>4, <1>5, <1>8, <3>2
      <4>2. busy' = busy
        BY <1>3, <4>1
      <4> QED
        BY <4>2
    <3> QED
      BY <1>5, <3>1, <3>2
  <2>3. Leases!Begin(r)
    BY <1>1, <1>8, <2>1, <2>2 DEF Leases!Begin
  <2> QED
    BY <2>3 DEF Leases!Next
<1>9. CASE lease[r] = "none" /\ lease'[r] = "completed" /\ gate
  <2>1. lease' = [lease EXCEPT ![r] = "completed"]
    BY <1>2, <1>3, <1>9
  <2>2. Busy(r)' = Busy(r)
    BY <1>4, <1>5, <1>9
  <2>3. busy' = busy
    BY <1>3, <2>2
  <2>4. Leases!Pass(r)
    BY <1>1, <1>9, <2>1, <2>3 DEF Leases!Pass
  <2> QED
    BY <2>4 DEF Leases!Next
<1>10. CASE lease[r] = "active" /\ lease'[r] = "completed"
  <2>1. lease' = [lease EXCEPT ![r] = "completed"]
    BY <1>2, <1>3, <1>10
  <2>2. Busy(r)' = FALSE
    BY <1>4, <1>5, <1>10
  <2>3. busy' = [busy EXCEPT ![r] = FALSE]
    BY <1>6, <2>2
  <2>4. Leases!Complete(r)
    BY <1>1, <1>10, <2>1, <2>3 DEF Leases!Complete
  <2> QED
    BY <2>4 DEF Leases!Next
<1> QED
  BY <1>1, <1>7, <1>8, <1>9, <1>10 DEF LeaseStep

\* drain() shuts the gate, resolves with no lease left, or is work.
LEMMA DrainImplements ==
    ASSUME HttpInv, HttpInv', KernelStops \/ Drain \/ DrainStep
    PROVE  Leases!Next
<1> USE DEF requestVars, DrainOnly
<1>1. UNCHANGED lease
  BY DEF KernelStops, Drain, DrainStep, AbortStreams, DrainSettles, StreamAborted
<1>2. ASSUME UNCHANGED <<body, pull, cleanup, ended>>
      PROVE  UNCHANGED [r \in Requests |-> Busy(r)]
  BY <1>2 DEF Busy, InFlight, Cleaning
<1>3. CASE Drain
  <2>1. Leases!StopAccepting
    BY <1>1, <1>2, <1>3 DEF Drain, Leases!StopAccepting
  <2> QED
    BY <2>1 DEF Leases!Next
<1>4. CASE DrainSettles /\ drain' = "resolved"
  <2>1. ~gate /\ \A r \in Requests : lease[r] # "active"
    BY <1>4, SettlesClean DEF DrainSettles, HttpInv, Typed, DrainInv
  <2>2. Leases!Drained
    BY <1>1, <1>2, <1>4, <2>1 DEF DrainSettles, Leases!Drained
  <2> QED
    BY <2>2 DEF Leases!Next
<1>5. CASE UNCHANGED gate /\ (drain = "resolved") = (drain' = "resolved")
  BY <1>1, <1>5, WorkStep DEF Leases!Next
<1>6. CASE KernelStops \/ AbortStreams \/ \E r \in Requests : StreamAborted(r)
  BY <1>5, <1>6 DEF KernelStops, AbortStreams, StreamAborted
<1>7. CASE DrainSettles /\ drain' # "resolved"
  BY <1>5, <1>7 DEF DrainSettles
<1> QED
  BY <1>3, <1>4, <1>6, <1>7 DEF DrainStep

\* ImplementsLeases: a lease outlives the source of the body it was handed to,
\* none begins behind the gate, and a drain that resolves has left none behind.
THEOREM HttpImplementsLeases == Spec => ImplementsLeases
<1>1. Init => Leases!Init
  <2> SUFFICES ASSUME Init PROVE Leases!Init
    OBVIOUS
  <2>1. \A r \in Requests : Busy(r) = FALSE
    BY DEF Init, Busy
  <2>2. [r \in Requests |-> Busy(r)] = [r \in Requests |-> FALSE]
    BY <2>1
  <2>3. (drain = "resolved") = FALSE
    BY DEF Init
  <2> QED
    BY <2>2, <2>3 DEF Init, Leases!Init
<1>2. HttpInv /\ HttpInv' /\ [Next]_vars => [Leases!Next]_Leases!vars
  <2>1. UNCHANGED vars => UNCHANGED Leases!vars
    BY DEF vars, requestVars, sourceVars, drainVars, Leases!vars, Busy, InFlight, Cleaning
  <2> QED
    BY <2>1, LocalImplements, DrainImplements DEF Next, LocalStep
<1> QED
  BY <1>1, <1>2, HttpInductive, PTL DEF Spec, ImplementsLeases, Leases!Spec

\* Safe, as ExecutionLeases states it: the source of a body that streams may be
\* asked, or is answering, only under an active lease, and after a drain that
\* resolved none is left.  It says nothing of handlers: one that a failing layer
\* has left behind may run under a completed lease (NoDetachedHandler).
THEOREM HttpIsSafe == Spec => []Leases!Safe
<1>1. HttpInv => Leases!Safe
  <2> SUFFICES ASSUME HttpInv PROVE Leases!Safe
    OBVIOUS
  <2>1. \A r \in Requests : Busy(r) => lease[r] = "active"
    BY IdleUnlessActive
  <2>2. drain = "resolved" => ~gate /\ \A r \in Requests : lease[r] # "active"
    BY DEF HttpInv, Typed, DrainInv
  <2> QED
    BY <2>1, <2>2 DEF Leases!Safe
<1> QED
  BY <1>1, HttpInductive, PTL

=============================================================================
