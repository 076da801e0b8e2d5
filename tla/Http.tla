--------------------------------- MODULE Http ---------------------------------
(***************************************************************************)
(* The runtime of the HTTP extension (http/extension.ts): fetch() behind   *)
(* an IngressGate, from the preflight to the middlewares, the handler, the *)
(* finalization of its result and the mapping of its errors; responses     *)
(* that stream, as a body passed through (createLeasedReadableStream) or   *)
(* as server-sent events (createServerSentEventStream), and own the lease  *)
(* of their request until their source has ended; and drain().             *)
(*                                                                         *)
(* Middlewares, handlers, error mappings, iterators and the sources of     *)
(* bodies are user code: they answer when and how they like.  A client may *)
(* go away at any time.  The drain deadline is a clock that may pass.      *)
(***************************************************************************)
CONSTANTS
    Requests,  \* calls of fetch(), each at most once
    Streaming  \* those to a route whose responses may stream

ASSUME StreamingAssumption == Streaming \subseteq Requests

VARIABLES
    gate,        \* the IngressGate accepts
    running,     \* the kernel begins executions
    stage,       \* per request, where fetch() is
    lease,       \* its execution lease: none, active or completed
    aborted,     \* lease.signal.aborted
    handler,     \* the handler below the middlewares: idle, running or over
    body,        \* the stream adopted by the response: none, leased or events
    pull,        \* what a pull() of that stream is doing
    finished,    \* the stream's finished
    cleanup,     \* where its cleanup is
    failed,      \* that cleanup has ended in an error
    continuing,  \* #returnContinuationPending of its iterator
    ended,       \* its source is done, cancelled or has failed
    deadline,    \* cleanupDeadline: none, future or past
    abort,       \* per stream, where the drain's stream.abort() is
    drain        \* where the extension's drain() is

requestVars == <<stage, handler>>
sourceVars  == <<cleanup, failed, continuing, ended>>
drainVars   == <<gate, running, deadline, abort, drain>>
vars == <<requestVars, lease, aborted, body, pull, finished, sourceVars, drainVars>>

Init ==
    /\ gate = TRUE /\ running = TRUE /\ drain = "none"
    /\ stage = [r \in Requests |-> "none"]
    /\ lease = [r \in Requests |-> "none"]
    /\ aborted = [r \in Requests |-> FALSE]
    /\ handler = [r \in Requests |-> "idle"]
    /\ body = [r \in Requests |-> "none"]
    /\ pull = [r \in Requests |-> "idle"]
    /\ finished = [r \in Requests |-> FALSE]
    /\ cleanup = [r \in Requests |-> "none"]
    /\ failed = [r \in Requests |-> FALSE]
    /\ continuing = [r \in Requests |-> FALSE]
    /\ ended = [r \in Requests |-> FALSE]
    /\ deadline = [r \in Requests |-> "none"]
    /\ abort = [r \in Requests |-> "none"]

Set(f, r, value) == f' = [f EXCEPT ![r] = value]

\* Requests inside the gate.
Pending == {r \in Requests : stage[r] \notin {"none", "answered"}}

\* activeResponseStreams.
ActiveStreams == {r \in Requests : body[r] # "none" /\ lease[r] = "active"}

Cleaning(r) == cleanup[r] \in {"cancel", "return", "awaitIdle", "loop", "next", "finish"}

\* Calls of the source that have not settled.
InFlight(r) == pull[r] = "read" \/ cleanup[r] \in {"cancel", "return", "next"}

\* Fault: a pull() under way does not hold the lease back.
CompleteWhenSettled(r) ==
    lease' = [lease EXCEPT ![r] =
        IF finished'[r] /\ cleanup'[r] \in {"none", "over"} THEN "completed" ELSE @]

\* completeIfSafe, in the state the step leads to.
CompleteIfSafe(r) ==
    lease' = [lease EXCEPT ![r] =
        IF finished'[r] /\ cleanup'[r] \in {"none", "over"} /\ pull'[r] = "idle"
        THEN "completed" ELSE @]

-----------------------------------------------------------------------------
(* fetch()                                                                 *)

NoStream == UNCHANGED <<body, pull, finished, sourceVars, drainVars>>

\* Before the gate: the runtime does not accept, or the request is malformed.
Refuse(r) ==
    /\ stage[r] = "none"
    /\ Set(stage, r, "answered")
    /\ UNCHANGED <<lease, aborted, handler>> /\ NoStream

\* beginExecution throws when the kernel has begun to shut down: the gate is left
\* again, and fetch() rejects.
BeginRefused(r) ==
    /\ stage[r] = "none" /\ gate /\ ~running
    /\ Set(stage, r, "answered")
    /\ UNCHANGED <<lease, aborted, handler>> /\ NoStream

\* Through the gate, with a lease.
Admit(r, next, outcome) ==
    /\ gate /\ running
    /\ Set(stage, r, next) /\ Set(lease, r, outcome)

\* No route: an execution of its own that ends at once.
NotFound(r) ==
    /\ stage[r] = "none" /\ Admit(r, "answered", "completed")
    /\ UNCHANGED <<aborted, handler>> /\ NoStream

Preflight(r) ==
    /\ stage[r] = "none" /\ Admit(r, "preflight", "active")
    /\ UNCHANGED <<aborted, handler>> /\ NoStream

\* The request's signal may be aborted by now.
Enter(r, gone) ==
    /\ stage[r] = "none" /\ Admit(r, "preparing", "active")
    /\ Set(aborted, r, gone)
    /\ UNCHANGED handler /\ NoStream

\* fetch() returns a response that owns no lease: finishExecution, and out of the
\* gate.
Finish(r) == Set(stage, r, "answered") /\ Set(lease, r, "completed")

PreflightAnswers(r) ==
    /\ stage[r] = "preflight"
    /\ Finish(r)
    /\ UNCHANGED <<aborted, handler>> /\ NoStream

\* Fault: the request goes on with the lease of the preflight.
PreflightLeaseReused(r, gone) ==
    /\ stage[r] = "preflight"
    /\ Set(stage, r, "preparing") /\ Set(lease, r, "completed") /\ Set(aborted, r, gone)
    /\ UNCHANGED handler /\ NoStream

\* The route has no CORS policy: the request goes on as an ordinary one, with a
\* new lease, if there is still a gate to enter and a route for OPTIONS.
PreflightFallsThrough(r, gone) ==
    /\ stage[r] = "preflight"
    /\ IF gate /\ running THEN Admit(r, "preparing", "active") /\ Set(aborted, r, gone)
       ELSE Finish(r) /\ UNCHANGED aborted
    /\ UNCHANGED handler /\ NoStream

\* The actual CORS headers and the context, whose schemas are awaited, are there.
Prepared(r) ==
    /\ stage[r] = "preparing"
    /\ Set(stage, r, "layers")
    /\ UNCHANGED <<lease, aborted, handler>> /\ NoStream

\* 415 or 400.
InputRejected(r) ==
    /\ stage[r] = "preparing"
    /\ Finish(r)
    /\ UNCHANGED <<aborted, handler>> /\ NoStream

\* The middlewares have called next() down to the handler.
HandlerStarts(r) ==
    /\ stage[r] = "layers" /\ handler[r] = "idle"
    /\ Set(handler, r, "running")
    /\ UNCHANGED <<stage, lease, aborted>> /\ NoStream

HandlerEnds(r) ==
    /\ handler[r] = "running"
    /\ Set(handler, r, "over")
    /\ UNCHANGED <<stage, lease, aborted>> /\ NoStream

\* What composeLayers yields waits for the handler it has called: a plain
\* Response, the result of a contract, an error, or a body that did not decode.
LayersEnd(r, outcome) ==
    /\ stage[r] = "layers" /\ handler[r] # "running"
    /\ CASE outcome = "response" -> Finish(r)
         [] outcome = "result"   -> Set(stage, r, "finalizing") /\ UNCHANGED lease
         [] outcome = "error"    -> Set(stage, r, "mapping") /\ UNCHANGED lease
         [] outcome = "rejected" -> Set(stage, r, "answering") /\ UNCHANGED lease
    /\ UNCHANGED <<aborted, handler>> /\ NoStream

\* A middleware throws while the next() it has called is pending: composeLayers
\* awaits the middleware only, and the error leaves the handler behind.
LayerThrows(r) ==
    /\ stage[r] = "layers" /\ handler[r] = "running"
    /\ Set(stage, r, "mapping")
    /\ UNCHANGED <<lease, aborted, handler>> /\ NoStream

PrepareFails(r) ==
    /\ stage[r] = "preparing"
    /\ Set(stage, r, "mapping")
    /\ UNCHANGED <<lease, aborted, handler>> /\ NoStream

Finalized(r, ok) ==
    /\ stage[r] = "finalizing"
    /\ IF ok THEN Finish(r) ELSE Set(stage, r, "mapping") /\ UNCHANGED lease
    /\ UNCHANGED <<aborted, handler>> /\ NoStream

\* mapDeclaredError: a response, none or an error of its own, none of which streams.
Mapped(r) ==
    /\ stage[r] = "mapping"
    /\ Set(stage, r, "answering")
    /\ UNCHANGED <<lease, aborted, handler>> /\ NoStream

\* safeCorsHeaders is there; the lease is completed unless a stream owns it.
Answer(r) ==
    /\ stage[r] = "answering"
    /\ IF body[r] = "none" THEN Finish(r)
       ELSE Set(stage, r, "answered") /\ UNCHANGED lease
    /\ UNCHANGED <<aborted, handler>> /\ NoStream

-----------------------------------------------------------------------------
(* The stream of a response                                                *)

\* Where stop() starts the cleanup: reader.cancel, or AsyncIteratorLifecycle.drain,
\* which asks the iterator to return unless it is done or has begun to.
FirstOfCleanup(r, kind) ==
    CASE kind = "leased"     -> "cancel"
      [] kind = "events" /\ ended[r] -> "finish"
      [] kind = "events" /\ ~ended[r] /\ continuing[r] -> "awaitIdle"
      [] OTHER               -> "return"

\* stop(): shared while it runs, and over once it has completed.
Stop(r) ==
    /\ Set(finished, r, TRUE)
    /\ Set(cleanup, r, IF cleanup[r] \in {"none", "givenUp"}
                       THEN FirstOfCleanup(r, body[r]) ELSE cleanup[r])

\* adoptResponseStream; start() stops a stream whose lease is aborted already.
Adopt(r, kind) ==
    /\ r \in Streaming
    /\ Set(body, r, kind)
    /\ Set(finished, r, aborted[r])
    /\ Set(cleanup, r, IF aborted[r] THEN FirstOfCleanup(r, kind) ELSE "none")
    /\ UNCHANGED <<lease, aborted, handler, pull, failed, continuing, ended, drainVars>>

\* A Response with a body, of a middleware or the handler.
RespondBody(r) ==
    /\ stage[r] = "layers" /\ handler[r] # "running"
    /\ Set(stage, r, "answered") /\ Adopt(r, "leased")

\* A result whose body is a stream.
FinalizedStream(r, kind) ==
    /\ stage[r] = "finalizing"
    /\ Set(stage, r, "answered") /\ Adopt(r, kind)

\* So may be the result an error is mapped to.
MappedStream(r, kind) ==
    /\ stage[r] = "mapping"
    /\ Set(stage, r, "answering") /\ Adopt(r, kind)

StreamOnly == UNCHANGED <<requestVars, aborted, body, drainVars>>

\* The stream has room: it pulls once when it is made, then as the client reads.
Pull(r) ==
    /\ body[r] # "none" /\ ~finished[r] /\ pull[r] = "idle"
    /\ Set(pull, r, "read")
    /\ UNCHANGED <<lease, finished, sourceVars>> /\ StreamOnly

\* An event is validated against its schema before it is enqueued.
PullItem(r) ==
    /\ pull[r] = "read"
    /\ Set(pull, r, IF body[r] = "events" /\ ~finished[r] THEN "validate" ELSE "idle")
    /\ UNCHANGED <<finished, sourceVars>> /\ StreamOnly
    /\ CompleteIfSafe(r)

PullDone(r) ==
    /\ pull[r] = "read"
    /\ Set(pull, r, "idle") /\ Set(finished, r, TRUE)
    /\ Set(ended, r, TRUE) /\ Set(continuing, r, FALSE)
    /\ UNCHANGED <<cleanup, failed>> /\ StreamOnly
    /\ CompleteIfSafe(r)

\* A body that fails is over; an iterator is cleaned up.
PullFails(r) ==
    /\ pull[r] = "read"
    /\ Set(pull, r, "idle")
    /\ IF body[r] = "leased"
       THEN Set(finished, r, TRUE) /\ Set(ended, r, TRUE) /\ UNCHANGED cleanup
       ELSE Stop(r) /\ UNCHANGED ended
    /\ UNCHANGED <<failed, continuing>> /\ StreamOnly
    /\ CompleteIfSafe(r)

Validated(r, ok) ==
    /\ pull[r] = "validate"
    /\ Set(pull, r, "idle")
    /\ IF ok THEN UNCHANGED <<finished, cleanup>> ELSE Stop(r)
    /\ UNCHANGED <<failed, continuing, ended>> /\ StreamOnly
    /\ CompleteIfSafe(r)

\* The client cancels a stream it can still read.
Cancel(r) ==
    /\ r \in ActiveStreams /\ stage[r] = "answered" /\ cleanup[r] # "over"
    /\ Stop(r)
    /\ UNCHANGED <<lease, pull, failed, continuing, ended>> /\ StreamOnly

\* The request's signal, or executions.abortAll of the kernel.
AbortLease(r) ==
    /\ lease[r] = "active" /\ ~aborted[r]
    /\ stage[r] # "preflight"
    /\ Set(aborted, r, TRUE)
    /\ IF body[r] # "none" /\ ~finished[r] THEN Stop(r) ELSE UNCHANGED <<finished, cleanup>>
    /\ UNCHANGED <<requestVars, lease, body, pull, failed, continuing, ended, drainVars>>

-----------------------------------------------------------------------------
(* The cleanup of a stream                                                 *)

CleanupOnly == UNCHANGED <<requestVars, aborted, body, pull, finished, gate, running, deadline,
                           drain>>

\* The cleanup is over; stop() goes on to wait for the lease.
EndCleanup(r, ok) ==
    /\ Set(cleanup, r, "over") /\ Set(failed, r, ~ok) /\ Set(ended, r, TRUE)
    /\ UNCHANGED abort /\ CleanupOnly
    /\ CompleteIfSafe(r)

SourceCancelled(r, ok) ==
    /\ cleanup[r] = "cancel"
    /\ EndCleanup(r, ok) /\ UNCHANGED continuing

CleanupReturns(r, result) ==
    /\ cleanup[r] = "return"
    /\ CASE result = "done" ->
                /\ EndCleanup(r, TRUE) /\ Set(continuing, r, FALSE)
         [] result = "more" ->
                /\ Set(cleanup, r, "awaitIdle") /\ Set(continuing, r, TRUE)
                /\ UNCHANGED <<lease, failed, ended, abort>> /\ CleanupOnly
         [] result = "error" ->
                EndCleanup(r, FALSE) /\ UNCHANGED continuing

IdleAwaited(r) ==
    /\ cleanup[r] = "awaitIdle" /\ pull[r] # "read"
    /\ Set(cleanup, r, "loop")
    /\ UNCHANGED <<lease, failed, continuing, ended, abort>> /\ CleanupOnly

\* while (!done): the deadline is looked at before each next().
CleanupLoops(r) ==
    /\ cleanup[r] = "loop" /\ (ended[r] \/ deadline[r] # "past")
    /\ Set(cleanup, r, IF ended[r] THEN "finish" ELSE "next")
    /\ UNCHANGED <<lease, failed, continuing, ended, abort>> /\ CleanupOnly

CleanupNext(r, result) ==
    /\ cleanup[r] = "next"
    /\ CASE result = "item" ->
                /\ Set(cleanup, r, "loop")
                /\ UNCHANGED <<lease, failed, continuing, ended, abort>> /\ CleanupOnly
         [] result = "done" ->
                EndCleanup(r, TRUE) /\ Set(continuing, r, FALSE)
         [] result = "error" ->
                EndCleanup(r, FALSE) /\ UNCHANGED continuing

CleanupFinishes(r) ==
    /\ cleanup[r] = "finish"
    /\ EndCleanup(r, TRUE) /\ UNCHANGED continuing

\* AsyncIteratorCleanupDeadlineError: the cleanup is given up, and the lease kept.
DeadlineExceeded(r) ==
    /\ cleanup[r] = "loop" /\ ~ended[r] /\ deadline[r] = "past"
    /\ Set(cleanup, r, "givenUp")
    /\ abort' = [abort EXCEPT ![r] = IF @ = "waiting" THEN "failed" ELSE @]
    /\ UNCHANGED <<lease, failed, continuing, ended>> /\ CleanupOnly

-----------------------------------------------------------------------------
(* drain(), and what the kernel does around it                             *)

DrainOnly == UNCHANGED <<requestVars, lease, body, pull, failed, continuing, ended>>

KernelStops ==
    /\ running
    /\ running' = FALSE
    /\ UNCHANGED <<gate, deadline, abort, drain, aborted, finished, cleanup>> /\ DrainOnly

\* By the kernel when shutdown has begun, and again after one that was rejected.
Drain ==
    /\ ~running /\ drain \in {"none", "rejected"}
    /\ drain' = "ingress" /\ gate' = FALSE
    /\ UNCHANGED <<running, deadline, abort, aborted, finished, cleanup>> /\ DrainOnly

\* Fault: a cleanup that an earlier drain gave up is not taken up again.
AbortStreamsOnce ==
    /\ drain = "ingress" /\ Pending = {}
    /\ drain' = "streams"
    /\ aborted' = [r \in Requests |-> aborted[r] \/ r \in ActiveStreams]
    /\ finished' = [r \in Requests |-> finished[r] \/ r \in ActiveStreams]
    /\ cleanup' = [r \in Requests |->
           IF r \in ActiveStreams /\ cleanup[r] = "none" THEN FirstOfCleanup(r, body[r]) ELSE cleanup[r]]
    /\ deadline' = [r \in Requests |->
           IF r \in ActiveStreams /\ body[r] = "events" THEN "future" ELSE deadline[r]]
    /\ abort' = [r \in Requests |-> IF r \in ActiveStreams THEN "waiting" ELSE "none"]
    /\ UNCHANGED <<gate, running>> /\ DrainOnly

\* ingress.waitForIdle() has resolved: each active stream is aborted, those that
\* clean up an iterator with the deadline of this drain.
AbortStreams ==
    /\ drain = "ingress" /\ Pending = {}
    /\ drain' = "streams"
    /\ aborted' = [r \in Requests |-> aborted[r] \/ r \in ActiveStreams]
    /\ finished' = [r \in Requests |-> finished[r] \/ r \in ActiveStreams]
    /\ cleanup' = [r \in Requests |->
           IF r \in ActiveStreams /\ cleanup[r] \in {"none", "givenUp"}
           THEN FirstOfCleanup(r, body[r]) ELSE cleanup[r]]
    /\ deadline' = [r \in Requests |->
           IF r \in ActiveStreams /\ body[r] = "events" THEN "future" ELSE deadline[r]]
    /\ abort' = [r \in Requests |-> IF r \in ActiveStreams THEN "waiting" ELSE "none"]
    /\ UNCHANGED <<gate, running>> /\ DrainOnly

\* finished has resolved: stream.abort() settles as the cleanup did.
StreamAborted(r) ==
    /\ abort[r] = "waiting" /\ lease[r] = "completed"
    /\ Set(abort, r, IF failed[r] THEN "failed" ELSE "ok")
    /\ UNCHANGED <<gate, running, deadline, drain, aborted, finished, cleanup>> /\ DrainOnly

DrainSettles ==
    /\ drain = "streams"
    /\ \A r \in Requests : abort[r] # "waiting"
    /\ drain' = IF \E r \in Requests : abort[r] = "failed" THEN "rejected" ELSE "resolved"
    /\ UNCHANGED <<gate, running, deadline, abort, aborted, finished, cleanup>> /\ DrainOnly

DeadlinePasses(r) ==
    /\ deadline[r] = "future"
    /\ Set(deadline, r, "past")
    /\ UNCHANGED <<gate, running, abort, drain, aborted, finished, cleanup>> /\ DrainOnly

-----------------------------------------------------------------------------
Arrive(r) ==
    \/ Refuse(r) \/ BeginRefused(r) \/ NotFound(r) \/ Preflight(r)
    \/ \E gone \in BOOLEAN : Enter(r, gone)

\* What user code answers to fetch(), and fetch()'s own continuations.
FetchStep(r) ==
    \/ PreflightAnswers(r) \/ Prepared(r) \/ InputRejected(r) \/ PrepareFails(r)
    \/ LayerThrows(r) \/ Mapped(r) \/ Answer(r) \/ RespondBody(r)
    \/ \E gone \in BOOLEAN : PreflightFallsThrough(r, gone)
    \/ \E outcome \in {"response", "result", "error", "rejected"} : LayersEnd(r, outcome)
    \/ \E ok \in BOOLEAN : Finalized(r, ok)
    \/ \E kind \in {"leased", "events"} : FinalizedStream(r, kind) \/ MappedStream(r, kind)

SourceAnswers(r) ==
    \/ PullItem(r) \/ PullDone(r) \/ PullFails(r)
    \/ \E ok \in BOOLEAN : Validated(r, ok)

CleanupStep(r) ==
    \/ IdleAwaited(r) \/ CleanupLoops(r) \/ CleanupFinishes(r) \/ DeadlineExceeded(r)
    \/ \E ok \in BOOLEAN : SourceCancelled(r, ok)
    \/ \E result \in {"done", "more", "error"} : CleanupReturns(r, result)
    \/ \E result \in {"item", "done", "error"} : CleanupNext(r, result)

DrainStep == AbortStreams \/ DrainSettles \/ \E r \in Requests : StreamAborted(r)

Next ==
    \/ \E r \in Requests :
           \/ Arrive(r) \/ FetchStep(r) \/ HandlerStarts(r) \/ HandlerEnds(r)
           \/ Pull(r) \/ SourceAnswers(r) \/ Cancel(r) \/ AbortLease(r)
           \/ CleanupStep(r) \/ DeadlinePasses(r)
    \/ KernelStops \/ Drain \/ DrainStep

Spec == Init /\ [][Next]_vars

\* The extension's own continuations run; user code answers; an iterator that is
\* asked again and again comes to its end, and the deadline of drain after drain
\* does not pass before it is asked at all.
HttpFairness ==
    /\ WF_vars(DrainStep)
    /\ \A r \in Requests :
           /\ WF_vars(FetchStep(r))
           /\ WF_vars(HandlerEnds(r))
           /\ WF_vars(SourceAnswers(r))
           /\ WF_vars(CleanupStep(r))
           /\ SF_vars(CleanupNext(r, "done"))
           /\ SF_vars(IdleAwaited(r) /\ deadline[r] # "past")
           /\ SF_vars(CleanupLoops(r))

FairSpec == Spec /\ HttpFairness

\* What a host may add: it calls close() again when the drain was rejected.
RetryFairness == WF_vars(drain = "rejected" /\ ActiveStreams # {} /\ Drain)

-----------------------------------------------------------------------------
(* Properties                                                              *)

Typed ==
    /\ gate \in BOOLEAN /\ running \in BOOLEAN
    /\ stage \in [Requests -> {"none", "preflight", "preparing", "layers", "finalizing",
                               "mapping", "answering", "answered"}]
    /\ lease \in [Requests -> {"none", "active", "completed"}]
    /\ aborted \in [Requests -> BOOLEAN]
    /\ handler \in [Requests -> {"idle", "running", "over"}]
    /\ body \in [Requests -> {"none", "leased", "events"}]
    /\ pull \in [Requests -> {"idle", "read", "validate"}]
    /\ finished \in [Requests -> BOOLEAN]
    /\ cleanup \in [Requests -> {"none", "cancel", "return", "awaitIdle", "loop", "next",
                                 "finish", "givenUp", "over"}]
    /\ failed \in [Requests -> BOOLEAN]
    /\ continuing \in [Requests -> BOOLEAN]
    /\ ended \in [Requests -> BOOLEAN]
    /\ deadline \in [Requests -> {"none", "future", "past"}]
    /\ abort \in [Requests -> {"none", "waiting", "failed", "ok"}]
    /\ drain \in {"none", "ingress", "streams", "resolved", "rejected"}

\* A request inside the gate that has no stream holds its lease itself.
LeaseUntilAnswered ==
    \A r \in Requests : r \in Pending /\ body[r] = "none" => lease[r] = "active"

TypeOK == Typed /\ LeaseUntilAnswered

\* The source of a response body that may still be asked, or is answering.
Busy(r) == body[r] # "none" /\ (InFlight(r) \/ Cleaning(r) \/ ~ended[r])

\* The HTTP extension keeps the promise of ExecutionLeases: a lease outlives the
\* source of the body it was handed to, whoever ends the response, and a drain
\* that resolves has left no request and no stream behind.
Leases == INSTANCE ExecutionLeases WITH
    Executions <- Requests, accepting <- gate, lease <- lease,
    busy <- [r \in Requests |-> Busy(r)], drained <- drain = "resolved"

ImplementsLeases == Leases!Spec

\* Every request is answered and, once shutdown has begun or its client has gone,
\* its execution ends, whatever its stream was doing, if a drain whose deadline
\* passed is retried.
RequestsEnd ==
    RetryFairness =>
        /\ \A r \in Requests :
               /\ lease[r] = "active" ~> stage[r] = "answered"
               /\ drain # "none" \/ (aborted[r] /\ cleanup[r] # "givenUp") ~> lease[r] # "active"

\* Nothing that a request has started runs on when it has been answered.
NoDetachedHandler == \A r \in Requests : stage[r] = "answered" => handler[r] # "running"

=============================================================================
