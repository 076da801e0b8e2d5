----------------------------- MODULE MessagePort -----------------------------
(***************************************************************************)
(* The runtime of the MessagePort extension (message-port/extension.ts):   *)
(* invocations behind an IngressGate (runtime/ingress-gate.ts), and server *)
(* streams that own their execution lease until the application's async    *)
(* iterator has been cleaned up by AsyncIteratorLifecycle                  *)
(* (runtime/async-iterator-lifecycle.ts).                                  *)
(*                                                                         *)
(* The iterator of a stream is user code: a call of next(), return() or    *)
(* throw() settles when and how it likes.  A consumer may have several     *)
(* calls under way.  The drain deadline is a clock that may pass.          *)
(***************************************************************************)
EXTENDS Naturals, FiniteSets

CONSTANTS
    Streams,    \* invocations, each at most once
    Streaming,  \* those that may answer with a stream
    Ops         \* bound: the consumer calls of one stream that may overlap

ASSUME StreamingAssumption == Streaming \subseteq Streams

VARIABLES
    gate,         \* the IngressGate accepts
    invocation,   \* none, handling, streaming or completed (its lease too)
    aborted,      \* lease.signal.aborted
    op,           \* per stream and consumer call, what the call is doing
    finished,     \* the wrapper's finished
    cancelled,    \* cancellation is set
    settled,      \* cancellationSettled
    cleanup,      \* where iteratorCleanup is in AsyncIteratorLifecycle.drain
    cleanupDone,  \* iteratorCleanupComplete
    deadline,     \* iteratorCleanupDeadline: none, future or past
    returning,    \* #returnPending
    continuing,   \* #returnContinuationPending
    done,         \* #done
    broken,       \* return(), or the cleanup's next(), has thrown
    abort,        \* per stream, where the drain's control.abort() is
    drain,        \* where the extension's drain() is
    answered,     \* history: a return() has been answered with done: false
    late          \* history: cancel() was first called on a completed stream

wrapperVars  == <<op, finished, cancelled, settled, cleanupDone>>
iteratorVars == <<cleanup, returning, continuing, done, broken>>
drainVars    == <<gate, deadline, abort, drain>>
historyVars  == <<answered, late>>
vars == <<invocation, aborted, wrapperVars, iteratorVars, drainVars, historyVars>>

Init ==
    /\ gate = TRUE
    /\ invocation = [s \in Streams |-> "none"]
    /\ aborted = [s \in Streams |-> FALSE]
    /\ op = [s \in Streams |-> [o \in Ops |-> "idle"]]
    /\ finished = [s \in Streams |-> FALSE]
    /\ cancelled = [s \in Streams |-> FALSE]
    /\ settled = [s \in Streams |-> TRUE]
    /\ cleanup = [s \in Streams |-> "none"]
    /\ cleanupDone = [s \in Streams |-> FALSE]
    /\ deadline = [s \in Streams |-> "none"]
    /\ returning = [s \in Streams |-> FALSE]
    /\ continuing = [s \in Streams |-> FALSE]
    /\ done = [s \in Streams |-> FALSE]
    /\ broken = [s \in Streams |-> FALSE]
    /\ abort = [s \in Streams |-> "none"]
    /\ drain = "none"
    /\ answered = [s \in Streams |-> FALSE]
    /\ late = [s \in Streams |-> FALSE]

Set(f, s, value) == f' = [f EXCEPT ![s] = value]

\* Fault: the wrapper's calls are counted, also one that waits for the cleanup.
AnyCall(s) == cleanup[s] \in {"return", "next"} \/ \E o \in Ops : op[s][o] # "idle"

\* Calls of the iterator that have not settled: #inFlight > 0.
InFlight(s) ==
    cleanup[s] \in {"return", "next"} \/ \E o \in Ops : op[s][o] \in {"next", "return"}

\* Fault: calls under way do not hold the lease back.
CompleteWhenSettled(s) ==
    invocation' = [invocation EXCEPT ![s] =
        IF finished'[s] /\ settled'[s] THEN "completed" ELSE @]

\* completeIfSafe, in the state the step leads to.
CompleteIfSafe(s) ==
    invocation' = [invocation EXCEPT ![s] =
        IF finished'[s] /\ settled'[s] /\ \A o \in Ops : op'[s][o] = "idle"
        THEN "completed" ELSE @]

-----------------------------------------------------------------------------
(* AsyncIteratorLifecycle.drain                                            *)

\* From the point where no return() of the consumer is pending: the iterator is
\* done, or is asked to return, or the return it has begun is continued.
EnterDrain(s) ==
    IF done[s] THEN Set(cleanup, s, "finish") /\ UNCHANGED returning
    ELSE IF continuing[s] THEN Set(cleanup, s, "awaitIdle") /\ UNCHANGED returning
    ELSE Set(cleanup, s, "return") /\ Set(returning, s, TRUE)

\* Fault: a return() of the consumer is not waited for.
StartCleanupAtOnce(s) ==
    IF cleanup[s] # "none" THEN UNCHANGED <<finished, settled, cleanup, returning>>
    ELSE /\ Set(finished, s, TRUE)
         /\ IF cleanupDone[s] THEN UNCHANGED <<settled, cleanup, returning>>
            ELSE Set(settled, s, FALSE) /\ EnterDrain(s)

\* Fault: cancellationSettled is not reset.
StartCleanupSettled(s) ==
    IF cleanup[s] # "none" THEN UNCHANGED <<finished, settled, cleanup, returning>>
    ELSE /\ Set(finished, s, TRUE)
         /\ UNCHANGED settled
         /\ IF cleanupDone[s] THEN UNCHANGED <<cleanup, returning>>
            ELSE IF returning[s]
            THEN Set(cleanup, s, "awaitReturn") /\ UNCHANGED returning
            ELSE EnterDrain(s)

\* startIteratorCleanup: shared while it runs, and over once it has completed.
StartCleanup(s) ==
    IF cleanup[s] # "none" THEN UNCHANGED <<finished, settled, cleanup, returning>>
    ELSE /\ Set(finished, s, TRUE)
         /\ IF cleanupDone[s] THEN UNCHANGED <<settled, cleanup, returning>>
            ELSE /\ Set(settled, s, FALSE)
                 /\ IF returning[s]
                    THEN Set(cleanup, s, "awaitReturn") /\ UNCHANGED returning
                    ELSE EnterDrain(s)

\* The drain goes on as soon as no call of the iterator is left, which may be
\* before the consumer's return() has taken up the answer it waited for.
ReturnAwaited(s) ==
    /\ cleanup[s] = "awaitReturn" /\ ~InFlight(s)
    /\ EnterDrain(s)
    /\ UNCHANGED <<invocation, aborted, wrapperVars, continuing, done, broken, drainVars,
                   historyVars>>

IdleAwaited(s) ==
    /\ cleanup[s] = "awaitIdle" /\ ~InFlight(s)
    /\ Set(cleanup, s, "loop")
    /\ UNCHANGED <<invocation, aborted, wrapperVars, returning, continuing, done, broken,
                   drainVars, historyVars>>

\* The cleanup is over, well or with the error of return() or next().
EndCleanup(s, ok) ==
    /\ Set(cleanup, s, "none")
    /\ Set(cleanupDone, s, TRUE)
    /\ Set(settled, s, TRUE)
    /\ abort' = [abort EXCEPT ![s] =
           IF @ # "cleanup" THEN @ ELSE IF ok THEN "completion" ELSE "failed"]
    /\ UNCHANGED <<aborted, op, finished, cancelled, gate, deadline, drain, historyVars>>
    /\ CompleteIfSafe(s)

CleanupReturns(s, result) ==
    /\ cleanup[s] = "return"
    /\ Set(returning, s, FALSE)
    /\ CASE result = "done" ->
                /\ Set(cleanup, s, "finish")
                /\ Set(done, s, TRUE) /\ Set(continuing, s, FALSE)
                /\ UNCHANGED <<invocation, aborted, wrapperVars, broken, drainVars,
                               historyVars>>
         [] result = "more" ->
                /\ Set(cleanup, s, "awaitIdle")
                /\ Set(continuing, s, TRUE)
                /\ Set(answered, s, TRUE)
                /\ UNCHANGED <<invocation, aborted, wrapperVars, done, broken, drainVars,
                               late>>
         [] result = "error" ->
                /\ Set(broken, s, TRUE)
                /\ EndCleanup(s, FALSE)
                /\ UNCHANGED <<continuing, done>>

\* while (!done): the deadline is looked at before each next().
CleanupLoops(s) ==
    /\ cleanup[s] = "loop" /\ (done[s] \/ deadline[s] # "past")
    /\ Set(cleanup, s, IF done[s] THEN "finish" ELSE "next")
    /\ UNCHANGED <<invocation, aborted, wrapperVars, returning, continuing, done, broken,
                   drainVars, historyVars>>

CleanupNext(s, result) ==
    /\ cleanup[s] = "next"
    /\ IF result = "error"
       THEN Set(broken, s, TRUE) /\ EndCleanup(s, FALSE) /\ UNCHANGED <<continuing, done>>
       ELSE /\ Set(cleanup, s, "loop")
            /\ Set(done, s, done[s] \/ result = "done")
            /\ Set(continuing, s, continuing[s] /\ result # "done")
            /\ UNCHANGED <<invocation, aborted, wrapperVars, broken, drainVars,
                           historyVars>>
    /\ UNCHANGED returning

CleanupFinishes(s) ==
    /\ cleanup[s] = "finish"
    /\ EndCleanup(s, TRUE)
    /\ UNCHANGED <<returning, continuing, done, broken>>

\* AsyncIteratorCleanupDeadlineError: the cleanup is given up, unfinished.
DeadlineExceeded(s) ==
    /\ cleanup[s] = "loop" /\ ~done[s] /\ deadline[s] = "past"
    /\ Set(cleanup, s, "none")
    /\ abort' = [abort EXCEPT ![s] = IF @ = "cleanup" THEN "failed" ELSE @]
    /\ UNCHANGED <<invocation, aborted, wrapperVars, returning, continuing, done, broken,
                   gate, deadline, drain, historyVars>>

-----------------------------------------------------------------------------
(* Invocations                                                             *)

\* invoke(): refused once the gate is shut.
Invoke(s) ==
    /\ gate /\ invocation[s] = "none"
    /\ Set(invocation, s, "handling")
    /\ UNCHANGED <<aborted, wrapperVars, iteratorVars, drainVars, historyVars>>

\* cancel(), by the consumer or because the lease was aborted.
CancelStream(s) ==
    /\ Set(cancelled, s, TRUE)
    /\ IF cancelled[s] THEN UNCHANGED <<finished, settled, cleanup, returning>>
       ELSE StartCleanup(s)

\* The handler answers with a stream, whose lease may have been aborted by now.
BeginStream(s) ==
    /\ s \in Streaming /\ invocation[s] = "handling"
    /\ Set(invocation, s, "streaming")
    /\ IF aborted[s] THEN CancelStream(s)
       ELSE UNCHANGED <<finished, settled, cancelled, cleanup, returning>>
    /\ UNCHANGED <<aborted, op, cleanupDone, continuing, done, broken, drainVars,
                   historyVars>>

\* It answers with a value, or fails: the lease is completed.
EndInvocation(s) ==
    /\ invocation[s] = "handling"
    /\ Set(invocation, s, "completed")
    /\ UNCHANGED <<aborted, wrapperVars, iteratorVars, drainVars, historyVars>>

-----------------------------------------------------------------------------
(* The consumer's calls                                                    *)

SetOp(s, o, value) == op' = [op EXCEPT ![s][o] = value]

Open(s) == invocation[s] = "streaming" /\ ~finished[s]

\* next() and throw().
CallNext(s, o) ==
    /\ Open(s) /\ op[s][o] = "idle"
    /\ SetOp(s, o, "next")
    /\ UNCHANGED <<invocation, aborted, finished, cancelled, settled, cleanupDone,
                   iteratorVars, drainVars, historyVars>>

CallReturn(s, o) ==
    /\ Open(s) /\ op[s][o] = "idle"
    /\ SetOp(s, o, "return")
    /\ Set(returning, s, TRUE)
    /\ UNCHANGED <<invocation, aborted, finished, cancelled, settled, cleanupDone,
                   cleanup, continuing, done, broken, drainVars, historyVars>>

\* cancel() of the consumer, of an open stream or of one whose lease has been
\* completed: only the first call matters, and nothing asks about the lease.
Cancel(s) ==
    /\ invocation[s] = "streaming" \/ finished[s]
    /\ ~cancelled[s]
    /\ CancelStream(s)
    /\ Set(late, s, invocation[s] = "completed")
    /\ UNCHANGED <<invocation, aborted, op, cleanupDone, continuing, done, broken,
                   drainVars, answered>>

\* closeAfterError: the call goes on when the cleanup it starts or joins is over.
CloseAfterError(s, o) ==
    /\ SetOp(s, o, "closing")
    /\ StartCleanup(s)
    /\ UNCHANGED <<invocation, cancelled, cleanupDone>>

NextSettles(s, o, result) ==
    /\ op[s][o] = "next"
    /\ CASE result = "item" ->
                /\ SetOp(s, o, "validate")
                /\ UNCHANGED <<invocation, finished, cancelled, settled, cleanupDone,
                               cleanup, returning, continuing, done>>
         [] result = "done" ->
                /\ SetOp(s, o, "idle")
                /\ Set(finished, s, TRUE)
                /\ Set(done, s, TRUE) /\ Set(continuing, s, FALSE)
                /\ UNCHANGED <<cancelled, settled, cleanupDone, cleanup, returning>>
                /\ CompleteIfSafe(s)
         [] result = "error" ->
                /\ IF finished[s]
                   THEN /\ SetOp(s, o, "idle")
                        /\ UNCHANGED <<finished, cancelled, settled, cleanupDone, cleanup,
                                       returning>>
                        /\ CompleteIfSafe(s)
                   ELSE CloseAfterError(s, o)
                /\ UNCHANGED <<continuing, done>>
    /\ UNCHANGED <<aborted, broken, drainVars, historyVars>>

\* The item of a next() has been validated against the response schema.
Validated(s, o, ok) ==
    /\ op[s][o] = "validate"
    /\ IF ok
       THEN /\ SetOp(s, o, "idle")
            /\ UNCHANGED <<finished, cancelled, settled, cleanupDone, cleanup, returning>>
            /\ CompleteIfSafe(s)
       ELSE CloseAfterError(s, o)
    /\ UNCHANGED <<aborted, continuing, done, broken, drainVars, historyVars>>

ClosingEnds(s, o) ==
    /\ op[s][o] = "closing" /\ cleanup[s] = "none"
    /\ SetOp(s, o, "idle")
    /\ UNCHANGED <<aborted, finished, cancelled, settled, cleanupDone, iteratorVars,
                   drainVars, historyVars>>
    /\ CompleteIfSafe(s)

\* #run: the iterator has answered a return() of the consumer, and the waiters
\* for the calls under way are woken.
ReturnSettles(s, o, result) ==
    /\ op[s][o] = "return"
    /\ SetOp(s, o, result)
    /\ Set(done, s, done[s] \/ result = "done")
    /\ Set(continuing, s, continuing[s] /\ result # "done")
    /\ Set(broken, s, broken[s] \/ result = "error")
    /\ Set(answered, s, answered[s] \/ result = "more")
    /\ UNCHANGED <<invocation, aborted, finished, cancelled, settled, cleanupDone,
                   cleanup, returning, drainVars, late>>

\* The continuations of AsyncIteratorLifecycle.return and of the wrapper take the
\* answer up, also when the cleanup has asked for another return() meanwhile.
ReturnContinues(s, o) ==
    /\ op[s][o] \in {"more", "done", "error"}
    /\ SetOp(s, o, "idle")
    /\ Set(returning, s, FALSE)
    /\ Set(continuing, s, IF op[s][o] = "error" THEN continuing[s] ELSE op[s][o] = "more")
    /\ Set(finished, s, finished[s] \/ op[s][o] # "more")
    /\ UNCHANGED <<aborted, cancelled, settled, cleanupDone, cleanup, done, broken,
                   drainVars, historyVars>>
    /\ CompleteIfSafe(s)

-----------------------------------------------------------------------------
(* drain(), and what the kernel does around it                             *)

\* The kernel starts a drain when shutdown begins, and again after one that was
\* rejected.
Drain ==
    /\ drain \in {"none", "rejected"}
    /\ drain' = "ingress"
    /\ gate' = FALSE
    /\ UNCHANGED <<invocation, aborted, wrapperVars, iteratorVars, deadline, abort,
                   historyVars>>

Handling == {s \in Streams : invocation[s] = "handling"}
Active   == {s \in Streams : invocation[s] = "streaming"}

\* ingress.waitForIdle() has resolved: control.abort() of every active stream,
\* each with the deadline of this drain.
AbortStreams ==
    /\ drain = "ingress" /\ Handling = {}
    /\ drain' = "streams"
    /\ abort' = [s \in Streams |->
           IF s \notin Active THEN "none"
           ELSE IF cleanup[s] = "none" /\ cleanupDone[s] THEN "completion" ELSE "cleanup"]
    /\ deadline' = [s \in Streams |-> IF s \in Active THEN "future" ELSE deadline[s]]
    /\ aborted' = [s \in Streams |-> aborted[s] \/ s \in Active]
    /\ cancelled' = [s \in Streams |->
           cancelled[s] \/ (s \in Active /\ ~aborted[s] /\ ~finished[s])]
    /\ LET started == {s \in Active : cleanup[s] = "none"}
           opened  == {s \in started : ~cleanupDone[s]}
           entered == {s \in opened : ~returning[s]}
           asked   == {s \in entered : ~done[s] /\ ~continuing[s]}
       IN  /\ finished' = [s \in Streams |-> finished[s] \/ s \in started]
           /\ settled' = [s \in Streams |-> settled[s] /\ s \notin opened]
           /\ returning' = [s \in Streams |-> returning[s] \/ s \in asked]
           /\ cleanup' = [s \in Streams |->
                  CASE s \notin opened            -> cleanup[s]
                    [] s \in opened \ entered    -> "awaitReturn"
                    [] s \in asked               -> "return"
                    [] s \in entered /\ done[s]  -> "finish"
                    [] OTHER                     -> "awaitIdle"]
    /\ UNCHANGED <<invocation, op, cleanupDone, continuing, done, broken, gate,
                   historyVars>>

StreamCompleted(s) ==
    /\ abort[s] = "completion" /\ invocation[s] = "completed"
    /\ Set(abort, s, "ok")
    /\ UNCHANGED <<invocation, aborted, wrapperVars, iteratorVars, gate, deadline, drain,
                   historyVars>>

DrainSettles ==
    /\ drain = "streams"
    /\ \A s \in Streams : abort[s] \notin {"cleanup", "completion"}
    /\ drain' = IF \E s \in Streams : abort[s] = "failed" THEN "rejected" ELSE "resolved"
    /\ UNCHANGED <<invocation, aborted, wrapperVars, iteratorVars, gate, deadline, abort,
                   historyVars>>

DeadlinePasses(s) ==
    /\ deadline[s] = "future"
    /\ Set(deadline, s, "past")
    /\ UNCHANGED <<invocation, aborted, wrapperVars, iteratorVars, gate, abort, drain,
                   historyVars>>

\* executions.abortAll, after this drain or another extension's has failed.
AbortLease(s) ==
    /\ drain # "none"
    /\ invocation[s] \in {"handling", "streaming"} /\ ~aborted[s]
    /\ Set(aborted, s, TRUE)
    /\ IF invocation[s] = "streaming" /\ ~finished[s] THEN CancelStream(s)
       ELSE UNCHANGED <<finished, settled, cancelled, cleanup, returning>>
    /\ UNCHANGED <<invocation, op, cleanupDone, continuing, done, broken, drainVars,
                   historyVars>>

-----------------------------------------------------------------------------
Results == {"item", "done", "error"}

CleanupStep(s) ==
    ReturnAwaited(s) \/ IdleAwaited(s) \/ CleanupLoops(s) \/ CleanupFinishes(s)
        \/ DeadlineExceeded(s)

IteratorAnswers(s) ==
    \/ \E result \in {"done", "more", "error"} : CleanupReturns(s, result)
    \/ \E result \in Results : CleanupNext(s, result)
    \/ \E o \in Ops, result \in Results : NextSettles(s, o, result)
    \/ \E o \in Ops, result \in {"done", "more", "error"} : ReturnSettles(s, o, result)

CallStep(s) ==
    \E o \in Ops :
        \/ \E ok \in BOOLEAN : Validated(s, o, ok)
        \/ ClosingEnds(s, o) \/ ReturnContinues(s, o)

Consumer(s) == Cancel(s) \/ \E o \in Ops : CallNext(s, o) \/ CallReturn(s, o)

InvocationNext(s) == Invoke(s) \/ BeginStream(s) \/ EndInvocation(s)

DrainStep == AbortStreams \/ DrainSettles \/ \E s \in Streams : StreamCompleted(s)

Next ==
    \/ \E s \in Streams :
           \/ InvocationNext(s) \/ Consumer(s) \/ CallStep(s) \/ IteratorAnswers(s)
           \/ CleanupStep(s) \/ DeadlinePasses(s) \/ AbortLease(s)
    \/ Drain \/ DrainStep

Spec == Init /\ [][Next]_vars

\* The extension's own continuations run; handlers, validators and iterators
\* answer; an iterator that is asked again and again comes to its end, and the
\* deadline of drain after drain does not pass before it is asked at all.
PortFairness ==
    /\ WF_vars(DrainStep)
    /\ \A s \in Streams :
           /\ WF_vars(CleanupStep(s))
           /\ WF_vars(CallStep(s))
           /\ WF_vars(IteratorAnswers(s))
           /\ WF_vars(BeginStream(s) \/ EndInvocation(s))
           /\ SF_vars(CleanupNext(s, "done"))
           /\ SF_vars(IdleAwaited(s) /\ deadline[s] # "past")
           /\ SF_vars(CleanupLoops(s))

FairSpec == Spec /\ PortFairness

\* What a host may add: it calls close() again when the drain was rejected.
RetryFairness == WF_vars(drain = "rejected" /\ Handling \union Active # {} /\ Drain)

-----------------------------------------------------------------------------
(* Properties                                                              *)

OpStates == {"idle", "next", "return", "more", "done", "error", "validate", "closing"}

CleanupStates == {"none", "awaitReturn", "return", "awaitIdle", "loop", "next", "finish"}

PortTypes ==
    /\ gate \in BOOLEAN
    /\ invocation \in [Streams -> {"none", "handling", "streaming", "completed"}]
    /\ aborted \in [Streams -> BOOLEAN]
    /\ op \in [Streams -> [Ops -> OpStates]]
    /\ finished \in [Streams -> BOOLEAN]
    /\ cancelled \in [Streams -> BOOLEAN]
    /\ settled \in [Streams -> BOOLEAN]
    /\ cleanup \in [Streams -> CleanupStates]
    /\ cleanupDone \in [Streams -> BOOLEAN]
    /\ deadline \in [Streams -> {"none", "future", "past"}]
    /\ returning \in [Streams -> BOOLEAN]
    /\ continuing \in [Streams -> BOOLEAN]
    /\ done \in [Streams -> BOOLEAN]
    /\ broken \in [Streams -> BOOLEAN]
    /\ abort \in [Streams -> {"none", "cleanup", "completion", "failed", "ok"}]
    /\ drain \in {"none", "ingress", "streams", "resolved", "rejected"}
    /\ answered \in [Streams -> BOOLEAN]
    /\ late \in [Streams -> BOOLEAN]

\* Every variable keeps its type, and a cleanup under way has closed the stream
\* to new calls and holds back the completion of its lease.
TypeOK ==
    /\ PortTypes
    /\ \A s \in Streams : cleanup[s] # "none" => finished[s] /\ ~settled[s]

\* Calls of the consumer or of the cleanup under way, or an iterator that was
\* stopped and has neither come to its end nor failed to.  The one cleanup left
\* out is that of a cancel() which came when the lease had been completed: by a
\* return() that failed, since a stream that is done has nothing to clean up.
Busy(s) ==
    \/ \E o \in Ops : op[s][o] # "idle"
    \/ cleanup[s] # "none" /\ ~late[s]
    \/ finished[s] /\ ~done[s] /\ ~broken[s]

\* The extension keeps the promise of ExecutionLeases: a stream's lease outlives
\* every call of its iterator but those of such a cancel(), and a drain that
\* resolves has left no execution behind, also of the handlers that answered with
\* a stream after it had begun.
Leases == INSTANCE ExecutionLeases WITH
    Executions <- Streams, accepting <- gate,
    lease <- [s \in Streams |->
        IF invocation[s] \in {"none", "completed"} THEN invocation[s] ELSE "active"],
    busy <- [s \in Streams |-> Busy(s)], drained <- drain = "resolved"

ImplementsLeases == Leases!Spec

\* The cleanup calls return() over no return() of the consumer that is still
\* under way, and repeats one that was answered before the iterator was done
\* only while that answer waits to be taken up; unless a return() has failed.
ReturnNotReentered ==
    [][\A s \in Streams :
           cleanup[s] # "return" /\ cleanup'[s] = "return" /\ ~broken[s]
               => /\ \A o \in Ops : op[s][o] # "return"
                  /\ answered[s] => \E o \in Ops : op[s][o] = "more"]_vars

\* Whatever the consumer had done, shutting down ends every execution, if it is
\* retried when a deadline passes.
StreamsEnd == RetryFairness => (drain # "none" ~> Handling \union Active = {})

\* A rejected drain does not keep the executions from completing, which is what
\* retryAfter and with it the signal handler's retry wait for.
RejectionLetsRetry == drain = "rejected" ~> Handling \union Active = {}

=============================================================================
