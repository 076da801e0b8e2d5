-------------------------- MODULE MessagePortProofs --------------------------
(***************************************************************************)
(* Machine-checked proofs about MessagePort, for any number of invocations *)
(* and of overlapping calls of a consumer: the cleanup returns from an     *)
(* iterator that is being returned from only in the gap it leaves itself,  *)
(* and the extension implements ExecutionLeases.                           *)
(***************************************************************************)
EXTENDS MessagePort, TLAPS

(* The inductive invariant.                                                *)

\* A stream that is not open runs nothing but the cleanup of a late cancel(); one
\* that has finished and settled has come to its end or failed to; a return()
\* leaves a trace until its answer has been taken up, whatever other calls settle
\* before it.
StreamInv(s) ==
    /\ invocation[s] # "streaming" =>
           (cleanup[s] = "none" \/ late[s]) /\ \A o \in Ops : op[s][o] = "idle"
    /\ late[s] => invocation[s] = "completed"
    /\ invocation[s] \in {"none", "handling"} => ~finished[s]
    /\ invocation[s] = "completed" /\ finished[s] => done[s] \/ broken[s]
    /\ cleanup[s] # "none" => finished[s] /\ ~settled[s]
    /\ cleanup[s] = "finish" => done[s]
    /\ finished[s] /\ settled[s] => done[s] \/ broken[s]
    /\ cleanupDone[s] => done[s] \/ broken[s]
    /\ answered[s] =>
           continuing[s] \/ done[s] \/ broken[s] \/ \E o \in Ops : op[s][o] = "more"
    /\ \A o \in Ops :
           /\ op[s][o] = "return" =>
                  returning[s] \/ continuing[s] \/ done[s] \/ broken[s]
           /\ op[s][o] = "done" => done[s]
           /\ op[s][o] = "error" => broken[s]

\* Once the drain has aborted the streams, no handler is left that could open
\* another one, and it looks after every stream that is still open.
DrainInv ==
    /\ gate <=> drain = "none"
    /\ drain \in {"streams", "resolved"} => \A s \in Streams : invocation[s] # "handling"
    /\ drain = "streams" =>
           \A s \in Streams :
               invocation[s] = "streaming" => abort[s] \in {"cleanup", "completion", "failed"}
    /\ drain = "resolved" => \A s \in Streams : invocation[s] # "streaming"

PortInv == PortTypes /\ (\A s \in Streams : StreamInv(s)) /\ DrainInv

-----------------------------------------------------------------------------
(* Type correctness.                                                       *)

\* Starting the iterator cleanup touches one stream's wrapper and iterator.
LEMMA StartCleanupTyped ==
    ASSUME PortTypes, NEW s \in Streams, StartCleanup(s)
    PROVE  /\ finished' \in [Streams -> BOOLEAN]
           /\ settled' \in [Streams -> BOOLEAN]
           /\ returning' \in [Streams -> BOOLEAN]
           /\ cleanup' \in [Streams -> CleanupStates]
<1>1. finished' \in [Streams -> BOOLEAN]
  BY DEF PortTypes, StartCleanup, Set
<1>2. settled' \in [Streams -> BOOLEAN]
  BY DEF PortTypes, StartCleanup, Set
<1>3. returning' \in [Streams -> BOOLEAN]
  BY DEF PortTypes, StartCleanup, EnterDrain, Set
<1>4. \/ cleanup' = cleanup
      \/ \E v \in {"finish", "awaitIdle", "return", "awaitReturn"} :
             cleanup' = [cleanup EXCEPT ![s] = v]
  BY DEF StartCleanup, EnterDrain, Set
<1>5. cleanup' \in [Streams -> CleanupStates]
  BY <1>4 DEF PortTypes, CleanupStates
<1> QED
  BY <1>1, <1>2, <1>3, <1>5

\* So does cancelling the stream.
LEMMA CancelTyped ==
    ASSUME PortTypes, NEW s \in Streams, CancelStream(s)
    PROVE  /\ finished' \in [Streams -> BOOLEAN]
           /\ settled' \in [Streams -> BOOLEAN]
           /\ returning' \in [Streams -> BOOLEAN]
           /\ cancelled' \in [Streams -> BOOLEAN]
           /\ cleanup' \in [Streams -> CleanupStates]
<1>1. cancelled' \in [Streams -> BOOLEAN]
  BY DEF PortTypes, CancelStream, Set
<1> QED
  BY <1>1, StartCleanupTyped DEF PortTypes, CancelStream

\* Completing the lease, if it may be, keeps its type.
LEMMA CompleteTyped ==
    ASSUME PortTypes, NEW s \in Streams, CompleteIfSafe(s)
    PROVE  invocation' \in [Streams -> {"none", "handling", "streaming", "completed"}]
BY DEF PortTypes, CompleteIfSafe

\* Ending the cleanup keeps the types.
LEMMA EndCleanupTyped ==
    ASSUME PortTypes, NEW s \in Streams, NEW ok \in BOOLEAN, EndCleanup(s, ok),
           returning' \in [Streams -> BOOLEAN], continuing' \in [Streams -> BOOLEAN],
           done' \in [Streams -> BOOLEAN], broken' \in [Streams -> BOOLEAN]
    PROVE  PortTypes'
<1>1. cleanup' \in [Streams -> CleanupStates]
  BY DEF PortTypes, CleanupStates, EndCleanup, Set
<1>2. cleanupDone' \in [Streams -> BOOLEAN] /\ settled' \in [Streams -> BOOLEAN]
  BY DEF PortTypes, EndCleanup, Set
<1>3. abort' \in [Streams -> {"none", "cleanup", "completion", "failed", "ok"}]
  BY DEF PortTypes, EndCleanup
<1>4. invocation' \in [Streams -> {"none", "handling", "streaming", "completed"}]
  BY CompleteTyped DEF EndCleanup
<1> QED
  BY <1>1, <1>2, <1>3, <1>4 DEF PortTypes, EndCleanup, historyVars

\* A step of the iterator cleanup keeps the types.
LEMMA CleanupTyped ==
    ASSUME PortTypes, NEW s \in Streams,
           \/ CleanupStep(s)
           \/ \E result \in {"done", "more", "error"} : CleanupReturns(s, result)
           \/ \E result \in Results : CleanupNext(s, result)
    PROVE  PortTypes'
<1> USE DEF wrapperVars, drainVars, historyVars
<1>1. CASE ReturnAwaited(s)
  <2>1. returning' \in [Streams -> BOOLEAN]
    BY <1>1 DEF PortTypes, ReturnAwaited, EnterDrain, Set
  <2>2. cleanup' \in [Streams -> CleanupStates]
    <3>1. \E v \in {"finish", "awaitIdle", "return"} : Set(cleanup, s, v)
      BY <1>1 DEF ReturnAwaited, EnterDrain
    <3> QED
      BY <3>1 DEF PortTypes, CleanupStates, Set
  <2> QED
    BY <1>1, <2>1, <2>2 DEF PortTypes, ReturnAwaited
<1>2. CASE IdleAwaited(s) \/ CleanupLoops(s)
  <2>1. \E v \in {"loop", "next", "finish"} : Set(cleanup, s, v)
    BY <1>2 DEF IdleAwaited, CleanupLoops
  <2>2. cleanup' \in [Streams -> CleanupStates]
    BY <2>1 DEF PortTypes, CleanupStates, Set
  <2>3. UNCHANGED <<invocation, aborted, wrapperVars, returning, continuing, done, broken,
                    drainVars, historyVars>>
    BY <1>2 DEF IdleAwaited, CleanupLoops
  <2> QED
    BY <2>2, <2>3 DEF PortTypes
<1>3. CASE CleanupFinishes(s)
  BY <1>3, EndCleanupTyped DEF PortTypes, CleanupFinishes
<1>4. CASE DeadlineExceeded(s)
  BY <1>4 DEF PortTypes, CleanupStates, DeadlineExceeded, Set
<1>5. ASSUME NEW result \in {"done", "more", "error"}, CleanupReturns(s, result) PROVE PortTypes'
  <2>1. returning' \in [Streams -> BOOLEAN]
    BY <1>5 DEF PortTypes, CleanupReturns, Set
  <2>2. CASE result = "done"
    <3>1. done' \in [Streams -> BOOLEAN] /\ continuing' \in [Streams -> BOOLEAN]
      BY <1>5, <2>2 DEF PortTypes, CleanupReturns, Set
    <3>2. /\ Set(cleanup, s, "finish")
          /\ UNCHANGED <<invocation, aborted, wrapperVars, broken, drainVars, historyVars>>
      BY <1>5, <2>2 DEF CleanupReturns
    <3>3. cleanup' \in [Streams -> CleanupStates]
      BY <3>2 DEF PortTypes, CleanupStates, Set
    <3> QED
      BY <2>1, <3>1, <3>2, <3>3 DEF PortTypes
  <2>3. CASE result = "more"
    <3>1. continuing' \in [Streams -> BOOLEAN] /\ answered' \in [Streams -> BOOLEAN]
      BY <1>5, <2>3 DEF PortTypes, CleanupReturns, Set
    <3>2. /\ Set(cleanup, s, "awaitIdle")
          /\ UNCHANGED <<invocation, aborted, wrapperVars, done, broken, drainVars, late>>
      BY <1>5, <2>3 DEF CleanupReturns
    <3>3. cleanup' \in [Streams -> CleanupStates]
      BY <3>2 DEF PortTypes, CleanupStates, Set
    <3> QED
      BY <2>1, <3>1, <3>2, <3>3 DEF PortTypes
  <2>4. CASE result = "error"
    <3>1. broken' \in [Streams -> BOOLEAN]
      BY <1>5, <2>4 DEF PortTypes, CleanupReturns, Set
    <3>2. EndCleanup(s, FALSE) /\ UNCHANGED <<continuing, done>>
      BY <1>5, <2>4 DEF CleanupReturns
    <3> QED
      BY <2>1, <3>1, <3>2, EndCleanupTyped DEF PortTypes
  <2> QED
    BY <1>5, <2>2, <2>3, <2>4
<1>6. ASSUME NEW result \in Results, CleanupNext(s, result) PROVE PortTypes'
  <2>1. CASE result = "error"
    <3>1. broken' \in [Streams -> BOOLEAN]
      BY <1>6, <2>1 DEF PortTypes, CleanupNext, Set
    <3>2. EndCleanup(s, FALSE) /\ UNCHANGED <<returning, continuing, done>>
      BY <1>6, <2>1 DEF CleanupNext
    <3> QED
      BY <3>1, <3>2, EndCleanupTyped DEF PortTypes
  <2>2. CASE result # "error"
    <3>1. (done[s] \/ result = "done") \in BOOLEAN /\ (continuing[s] /\ result # "done") \in BOOLEAN
      OBVIOUS
    <3>2. done' \in [Streams -> BOOLEAN] /\ continuing' \in [Streams -> BOOLEAN]
      <4>1. \E v, w \in BOOLEAN : Set(done, s, v) /\ Set(continuing, s, w)
        BY <1>6, <2>2, <3>1 DEF CleanupNext
      <4> QED
        BY <4>1 DEF PortTypes, Set
    <3>3. /\ Set(cleanup, s, "loop")
          /\ UNCHANGED <<invocation, aborted, wrapperVars, broken, drainVars, returning,
                         historyVars>>
      BY <1>6, <2>2 DEF CleanupNext
    <3>4. cleanup' \in [Streams -> CleanupStates]
      BY <3>3 DEF PortTypes, CleanupStates, Set
    <3> QED
      BY <3>2, <3>3, <3>4 DEF PortTypes
  <2> QED
    BY <2>1, <2>2
<1> QED
  BY <1>1, <1>2, <1>3, <1>4, <1>5, <1>6 DEF CleanupStep

\* What the consumer, the handler and the lease do to a stream keeps the types.
LEMMA StreamTyped ==
    ASSUME PortTypes, NEW s \in Streams,
           InvocationNext(s) \/ Consumer(s) \/ DeadlinePasses(s) \/ AbortLease(s)
    PROVE  PortTypes'
<1> USE DEF wrapperVars, iteratorVars, drainVars, historyVars
<1>1. CASE Invoke(s) \/ EndInvocation(s)
  BY <1>1 DEF PortTypes, Invoke, EndInvocation, Set
<1>2. CASE BeginStream(s)
  <2>1. invocation' \in [Streams -> {"none", "handling", "streaming", "completed"}]
    BY <1>2 DEF PortTypes, BeginStream, Set
  <2>2. CASE aborted[s]
    BY <1>2, <2>1, <2>2, CancelTyped DEF PortTypes, BeginStream
  <2>3. CASE ~aborted[s]
    BY <1>2, <2>1, <2>3 DEF PortTypes, BeginStream
  <2> QED
    BY <2>2, <2>3
<1>3. CASE Cancel(s)
  <2>1. late' \in [Streams -> BOOLEAN]
    BY <1>3 DEF PortTypes, Cancel, Set
  <2> QED
    BY <1>3, <2>1, CancelTyped DEF PortTypes, Cancel
<1>4. ASSUME NEW o \in Ops, CallNext(s, o) \/ CallReturn(s, o) PROVE PortTypes'
  <2>1. op' \in [Streams -> [Ops -> OpStates]]
    <3>1. \E v \in {"next", "return"} : op' = [op EXCEPT ![s][o] = v]
      BY <1>4 DEF CallNext, CallReturn, SetOp
    <3> QED
      BY <3>1 DEF PortTypes, OpStates
  <2>2. returning' \in [Streams -> BOOLEAN]
    BY <1>4 DEF PortTypes, CallNext, CallReturn, Set
  <2>3. CASE CallNext(s, o)
    BY <2>1, <2>2, <2>3 DEF PortTypes, CallNext
  <2>4. CASE CallReturn(s, o)
    BY <2>1, <2>2, <2>4 DEF PortTypes, CallReturn
  <2> QED
    BY <1>4, <2>3, <2>4
<1>5. CASE DeadlinePasses(s)
  BY <1>5 DEF PortTypes, DeadlinePasses, Set
<1>6. CASE AbortLease(s)
  <2>1. aborted' \in [Streams -> BOOLEAN]
    BY <1>6 DEF PortTypes, AbortLease, Set
  <2>2. CASE CancelStream(s)
    BY <1>6, <2>1, <2>2, CancelTyped DEF PortTypes, AbortLease
  <2>3. CASE UNCHANGED <<finished, settled, cancelled, cleanup, returning>>
    BY <1>6, <2>1, <2>3 DEF PortTypes, AbortLease
  <2> QED
    BY <1>6, <2>2, <2>3 DEF AbortLease
<1> QED
  BY <1>1, <1>2, <1>3, <1>4, <1>5, <1>6 DEF InvocationNext, Consumer

\* A consumer's call that settles, or goes on, keeps the types.
LEMMA CallTyped ==
    ASSUME PortTypes, NEW s \in Streams, NEW o \in Ops,
           \/ \E ok \in BOOLEAN : Validated(s, o, ok)
           \/ ClosingEnds(s, o) \/ ReturnContinues(s, o)
           \/ \E result \in Results : NextSettles(s, o, result)
           \/ \E result \in {"done", "more", "error"} : ReturnSettles(s, o, result)
    PROVE  PortTypes'
<1> USE DEF iteratorVars, drainVars, historyVars
<1>1. \A v \in {"idle", "more", "done", "error", "validate", "closing"} :
          SetOp(s, o, v) =>
              op' \in [Streams -> [Ops -> OpStates]]
  BY DEF PortTypes, OpStates, SetOp
<1>2. ASSUME NEW ok \in BOOLEAN, Validated(s, o, ok) PROVE PortTypes'
  <2>1. CASE ok
    BY <1>1, <1>2, <2>1, CompleteTyped DEF PortTypes, Validated
  <2>2. CASE ~ok
    BY <1>1, <1>2, <2>2, StartCleanupTyped DEF PortTypes, Validated, CloseAfterError
  <2> QED
    BY <2>1, <2>2
<1>3. CASE ClosingEnds(s, o)
  BY <1>1, <1>3, CompleteTyped DEF PortTypes, ClosingEnds
<1>4. ASSUME NEW result \in Results, NextSettles(s, o, result) PROVE PortTypes'
  <2>1. CASE result = "item"
    BY <1>1, <1>4, <2>1 DEF PortTypes, NextSettles
  <2>2. CASE result = "done"
    <3>1. finished' \in [Streams -> BOOLEAN]
      BY <1>4, <2>2 DEF PortTypes, NextSettles, Set
    <3>2. done' \in [Streams -> BOOLEAN] /\ continuing' \in [Streams -> BOOLEAN]
      BY <1>4, <2>2 DEF PortTypes, NextSettles, Set
    <3> QED
      BY <1>1, <1>4, <2>2, <3>1, <3>2, CompleteTyped DEF PortTypes, NextSettles
  <2>3. CASE result = "error" /\ finished[s]
    BY <1>1, <1>4, <2>3, CompleteTyped DEF PortTypes, NextSettles
  <2>4. CASE result = "error" /\ ~finished[s]
    BY <1>1, <1>4, <2>4, StartCleanupTyped DEF PortTypes, NextSettles, CloseAfterError
  <2> QED
    BY <2>1, <2>2, <2>3, <2>4 DEF Results
<1>5. ASSUME NEW result \in {"done", "more", "error"}, ReturnSettles(s, o, result)
      PROVE  PortTypes'
  <2>1. /\ (done[s] \/ result = "done") \in BOOLEAN
        /\ (continuing[s] /\ result # "done") \in BOOLEAN
        /\ (broken[s] \/ result = "error") \in BOOLEAN
        /\ (answered[s] \/ result = "more") \in BOOLEAN
    OBVIOUS
  <2>2. done' \in [Streams -> BOOLEAN] /\ continuing' \in [Streams -> BOOLEAN]
    BY <1>5, <2>1 DEF PortTypes, ReturnSettles, Set
  <2>3. broken' \in [Streams -> BOOLEAN] /\ answered' \in [Streams -> BOOLEAN]
    BY <1>5, <2>1 DEF PortTypes, ReturnSettles, Set
  <2>4. op' \in [Streams -> [Ops -> OpStates]]
    BY <1>1, <1>5 DEF ReturnSettles
  <2> QED
    BY <1>5, <2>2, <2>3, <2>4 DEF PortTypes, ReturnSettles
<1>6. CASE ReturnContinues(s, o)
  <2>1. /\ (finished[s] \/ op[s][o] # "more") \in BOOLEAN
        /\ (op[s][o] = "more") \in BOOLEAN
    OBVIOUS
  <2>2. finished' \in [Streams -> BOOLEAN] /\ returning' \in [Streams -> BOOLEAN]
    BY <1>6, <2>1 DEF PortTypes, ReturnContinues, Set
  <2>3. \E v \in BOOLEAN : Set(continuing, s, v)
    <3>1. CASE op[s][o] = "error"
      BY <1>6, <3>1 DEF PortTypes, ReturnContinues
    <3>2. CASE op[s][o] # "error"
      BY <1>6, <2>1, <3>2 DEF ReturnContinues
    <3> QED
      BY <3>1, <3>2
  <2>4. continuing' \in [Streams -> BOOLEAN]
    BY <2>3 DEF PortTypes, Set
  <2>5. op' \in [Streams -> [Ops -> OpStates]]
    BY <1>1, <1>6 DEF ReturnContinues
  <2>6. invocation' \in [Streams -> {"none", "handling", "streaming", "completed"}]
    BY <1>6, CompleteTyped DEF ReturnContinues
  <2> QED
    BY <1>6, <2>2, <2>4, <2>5, <2>6 DEF PortTypes, ReturnContinues
<1> QED
  BY <1>2, <1>3, <1>4, <1>5, <1>6

\* drain() keeps the types.
LEMMA DrainTyped == PortTypes /\ (Drain \/ DrainStep) => PortTypes'
<1> SUFFICES ASSUME PortTypes, Drain \/ DrainStep PROVE PortTypes'
  OBVIOUS
<1> USE DEF wrapperVars, iteratorVars, historyVars
<1>1. CASE Drain
  BY <1>1 DEF PortTypes, Drain
<1>2. CASE AbortStreams
  <2>1. abort' \in [Streams -> {"none", "cleanup", "completion", "failed", "ok"}]
    BY <1>2 DEF PortTypes, AbortStreams
  <2>2. deadline' \in [Streams -> {"none", "future", "past"}]
    BY <1>2 DEF PortTypes, AbortStreams
  <2>3. aborted' \in [Streams -> BOOLEAN] /\ cancelled' \in [Streams -> BOOLEAN]
    BY <1>2 DEF PortTypes, AbortStreams
  <2>4. finished' \in [Streams -> BOOLEAN] /\ settled' \in [Streams -> BOOLEAN]
    BY <1>2 DEF PortTypes, AbortStreams
  <2>5. returning' \in [Streams -> BOOLEAN]
    BY <1>2 DEF PortTypes, AbortStreams
  <2>6. cleanup' \in [Streams -> CleanupStates]
    BY <1>2 DEF PortTypes, CleanupStates, AbortStreams
  <2> QED
    BY <1>2, <2>1, <2>2, <2>3, <2>4, <2>5, <2>6 DEF PortTypes, AbortStreams
<1>3. CASE DrainSettles
  BY <1>3 DEF PortTypes, DrainSettles
<1>4. ASSUME NEW s \in Streams, StreamCompleted(s) PROVE PortTypes'
  BY <1>4 DEF PortTypes, StreamCompleted, Set
<1> QED
  BY <1>1, <1>2, <1>3, <1>4 DEF DrainStep

-----------------------------------------------------------------------------
(* The streams, one at a time.                                             *)

\* A step of stream s leaves every other stream alone.
Frame(s) ==
    \A t \in Streams \ {s} :
        /\ invocation'[t] = invocation[t] /\ op'[t] = op[t]
        /\ finished'[t] = finished[t] /\ settled'[t] = settled[t]
        /\ cleanup'[t] = cleanup[t] /\ cleanupDone'[t] = cleanupDone[t]
        /\ returning'[t] = returning[t] /\ continuing'[t] = continuing[t]
        /\ done'[t] = done[t] /\ broken'[t] = broken[t]
        /\ answered'[t] = answered[t] /\ late'[t] = late[t]

\* The cleanup asks for a return only when none of the consumer's is under way,
\* and for a second one only while the answer to the first is not taken up.
AskedOnce(s) ==
    cleanup[s] # "return" /\ cleanup'[s] = "return" /\ ~broken[s]
        => /\ \A o \in Ops : op[s][o] # "return"
           /\ answered[s] => \E o \in Ops : op[s][o] = "more"

StepKeeps(s) == Frame(s) /\ StreamInv(s)' /\ AskedOnce(s)

\* startIteratorCleanup joins the cleanup, or ends, or starts where it must.
LEMMA StartCleanupEffect ==
    ASSUME PortTypes, NEW s \in Streams, StartCleanup(s)
    PROVE  /\ \A t \in Streams \ {s} :
                  /\ finished'[t] = finished[t] /\ settled'[t] = settled[t]
                  /\ cleanup'[t] = cleanup[t] /\ returning'[t] = returning[t]
           /\ \/ /\ cleanup[s] # "none"
                 /\ UNCHANGED <<finished, settled, cleanup, returning>>
              \/ /\ cleanup[s] = "none" /\ cleanupDone[s] /\ finished'[s]
                 /\ UNCHANGED <<settled, cleanup, returning>>
              \/ /\ cleanup[s] = "none" /\ finished'[s] /\ ~settled'[s]
                 /\ returning[s] => returning'[s]
                 /\ \/ cleanup'[s] \in {"awaitReturn", "awaitIdle"}
                    \/ cleanup'[s] = "finish" /\ done[s]
                    \/ cleanup'[s] = "return" /\ ~returning[s] /\ ~done[s] /\ ~continuing[s]
<1>1. CASE cleanup[s] # "none"
  BY <1>1 DEF StartCleanup
<1>2. CASE cleanup[s] = "none" /\ cleanupDone[s]
  BY <1>2 DEF StartCleanup, Set, PortTypes
<1>3. CASE cleanup[s] = "none" /\ ~cleanupDone[s] /\ returning[s]
  BY <1>3 DEF StartCleanup, Set, PortTypes
<1>4. CASE cleanup[s] = "none" /\ ~cleanupDone[s] /\ ~returning[s]
  <2>1. EnterDrain(s) /\ Set(finished, s, TRUE) /\ Set(settled, s, FALSE)
    BY <1>4 DEF StartCleanup
  <2>2. /\ finished'[s] /\ ~settled'[s]
        /\ \A t \in Streams \ {s} : finished'[t] = finished[t] /\ settled'[t] = settled[t]
    BY <2>1 DEF Set, PortTypes
  <2>3. /\ \A t \in Streams \ {s} : cleanup'[t] = cleanup[t] /\ returning'[t] = returning[t]
        /\ \/ cleanup'[s] = "awaitIdle"
           \/ cleanup'[s] = "finish" /\ done[s]
           \/ cleanup'[s] = "return" /\ ~done[s] /\ ~continuing[s]
    BY <2>1 DEF EnterDrain, Set, PortTypes
  <2> QED
    BY <1>4, <2>2, <2>3
<1> QED
  BY <1>1, <1>2, <1>3, <1>4

\* The lease is completed only once the stream has finished and settled and no
\* call of the consumer is left.
LEMMA CompleteEffect ==
    ASSUME PortTypes, NEW s \in Streams, CompleteIfSafe(s)
    PROVE  /\ \A t \in Streams \ {s} : invocation'[t] = invocation[t]
           /\ \/ invocation'[s] = invocation[s]
              \/ /\ invocation'[s] = "completed" /\ finished'[s] /\ settled'[s]
                 /\ \A o \in Ops : op'[s][o] = "idle"
BY DEF PortTypes, CompleteIfSafe

\* The end of a cleanup finds the iterator at its end, or broken.
LEMMA EndCleanupKeeps ==
    ASSUME PortTypes, NEW s \in Streams, NEW ok \in BOOLEAN, StreamInv(s), EndCleanup(s, ok),
           cleanup[s] # "none", done'[s] \/ broken'[s],
           done[s] => done'[s], broken[s] => broken'[s],
           \A t \in Streams \ {s} : /\ returning'[t] = returning[t]
                                   /\ continuing'[t] = continuing[t]
                                   /\ done'[t] = done[t] /\ broken'[t] = broken[t]
    PROVE  StepKeeps(s)
<1>1. /\ cleanup'[s] = "none" /\ cleanupDone'[s] /\ settled'[s]
      /\ \A t \in Streams \ {s} : /\ cleanup'[t] = cleanup[t] /\ settled'[t] = settled[t]
                                  /\ cleanupDone'[t] = cleanupDone[t]
  BY DEF EndCleanup, Set, PortTypes
<1>2. UNCHANGED <<op, finished, answered, late>> /\ CompleteIfSafe(s)
  BY DEF EndCleanup, historyVars
<1>3. Frame(s) /\ AskedOnce(s)
  BY <1>1, <1>2, CompleteEffect DEF Frame, AskedOnce
<1>4. StreamInv(s)'
  <2>1. invocation[s] \in {"streaming", "completed"}
    BY DEF StreamInv
  <2>2. invocation'[s] \in {"streaming", "completed"}
    BY <1>2, <2>1, CompleteEffect
  <2>3. invocation'[s] = "completed" => invocation[s] = "completed"
            \/ \A o \in Ops : op'[s][o] = "idle"
    BY <1>2, <2>1, CompleteEffect
  <2>4. late'[s] => invocation'[s] = "completed"
    BY <1>2, <2>1, CompleteEffect DEF StreamInv
  <2> QED
    BY <1>1, <1>2, <2>2, <2>3, <2>4 DEF StreamInv
<1> QED
  BY <1>3, <1>4 DEF StepKeeps

\* Every step of the iterator cleanup keeps the stream's invariant.
LEMMA CleanupKeeps ==
    ASSUME PortTypes, NEW s \in Streams, StreamInv(s),
           \/ CleanupStep(s)
           \/ \E result \in {"done", "more", "error"} : CleanupReturns(s, result)
           \/ \E result \in Results : CleanupNext(s, result)
    PROVE  StepKeeps(s)
<1> USE DEF wrapperVars, drainVars, historyVars
<1>1. CASE ReturnAwaited(s)
  <2>1. /\ UNCHANGED <<invocation, op, finished, settled, cleanupDone, continuing, done,
                       broken, answered, late>>
        /\ cleanup[s] = "awaitReturn" /\ \A o \in Ops : op[s][o] # "return"
    BY <1>1 DEF ReturnAwaited, InFlight
  <2>2. /\ \A t \in Streams \ {s} : cleanup'[t] = cleanup[t] /\ returning'[t] = returning[t]
        /\ \/ cleanup'[s] \in {"awaitIdle", "return"}
           \/ cleanup'[s] = "finish" /\ done[s]
        /\ cleanup'[s] = "return" => ~done[s] /\ ~continuing[s]
    BY <1>1 DEF ReturnAwaited, EnterDrain, Set, PortTypes
  <2> QED
    BY <2>1, <2>2 DEF StepKeeps, Frame, AskedOnce, StreamInv
<1>2. CASE IdleAwaited(s) \/ CleanupLoops(s)
  <2>1. /\ UNCHANGED <<invocation, op, finished, settled, cleanupDone, returning, continuing,
                       done, broken, answered, late>>
        /\ cleanup[s] \in {"awaitIdle", "loop"}
        /\ \A t \in Streams \ {s} : cleanup'[t] = cleanup[t]
        /\ \/ cleanup'[s] \in {"loop", "next"}
           \/ cleanup'[s] = "finish" /\ done[s]
    BY <1>2 DEF IdleAwaited, CleanupLoops, Set, PortTypes
  <2> QED
    BY <2>1 DEF StepKeeps, Frame, AskedOnce, StreamInv
<1>3. CASE CleanupFinishes(s)
  <2>1. done[s] /\ cleanup[s] # "none" /\ UNCHANGED <<returning, continuing, done, broken>>
    BY <1>3 DEF CleanupFinishes, StreamInv
  <2> QED
    BY <1>3, <2>1, EndCleanupKeeps DEF CleanupFinishes
<1>4. CASE DeadlineExceeded(s)
  <2>1. /\ UNCHANGED <<invocation, op, finished, settled, cleanupDone, returning, continuing,
                       done, broken, answered, late>>
        /\ cleanup'[s] = "none" /\ \A t \in Streams \ {s} : cleanup'[t] = cleanup[t]
    BY <1>4 DEF DeadlineExceeded, Set, PortTypes
  <2> QED
    BY <2>1 DEF StepKeeps, Frame, AskedOnce, StreamInv
<1>5. ASSUME NEW result \in {"done", "more", "error"}, CleanupReturns(s, result)
      PROVE  StepKeeps(s)
  <2>1. /\ ~returning'[s] /\ cleanup[s] = "return"
        /\ \A t \in Streams \ {s} : returning'[t] = returning[t]
    BY <1>5 DEF CleanupReturns, Set, PortTypes
  <2>2. CASE result = "done"
    <3>1. /\ cleanup'[s] = "finish" /\ done'[s]
          /\ \A t \in Streams \ {s} : /\ cleanup'[t] = cleanup[t] /\ done'[t] = done[t]
                                      /\ continuing'[t] = continuing[t]
          /\ UNCHANGED <<invocation, op, finished, settled, cleanupDone, broken, answered,
                         late>>
      BY <1>5, <2>2 DEF CleanupReturns, Set, PortTypes
    <3> QED
      BY <2>1, <3>1 DEF StepKeeps, Frame, AskedOnce, StreamInv
  <2>3. CASE result = "more"
    <3>1. /\ cleanup'[s] = "awaitIdle" /\ continuing'[s]
          /\ \A t \in Streams \ {s} : /\ cleanup'[t] = cleanup[t]
                                      /\ continuing'[t] = continuing[t]
                                      /\ answered'[t] = answered[t]
          /\ UNCHANGED <<invocation, op, finished, settled, cleanupDone, done, broken,
                         late>>
      BY <1>5, <2>3 DEF CleanupReturns, Set, PortTypes
    <3> QED
      BY <2>1, <3>1 DEF StepKeeps, Frame, AskedOnce, StreamInv
  <2>4. CASE result = "error"
    <3>1. /\ broken'[s] /\ \A t \in Streams \ {s} : broken'[t] = broken[t]
          /\ EndCleanup(s, FALSE) /\ UNCHANGED <<continuing, done>>
      BY <1>5, <2>4 DEF CleanupReturns, Set, PortTypes
    <3> QED
      BY <2>1, <3>1, EndCleanupKeeps
  <2> QED
    BY <1>5, <2>2, <2>3, <2>4
<1>6. ASSUME NEW result \in Results, CleanupNext(s, result) PROVE StepKeeps(s)
  <2>1. CASE result = "error"
    <3>1. /\ broken'[s] /\ \A t \in Streams \ {s} : broken'[t] = broken[t]
          /\ EndCleanup(s, FALSE) /\ UNCHANGED <<returning, continuing, done>>
          /\ cleanup[s] = "next"
      BY <1>6, <2>1 DEF CleanupNext, Set, PortTypes
    <3> QED
      BY <3>1, EndCleanupKeeps
  <2>2. CASE result # "error"
    <3>1. /\ cleanup[s] = "next" /\ cleanup'[s] = "loop"
          /\ done[s] => done'[s]
          /\ continuing[s] => continuing'[s] \/ done'[s]
          /\ \A t \in Streams \ {s} : /\ cleanup'[t] = cleanup[t] /\ done'[t] = done[t]
                                      /\ continuing'[t] = continuing[t]
          /\ UNCHANGED <<invocation, op, finished, settled, cleanupDone, returning, broken,
                         answered, late>>
      BY <1>6, <2>2 DEF CleanupNext, Set, PortTypes
    <3> QED
      BY <3>1 DEF StepKeeps, Frame, AskedOnce, StreamInv
  <2> QED
    BY <2>1, <2>2
<1> QED
  BY <1>1, <1>2, <1>3, <1>4, <1>5, <1>6 DEF CleanupStep

\* A call of the consumer that goes on leaves the others where they are.
LEMMA SetOpEffect ==
    ASSUME PortTypes, NEW s \in Streams, NEW o \in Ops, NEW v, SetOp(s, o, v)
    PROVE  /\ \A t \in Streams \ {s} : op'[t] = op[t]
           /\ \A p \in Ops \ {o} : op'[s][p] = op[s][p]
           /\ op'[s][o] = v
BY DEF PortTypes, SetOp

\* A call that fails starts the cleanup, or joins it.
LEMMA CloseKeeps ==
    ASSUME PortTypes, NEW s \in Streams, NEW o \in Ops, StreamInv(s), CloseAfterError(s, o),
           op[s][o] \in {"next", "validate"},
           UNCHANGED <<continuing, done, broken, answered, late>>
    PROVE  StepKeeps(s)
<1>1. /\ \A p \in Ops : op'[s][p] # op[s][p] => p = o /\ op'[s][p] = "closing"
      /\ \A t \in Streams \ {s} : op'[t] = op[t]
      /\ invocation[s] = "streaming" /\ ~late[s]
      /\ UNCHANGED <<invocation, cleanupDone>> /\ StartCleanup(s)
  <2>1. invocation[s] = "streaming" /\ ~late[s]
    BY DEF StreamInv
  <2>2. SetOp(s, o, "closing") /\ UNCHANGED <<invocation, cleanupDone>> /\ StartCleanup(s)
    BY DEF CloseAfterError
  <2> QED
    BY <2>1, <2>2, SetOpEffect
<1>2. StreamInv(s)' /\ Frame(s)
  BY <1>1, StartCleanupEffect DEF Frame, StreamInv
<1>3. AskedOnce(s)
  BY <1>1, StartCleanupEffect DEF AskedOnce, StreamInv
<1> QED
  BY <1>2, <1>3 DEF StepKeeps

\* A call that has settled becomes idle, and may complete the lease.
LEMMA IdleKeeps ==
    ASSUME PortTypes, NEW s \in Streams, NEW o \in Ops, StreamInv(s), SetOp(s, o, "idle"),
           op[s][o] # "idle", CompleteIfSafe(s),
           UNCHANGED <<settled, cleanup, cleanupDone, answered, late>>,
           \A t \in Streams \ {s} : /\ finished'[t] = finished[t]
                                   /\ returning'[t] = returning[t]
                                   /\ continuing'[t] = continuing[t]
                                   /\ done'[t] = done[t] /\ broken'[t] = broken[t],
           done[s] => done'[s], broken[s] => broken'[s],
           finished[s] => finished'[s],
           finished'[s] => finished[s] \/ done'[s] \/ broken'[s],
           op[s][o] = "more" => continuing'[s] \/ done'[s] \/ broken'[s],
           \/ UNCHANGED <<returning, continuing>>
           \/ continuing'[s] \/ done'[s] \/ broken'[s]
    PROVE  StepKeeps(s)
<1>1. /\ \A p \in Ops : op'[s][p] # op[s][p] => p = o /\ op'[s][p] = "idle"
      /\ \A t \in Streams \ {s} : op'[t] = op[t]
      /\ invocation[s] = "streaming" /\ ~late[s]
  <2>1. invocation[s] = "streaming" /\ ~late[s]
    BY DEF StreamInv
  <2> QED
    BY <2>1, SetOpEffect
<1>2. Frame(s) /\ AskedOnce(s)
  BY <1>1, CompleteEffect DEF Frame, AskedOnce
<1>3. StreamInv(s)'
  BY <1>1, CompleteEffect DEF StreamInv
<1> QED
  BY <1>2, <1>3 DEF StepKeeps

\* Every step of a consumer's call keeps the stream's invariant.
LEMMA CallKeeps ==
    ASSUME PortTypes, NEW s \in Streams, NEW o \in Ops, StreamInv(s),
           \/ \E ok \in BOOLEAN : Validated(s, o, ok)
           \/ ClosingEnds(s, o) \/ ReturnContinues(s, o)
           \/ \E result \in Results : NextSettles(s, o, result)
           \/ \E result \in {"done", "more", "error"} : ReturnSettles(s, o, result)
    PROVE  StepKeeps(s)
<1> USE DEF iteratorVars, historyVars
<1>1. ASSUME NEW ok \in BOOLEAN, Validated(s, o, ok) PROVE StepKeeps(s)
  <2>1. CASE ok
    BY <1>1, <2>1, IdleKeeps DEF Validated
  <2>2. CASE ~ok
    BY <1>1, <2>2, CloseKeeps DEF Validated
  <2> QED
    BY <2>1, <2>2
<1>2. CASE ClosingEnds(s, o)
  BY <1>2, IdleKeeps DEF ClosingEnds
<1>3. ASSUME NEW result \in Results, NextSettles(s, o, result) PROVE StepKeeps(s)
  <2>1. CASE result = "item"
    <3>1. SetOp(s, o, "validate") /\ op[s][o] = "next"
      BY <1>3, <2>1 DEF NextSettles
    <3>2. /\ \A p \in Ops : op'[s][p] # op[s][p] => p = o /\ op'[s][p] = "validate"
          /\ \A t \in Streams \ {s} : op'[t] = op[t]
      BY <3>1, SetOpEffect
    <3>3. /\ invocation[s] = "streaming"
          /\ UNCHANGED <<invocation, finished, settled, cleanup, cleanupDone, returning,
                         continuing, done, broken, answered, late>>
      BY <1>3, <2>1 DEF NextSettles, StreamInv
    <3> QED
      BY <3>1, <3>2, <3>3 DEF StepKeeps, Frame, AskedOnce, StreamInv
  <2>2. CASE result = "done"
    <3>1. /\ done'[s] /\ finished'[s]
          /\ \A t \in Streams \ {s} : /\ finished'[t] = finished[t] /\ done'[t] = done[t]
                                      /\ continuing'[t] = continuing[t]
          /\ SetOp(s, o, "idle") /\ CompleteIfSafe(s) /\ op[s][o] = "next"
          /\ UNCHANGED <<settled, cleanup, cleanupDone, returning, broken, answered, late>>
      BY <1>3, <2>2 DEF NextSettles, Set, PortTypes
    <3> QED
      BY <3>1, IdleKeeps
  <2>3. CASE result = "error" /\ finished[s]
    BY <1>3, <2>3, IdleKeeps DEF NextSettles
  <2>4. CASE result = "error" /\ ~finished[s]
    BY <1>3, <2>4, CloseKeeps DEF NextSettles
  <2> QED
    BY <2>1, <2>2, <2>3, <2>4 DEF Results
<1>4. ASSUME NEW result \in {"done", "more", "error"}, ReturnSettles(s, o, result)
      PROVE  StepKeeps(s)
  <2>1. /\ \A p \in Ops : op'[s][p] = op[s][p] \/ p = o
        /\ op'[s][o] = result
        /\ \A t \in Streams \ {s} : op'[t] = op[t]
        /\ UNCHANGED <<invocation, finished, settled, cleanup, cleanupDone, returning, late>>
        /\ invocation[s] = "streaming"
    BY <1>4, SetOpEffect DEF ReturnSettles, StreamInv
  <2>2. \A t \in Streams \ {s} :
            /\ continuing'[t] = continuing[t] /\ done'[t] = done[t]
            /\ broken'[t] = broken[t] /\ answered'[t] = answered[t]
    BY <1>4 DEF ReturnSettles, Set, PortTypes
  <2>3. /\ done'[s] <=> done[s] \/ result = "done"
        /\ broken'[s] <=> broken[s] \/ result = "error"
    <3>1. /\ done'[s] = (done[s] \/ result = "done")
          /\ broken'[s] = (broken[s] \/ result = "error")
      BY <1>4 DEF ReturnSettles, Set, PortTypes
    <3> QED
      BY <3>1
  <2>4. /\ continuing'[s] <=> continuing[s] /\ result # "done"
        /\ answered'[s] <=> answered[s] \/ result = "more"
    <3>1. /\ continuing'[s] = (continuing[s] /\ result # "done")
          /\ answered'[s] = (answered[s] \/ result = "more")
      BY <1>4 DEF ReturnSettles, Set, PortTypes
    <3> QED
      BY <3>1
  <2>5. Frame(s) /\ AskedOnce(s)
    BY <2>1, <2>2 DEF Frame, AskedOnce
  <2>6. StreamInv(s)'
    <3>1. \A p \in Ops :
              /\ op'[s][p] = "return" =>
                     returning'[s] \/ continuing'[s] \/ done'[s] \/ broken'[s]
              /\ op'[s][p] = "done" => done'[s]
              /\ op'[s][p] = "error" => broken'[s]
      BY <2>1, <2>3, <2>4 DEF StreamInv
    <3>2. answered'[s] => continuing'[s] \/ done'[s] \/ broken'[s]
                              \/ \E p \in Ops : op'[s][p] = "more"
      <4>1. CASE result = "more"
        BY <2>1, <4>1
      <4>2. CASE result # "more"
        <5>1. op[s][o] = "return"
          BY <1>4 DEF ReturnSettles
        <5>2. \A p \in Ops : op[s][p] = "more" => op'[s][p] = "more"
          BY <2>1, <5>1
        <5> QED
          BY <2>3, <2>4, <4>2, <5>2 DEF StreamInv
      <4> QED
        BY <4>1, <4>2
    <3> QED
      BY <2>1, <2>3, <3>1, <3>2 DEF StreamInv
  <2> QED
    BY <2>5, <2>6 DEF StepKeeps
<1>5. CASE ReturnContinues(s, o)
  <2>1. /\ SetOp(s, o, "idle") /\ CompleteIfSafe(s) /\ op[s][o] \in {"more", "done", "error"}
        /\ UNCHANGED <<settled, cleanup, cleanupDone, done, broken, answered, late>>
    BY <1>5 DEF ReturnContinues
  <2>2. \A t \in Streams \ {s} :
            /\ finished'[t] = finished[t] /\ returning'[t] = returning[t]
            /\ continuing'[t] = continuing[t]
    BY <1>5 DEF ReturnContinues, Set, PortTypes
  <2>3. finished'[s] <=> finished[s] \/ op[s][o] # "more"
    <3>1. finished'[s] = (finished[s] \/ op[s][o] # "more")
      BY <1>5 DEF ReturnContinues, Set, PortTypes
    <3> QED
      BY <3>1
  <2>4. op[s][o] = "more" => continuing'[s]
    BY <1>5 DEF ReturnContinues, Set, PortTypes
  <2>5. (op[s][o] = "done" => done[s]) /\ (op[s][o] = "error" => broken[s])
    BY DEF StreamInv
  <2> QED
    BY <2>1, <2>2, <2>3, <2>4, <2>5, IdleKeeps
<1> QED
  BY <1>1, <1>2, <1>3, <1>4, <1>5

\* What the consumer, the handler and the lease do keeps the stream's invariant.
LEMMA StreamKeeps ==
    ASSUME PortTypes, NEW s \in Streams, StreamInv(s),
           InvocationNext(s) \/ Consumer(s) \/ DeadlinePasses(s) \/ AbortLease(s)
    PROVE  StepKeeps(s)
<1> USE DEF wrapperVars, iteratorVars, drainVars, historyVars
<1>1. CASE Invoke(s) \/ EndInvocation(s)
  <2>1. /\ invocation[s] \in {"none", "handling"} /\ invocation'[s] \in {"handling", "completed"}
        /\ \A t \in Streams \ {s} : invocation'[t] = invocation[t]
        /\ UNCHANGED <<op, finished, settled, cleanup, cleanupDone, returning, continuing,
                       done, broken, answered, late>>
    BY <1>1 DEF Invoke, EndInvocation, Set, PortTypes
  <2> QED
    BY <2>1 DEF StepKeeps, Frame, AskedOnce, StreamInv
<1>2. ASSUME UNCHANGED <<op, cleanupDone, continuing, done, broken, answered>>,
             \A t \in Streams \ {s} :
                 invocation'[t] = invocation[t] /\ late'[t] = late[t],
             StartCleanup(s) \/ UNCHANGED <<finished, settled, cleanup, returning>>,
             \/ invocation'[s] = "streaming" /\ ~late'[s]
             \/ /\ UNCHANGED invocation
                /\ invocation[s] = "completed" /\ late'[s] /\ finished[s],
             invocation[s] \in {"streaming", "completed"} \/ ~finished[s]
      PROVE  StepKeeps(s)
  <2>1. CASE StartCleanup(s)
    <3>1. StreamInv(s)' /\ Frame(s)
      BY <1>2, <2>1, StartCleanupEffect DEF Frame, StreamInv
    <3>2. AskedOnce(s)
      BY <1>2, <2>1, StartCleanupEffect DEF AskedOnce, StreamInv
    <3> QED
      BY <3>1, <3>2 DEF StepKeeps
  <2>2. CASE UNCHANGED <<finished, settled, cleanup, returning>>
    BY <1>2, <2>2 DEF StepKeeps, Frame, AskedOnce, StreamInv
  <2> QED
    BY <1>2, <2>1, <2>2
<1>3. CASE BeginStream(s)
  <2>1. /\ invocation'[s] = "streaming" /\ ~finished[s] /\ ~late[s]
        /\ \A t \in Streams \ {s} : invocation'[t] = invocation[t]
    BY <1>3 DEF BeginStream, Set, PortTypes, StreamInv
  <2> QED
    BY <1>2, <1>3, <2>1 DEF BeginStream, CancelStream
<1>4. CASE Cancel(s)
  <2>1. /\ invocation[s] = "streaming" \/ (finished[s] /\ invocation[s] = "completed")
        /\ StartCleanup(s)
        /\ UNCHANGED <<invocation, op, cleanupDone, continuing, done, broken, answered>>
    <3>1. finished[s] => invocation[s] \in {"streaming", "completed"}
      BY DEF StreamInv, PortTypes
    <3>2. ~cancelled[s] /\ CancelStream(s) /\ (invocation[s] = "streaming" \/ finished[s])
      BY <1>4 DEF Cancel
    <3>3. UNCHANGED <<invocation, op, cleanupDone, continuing, done, broken, answered>>
      BY <1>4 DEF Cancel
    <3>4. StartCleanup(s)
      BY <3>2 DEF CancelStream
    <3> QED
      BY <3>1, <3>2, <3>3, <3>4
  <2>2. /\ \A t \in Streams \ {s} : late'[t] = late[t]
        /\ late'[s] <=> invocation[s] = "completed"
    <3>1. late'[s] = (invocation[s] = "completed")
      BY <1>4 DEF Cancel, Set, PortTypes
    <3> QED
      BY <1>4, <3>1 DEF Cancel, Set, PortTypes
  <2> QED
    BY <1>2, <2>1, <2>2
<1>5. ASSUME NEW o \in Ops, CallNext(s, o) \/ CallReturn(s, o) PROVE StepKeeps(s)
  <2>1. /\ invocation[s] = "streaming"
        /\ UNCHANGED <<invocation, finished, settled, cleanup, cleanupDone, continuing, done,
                       broken, answered, late>>
        /\ \A t \in Streams \ {s} : op'[t] = op[t] /\ returning'[t] = returning[t]
    BY <1>5 DEF CallNext, CallReturn, Open, SetOp, Set, PortTypes
  <2>2. CASE CallNext(s, o)
    <3>1. SetOp(s, o, "next") /\ op[s][o] = "idle" /\ returning'[s] = returning[s]
      BY <2>2 DEF CallNext
    <3>2. \A p \in Ops : op'[s][p] # op[s][p] => p = o /\ op'[s][p] = "next"
      BY <3>1, SetOpEffect
    <3> QED
      BY <2>1, <3>1, <3>2 DEF StepKeeps, Frame, AskedOnce, StreamInv
  <2>3. CASE CallReturn(s, o)
    <3>1. SetOp(s, o, "return") /\ op[s][o] = "idle"
      BY <2>3 DEF CallReturn
    <3>2. \A p \in Ops : op'[s][p] # op[s][p] => p = o /\ op'[s][p] = "return"
      BY <3>1, SetOpEffect
    <3>3. returning'[s]
      BY <2>3 DEF CallReturn, Set, PortTypes
    <3> QED
      BY <2>1, <3>1, <3>2, <3>3 DEF StepKeeps, Frame, AskedOnce, StreamInv
  <2> QED
    BY <1>5, <2>2, <2>3
<1>6. CASE DeadlinePasses(s)
  BY <1>6 DEF DeadlinePasses, StepKeeps, Frame, AskedOnce, StreamInv
<1>7. CASE AbortLease(s)
  <2>1. CASE CancelStream(s) /\ invocation[s] = "streaming"
    BY <1>2, <1>7, <2>1 DEF AbortLease, CancelStream, StreamInv
  <2>2. CASE UNCHANGED <<finished, settled, cancelled, cleanup, returning>>
    BY <1>7, <2>2 DEF AbortLease, StepKeeps, Frame, AskedOnce, StreamInv
  <2> QED
    BY <1>7, <2>1, <2>2 DEF AbortLease
<1> QED
  BY <1>1, <1>3, <1>4, <1>5, <1>6, <1>7 DEF InvocationNext, Consumer

-----------------------------------------------------------------------------
(* The streams and the drain together.                                     *)

\* What a stream's own step does to the drain's view: an invocation begins only
\* while the gate accepts, and an abort under way ends at most.
LocalShape ==
    /\ UNCHANGED <<gate, drain>>
    /\ \A t \in Streams :
           /\ \/ abort'[t] = abort[t]
              \/ abort[t] = "cleanup" /\ abort'[t] \in {"completion", "failed"}
           /\ \/ invocation'[t] = invocation[t]
              \/ invocation[t] = "none" /\ invocation'[t] = "handling" /\ gate
              \/ invocation[t] = "handling" /\ invocation'[t] = "streaming"
              \/ /\ invocation[t] \in {"handling", "streaming"}
                 /\ invocation'[t] = "completed"

LocalStep(s) ==
    \/ InvocationNext(s) \/ Consumer(s) \/ CallStep(s) \/ IteratorAnswers(s)
    \/ CleanupStep(s) \/ DeadlinePasses(s) \/ AbortLease(s)

\* Ending a cleanup has that shape.
LEMMA EndCleanupShape ==
    ASSUME PortTypes, NEW s \in Streams, NEW ok \in BOOLEAN, EndCleanup(s, ok),
           invocation[s] \in {"streaming", "completed"}
    PROVE  LocalShape
<1>1. \A t \in Streams : \/ abort'[t] = abort[t]
                         \/ abort[t] = "cleanup" /\ abort'[t] \in {"completion", "failed"}
  BY DEF EndCleanup, PortTypes
<1> QED
  BY <1>1, CompleteEffect DEF EndCleanup, LocalShape

\* Every step of a stream has that shape.
LEMMA LocalSteps ==
    ASSUME PortTypes, NEW s \in Streams, StreamInv(s), LocalStep(s)
    PROVE  LocalShape
<1> USE DEF wrapperVars, iteratorVars, drainVars, historyVars
<1>1. CASE InvocationNext(s)
  BY <1>1 DEF InvocationNext, Invoke, BeginStream, EndInvocation, Set, PortTypes, LocalShape
<1>2. CASE Consumer(s) \/ DeadlinePasses(s) \/ AbortLease(s)
  BY <1>2 DEF Consumer, Cancel, CallNext, CallReturn, DeadlinePasses, AbortLease, LocalShape
<1>3. CASE CallStep(s)
  <2>1. invocation[s] = "streaming"
    BY <1>3 DEF CallStep, Validated, ClosingEnds, ReturnContinues, StreamInv
  <2>2. UNCHANGED <<gate, drain, abort>> /\ (UNCHANGED invocation \/ CompleteIfSafe(s))
    BY <1>3 DEF CallStep, Validated, ClosingEnds, ReturnContinues, CloseAfterError
  <2> QED
    BY <2>1, <2>2, CompleteEffect DEF LocalShape
<1>4. cleanup[s] # "none" => invocation[s] \in {"streaming", "completed"}
  BY DEF StreamInv
<1>5. CASE CleanupStep(s)
  <2>1. CASE CleanupFinishes(s)
    BY <1>4, <2>1, EndCleanupShape DEF CleanupFinishes
  <2>2. CASE DeadlineExceeded(s)
    BY <2>2 DEF DeadlineExceeded, PortTypes, LocalShape
  <2>3. CASE ReturnAwaited(s) \/ IdleAwaited(s) \/ CleanupLoops(s)
    BY <2>3 DEF ReturnAwaited, IdleAwaited, CleanupLoops, LocalShape
  <2> QED
    BY <1>5, <2>1, <2>2, <2>3 DEF CleanupStep
<1>6. ASSUME NEW result \in {"done", "more", "error"}, CleanupReturns(s, result)
      PROVE  LocalShape
  <2>1. CASE result = "error"
    BY <1>4, <1>6, <2>1, EndCleanupShape DEF CleanupReturns
  <2>2. CASE result # "error"
    BY <1>6, <2>2 DEF CleanupReturns, LocalShape
  <2> QED
    BY <2>1, <2>2
<1>7. ASSUME NEW result \in Results, CleanupNext(s, result) PROVE LocalShape
  <2>1. CASE result = "error"
    BY <1>4, <1>7, <2>1, EndCleanupShape DEF CleanupNext
  <2>2. CASE result # "error"
    BY <1>7, <2>2 DEF CleanupNext, LocalShape
  <2> QED
    BY <2>1, <2>2
<1>8. ASSUME NEW o \in Ops,
             \/ \E result \in Results : NextSettles(s, o, result)
             \/ \E result \in {"done", "more", "error"} : ReturnSettles(s, o, result)
      PROVE  LocalShape
  <2>1. invocation[s] = "streaming"
    BY <1>8 DEF NextSettles, ReturnSettles, StreamInv
  <2>2. UNCHANGED <<gate, drain, abort>> /\ (UNCHANGED invocation \/ CompleteIfSafe(s))
    BY <1>8 DEF NextSettles, ReturnSettles, CloseAfterError, Results
  <2> QED
    BY <2>1, <2>2, CompleteEffect DEF LocalShape
<1> QED
  BY <1>1, <1>2, <1>3, <1>5, <1>6, <1>7, <1>8 DEF LocalStep, IteratorAnswers

\* Every step of a stream keeps the invariant.
LEMMA LocalInvariant ==
    ASSUME PortInv, NEW s \in Streams, LocalStep(s)
    PROVE  PortInv' /\ (\A t \in Streams : AskedOnce(t))
<1>1. PortTypes /\ StreamInv(s)
  BY DEF PortInv
<1>2. PortTypes'
  BY <1>1, CleanupTyped, StreamTyped, CallTyped DEF LocalStep, CallStep, IteratorAnswers
<1>3. StepKeeps(s)
  BY <1>1, CleanupKeeps, StreamKeeps, CallKeeps DEF LocalStep, CallStep, IteratorAnswers
<1>4. \A t \in Streams : StreamInv(t)'
  BY <1>3 DEF StepKeeps, Frame, PortInv, StreamInv
<1>5. \A t \in Streams : AskedOnce(t)
  BY <1>3 DEF StepKeeps, Frame, AskedOnce
<1>6. LocalShape
  BY <1>1, LocalSteps
<1>7. DrainInv'
  BY <1>6 DEF LocalShape, PortInv, DrainInv, PortTypes
<1> QED
  BY <1>2, <1>4, <1>5, <1>7 DEF PortInv

\* Aborting the streams starts or joins each one's cleanup.
LEMMA AbortInvariant ==
    ASSUME PortInv, AbortStreams
    PROVE  (\A s \in Streams : StreamInv(s)' /\ AskedOnce(s)) /\ DrainInv'
<1>1. ASSUME NEW s \in Streams
      PROVE  /\ finished'[s] <=> finished[s] \/ (s \in Active /\ cleanup[s] = "none")
             /\ settled'[s] <=> settled[s] /\ ~(/\ s \in Active /\ cleanup[s] = "none"
                                               /\ ~cleanupDone[s])
             /\ returning[s] => returning'[s]
  BY DEF AbortStreams, PortInv, PortTypes
<1>2. ASSUME NEW s \in Streams
      PROVE  \/ /\ ~(s \in Active /\ cleanup[s] = "none" /\ ~cleanupDone[s])
                /\ cleanup'[s] = cleanup[s]
             \/ /\ s \in Active /\ cleanup[s] = "none" /\ ~cleanupDone[s]
                /\ \/ cleanup'[s] \in {"awaitReturn", "awaitIdle"}
                   \/ cleanup'[s] = "finish" /\ done[s]
                   \/ cleanup'[s] = "return" /\ ~returning[s] /\ ~done[s] /\ ~continuing[s]
  <2> DEFINE opened  == s \in Active /\ cleanup[s] = "none" /\ ~cleanupDone[s]
             entered == opened /\ ~returning[s]
             asked   == entered /\ ~done[s] /\ ~continuing[s]
  <2>1. cleanup'[s] = CASE ~opened             -> cleanup[s]
                        [] opened /\ ~entered  -> "awaitReturn"
                        [] asked               -> "return"
                        [] entered /\ done[s]  -> "finish"
                        [] OTHER               -> "awaitIdle"
    BY <1>2 DEF AbortStreams
  <2> QED
    BY <2>1
<1>3. UNCHANGED <<invocation, op, cleanupDone, continuing, done, broken, answered, late>>
  BY DEF AbortStreams, historyVars
<1>4. ASSUME NEW s \in Streams PROVE StreamInv(s)'
  BY <1>1, <1>2, <1>3 DEF PortInv, StreamInv, Active
<1>5. ASSUME NEW s \in Streams PROVE AskedOnce(s)
  BY <1>2 DEF PortInv, StreamInv, AskedOnce
<1>6. DrainInv'
  <2>1. \A s \in Streams : s \in Active => abort'[s] \in {"cleanup", "completion"}
    BY DEF AbortStreams, Active
  <2>2. \A s \in Streams : invocation[s] # "handling"
    BY DEF AbortStreams, Handling
  <2>3. drain' = "streams" /\ drain = "ingress" /\ gate' = gate
    BY DEF AbortStreams
  <2> QED
    BY <1>3, <2>1, <2>2, <2>3 DEF PortInv, DrainInv, Active
<1> QED
  BY <1>4, <1>5, <1>6

\* Every step of the drain keeps the invariant.
LEMMA DrainInvariant ==
    ASSUME PortInv, Drain \/ DrainStep
    PROVE  PortInv' /\ (\A s \in Streams : AskedOnce(s))
<1> USE DEF wrapperVars, iteratorVars, historyVars
<1>1. PortTypes'
  BY DrainTyped DEF PortInv
<1>2. CASE AbortStreams
  BY <1>1, <1>2, AbortInvariant DEF PortInv
<1>3. CASE Drain \/ DrainSettles \/ \E s \in Streams : StreamCompleted(s)
  <2>1. UNCHANGED <<invocation, op, finished, settled, cleanup, cleanupDone, returning,
                    continuing, done, broken, answered, late>>
    BY <1>3 DEF Drain, DrainSettles, StreamCompleted
  <2>2. \A s \in Streams : StreamInv(s)' /\ AskedOnce(s)
    BY <2>1 DEF PortInv, StreamInv, AskedOnce
  <2>3. DrainInv'
    <3>1. CASE Drain
      BY <3>1 DEF Drain, PortInv, DrainInv
    <3>2. CASE DrainSettles
      BY <2>1, <3>2 DEF DrainSettles, PortInv, DrainInv
    <3>3. ASSUME NEW s \in Streams, StreamCompleted(s) PROVE DrainInv'
      BY <2>1, <3>3 DEF StreamCompleted, Set, PortInv, PortTypes, DrainInv
    <3> QED
      BY <1>3, <3>1, <3>2, <3>3
  <2> QED
    BY <1>1, <2>2, <2>3 DEF PortInv
<1> QED
  BY <1>2, <1>3 DEF DrainStep

\* Stuttering keeps the invariant.
LEMMA StutterInvariant ==
    ASSUME PortInv, UNCHANGED vars
    PROVE  PortInv' /\ (\A s \in Streams : AskedOnce(s))
<1> USE DEF vars, wrapperVars, iteratorVars, drainVars, historyVars
<1>1. PortTypes'
  BY DEF PortInv, PortTypes
<1>2. \A s \in Streams : StreamInv(s)' /\ AskedOnce(s)
  BY DEF PortInv, StreamInv, AskedOnce
<1>3. DrainInv'
  BY DEF PortInv, DrainInv
<1> QED
  BY <1>1, <1>2, <1>3 DEF PortInv

\* Every step keeps the invariant and asks an iterator to return at most once.
LEMMA StepInvariant == PortInv /\ [Next]_vars => PortInv' /\ (\A s \in Streams : AskedOnce(s))
BY LocalInvariant, DrainInvariant, StutterInvariant DEF Next, LocalStep

\* PortInv: what runs, runs for an open stream; what has finished has come to
\* its end; a drain past the handlers looks after every stream there is.
THEOREM PortInductive == Spec => []PortInv
<1>1. Init => PortInv
  <2> SUFFICES ASSUME Init PROVE PortInv
    OBVIOUS
  <2>1. PortTypes
    BY DEF Init, PortTypes, OpStates, CleanupStates
  <2>2. (\A s \in Streams : StreamInv(s)) /\ DrainInv
    BY DEF Init, StreamInv, DrainInv
  <2> QED
    BY <2>1, <2>2 DEF PortInv
<1> QED
  BY <1>1, StepInvariant, PTL DEF Spec

\* TypeOK: every variable of the extension keeps its type, and a cleanup under
\* way has closed its stream and holds the completion of the lease back.
THEOREM PortTypeCorrect == Spec => []TypeOK
<1>1. PortInv => TypeOK
  BY DEF PortInv, StreamInv, TypeOK
<1> QED
  BY <1>1, PortInductive, PTL

\* ReturnNotReentered: unless a return() has failed, the cleanup never calls
\* return() over one of the consumer that is under way, and repeats one that was
\* answered only in the gap before the answer is taken up, however many calls
\* overlap.
THEOREM ReturnIsNotReentered == Spec => ReturnNotReentered
<1>1. PortInv /\ [Next]_vars
          => [\A s \in Streams :
                 cleanup[s] # "return" /\ cleanup'[s] = "return" /\ ~broken[s]
                     => /\ \A o \in Ops : op[s][o] # "return"
                        /\ answered[s] => \E o \in Ops : op[s][o] = "more"]_vars
  BY StepInvariant DEF AskedOnce
<1> QED
  BY <1>1, PortInductive, PTL DEF Spec, ReturnNotReentered

-----------------------------------------------------------------------------
(* The extension implements ExecutionLeases.                               *)

LeaseOf(s) == IF invocation[s] \in {"none", "completed"} THEN invocation[s] ELSE "active"

\* Nothing of an execution runs unless its lease is active.
LEMMA IdleUnlessActive ==
    ASSUME PortInv, NEW s \in Streams, LeaseOf(s) # "active"
    PROVE  ~Busy(s)
BY DEF PortInv, StreamInv, LeaseOf, Busy

\* A step that neither begins nor completes an execution is work.
LEMMA WorkStep ==
    ASSUME PortInv, PortInv', UNCHANGED gate, (drain = "resolved") = (drain' = "resolved"),
           \A s \in Streams : LeaseOf(s)' = LeaseOf(s)
    PROVE  Leases!Work
<1>1. \A s \in Streams : Busy(s) \in BOOLEAN /\ Busy(s)' \in BOOLEAN
  BY DEF Busy
<1>2. ASSUME NEW s \in Streams, LeaseOf(s) # "active"
      PROVE  ~Busy(s) /\ ~Busy(s)'
  <2>1. PortInv /\ LeaseOf(s) # "active" => ~Busy(s)
    BY IdleUnlessActive
  <2>2. (PortInv /\ LeaseOf(s) # "active" => ~Busy(s))'
    BY IdleUnlessActive, PTL
  <2> QED
    BY <1>2, <2>1, <2>2
<1>3. [s \in Streams |-> Busy(s)]' \in [Streams -> BOOLEAN]
  BY <1>1
<1>4. \A s \in Streams :
          [t \in Streams |-> Busy(t)]'[s] # [t \in Streams |-> Busy(t)][s]
              => LeaseOf(s) = "active"
  BY <1>1, <1>2
<1>5. UNCHANGED [s \in Streams |-> LeaseOf(s)]
  OBVIOUS
<1> QED
  BY <1>3, <1>4, <1>5 DEF Leases!Work, LeaseOf

\* A step of a stream begins its execution, completes it, or is work.
LEMMA LocalImplements ==
    ASSUME PortInv, PortInv', NEW s \in Streams, LocalStep(s)
    PROVE  Leases!Next
<1>1. LocalShape
  BY LocalSteps DEF PortInv
<1>2. Frame(s)
  BY CleanupKeeps, StreamKeeps, CallKeeps
     DEF PortInv, LocalStep, CallStep, IteratorAnswers, StepKeeps
<1>3. \A t \in Streams \ {s} : LeaseOf(t)' = LeaseOf(t) /\ Busy(t)' = Busy(t)
  BY <1>2 DEF Frame, LeaseOf, Busy
<1>4. (LeaseOf(s) # "active" => ~Busy(s)) /\ (LeaseOf(s) # "active" => ~Busy(s))'
  <2>1. PortInv /\ LeaseOf(s) # "active" => ~Busy(s)
    BY IdleUnlessActive
  <2>2. (PortInv /\ LeaseOf(s) # "active" => ~Busy(s))'
    BY IdleUnlessActive, PTL
  <2> QED
    BY <2>1, <2>2
<1>5. Busy(s) \in BOOLEAN /\ Busy(s)' \in BOOLEAN
  BY DEF Busy
<1> DEFINE leases == [t \in Streams |-> LeaseOf(t)]
           busy   == [t \in Streams |-> Busy(t)]
<1>6. UNCHANGED <<gate, drain>>
  BY <1>1 DEF LocalShape
<1>7. CASE LeaseOf(s)' = LeaseOf(s)
  <2>1. \A t \in Streams : LeaseOf(t)' = LeaseOf(t)
    BY <1>3, <1>7
  <2> QED
    BY <1>6, <2>1, WorkStep DEF Leases!Next
<1>8. CASE invocation[s] = "none" /\ invocation'[s] = "handling" /\ gate
  <2>1. LeaseOf(s) = "none" /\ LeaseOf(s)' = "active" /\ ~Busy(s)
    BY <1>4, <1>8 DEF LeaseOf
  <2>2. leases' = [leases EXCEPT ![s] = "active"] /\ leases[s] = "none"
    BY <1>3, <2>1
  <2>3. busy' = [busy EXCEPT ![s] = Busy(s)']
    BY <1>3
  <2>4. busy' \in {busy, [busy EXCEPT ![s] = TRUE]}
    <3>1. CASE Busy(s)' = TRUE
      BY <2>3, <3>1
    <3>2. CASE Busy(s)' = FALSE
      <4>1. Busy(s)' = Busy(s)
        BY <1>5, <2>1, <3>2
      <4>2. busy' = busy
        BY <1>3, <4>1
      <4> QED
        BY <4>2
    <3> QED
      BY <1>5, <3>1, <3>2
  <2>5. Leases!Begin(s)
    BY <1>6, <1>8, <2>2, <2>4 DEF Leases!Begin, LeaseOf
  <2> QED
    BY <2>5 DEF Leases!Next
<1>9. CASE invocation[s] \in {"handling", "streaming"} /\ invocation'[s] = "completed"
  <2>1. LeaseOf(s) = "active" /\ LeaseOf(s)' = "completed" /\ ~Busy(s)'
    BY <1>4, <1>9 DEF LeaseOf
  <2>2. leases' = [leases EXCEPT ![s] = "completed"] /\ leases[s] = "active"
    BY <1>3, <2>1
  <2>3. Busy(s)' = FALSE
    BY <1>5, <2>1
  <2>4. busy' = [busy EXCEPT ![s] = FALSE]
    BY <1>3, <2>3
  <2>5. Leases!Complete(s)
    BY <1>6, <2>2, <2>4 DEF Leases!Complete, LeaseOf
  <2> QED
    BY <2>5 DEF Leases!Next
<1>10. invocation[s] = "handling" /\ invocation'[s] = "streaming" => LeaseOf(s)' = LeaseOf(s)
  BY DEF LeaseOf
<1>11. invocation'[s] = invocation[s] => LeaseOf(s)' = LeaseOf(s)
  BY DEF LeaseOf
<1> QED
  BY <1>1, <1>7, <1>8, <1>9, <1>10, <1>11 DEF LocalShape

\* drain() shuts the gate, resolves with no execution left, or is work.
LEMMA DrainImplements ==
    ASSUME PortInv, PortInv', Drain \/ DrainStep
    PROVE  Leases!Next
<1> USE DEF wrapperVars, iteratorVars, historyVars
<1>1. UNCHANGED invocation
  BY DEF Drain, DrainStep, AbortStreams, DrainSettles, StreamCompleted
<1>2. \A s \in Streams : LeaseOf(s)' = LeaseOf(s)
  BY <1>1 DEF LeaseOf
<1>3. ASSUME UNCHANGED <<op, finished, cleanup, done, broken, late>>
      PROVE  UNCHANGED [s \in Streams |-> Busy(s)] /\ UNCHANGED [s \in Streams |-> LeaseOf(s)]
  BY <1>2, <1>3 DEF Busy
<1>4. CASE Drain
  <2>1. Leases!StopAccepting
    BY <1>3, <1>4 DEF Drain, Leases!StopAccepting, LeaseOf
  <2> QED
    BY <2>1 DEF Leases!Next
<1>5. CASE DrainSettles /\ drain' = "resolved"
  <2>1. ~gate /\ \A s \in Streams : LeaseOf(s) # "active"
    BY <1>5 DEF DrainSettles, PortInv, PortTypes, DrainInv, LeaseOf
  <2>2. Leases!Drained
    BY <1>3, <1>5, <2>1 DEF DrainSettles, Leases!Drained, LeaseOf
  <2> QED
    BY <2>2 DEF Leases!Next
<1>6. CASE UNCHANGED gate /\ drain # "resolved" /\ drain' # "resolved"
  BY <1>2, <1>6, WorkStep DEF Leases!Next
<1>7. ASSUME NEW s \in Streams, StreamCompleted(s) PROVE Leases!Next
  <2>1. UNCHANGED <<gate, drain>>
    BY <1>7 DEF StreamCompleted
  <2> QED
    BY <1>2, <2>1, WorkStep DEF Leases!Next
<1>8. CASE AbortStreams
  BY <1>6, <1>8 DEF AbortStreams
<1>9. CASE DrainSettles
  BY <1>5, <1>6, <1>9 DEF DrainSettles
<1> QED
  BY <1>4, <1>7, <1>8, <1>9 DEF DrainStep

\* ImplementsLeases: an execution's lease outlives every call of its iterator, but
\* those of a cancel() that came after a failed return() had completed it; none
\* begins behind the gate, and a drain that resolves has left none behind.
THEOREM PortImplementsLeases == Spec => ImplementsLeases
<1>1. Init => Leases!Init
  BY DEF Init, Leases!Init, Busy
<1>2. PortInv /\ PortInv' /\ [Next]_vars => [Leases!Next]_Leases!vars
  <2>1. UNCHANGED vars => UNCHANGED Leases!vars
    BY DEF vars, wrapperVars, iteratorVars, drainVars, historyVars, Leases!vars, Busy
  <2> QED
    BY <2>1, LocalImplements, DrainImplements DEF Next, LocalStep
<1> QED
  BY <1>1, <1>2, PortInductive, PTL DEF Spec, ImplementsLeases, Leases!Spec

\* Safe, as ExecutionLeases states it: the consumer's calls and the cleanup of a
\* stream run only under an active lease, but for the cleanup of a cancel() that
\* came after a failed return() had completed the lease; and once a drain has
\* resolved no execution is left, nor may one begin.
THEOREM PortIsSafe == Spec => []Leases!Safe
<1>1. PortInv => Leases!Safe
  <2> SUFFICES ASSUME PortInv PROVE Leases!Safe
    OBVIOUS
  <2>1. \A s \in Streams : Busy(s) => LeaseOf(s) = "active"
    BY IdleUnlessActive
  <2>2. drain = "resolved" => ~gate /\ \A s \in Streams : LeaseOf(s) # "active"
    BY DEF PortInv, PortTypes, DrainInv, LeaseOf
  <2> QED
    BY <2>1, <2>2 DEF Leases!Safe, LeaseOf
<1> QED
  BY <1>1, PortInductive, PTL

=============================================================================
