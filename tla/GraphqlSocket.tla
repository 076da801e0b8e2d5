----------------------------- MODULE GraphqlSocket -----------------------------
(***************************************************************************)
(* One graphql-transport-ws session (graphql/src/websocket.ts): operations *)
(* that run concurrently under leases of their own, on ids a client may use*)
(* again, and the cleanup of the session.                                  *)
(*                                                                         *)
(* graphql-ws is external: it reserves the id of a subscribe message until *)
(* its task ends or a complete message gives it back, iterates what        *)
(* subscribe() returned, and reports the end by onComplete or onError.     *)
(*                                                                         *)
(* What it iterates maps the source (graphql/src/execution.ts): a next()   *)
(* pulls an event of the source and then runs the event's resolvers.       *)
(* Sources are taken to be async generators, whose return() is answered    *)
(* after the next() of the source under way; for the resolvers of an event *)
(* nobody waits once the operation is aborted.                             *)
(***************************************************************************)
EXTENDS Naturals

CONSTANTS
    MaxOperations,  \* bound: subscribe messages
    OperationIds    \* the ids a client uses

Operations  == 1 .. MaxOperations
NoOperation == 0

VARIABLES
    conn,            \* the connection: open, closing or closed (then its signal is aborted)
    init,            \* connection_init: none, running, ready or refused
    phase,           \* of the session: reading, settling, hooks, finishing or resolved
    sent,            \* subscribe messages dispatched
    idOf,            \* the id of each
    orderly,         \* the ids on which the client keeps to the order of its messages
    predecessor,     \* the task it waits for
    task,            \* where its task is
    operations,      \* the operation of an id
    operationTasks,  \* the last task of an id
    subscriptions,   \* ctx.subscriptions of graphql-ws: the operation that holds an id
    aborted,         \* operations whose controller is aborted
    iterator,        \* none, open, returning or closed
    delivery,        \* of an event of its source: none, resolving or sending
    lease            \* none, active or completed

sessionVars == <<conn, init, phase>>
messageVars == <<sent, idOf, orderly, predecessor>>
vars == <<sessionVars, messageVars, task, operations, operationTasks, subscriptions,
          aborted, iterator, delivery, lease>>

Init ==
    /\ conn = "open" /\ init = "none" /\ phase = "reading"
    /\ sent = 0
    /\ idOf \in [Operations -> OperationIds]   \* what the client is going to use
    /\ orderly \in SUBSET OperationIds          \* and how
    /\ predecessor = [o \in Operations |-> NoOperation]
    /\ task = [o \in Operations |-> "none"]
    /\ operations = [i \in OperationIds |-> NoOperation]
    /\ operationTasks = operations /\ subscriptions = operations
    /\ aborted = {}
    /\ iterator = [o \in Operations |-> "none"]
    /\ delivery = iterator
    /\ lease = [o \in Operations |-> "none"]

Known == {operations[i] : i \in OperationIds} \ {NoOperation}

\* Context, resolvers, the source or its return() are called on its behalf; all but
\* the resolvers of an event, once its subscription has ended under them.
Busy(o) == task[o] \in {"context", "running", "streaming"} \/ iterator[o] = "returning"

-----------------------------------------------------------------------------
(* The session                                                             *)

OperationsUnchanged ==
    UNCHANGED <<messageVars, task, operations, operationTasks, subscriptions, aborted,
                iterator, delivery, lease>>

\* The peer, an invalid message, a timer of graphql-ws or context.close().
Closing ==
    /\ conn = "open" /\ conn' = "closing"
    /\ UNCHANGED <<init, phase>> /\ OperationsUnchanged

\* The connection's signal is aborted: abortAll.  connectionInit is given up.
Closed ==
    /\ conn # "closed" /\ conn' = "closed"
    /\ aborted' = aborted \union Known
    /\ init' = IF init = "running" THEN "refused" ELSE init
    /\ UNCHANGED <<phase, messageVars, task, operations, operationTasks, subscriptions,
                   iterator, delivery, lease>>

\* onConnect: a second connection_init closes the connection.
ConnectionInit ==
    /\ phase = "reading"
    /\ IF init = "none"
       THEN init' = (IF conn = "closed" THEN "refused" ELSE "running") /\ UNCHANGED conn
       ELSE conn' = (IF conn = "open" THEN "closing" ELSE conn) /\ UNCHANGED init
    /\ UNCHANGED phase /\ OperationsUnchanged

InitEnds ==
    /\ init = "running"
    /\ \/ init' = "ready" /\ UNCHANGED conn
       \/ init' = "refused" /\ conn' = IF conn = "open" THEN "closing" ELSE conn
    /\ UNCHANGED phase /\ OperationsUnchanged

\* The input has ended: cleanupSession, which finds the connection closed.
InputEnds ==
    /\ phase = "reading" /\ conn = "closed"
    /\ phase' = "settling"
    /\ aborted' = aborted \union Known
    /\ UNCHANGED <<conn, init, messageVars, task, operations, operationTasks,
                   subscriptions, iterator, delivery, lease>>

\* All tasks have settled, and what graphql-ws and the cleanups wait for.
TasksSettled ==
    /\ phase = "settling" /\ phase' = "hooks"
    /\ init # "running"
    /\ \A o \in Operations : task[o] \in {"none", "done"} /\ iterator[o] # "returning"
    /\ UNCHANGED <<conn, init>> /\ OperationsUnchanged

\* onDisconnect and onClose have settled, whether they failed or not.
HooksEnd ==
    /\ phase = "hooks" /\ phase' = "finishing"
    /\ UNCHANGED <<conn, init>> /\ OperationsUnchanged

\* finish(): of the operation its id names now.
Finish(i) ==
    LET o == operations[i] IN
        IF o = NoOperation THEN UNCHANGED <<operations, aborted, lease>>
        ELSE /\ operations' = [operations EXCEPT ![i] = NoOperation]
             /\ aborted' = aborted \union {o}
             /\ lease' = [lease EXCEPT ![o] = "completed"]

\* The finally of cleanupSession, one operation after the other.
FinishRemaining(i) ==
    /\ phase = "finishing" /\ operations[i] # NoOperation
    /\ Finish(i)
    /\ UNCHANGED <<sessionVars, messageVars, task, operationTasks, subscriptions,
                   iterator, delivery>>

Resolve ==
    /\ phase = "finishing" /\ Known = {}
    /\ phase' = "resolved"
    /\ UNCHANGED <<conn, init>> /\ OperationsUnchanged

-----------------------------------------------------------------------------
(* dispatch()                                                              *)

\* graphql-ws receives a subscribe message, and calls onSubscribe if it accepts it:
\* a query that is invalid ends with its errors.  A query of a session that is
\* aborted begins too.
Receive(o) ==
    LET i == idOf[o] IN
    IF init # "ready" \/ subscriptions[i] # NoOperation
    THEN /\ conn' = IF conn = "open" THEN "closing" ELSE conn
         /\ task' = [task EXCEPT ![o] = "refused"]
         /\ UNCHANGED <<operations, subscriptions, aborted, lease>>
    ELSE /\ subscriptions' = [subscriptions EXCEPT ![i] = o]
         /\ operations' = [operations EXCEPT ![i] = o]
         /\ lease' = [lease EXCEPT ![o] = "active"]
         /\ aborted' = IF conn = "closed" THEN aborted \union {o} ELSE aborted
         /\ \E next \in {"context", "erring"} : task' = [task EXCEPT ![o] = next]
         /\ UNCHANGED conn

\* Fault: nothing waits for the task the id had before.
PredecessorNever(i) == NoOperation

\* The task a subscribe message waits for: that of an operation which is over or
\* aborted, but has not given its id back.
PredecessorOf(i) ==
    LET o == operations[i] IN
        IF o = NoOperation \/ o \in aborted THEN operationTasks[i] ELSE NoOperation

Refused(o) == task[o] \in {"refused", "done"} /\ lease[o] = "none"

\* The client goes on with an id it was refused.
Reuses(i) == \E o \in 1 .. sent : idOf[o] = i /\ Refused(o)

\* An operation that failed without being aborted keeps its entry but not its id: a
\* message that comes now waits for nobody, though an earlier one waits for that task.
Overtakes(i) ==
    /\ PredecessorOf(i) = NoOperation /\ subscriptions[i] = NoOperation
    /\ \E o \in 1 .. sent : idOf[o] = i /\ task[o] = "queued"

Subscribe ==
    /\ phase = "reading" /\ sent < MaxOperations
    /\ idOf[sent + 1] \in orderly => ~Reuses(idOf[sent + 1]) /\ ~Overtakes(idOf[sent + 1])
    /\ sent' = sent + 1
    /\ LET o == sent + 1
           i == idOf[o]
       IN  /\ predecessor' = [predecessor EXCEPT ![o] = PredecessorOf(i)]
           /\ operationTasks' = [operationTasks EXCEPT ![i] = o]
           /\ IF PredecessorOf(i) = NoOperation
              THEN Receive(o)
              ELSE /\ task' = [task EXCEPT ![o] = "queued"]
                   /\ UNCHANGED <<conn, operations, subscriptions, aborted, lease>>
    /\ UNCHANGED <<init, phase, idOf, orderly, iterator, delivery>>

\* The predecessor's task is over.
Dequeue(o) ==
    /\ task[o] = "queued" /\ task[predecessor[o]] = "done"
    /\ Receive(o)
    /\ UNCHANGED <<init, phase, messageVars, operationTasks, iterator, delivery>>

\* A complete message aborts the operation of its id, and graphql-ws gives the id
\* back and returns the iterator.
Complete(i) ==
    /\ phase = "reading" /\ operationTasks[i] # NoOperation
    /\ aborted' = IF operations[i] = NoOperation THEN aborted ELSE aborted \union {operations[i]}
    /\ subscriptions' = [subscriptions EXCEPT ![i] = NoOperation]
    /\ LET o == subscriptions[i] IN
           iterator' = IF o # NoOperation /\ iterator[o] = "open" /\ task[o] = "streaming"
                       THEN [iterator EXCEPT ![o] = "returning"] ELSE iterator
    /\ UNCHANGED <<sessionVars, messageVars, task, operations, operationTasks, delivery,
                   lease>>

-----------------------------------------------------------------------------
(* The task of an operation                                                *)

Goto(o, next) == task' = [task EXCEPT ![o] = next]

TaskOnly == UNCHANGED <<init, phase, messageVars, operationTasks, delivery>>

\* runtime.context(): then execute() or subscribe(), which do nothing when the
\* operation is aborted.
ContextEnds(o) ==
    /\ task[o] = "context"
    /\ \/ Goto(o, IF o \in aborted THEN "result" ELSE "running")
       \/ Goto(o, "failing")
    /\ UNCHANGED <<conn, operations, subscriptions, aborted, iterator, lease>> /\ TaskOnly

\* A result, or an iterator, which is returned at once when the operation is
\* aborted or its id given back.
RunEnds(o) ==
    /\ task[o] = "running"
    /\ \/ Goto(o, "result") /\ UNCHANGED <<iterator, aborted>>
       \/ Goto(o, "failing") /\ UNCHANGED <<iterator, aborted>>
       \/ IF o \in aborted \/ subscriptions[idOf[o]] = NoOperation
          THEN /\ iterator' = [iterator EXCEPT ![o] = "returning"] /\ aborted' = aborted \union {o}
               /\ Goto(o, "ending")
          ELSE iterator' = [iterator EXCEPT ![o] = "open"] /\ Goto(o, "streaming") /\ UNCHANGED aborted
    /\ UNCHANGED <<conn, operations, subscriptions, lease>> /\ TaskOnly

\* A result is not sent once the client has completed the operation; formatError
\* may throw, and send() fails on a connection that is not open.
ResultSent(o) ==
    /\ task[o] = "result"
    /\ \/ Goto(o, "ending")
       \/ subscriptions[idOf[o]] # NoOperation /\ Goto(o, "failing")
    /\ UNCHANGED <<conn, operations, subscriptions, aborted, iterator, lease>> /\ TaskOnly

\* next() of the mapped source has an event, and runs its resolvers.
EventComes(o) ==
    /\ task[o] = "streaming" /\ o \notin aborted /\ delivery[o] = "none"
    /\ delivery' = [delivery EXCEPT ![o] = "resolving"]
    /\ UNCHANGED <<sessionVars, messageVars, task, operations, operationTasks,
                   subscriptions, aborted, iterator, lease>>

\* They have ended: the result is sent, unless the abort has overtaken them.
EventResolved(o) ==
    /\ delivery[o] = "resolving"
    /\ delivery' = [delivery EXCEPT ![o] = IF o \in aborted THEN "none" ELSE "sending"]
    /\ UNCHANGED <<sessionVars, messageVars, task, operations, operationTasks,
                   subscriptions, aborted, iterator, lease>>

\* When formatError throws, or send() fails, the iteration returns the iterator
\* before it fails.
EventSent(o) ==
    /\ delivery[o] = "sending"
    /\ delivery' = [delivery EXCEPT ![o] = "none"]
    /\ \/ UNCHANGED <<task, iterator, aborted>>
       \/ /\ Goto(o, "breaking")
          /\ iterator' = [iterator EXCEPT ![o] = IF @ = "closed" THEN "closed" ELSE "returning"]
          /\ aborted' = aborted \union {o}
    /\ UNCHANGED <<sessionVars, messageVars, operations, operationTasks, subscriptions,
                   lease>>

\* The source has ended or failed, or the operation is aborted, whatever the
\* resolvers of an event do.
StreamEnds(o) ==
    /\ task[o] = "streaming"
    /\ delivery[o] = "none" \/ (delivery[o] = "resolving" /\ o \in aborted)
    /\ Goto(o, "ending") \/ (o \notin aborted /\ Goto(o, "erring"))
    /\ iterator' = [iterator EXCEPT ![o] = IF @ = "closed" THEN "closed" ELSE "returning"]
    /\ aborted' = aborted \union {o}
    /\ UNCHANGED <<conn, operations, subscriptions, lease>> /\ TaskOnly

\* return() is called once; everyone waits for that call.
Returned(o) ==
    /\ iterator[o] = "returning"
    /\ iterator' = [iterator EXCEPT ![o] = "closed"]
    /\ UNCHANGED <<conn, operations, subscriptions, aborted, lease, task>> /\ TaskOnly

Broken(o) ==
    /\ task[o] = "breaking" /\ iterator[o] = "closed"
    /\ Goto(o, "failing")
    /\ UNCHANGED <<conn, operations, subscriptions, aborted, iterator, lease>> /\ TaskOnly

\* onComplete and onError: cleanup(), which may reject, then finish(); formatError
\* may have thrown at the errors by then.
Ending(o) ==
    /\ task[o] \in {"ending", "erring"} /\ iterator[o] \in {"none", "closed"}
    /\ \/ Finish(idOf[o]) /\ Goto(o, "leaving")
       \/ task[o] = "erring" /\ Finish(idOf[o]) /\ Goto(o, "failed")
       \/ iterator[o] = "closed" /\ Goto(o, "failing") /\ UNCHANGED <<operations,
                                                                      aborted, lease>>
    /\ UNCHANGED <<conn, subscriptions, iterator>> /\ TaskOnly

\* The task is over.
Done(o) ==
    /\ Goto(o, "done")
    /\ operationTasks' = [i \in OperationIds |->
           IF operationTasks[i] = o THEN NoOperation ELSE operationTasks[i]]

\* The last message is sent, or could not be, and the id is given back.
Leaving(o) ==
    /\ task[o] = "leaving"
    /\ \/ Done(o)
       \/ conn # "open" /\ Goto(o, "closing") /\ UNCHANGED operationTasks
    /\ subscriptions' = [subscriptions EXCEPT ![idOf[o]] = NoOperation]
    /\ UNCHANGED <<conn, init, phase, messageVars, operations, aborted, iterator,
                   delivery, lease>>

\* receive() has rejected: the connection is closed with 1011.
Failing(o) ==
    /\ task[o] \in {"failing", "failed"}
    /\ subscriptions' = [subscriptions EXCEPT ![idOf[o]] = NoOperation]
    /\ conn' = IF conn = "open" THEN "closing" ELSE conn
    /\ Goto(o, "closing")
    /\ UNCHANGED <<operations, aborted, iterator, lease>> /\ TaskOnly

\* A refused message is done with; context.close() resolves when the connection is
\* closed.
CloseEnds(o) ==
    /\ \/ task[o] = "refused"
       \/ task[o] = "closing" /\ conn = "closed"
    /\ Done(o)
    /\ UNCHANGED <<sessionVars, messageVars, operations, subscriptions, aborted, iterator,
                   delivery, lease>>

-----------------------------------------------------------------------------
\* What goes on by itself; a stream ends by itself only when it is aborted.
TaskStep(o) ==
    \/ Dequeue(o) \/ ContextEnds(o) \/ RunEnds(o) \/ ResultSent(o) \/ EventResolved(o)
    \/ EventSent(o) \/ Returned(o) \/ Broken(o) \/ Ending(o) \/ Leaving(o) \/ Failing(o) \/ CloseEnds(o)

SessionStep ==
    \/ InitEnds \/ InputEnds \/ TasksSettled \/ HooksEnd \/ Resolve
    \/ \E i \in OperationIds : FinishRemaining(i)

Next ==
    \/ ConnectionInit \/ Closing \/ Closed \/ Subscribe
    \/ \E i \in OperationIds : Complete(i)
    \/ SessionStep
    \/ \E o \in Operations : TaskStep(o) \/ EventComes(o) \/ StreamEnds(o)

Spec == Init /\ [][Next]_vars

Progress == SessionStep \/ \E o \in Operations : TaskStep(o)
StreamsEnd == \E o \in aborted : StreamEnds(o)
ConnectionEnds == conn = "closing" /\ Closed

\* Hooks, resolvers and return() end, an aborted stream does, and a connection that
\* closes is closed.
FairSpec == Spec /\ WF_vars(Progress) /\ WF_vars(StreamsEnd) /\ WF_vars(ConnectionEnds)

-----------------------------------------------------------------------------
(* Properties                                                              *)

TypeOK ==
    /\ conn \in {"open", "closing", "closed"}
    /\ init \in {"none", "running", "ready", "refused"}
    /\ phase \in {"reading", "settling", "hooks", "finishing", "resolved"}
    /\ sent \in 0 .. MaxOperations
    /\ idOf \in [Operations -> OperationIds]
    /\ predecessor \in [Operations -> 0 .. MaxOperations]
    /\ orderly \subseteq OperationIds
    /\ task \in [Operations -> {"none", "queued", "context", "running", "streaming", "result", "breaking",
                                "ending", "erring", "leaving", "refused", "failing", "failed",
                                "closing", "done"}]
    /\ \A f \in {operations, operationTasks, subscriptions} :
           f \in [OperationIds -> 0 .. MaxOperations]
    /\ aborted \subseteq Operations
    /\ iterator \in [Operations -> {"none", "open", "returning", "closed"}]
    /\ delivery \in [Operations -> {"none", "resolving", "sending"}]
    /\ lease \in [Operations -> {"none", "active", "completed"}]

Leases == INSTANCE ExecutionLeases WITH
    Executions <- Operations,
    accepting  <- phase \in {"reading", "settling"},
    busy       <- [o \in Operations |-> idOf[o] \in orderly /\ Busy(o)],
    drained    <- FALSE

\* The operation failed, and its id was used again: finish() cannot find it any more.
Displaced(o) == \E p \in Operations : p > o /\ idOf[p] = idOf[o] /\ lease[p] # "none"

\* The lease of an operation outlives its context, its source and its resolvers, also
\* when the client uses the id again before they have ended; those of an event may
\* outlive it, but then the signal they were given is aborted.  A client that goes on
\* with an id it was refused, or has a message overtake an earlier one of its id,
\* spoils that id and no other.  The hooks of a connection that is closed come after
\* all of them, and a session that has resolved leaves no lease but those of displaced
\* operations.
OperationsImplementLeases ==
    /\ Leases!Spec
    /\ [](\A o \in Operations : delivery[o] # "none" /\ lease[o] # "active" => o \in aborted)
    /\ [](phase \in {"hooks", "finishing", "resolved"} => \A o \in Operations : ~Busy(o))
    /\ [](phase = "resolved" =>
              \A o \in Operations :
                  idOf[o] \in orderly /\ lease[o] = "active" => Displaced(o))

\* A session whose connection has begun to close is cleaned up, if its client keeps
\* to the order of its messages.
SessionResolves ==
    orderly = OperationIds => []<>(conn # "open" => phase = "resolved")

\* A complete message aborts the operation of its id, and no other: an operation
\* that fails when the client has completed it, and so given its id back, leaves the
\* connection as it is.
CompleteSparesOthers ==
    [][\A o \in Operations :
           task[o] = "failing" /\ subscriptions[idOf[o]] # o /\ task'[o] # "failing" => conn' = conn]_vars

=============================================================================
