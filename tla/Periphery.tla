------------------------------- MODULE Periphery -------------------------------
(***************************************************************************)
(* The components around the kernel that share no state with one another:  *)
(* the development server, the GraphQL generator, the Devtools channel, a  *)
(* GraphQL session, a data scope and a trigger.  A behaviour is one of     *)
(* exactly one of them: "part" chooses it, and the others stay as they are.*)
(***************************************************************************)
EXTENDS Naturals, FiniteSets

CONSTANTS
    MaxChanges, MaxRequests,                                      \* DevServer
    NumTargets, MaxVersions,                                      \* GraphqlCodegen
    Connections, Runs, Commands, NoConnection,                    \* DevtoolsChannel
    MaxOperations, OperationIds,                                  \* GraphqlSocket
    MaxLoads, Keys, Parents, Primitives, MaxBatchSize,            \* DataScope
    MaxMinutes, MaxFirings, Concurrency                           \* Triggers

\* What the code hands over as a parent is none of the marks DataScope keeps in the
\* place of one.
ASSUME PeripheryAssumption ==
    /\ {NumTargets, MaxVersions, MaxBatchSize, MaxMinutes, Concurrency} \subseteq Nat \ {0}
    /\ NoConnection \notin Connections
    /\ Primitives \subseteq Parents
    /\ Parents \cap {"none", "unsettled", "rejected"} = {}
    /\ {MaxChanges, MaxRequests, MaxOperations, MaxLoads} \subseteq Nat

VARIABLES
    part,
    \* DevServer
    disk, changes, requests, watcher, events, reloadTimer, load, read, again, joined, watched, snapshot,
    error, valid, supervisor, child, crashedOn, server, missed,
    \* GraphqlCodegen
    input, event, refreshTimer, queued, stopped, step, target, made, changed, staged, previous, mutated,
    preserved, outcome, root, temporary, backup, before, seen,
    \* DevtoolsChannel
    socket, run, applications, pendingOn, command, shown, channel,
    \* GraphqlSocket
    conn, init, phase, sent, idOf, orderly, predecessor, task, operations, operationTasks, subscriptions,
    aborted, iterator, delivery, lease,
    \* DataScope
    called, parent, batch, shares, waiting, flushes, flight, loading, dedup, pending, settled, aborting,
    \* Triggers
    kind, matching, minute, lastMinute, armed, loop, validating, runs, firings, stop

devVars ==
    <<disk, changes, requests, watcher, events, reloadTimer, load, read, again, joined, watched, snapshot,
      error, valid, supervisor, child, crashedOn, server, missed>>
codegenVars ==
    <<input, event, refreshTimer, queued, stopped, step, target, made, changed, staged, previous, mutated,
      preserved, outcome, root, temporary, backup, before, seen>>
channelVars ==
    <<socket, run, applications, pendingOn, command, shown, channel>>
sessionVars ==
    <<conn, init, phase, sent, idOf, orderly, predecessor, task, operations, operationTasks, subscriptions,
      aborted, iterator, delivery, lease>>
scopeVars ==
    <<called, parent, batch, shares, waiting, flushes, flight, loading, dedup, pending, settled, aborting>>
triggerVars ==
    <<kind, matching, minute, lastMinute, armed, loop, validating, runs, firings, stop>>

Dev     == INSTANCE DevServer
Codegen == INSTANCE GraphqlCodegen
Channel == INSTANCE DevtoolsChannel
Session == INSTANCE GraphqlSocket
Scope   == INSTANCE DataScope
Trigger == INSTANCE Triggers

Parts == {"dev", "codegen", "channel", "session", "scope", "trigger"}

\* A part that is not chosen has one initial state.
Init ==
    /\ part \in Parts
    /\ Dev!Init /\ (part # "dev" => disk = [entry |-> "plain", helper |-> "one"])
    /\ Codegen!Init /\ Channel!Init /\ Scope!Init
    /\ Session!Init
    /\ part # "session" =>
           /\ idOf = [o \in 1 .. MaxOperations |-> CHOOSE i \in OperationIds : TRUE]
           /\ orderly = OperationIds
    /\ Trigger!Init /\ (part # "trigger" => kind = "delayed")

Unless(p, variables) == IF part = p THEN TRUE ELSE UNCHANGED variables

Only(p) ==
    /\ part = p /\ UNCHANGED part
    /\ Unless("dev", devVars) /\ Unless("codegen", codegenVars) /\ Unless("channel", channelVars)
    /\ Unless("session", sessionVars) /\ Unless("scope", scopeVars) /\ Unless("trigger", triggerVars)

Next ==
    \/ Dev!Next /\ Only("dev")
    \/ Codegen!Next /\ Only("codegen")
    \/ Channel!Next /\ Only("channel")
    \/ Session!Next /\ Only("session")
    \/ Scope!Next /\ Only("scope")
    \/ Trigger!Next /\ Only("trigger")

vars == <<part, devVars, codegenVars, channelVars, sessionVars, scopeVars, triggerVars>>

Spec == Init /\ [][Next]_vars

\* The fairness each component states, of the one that runs.
PeripheryFairness ==
    /\ WF_devVars(part = "dev" /\ Dev!BuildStep) /\ WF_devVars(part = "dev" /\ Dev!WatchStep)
    /\ WF_devVars(part = "dev" /\ Dev!Debounced) /\ WF_devVars(part = "dev" /\ Dev!ListenStep)
    /\ WF_devVars(part = "dev" /\ Dev!CloseServer) /\ WF_devVars(part = "dev" /\ Dev!ForceKill)
    /\ WF_devVars(part = "dev" /\ Dev!KilledExits)
    /\ WF_codegenVars(part = "codegen" /\ Codegen!GenerateStep)
    /\ WF_codegenVars(part = "codegen" /\ Codegen!WatchStep)
    /\ WF_sessionVars(part = "session" /\ Session!Progress)
    /\ WF_sessionVars(part = "session" /\ Session!StreamsEnd)
    /\ WF_sessionVars(part = "session" /\ Session!ConnectionEnds)
    /\ WF_scopeVars(part = "scope" /\ Scope!Microtask) /\ WF_scopeVars(part = "scope" /\ Scope!ChunkStep)
    /\ WF_triggerVars(part = "trigger" /\ Trigger!ValidationEnds)
    /\ WF_triggerVars(part = "trigger" /\ Trigger!RunEnds) /\ WF_triggerVars(part = "trigger" /\ Trigger!Wake)
    /\ WF_triggerVars(part = "trigger" /\ Trigger!StopResolves)

FairSpec == Spec /\ PeripheryFairness

-----------------------------------------------------------------------------
(* Properties                                                              *)

TypeOK ==
    /\ part \in Parts
    /\ Dev!TypeOK /\ Codegen!TypeOK /\ Channel!TypeOK
    /\ Session!TypeOK /\ Scope!TypeOK /\ Trigger!TypeOK

\* What `loutre dev` shows, and runs, follows the source, and the command ends
\* when it is told to, without leaving a process behind.
DevFollowsSource ==
    /\ []<>(part = "dev" => Dev!Followed /\ Dev!CommandEnded)
    /\ [](part = "dev" => Dev!NoChildLeft)

\* Whatever file operation fails and wherever the generator is killed, the outputs
\* are of one generation or the one before can be put together; and a change of
\* the input is generated.
GenerationsKept ==
    /\ [](part = "codegen" => Codegen!GenerationsKept)
    /\ []<>(part = "codegen" => Codegen!Generated)

\* Devtools shows as connected the runs that have a connection, and commands wait
\* on no other.
RunsMirrorConnections == Channel!RunsMirrorConnections

\* The leases of GraphQL operations outlive their code, and a session whose
\* connection has begun to close is cleaned up.
OperationsImplementLeases ==
    /\ Session!OperationsImplementLeases
    /\ Session!SessionResolves

\* Every load of a data scope is answered, with the value of its own parent.
LoadsAreAnswered == Scope!LoadsAreAnswered

\* A trigger that is being stopped takes no work on and leaves none behind.
StoppedTriggersAreQuiet ==
    /\ Trigger!StoppedTriggersAreQuiet
    /\ Trigger!TriggersStop

=============================================================================
