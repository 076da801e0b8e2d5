----------------------------- MODULE TasksRuntime -----------------------------
(***************************************************************************)
(* The runtime of the Tasks extension (tasks/extension.ts): the Trigger    *)
(* Engine's start and stop, task invocations, and the drain() and close()  *)
(* the kernel calls.                                                       *)
(*                                                                         *)
(* A trigger handle is <<g, t>>: what the g-th startTriggers() started for *)
(* trigger t.  Starting and stopping a handle is asynchronous and may fail *)
(* (a queue driver is user code).  The kernel's side is what Kernel does:  *)
(* drain() when shutdown begins, and again if it was rejected, then close()*)
(* once past the safe boundary, with no execution lease left.              *)
(***************************************************************************)
EXTENDS Naturals, FiniteSets

CONSTANTS
    NumTriggers,  \* compiled triggers, in model order
    MaxStarts,    \* bound: how often startTriggers() gets past its guards
    Invocations   \* task invocations, each at most once

ASSUME CountsAssumption == NumTriggers \in Nat \ {0} /\ MaxStarts \in Nat \ {0}

Starts  == 1 .. MaxStarts
Handles == Starts \X (1 .. NumTriggers)

VARIABLES
    state,           \* running, draining or stopped
    triggersStarted,
    triggerHandles,
    triggerStartup,  \* the start whose promise it holds, 0 when undefined
    startup,         \* per start, where its startup is
    begun,           \* per start, the handles it has started and not stopped
    trying,          \* per start, the trigger being started
    undoing,         \* per start, handles its cleanup is stopping
    stop,            \* where the one stopTriggers() is; "none" without triggerStop
    stopAfter,       \* the startup it awaits
    stopping,        \* handles it is stopping
    stopFailed,      \* handles whose stop() it has seen rejected
    live,            \* handles started and not stopped: resources in use
    invoked,         \* activeInvocations, by what became of each
    drain,           \* what became of the kernel's drain() call
    close,           \* and of its close() call
    overlapped       \* start() was called while a stop() was pending (history)

engineVars  == <<triggersStarted, triggerHandles, triggerStartup>>
startupVars == <<startup, begun, trying, undoing>>
stopVars    == <<stop, stopAfter, stopping, stopFailed>>
kernelVars  == <<drain, close>>
codeVars == <<state, engineVars, startupVars, stopVars, live, invoked, kernelVars>>
vars == <<codeVars, overlapped>>

Init ==
    /\ state = "running"
    /\ triggersStarted = FALSE /\ triggerHandles = {} /\ triggerStartup = 0
    /\ startup = [g \in Starts |-> "none"]
    /\ begun = [g \in Starts |-> {}]
    /\ trying = [g \in Starts |-> 1]
    /\ undoing = [g \in Starts |-> {}]
    /\ stop = "none" /\ stopAfter = 0 /\ stopping = {} /\ stopFailed = {}
    /\ live = {}
    /\ invoked = [i \in Invocations |-> "none"]
    /\ drain = "none" /\ close = "none"
    /\ overlapped = FALSE

\* The execution leases the extension holds in the kernel: one per startup
\* under way, one per active invocation.
Starting    == {g \in Starts : startup[g] \in {"starting", "undoing"}}
Running     == {i \in Invocations : invoked[i] = "active"}
LeasesHeld  == Starting # {} \/ Running # {}

-----------------------------------------------------------------------------
(* startTriggers()                                                         *)

\* The part before the first await; refused when not running or started.
StartTriggers ==
    /\ state = "running" /\ ~triggersStarted
    /\ \E g \in Starts :
           /\ startup[g] = "none"
           /\ \A f \in 1 .. g - 1 : startup[f] # "none"
           /\ startup' = [startup EXCEPT ![g] = "starting"]
           /\ triggerStartup' = g
    /\ triggersStarted' = TRUE
    /\ UNCHANGED <<state, triggerHandles, begun, trying, undoing, stopVars, live, invoked, kernelVars>>

\* The catch of the startup: stop() of everything it has started.
Undo(g) ==
    /\ startup' = [startup EXCEPT ![g] = "undoing"]
    /\ undoing' = [undoing EXCEPT ![g] = begun'[g]]

\* The startup is over: lease.complete(), and triggerStartup is unset.
EndStartup(g) ==
    /\ startup' = [startup EXCEPT ![g] = "done"]
    /\ triggerStartup' = IF triggerStartup = g THEN 0 ELSE triggerStartup

\* Fault: the loop runs once more than there are triggers.
TriggerStartedBeyond(g) ==
    /\ startup[g] = "starting"
    /\ trying[g] <= NumTriggers
    /\ live' = live \union {<<g, trying[g]>>}
    /\ begun' = [begun EXCEPT ![g] = @ \union {<<g, trying[g]>>}]
    /\ trying' = [trying EXCEPT ![g] = @ + 1]
    /\ UNCHANGED <<state, engineVars, startup, undoing, stopVars, invoked, kernelVars>>

\* startTrigger() has returned a handle; a runtime that drains by now undoes it.
TriggerStarted(g) ==
    /\ startup[g] = "starting"
    /\ live' = live \union {<<g, trying[g]>>}
    /\ begun' = [begun EXCEPT ![g] = @ \union {<<g, trying[g]>>}]
    /\ IF state # "running"
       THEN Undo(g) /\ UNCHANGED <<trying, triggerHandles, triggerStartup>>
       ELSE IF trying[g] < NumTriggers
       THEN /\ trying' = [trying EXCEPT ![g] = @ + 1]
            /\ UNCHANGED <<startup, undoing, triggerHandles, triggerStartup>>
       ELSE /\ triggerHandles' = begun'[g]
            /\ EndStartup(g)
            /\ UNCHANGED <<trying, undoing>>
    /\ UNCHANGED <<state, triggersStarted, stopVars, invoked, kernelVars>>

TriggerFails(g) ==
    /\ startup[g] = "starting"
    /\ UNCHANGED begun
    /\ Undo(g)
    /\ UNCHANGED <<state, engineVars, trying, stopVars, live, invoked, kernelVars>>

\* Fault: the cleanup of a startup waits for a stopTriggers() under way.
UndoHandleAfterStop(g, h, ok) ==
    /\ startup[g] = "undoing" /\ h \in undoing[g]
    /\ stop = "none"
    /\ undoing' = [undoing EXCEPT ![g] = @ \ {h}]
    /\ begun' = [begun EXCEPT ![g] = IF ok THEN @ \ {h} ELSE @]
    /\ live' = IF ok THEN live \ {h} ELSE live
    /\ UNCHANGED <<state, engineVars, startup, trying, stopVars, invoked, kernelVars>>

\* handle.stop() settles; one that rejects is still in use.
UndoHandle(g, h, ok) ==
    /\ startup[g] = "undoing" /\ h \in undoing[g]
    /\ undoing' = [undoing EXCEPT ![g] = @ \ {h}]
    /\ begun' = [begun EXCEPT ![g] = IF ok THEN @ \ {h} ELSE @]
    /\ live' = IF ok THEN live \ {h} ELSE live
    /\ UNCHANGED <<state, engineVars, startup, trying, stopVars, invoked, kernelVars>>

\* What could not be stopped stays registered, and the engine counts as started.
StartupUndone(g) ==
    /\ startup[g] = "undoing" /\ undoing[g] = {}
    /\ triggerHandles' = begun[g]
    /\ triggersStarted' = (triggerHandles' # {})
    /\ EndStartup(g)
    /\ UNCHANGED <<state, begun, trying, undoing, stopVars, live, invoked,
                   kernelVars>>

-----------------------------------------------------------------------------
(* stopTriggers()                                                          *)

\* stop() of every registered handle is called at once.
StopHandles == stop' = "stopping" /\ stopping' = triggerHandles /\ stopFailed' = {}

\* Fault: a startup under way is not waited for.
CallStopAtOnce == IF stop # "none" THEN UNCHANGED stopVars ELSE StopHandles /\ UNCHANGED stopAfter

\* A second call shares the promise of the first; a startup is waited for.
CallStop ==
    IF stop # "none" THEN UNCHANGED stopVars
    ELSE IF triggerStartup # 0
    THEN stop' = "awaitStartup" /\ stopAfter' = triggerStartup
         /\ UNCHANGED <<stopping, stopFailed>>
    ELSE StopHandles /\ UNCHANGED stopAfter

\* app.tasks.stop()
StopTriggers ==
    /\ stop = "none"
    /\ CallStop
    /\ UNCHANGED <<state, engineVars, startupVars, live, invoked, kernelVars>>

StartupAwaited ==
    /\ stop = "awaitStartup" /\ startup[stopAfter] = "done"
    /\ StopHandles
    /\ UNCHANGED <<state, engineVars, startupVars, stopAfter, live, invoked, kernelVars>>

StopHandle(h, ok) ==
    /\ stop = "stopping" /\ h \in stopping
    /\ stopping' = stopping \ {h}
    /\ stopFailed' = IF ok THEN stopFailed ELSE stopFailed \union {h}
    /\ live' = IF ok THEN live \ {h} ELSE live
    /\ UNCHANGED <<state, engineVars, startupVars, stop, stopAfter, invoked, kernelVars>>

\* Fault: handles that could not be stopped are forgotten.
StopDoneForgetting ==
    /\ stop = "stopping" /\ stopping = {}
    /\ triggerHandles' = {} /\ triggersStarted' = FALSE
    /\ stop' = "none"
    /\ drain' = IF drain = "stopping" THEN "invocations" ELSE drain
    /\ IF close = "stopping"
       THEN state' = "stopped" /\ close' = "resolved"
       ELSE UNCHANGED <<state, close>>
    /\ UNCHANGED <<triggerStartup, startupVars, stopAfter, stopping, stopFailed, live, invoked>>

\* Promise.allSettled has settled; drain() and close() go on if they waited.
StopDone ==
    /\ stop = "stopping" /\ stopping = {}
    /\ triggerHandles' = stopFailed
    /\ triggersStarted' = (triggerHandles' # {})
    /\ stop' = "none"
    /\ drain' = IF drain # "stopping" THEN drain
                ELSE IF triggerHandles' = {} THEN "invocations" ELSE "rejected"
    /\ IF close = "stopping"
       THEN /\ state' = "stopped"
            /\ close' = IF triggerHandles' = {} THEN "resolved" ELSE "rejected"
       ELSE UNCHANGED <<state, close>>
    /\ UNCHANGED <<triggerStartup, startupVars, stopAfter, stopping, stopFailed, live, invoked>>

-----------------------------------------------------------------------------
(* Invocations                                                             *)

\* run(), by the Host API or by a trigger.
Invoke(i) ==
    /\ state = "running"
    /\ invoked[i] = "none"
    /\ invoked' = [invoked EXCEPT ![i] = "active"]
    /\ UNCHANGED <<state, engineVars, startupVars, stopVars, live, kernelVars>>

Settles(i) ==
    /\ invoked[i] = "active"
    /\ invoked' = [invoked EXCEPT ![i] = "settled"]
    /\ UNCHANGED <<state, engineVars, startupVars, stopVars, live, kernelVars>>

-----------------------------------------------------------------------------
(* drain() and close()                                                     *)

Drain ==
    /\ drain = "none"
    /\ state' = "draining"
    /\ drain' = "stopping"
    /\ CallStop
    /\ UNCHANGED <<engineVars, startupVars, live, invoked, close>>

DrainDone ==
    /\ drain = "invocations" /\ Running = {}
    /\ drain' = "resolved"
    /\ UNCHANGED <<state, engineVars, startupVars, stopVars, live, invoked, close>>

\* The kernel gives an attempt up only while executions hold leases; its next
\* attempt calls a drain() again that was rejected.
GiveUp ==
    /\ drain = "rejected" /\ LeasesHeld
    /\ drain' = "none"
    /\ UNCHANGED <<state, engineVars, startupVars, stopVars, live, invoked, close>>

\* Past the safe boundary (Kernel!SafeCleanupBoundary).
Close ==
    /\ drain \in {"resolved", "rejected"} /\ close = "none"
    /\ ~LeasesHeld
    /\ close' = "stopping"
    /\ CallStop
    /\ UNCHANGED <<state, engineVars, startupVars, live, invoked, drain>>

-----------------------------------------------------------------------------
StartupNext == \E g \in Starts :
    \/ TriggerStarted(g) \/ TriggerFails(g) \/ StartupUndone(g)
    \/ \E h \in Handles, ok \in BOOLEAN : UndoHandle(g, h, ok)

StopNext ==
    \/ StartupAwaited \/ StopDone
    \/ \E h \in Handles, ok \in BOOLEAN : StopHandle(h, ok)

Others ==
    \/ StartupNext \/ StopTriggers \/ StopNext
    \/ \E i \in Invocations : Invoke(i) \/ Settles(i)
    \/ Drain \/ DrainDone \/ GiveUp \/ Close

Next ==
    \/ StartTriggers /\ overlapped' = (overlapped \/ stop # "none")
    \/ Others /\ UNCHANGED overlapped

Spec == Init /\ [][Next]_vars

\* Queue drivers and tasks answer, and the kernel goes on with its shutdown.
TasksFairness ==
    /\ WF_codeVars(StartupNext)
    /\ WF_codeVars(StopNext)
    /\ \A i \in Invocations : WF_codeVars(Settles(i))
    /\ WF_codeVars(DrainDone)
    /\ WF_codeVars(state = "draining" /\ Drain)
    /\ WF_codeVars(Close)

FairSpec == Spec /\ TasksFairness

-----------------------------------------------------------------------------
(* Properties                                                              *)

TypeOK ==
    /\ state \in {"running", "draining", "stopped"}
    /\ triggersStarted \in BOOLEAN
    /\ triggerHandles \subseteq Handles
    /\ triggerStartup \in 0 .. MaxStarts
    /\ startup \in [Starts -> {"none", "starting", "undoing", "done"}]
    /\ begun \in [Starts -> SUBSET Handles]
    /\ trying \in [Starts -> 1 .. NumTriggers]
    /\ undoing \in [Starts -> SUBSET Handles]
    /\ stop \in {"none", "awaitStartup", "stopping"}
    /\ stopAfter \in 0 .. MaxStarts
    /\ stopping \subseteq Handles
    /\ stopFailed \subseteq Handles
    /\ live \subseteq Handles
    /\ invoked \in [Invocations -> {"none", "active", "settled"}]
    /\ drain \in {"none", "stopping", "invocations", "resolved", "rejected"}
    /\ close \in {"none", "stopping", "resolved", "rejected"}
    /\ overlapped \in BOOLEAN

Engines == {h[1] : h \in live} \union Starting

\* start() refuses to start an engine that is started: whatever runs, or is
\* being started, belongs to one startTriggers().
AlreadyStartedIsRefused == Cardinality(Engines) <= 1

\* For a host that awaits stop() before it calls start() again there is one
\* engine, and no trigger is forgotten: what runs is registered, is being started
\* or is being stopped, so that a later stop() reaches it.
NoOrphan ==
    ~overlapped =>
        /\ AlreadyStartedIsRefused
        /\ live \subseteq triggerHandles \union stopping \union UNION {begun[g] : g \in Starting}

\* When drain() resolves the extension is idle: no trigger runs or is about to,
\* and no task does.  A close() that resolves leaves nothing, even if the drain
\* before it failed.
ShutdownMeansIdle ==
    ~overlapped =>
        /\ drain = "resolved" => live = {} /\ Starting = {} /\ Running = {}
        /\ close = "resolved" => live = {} /\ ~LeasesHeld

\* However a startup is caught by shutdown, the kernel gets to close().
ShutdownCompletes == state = "draining" ~> state = "stopped"

=============================================================================
