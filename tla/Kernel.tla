------------------------------- MODULE Kernel -------------------------------
(***************************************************************************)
(* ApplicationKernelRuntime (packages/loutre/src/runtime/kernel.ts) with   *)
(* its ExecutionTracker (runtime/execution-tracker.ts).                    *)
(*                                                                         *)
(* The kernel constructs the providers of an application, runs their       *)
(* lifecycle hooks, creates the extension runtimes, admits executions while*)
(* it is running, and shuts everything down again.  JavaScript runs one    *)
(* piece of code at a time: an action below is the code between two awaits.*)
(* What may happen at an await (a hook that throws, a drain that settles   *)
(* late, a timer, a lease that completes, another caller) is              *)
(* nondeterministic.                                                       *)
(*                                                                         *)
(* Modules, providers and extensions are numbered in the order of the      *)
(* Application Model; owner 0 is the pseudo module 'application'.          *)
(***************************************************************************)
EXTENDS Integers, Sequences, FiniteSets, Functions

CONSTANTS
    NumModules,     \* model.nodes of kind 'module', imports before importers
    NumProviders,   \* application-scoped providers, in declaration order
    Owner,          \* provider -> the module that declares it, or 0
    Deps,           \* provider -> the providers its constructor injects
    HookNeeds,      \* module -> the providers its lifecycle hooks inject
    Logger,         \* the provider LoggerToken resolves to
    NumExtensions,  \* model.extensions, in definition order
    HasDrain,       \* the extensions whose runtime has a drain()
    HasClose,       \* the extensions whose runtime has a close()
    Leases          \* executions that may be begun, each at most once

Modules    == 1 .. NumModules
Providers  == 1 .. NumProviders
Extensions == 1 .. NumExtensions

ASSUME SizesAssumption ==
    /\ NumModules \in Nat \ {0}
    /\ NumProviders \in Nat \ {0}
    /\ NumExtensions \in Nat
    /\ Logger \in Providers
    /\ HasDrain \subseteq Extensions
    /\ HasClose \subseteq Extensions

\* buildApplicationModel lists imports before importers, and a provider or a
\* hook sees only its own module and what that imports.  LoggerToken alone is
\* exempt from visibility.  What no module declares is the default logger and
\* the backend injected into it (compileApplicationLogger).
ASSUME VisibilityAssumption ==
    /\ Owner \in [Providers -> 0 .. NumModules]
    /\ Deps \in [Providers -> SUBSET Providers]
    /\ HookNeeds \in [Modules -> SUBSET Providers]
    /\ \A p \in Providers : \A q \in Deps[p] \ {Logger} : Owner[q] <= Owner[p]
    /\ \A m \in Modules : \A q \in HookNeeds[m] \ {Logger} : Owner[q] <= m
    /\ \A p \in Providers : Owner[p] = 0 => p \in {Logger} \union Deps[Logger]

VARIABLES
    state,        \* #state
    stage,        \* where #initialize is
    modAt,        \* the module #initializeProviders has reached
    building,     \* the providers being resolved, innermost first
    created,      \* #createdInstances, in creation order
    inited,       \* #initializedInstanceCount
    initModules,  \* #initializedModuleIds
    runtimes,     \* the domain of #extensionRuntimes
    attempt,      \* where #shutdownApplication is; "none" when #shutdown is unset
    drainOp,      \* #extensionDrainOperations
    drainRuns,    \* runtime.drain() calls that have not settled
    drainResult,  \* what this attempt's withTimeout made of each drain
    lease,        \* the ExecutionTracker's view of each lease
    waiters,      \* its #idleWaiters
    awaited,      \* the drains the last retryAfter waits for
    due,          \* lifecycle calls cleanup or rollback has yet to make
    calls,        \* lifecycle calls made so far, in order (history)
    failed,       \* a cleanup call of this attempt threw
    outcome       \* how the last shutdown attempt ended

initVars  == <<stage, modAt, building, created, inited, initModules, runtimes>>
drainVars == <<drainOp, drainRuns, drainResult>>
leaseVars == <<lease, waiters>>
callVars  == <<due, calls, failed>>
vars == <<state, initVars, attempt, drainVars, leaseVars, awaited, callVars, outcome>>

-----------------------------------------------------------------------------
(* Lifecycle calls.  <<phase, kind, who>>                                  *)

PhaseRank == [close |-> 0, onModuleDestroy |-> 1, beforeApplicationShutdown |-> 2,
              onApplicationShutdown |-> 3, onApplicationDispose |-> 4,
              closeInstrumentation |-> 5]
Phases == DOMAIN PhaseRank
InstrumentationClose == <<"closeInstrumentation", "instrumentation", 0>>
Calls ==
    Phases \X {"extension"} \X Extensions
        \union Phases \X {"instance"} \X Providers
        \union Phases \X {"module"} \X Modules
        \union {InstrumentationClose}

Made(call) == \E i \in DOMAIN calls : calls[i] = call

IsCreated(p) == \E i \in DOMAIN created : created[i] = p
CreatedSet   == {created[i] : i \in DOMAIN created}
CreatedAt(p) == CHOOSE i \in DOMAIN created : created[i] = p

\* Fault: the hooks of modules that initialization has not reached run too.
ProviderCallsOfAll(phases) ==
    phases \X {"instance"} \X CreatedSet \union phases \X {"module"} \X Modules

\* The calls made for the given phases: created instances, initialized modules.
ProviderCalls(phases) ==
    phases \X {"instance"} \X CreatedSet
        \union phases \X {"module"} \X initModules

ExtensionCloses == {"close"} \X {"extension"} \X (runtimes \cap HasClose)

CleanupCalls ==
    ExtensionCloses \union ProviderCalls(Phases \ {"close", "closeInstrumentation"})

\* Fault: rollback destroys what was built, and does not dispose of it.
RollbackWithoutDispose == ExtensionCloses \union ProviderCalls({"onModuleDestroy"})

RollbackCalls ==
    ExtensionCloses \union ProviderCalls({"onModuleDestroy", "onApplicationDispose"})

\* Position of a call inside its phase, larger first.  Modules are walked in
\* reverse; inside a module cleanup takes the instances in reverse and then the
\* module's hook, rollback takes the hook first; owner 0 comes last.  Dispose
\* runs every module's hook and then the instances in reverse creation order.
OwnerOf(call) == IF call[2] = "instance" THEN Owner[call[3]] ELSE call[3]

\* Fault: instances are walked in the order they were created in.
EarlierInstance(x, y) == CreatedAt(x[3]) < CreatedAt(y[3])

LaterInstance(x, y) == CreatedAt(x[3]) > CreatedAt(y[3])

InModuleOrder(x, y, hookFirst) ==
    \/ OwnerOf(x) > OwnerOf(y)
    \/ /\ OwnerOf(x) = OwnerOf(y)
       /\ \/ x[2] # y[2] /\ (hookFirst <=> x[2] = "module")
          \/ x[2] = "instance" /\ y[2] = "instance" /\ LaterInstance(x, y)

InDisposeOrder(x, y) ==
    \/ x[2] = "module" /\ y[2] = "instance"
    \/ x[2] = "module" /\ y[2] = "module" /\ x[3] > y[3]
    \/ x[2] = "instance" /\ y[2] = "instance" /\ LaterInstance(x, y)

Precedes(x, y, hookFirst) ==
    \/ PhaseRank[x[1]] < PhaseRank[y[1]]
    \/ /\ x[1] = y[1]
       /\ CASE x[1] = "close"                -> x[3] > y[3]
            [] x[1] = "onApplicationDispose" -> InDisposeOrder(x, y)
            [] OTHER                         -> InModuleOrder(x, y, hookFirst)

NextCalls(hookFirst) == {x \in due : \A y \in due \ {x} : Precedes(x, y, hookFirst)}

\* Running a module hook first resolves what it injects, which constructs
\* whatever of it does not exist yet.
MissingFor(call) ==
    IF call[2] = "module" THEN {p \in HookNeeds[call[3]] : ~IsCreated(p)} ELSE {}

Construct(missing) ==
    \E order \in Bijection(1 .. Cardinality(missing), missing) :
        created' = created \o order

-----------------------------------------------------------------------------
Active == {l \in Leases : lease[l] \in {"active", "aborted"}}

Init ==
    /\ state = "created"
    /\ stage = "none" /\ modAt = 1 /\ building = <<>>
    /\ created = <<>> /\ inited = 0 /\ initModules = {} /\ runtimes = {}
    /\ attempt = "none"
    /\ drainOp = [e \in Extensions |-> "absent"]
    /\ drainRuns = [e \in Extensions |-> 0]
    /\ drainResult = [e \in Extensions |-> "none"]
    /\ lease = [l \in Leases |-> "unused"]
    /\ waiters = {}
    /\ awaited = {}
    /\ due = {} /\ calls = <<>> /\ failed = FALSE
    /\ outcome = "none"

-----------------------------------------------------------------------------
(* initialize()                                                            *)

\* initialize(): only the first call of a created application starts; later
\* calls share the promise or are refused and change nothing.
Initialize ==
    /\ state = "created" /\ stage = "none"
    /\ state' = "initializing"
    /\ stage' = "inputs"
    /\ UNCHANGED <<modAt, building, created, inited, initModules, runtimes,
                   attempt, drainVars, leaseVars, awaited, callVars, outcome>>

\* The catch of #initialize: whatever threw, everything built so far is undone.
Rollback ==
    /\ stage' = "rollback"
    /\ building' = <<>>
    /\ due' = RollbackCalls'
    /\ UNCHANGED <<state, modAt, calls, failed>>

Elsewhere == UNCHANGED <<attempt, drainVars, leaseVars, awaited, outcome>>

InitStep == UNCHANGED <<state, callVars>> /\ Elsewhere

\* validateCapabilities, bindRuntimeInputs; then container.resolve(LoggerToken).
BindInputs ==
    /\ stage = "inputs"
    /\ stage' = "providers"
    /\ building' = <<Logger>>
    /\ InitStep
    /\ UNCHANGED <<modAt, created, inited, initModules, runtimes>>

InputsMissing ==
    /\ stage = "inputs"
    /\ UNCHANGED <<created, inited, initModules, runtimes>>
    /\ Rollback /\ Elsewhere

\* Container.#resolve of the innermost pending provider: a dependency that does
\* not exist yet is resolved first (the constructor's injection order is free).
ResolveDependency ==
    /\ stage = "providers" /\ building # <<>>
    /\ ~IsCreated(Head(building))
    /\ \E q \in Deps[Head(building)] :
           /\ ~IsCreated(q)
           /\ \A i \in DOMAIN building : building[i] # q
           /\ building' = <<q>> \o building
    /\ InitStep
    /\ UNCHANGED <<stage, modAt, created, inited, initModules, runtimes>>

\* Container.#create and the created hook (#onProviderCreated).
CreateProvider ==
    /\ stage = "providers" /\ building # <<>>
    /\ ~IsCreated(Head(building))
    /\ \A q \in Deps[Head(building)] : IsCreated(q)
    /\ created' = Append(created, Head(building))
    /\ building' = Tail(building)
    /\ InitStep
    /\ UNCHANGED <<stage, modAt, inited, initModules, runtimes>>

\* A constructor or factory throws, or #resolve finds a cycle.
ResolutionFails ==
    /\ stage = "providers" /\ building # <<>>
    /\ UNCHANGED <<created, inited, initModules, runtimes>>
    /\ Rollback /\ Elsewhere

\* Fault: the loop looks for one instance more than there are.
InitInstanceTooMany ==
    /\ stage = "providers" /\ building = <<>>
    /\ inited <= Len(created)
    /\ inited' = inited + 1
    /\ InitStep
    /\ UNCHANGED <<stage, modAt, building, created, initModules, runtimes>>

\* #initializeConstructedProviders: onModuleInit of each new instance, awaited.
InitInstance ==
    /\ stage = "providers" /\ building = <<>>
    /\ inited < Len(created)
    /\ inited' = inited + 1
    /\ InitStep
    /\ UNCHANGED <<stage, modAt, building, created, initModules, runtimes>>

InitInstanceFails ==
    /\ stage = "providers" /\ building = <<>>
    /\ inited < Len(created)
    /\ inited' = inited + 1
    /\ UNCHANGED <<created, initModules, runtimes>>
    /\ Rollback /\ Elsewhere

Unresolved(m) == {p \in Providers : Owner[p] = m /\ ~IsCreated(p)}

\* The next provider of the module, in declaration order.
ResolveNext ==
    /\ stage = "providers" /\ building = <<>>
    /\ inited = Len(created)
    /\ \E p \in Unresolved(modAt) :
           /\ \A q \in Unresolved(modAt) : p <= q
           /\ building' = <<p>>
    /\ InitStep
    /\ UNCHANGED <<stage, modAt, created, inited, initModules, runtimes>>

AtModuleHook ==
    /\ stage = "providers" /\ building = <<>>
    /\ inited = Len(created)
    /\ Unresolved(modAt) = {}

\* The module counts as initialized before its onModuleInit hook runs.
InitModule ==
    /\ AtModuleHook
    /\ initModules' = initModules \union {modAt}
    /\ Construct(MissingFor(<<"onModuleInit", "module", modAt>>))
    /\ IF modAt = NumModules
       THEN stage' = "bootstrap" /\ modAt' = 0
       ELSE stage' = stage /\ modAt' = modAt + 1
    /\ InitStep
    /\ UNCHANGED <<building, inited, runtimes>>

InitModuleFails ==
    /\ AtModuleHook
    /\ initModules' = initModules \union {modAt}
    /\ Construct(MissingFor(<<"onModuleInit", "module", modAt>>))
    /\ UNCHANGED <<inited, runtimes>>
    /\ Rollback /\ Elsewhere

\* onApplicationBootstrap of a module's instances and hook.  Only failing
\* matters to the rest, so the calls of one module are one step.
Bootstrap ==
    /\ stage = "bootstrap"
    /\ IF modAt = NumModules
       THEN stage' = "extensions" /\ modAt' = modAt
       ELSE stage' = stage /\ modAt' = modAt + 1
    /\ InitStep
    /\ UNCHANGED <<building, created, inited, initModules, runtimes>>

NextRuntime == {e \in Extensions \ runtimes : \A f \in Extensions \ runtimes : e <= f}

CreateRuntime ==
    /\ stage = "extensions"
    /\ \E e \in NextRuntime : runtimes' = runtimes \union {e}
    /\ InitStep
    /\ UNCHANGED <<stage, modAt, building, created, inited, initModules>>

\* After the last extension runtime the application runs.
Run ==
    /\ stage = "extensions"
    /\ NextRuntime = {}
    /\ state' = "running"
    /\ stage' = "done"
    /\ Elsewhere
    /\ UNCHANGED <<modAt, building, created, inited, initModules, runtimes, callVars>>

StartupFails ==
    /\ stage = "bootstrap" \/ (stage = "extensions" /\ NextRuntime # {})
    /\ UNCHANGED <<created, inited, initModules, runtimes>>
    /\ Rollback /\ Elsewhere

\* #rollbackInitialization: every error is collected, none stops the rest.
RollbackCall ==
    /\ stage = "rollback"
    /\ \E call \in NextCalls(TRUE) :
           /\ due' = due \ {call}
           /\ calls' = Append(calls, call)
           /\ Construct(MissingFor(call))
    /\ Elsewhere
    /\ UNCHANGED <<state, stage, modAt, building, inited, initModules, runtimes, failed>>

RollbackDone ==
    /\ stage = "rollback" /\ due = {}
    /\ calls' = Append(calls, InstrumentationClose)
    /\ stage' = "done"
    /\ state' = "stopped"
    /\ Elsewhere
    /\ UNCHANGED <<modAt, building, created, inited, initModules, runtimes, due, failed>>

-----------------------------------------------------------------------------
(* Executions                                                              *)

\* Fault: executions are admitted while draining.
BeginWhileDraining(l) ==
    /\ state \in {"running", "draining"}
    /\ lease[l] = "unused"
    /\ lease' = [lease EXCEPT ![l] = "active"]
    /\ UNCHANGED <<state, initVars, attempt, drainVars, waiters, awaited, callVars, outcome>>

\* beginExecution(): refused unless running.
Begin(l) ==
    /\ state = "running"
    /\ lease[l] = "unused"
    /\ lease' = [lease EXCEPT ![l] = "active"]
    /\ UNCHANGED <<state, initVars, attempt, drainVars, waiters, awaited, callVars, outcome>>

\* Fault: the last execution wakes nobody.
CompleteSilently(l) ==
    /\ l \in Active
    /\ lease' = [lease EXCEPT ![l] = "completed"]
    /\ UNCHANGED <<state, initVars, attempt, drainVars, waiters, awaited, callVars, outcome>>

\* complete(): the last one out wakes everybody waiting for idle.
Complete(l) ==
    /\ l \in Active
    /\ lease' = [lease EXCEPT ![l] = "completed"]
    /\ waiters' = IF Active = {l} THEN {} ELSE waiters
    /\ UNCHANGED <<state, initVars, attempt, drainVars, awaited, callVars, outcome>>

-----------------------------------------------------------------------------
(* shutdown()                                                              *)

\* runtime.drain() of an extension whose operation is still in the map is not
\* started again: #startExtensionDrain returns the existing one.
Draining(e) == e \in runtimes \cap HasDrain

\* Fault: every attempt calls drain() again, settled or not.
BeginDrainAgain ==
    /\ state' = "draining"
    /\ attempt' = "draining"
    /\ drainOp' = [e \in Extensions |-> IF Draining(e) THEN "pending" ELSE drainOp[e]]
    /\ drainRuns' = [e \in Extensions |->
           IF Draining(e) THEN drainRuns[e] + 1 ELSE drainRuns[e]]
    /\ drainResult' = [e \in Extensions |-> IF Draining(e) THEN "waiting" ELSE "none"]
    /\ failed' = FALSE

BeginDrain ==
    /\ state' = "draining"
    /\ attempt' = "draining"
    /\ drainOp' = [e \in Extensions |->
           IF Draining(e) /\ drainOp[e] = "absent" THEN "pending" ELSE drainOp[e]]
    /\ drainRuns' = [e \in Extensions |->
           IF Draining(e) /\ drainOp[e] = "absent" THEN drainRuns[e] + 1 ELSE drainRuns[e]]
    /\ drainResult' = [e \in Extensions |->
           IF ~Draining(e) THEN "none"
           ELSE IF drainOp[e] = "fulfilled" THEN "fulfilled" ELSE "waiting"]
    /\ failed' = FALSE

\* shutdown() while an initialization is pending waits for it first.
ShutdownDuringInit ==
    /\ attempt = "none" /\ state = "initializing"
    /\ attempt' = "awaitInit"
    /\ UNCHANGED <<state, initVars, drainVars, leaseVars, awaited, callVars, outcome>>

ShutdownUnstarted ==
    /\ attempt = "none" /\ state = "created"
    /\ state' = "stopped"
    /\ attempt' = "instrument"
    /\ UNCHANGED <<initVars, drainVars, leaseVars, awaited, callVars, outcome>>

\* Fault: a stopped application is shut down again.
ShutdownOfStopped ==
    /\ attempt = "none" /\ state \in {"running", "draining", "stopped"}
    /\ BeginDrain
    /\ UNCHANGED <<initVars, leaseVars, awaited, due, calls, outcome>>

Shutdown ==
    /\ attempt = "none" /\ state \in {"running", "draining"}
    /\ BeginDrain
    /\ UNCHANGED <<initVars, leaseVars, awaited, due, calls, outcome>>

InitSettled ==
    /\ attempt = "awaitInit" /\ stage = "done"
    /\ \/ /\ state = "stopped"
          /\ attempt' = "none" /\ outcome' = "resolved"
          /\ UNCHANGED <<state, drainVars, failed>>
       \/ /\ state = "running"
          /\ BeginDrain
          /\ UNCHANGED outcome
    /\ UNCHANGED <<initVars, leaseVars, awaited, due, calls>>

\* The drain promise settles, in time or long after its timeout.  A rejected
\* operation leaves the map, so that the next attempt starts a new one.
DrainSettles(e, ok) ==
    /\ drainRuns[e] > 0
    /\ drainRuns' = [drainRuns EXCEPT ![e] = @ - 1]
    /\ drainOp' = [drainOp EXCEPT ![e] = IF ok THEN "fulfilled" ELSE "absent"]
    /\ drainResult' = [drainResult EXCEPT ![e] =
           IF @ # "waiting" THEN @ ELSE IF ok THEN "fulfilled" ELSE "rejected"]
    /\ awaited' = awaited \ {e}
    /\ UNCHANGED <<state, initVars, attempt, leaseVars, callVars, outcome>>

\* withTimeout(forceShutdownTimeoutMs)
DrainTimeout(e) ==
    /\ attempt = "draining" /\ drainResult[e] = "waiting"
    /\ drainResult' = [drainResult EXCEPT ![e] = "timedOut"]
    /\ UNCHANGED <<state, initVars, attempt, drainOp, drainRuns, leaseVars, awaited,
                   callVars, outcome>>

DrainFailed == \E e \in Extensions : drainResult[e] \in {"rejected", "timedOut"}

\* ApplicationShutdownError with safeCleanupBoundaryReached = false: nothing is
\* cleaned up, and retryAfter waits for the executions and the drains that are
\* still in the map.
GiveUp ==
    /\ attempt' = "none"
    /\ outcome' = "unsafe"
    /\ awaited' = {e \in Extensions : drainOp[e] = "pending"}
    /\ waiters' = (waiters \ {"attempt"}) \union (IF Active = {} THEN {} ELSE {"retry"})
    /\ UNCHANGED <<drainOp, due>>

\* Fault: a drain that timed out is not looked at again.
AtBoundaryAnyway ==
    /\ attempt' = "cleanup"
    /\ drainOp' = [e \in Extensions |-> "absent"]
    /\ due' = CleanupCalls
    /\ UNCHANGED <<waiters, awaited, outcome>>

\* The safe cleanup boundary: nothing executes and no drain that timed out is
\* still pending.
AtBoundary ==
    IF \E e \in Extensions : drainResult[e] = "timedOut" /\ drainOp[e] = "pending"
    THEN GiveUp
    ELSE /\ attempt' = "cleanup"
         /\ drainOp' = [e \in Extensions |-> "absent"]
         /\ due' = CleanupCalls
         /\ UNCHANGED <<waiters, awaited, outcome>>

\* Fault: a failed drain aborts no lease.
DrainsSettledGently ==
    /\ attempt = "draining"
    /\ \A e \in Extensions : drainResult[e] # "waiting"
    /\ IF Active = {}
       THEN AtBoundary
       ELSE /\ attempt' = "awaitIdle"
            /\ waiters' = waiters \union {"attempt"}
            /\ UNCHANGED <<drainOp, due, awaited, outcome>>
    /\ UNCHANGED <<state, initVars, drainRuns, drainResult, lease, calls, failed>>

\* Promise.allSettled(drains); a failed drain aborts the leases that remain.
DrainsSettled ==
    /\ attempt = "draining"
    /\ \A e \in Extensions : drainResult[e] # "waiting"
    /\ IF Active = {}
       THEN AtBoundary /\ UNCHANGED lease
       ELSE /\ attempt' = "awaitIdle"
            /\ waiters' = waiters \union {"attempt"}
            /\ lease' = [l \in Leases |->
                   IF DrainFailed /\ lease[l] = "active" THEN "aborted" ELSE lease[l]]
            /\ UNCHANGED <<drainOp, due, awaited, outcome>>
    /\ UNCHANGED <<state, initVars, drainRuns, drainResult, calls, failed>>

IdleReached ==
    /\ attempt = "awaitIdle" /\ "attempt" \notin waiters
    /\ AtBoundary
    /\ UNCHANGED <<state, initVars, drainRuns, drainResult, lease, calls, failed>>

\* Fault: waiting for idle has no timeout.
IdleWithoutTimeout == FALSE

IdleTimeout ==
    /\ attempt = "awaitIdle" /\ "attempt" \in waiters
    /\ GiveUp
    /\ UNCHANGED <<state, initVars, drainRuns, drainResult, lease, calls, failed>>

\* Extension close(), #cleanupProviders and #disposeProviders, one call at a time.
CleanupCall ==
    /\ attempt = "cleanup"
    /\ \E call \in NextCalls(FALSE) :
           /\ due' = due \ {call}
           /\ calls' = Append(calls, call)
           /\ Construct(MissingFor(call))
    /\ failed' \in {failed, TRUE}
    /\ UNCHANGED <<state, stage, modAt, building, inited, initModules, runtimes,
                   attempt, drainVars, leaseVars, awaited, outcome>>

CleanupDone ==
    /\ attempt = "cleanup" /\ due = {}
    /\ state' = "stopped"
    /\ attempt' = "instrument"
    /\ UNCHANGED <<initVars, drainVars, leaseVars, awaited, callVars, outcome>>

InstrumentationClosed ==
    /\ attempt = "instrument"
    /\ calls' = Append(calls, InstrumentationClose)
    /\ attempt' = "none"
    /\ outcome' = IF failed \/ DrainFailed THEN "failed" ELSE "resolved"
    /\ UNCHANGED <<state, initVars, drainVars, leaseVars, awaited, due, failed>>

-----------------------------------------------------------------------------
InitializeNext ==
    \/ BindInputs \/ InputsMissing
    \/ ResolveDependency \/ CreateProvider \/ ResolutionFails
    \/ InitInstance \/ InitInstanceFails \/ ResolveNext
    \/ InitModule \/ InitModuleFails \/ Bootstrap
    \/ CreateRuntime \/ Run \/ StartupFails
    \/ RollbackCall \/ RollbackDone

ExecutionNext == \E l \in Leases : Begin(l) \/ Complete(l)

ShutdownCall == ShutdownDuringInit \/ ShutdownUnstarted \/ Shutdown

ShutdownNext ==
    \/ InitSettled \/ DrainsSettled \/ IdleReached \/ IdleTimeout
    \/ CleanupCall \/ CleanupDone \/ InstrumentationClosed
    \/ \E e \in Extensions : DrainTimeout(e)

DrainNext == \E e \in Extensions, ok \in BOOLEAN : DrainSettles(e, ok)

Next ==
    Initialize \/ InitializeNext \/ ExecutionNext \/ ShutdownCall \/ ShutdownNext \/ DrainNext

Spec == Init /\ [][Next]_vars

-----------------------------------------------------------------------------
(* Fairness.  Lifecycle hooks, the kernel's own continuations and its      *)
(* timers make progress; nothing is assumed of drains and leases.          *)
KernelFairness ==
    /\ WF_vars(InitializeNext)
    /\ WF_vars(ShutdownNext)

FairSpec == Spec /\ KernelFairness

\* retryAfter of the last unsafe attempt has settled.
RetryReady == outcome = "unsafe" /\ "retry" \notin waiters /\ awaited = {}

\* What a host may add: the signal handler's loop (runtime/shutdown-hooks.ts:58-80)
\* retries once retryAfter settles, executions complete, and a drain that is
\* retried again and again does not fail for ever.
RetryFairness ==
    /\ WF_vars(RetryReady /\ Shutdown)
    /\ \A l \in Leases : WF_vars(Complete(l))
    /\ \A e \in Extensions : SF_vars(DrainSettles(e, TRUE))

-----------------------------------------------------------------------------
(* Properties                                                              *)

TypeOK ==
    /\ state \in {"created", "initializing", "running", "draining", "stopped"}
    /\ stage \in {"none", "inputs", "providers", "bootstrap", "extensions", "rollback", "done"}
    /\ modAt \in 0 .. NumModules
    /\ stage \in {"none", "inputs", "providers"} => modAt \in Modules
    /\ building \in Seq(Providers)
    /\ created \in Seq(Providers)
    /\ inited \in 0 .. Len(created)
    /\ initModules \subseteq Modules
    /\ runtimes \subseteq Extensions
    /\ attempt \in {"none", "awaitInit", "draining", "awaitIdle", "cleanup", "instrument"}
    /\ drainOp \in [Extensions -> {"absent", "pending", "fulfilled"}]
    /\ drainRuns \in [Extensions -> Nat]
    /\ drainResult \in [Extensions -> {"none", "waiting", "fulfilled", "rejected", "timedOut"}]
    /\ lease \in [Leases -> {"unused", "active", "aborted", "completed"}]
    /\ waiters \subseteq {"attempt", "retry"}
    /\ awaited \subseteq Extensions
    /\ due \subseteq Calls
    /\ calls \in Seq(Calls)
    /\ failed \in BOOLEAN
    /\ outcome \in {"none", "resolved", "unsafe", "failed"}

\* The safe cleanup boundary: from the first extension close() or provider
\* cleanup call on, no execution is active and no drain() is still running, so
\* nothing uses what is being torn down.
Cleaning == attempt = "cleanup" \/ stage = "rollback"

SafeCleanupBoundary ==
    Cleaning \/ calls # <<>> =>
        /\ Active = {}
        /\ \A e \in Extensions : drainRuns[e] = 0

\* Retrying a shutdown never re-enters a drain() that has not settled.
NoConcurrentDrain == \A e \in Extensions : drainRuns[e] <= 1

\* Across failed, repeated and joined shutdowns and rollbacks, every lifecycle
\* call is made at most once.
CallsMadeOnce == \A i, j \in DOMAIN calls : calls[i] = calls[j] => i = j

\* Once stopped, whatever was built has been released: every instance and every
\* initialized module was destroyed and disposed, every runtime closed.
StoppedReleasesAll ==
    state = "stopped" =>
        /\ \A p \in CreatedSet :
               /\ Made(<<"onModuleDestroy", "instance", p>>)
               /\ Made(<<"onApplicationDispose", "instance", p>>)
        /\ \A m \in initModules :
               /\ Made(<<"onModuleDestroy", "module", m>>)
               /\ Made(<<"onApplicationDispose", "module", m>>)
        /\ \A e \in runtimes \cap HasClose : Made(<<"close", "extension", e>>)

\* An instance never outlives, in any phase, what was injected into it: its
\* dependencies get the call after it does.  The logger is exempt from the
\* module order and keeps working until the dispose phase.
DependentsFirst ==
    \A p \in CreatedSet : \A q \in Deps[p] : \A phase \in Phases :
        (phase = "onApplicationDispose" \/ q # Logger) =>
            \A i, j \in DOMAIN calls :
                calls[i] = <<phase, "instance", p>> /\ calls[j] = <<phase, "instance", q>>
                    => i < j

\* Extension runtimes, which use providers, are closed before any of them is
\* cleaned up, and no phase starts before the previous one is over.
PhasesInOrder ==
    \A i, j \in DOMAIN calls :
        i < j => PhaseRank[calls[i][1]] <= PhaseRank[calls[j][1]]

\* Both, whatever failed before and however often shutdown was called.
CleanupOrder == DependentsFirst /\ PhasesInOrder

\* Resolving what a cleanup hook injects never constructs a provider that
\* initialization had not reached (the hooks of such modules do not run).
CleanupConstructsNothing == [][Cleaning => created' = created]_vars

\* ExecutionTracker loses no wake-up: somebody waits for idle only while an
\* execution is active.
NoLostIdleWakeup == waiters # {} => Active # {}

\* A failed drain costs the executions their graceful completion: while the
\* kernel waits for idle after one, every remaining lease has been aborted.
FailedDrainAborts ==
    attempt = "awaitIdle" /\ DrainFailed => \A l \in Active : lease[l] = "aborted"

\* The kernel implements the contract of AppLifecycle: a lease is a piece of
\* work, cleanup and rollback are the release, and a failed attempt is nothing.
Phase ==
    IF Cleaning THEN "releasing"
    ELSE CASE state = "created"      -> "created"
           [] state = "initializing" -> "starting"
           [] state = "running"      -> "open"
           [] state = "draining"     -> "closing"
           [] OTHER                  -> "closed"

Lifecycle == INSTANCE AppLifecycle WITH phase <- Phase, work <- Active

ImplementsLifecycle == Lifecycle!Spec

\* A shutdown attempt ends whatever drains and executions do, as the timeouts
\* bound every wait on them; and retrying when retryAfter settles completes the
\* shutdown.
ShutdownEnds ==
    /\ attempt # "none" ~> attempt = "none"
    /\ RetryFairness => (state = "draining" ~> state = "stopped")

=============================================================================
