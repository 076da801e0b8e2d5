---------------------------- MODULE KernelProofs ----------------------------
(***************************************************************************)
(* Machine-checked proofs about Kernel, for every application model.       *)
(***************************************************************************)
EXTENDS Kernel, TLAPS, FiniteSetTheorems

(* The inductive invariant.                                                *)

\* Where the initializer, the shutdown attempt and #state are, together.
ControlInv ==
    /\ stage = "rollback" => state = "initializing"
    /\ state = "initializing" <=> stage \notin {"none", "done"}
    /\ attempt \in {"draining", "awaitIdle", "cleanup"} => state = "draining"
    /\ attempt = "instrument" => state = "stopped"
    /\ attempt = "awaitInit" => state \in {"initializing", "running", "stopped"}
    /\ state \in {"running", "draining"} => stage = "done"
    /\ calls # <<>> => stage = "rollback" \/ attempt = "cleanup" \/ state = "stopped"

\* One runtime.drain() call per pending operation; none before a shutdown
\* begins, and none once it has passed the boundary.
DrainInv ==
    /\ \A e \in Extensions : drainRuns[e] = IF drainOp[e] = "pending" THEN 1 ELSE 0
    /\ \A e \in Extensions : drainOp[e] = "pending" => e \in runtimes \cap HasDrain
    /\ state \in {"created", "initializing", "running"} \/ attempt = "cleanup"
           \/ state = "stopped" => \A e \in Extensions : drainOp[e] # "pending"
    /\ attempt \in {"draining", "awaitIdle"} =>
           \A e \in Extensions :
               drainOp[e] = "pending" => drainResult[e] \in {"waiting", "timedOut"}
    /\ attempt = "awaitIdle" => \A e \in Extensions : drainResult[e] # "waiting"

\* No lease outside running and draining; whoever waits for idle is woken.
LeaseInv ==
    /\ state \in {"created", "initializing", "stopped"} \/ attempt = "cleanup" => Active = {}
    /\ waiters # {} => Active # {}
    /\ attempt = "awaitIdle" /\ "attempt" \notin waiters => Active = {}

BoundaryInv == TypeOK /\ ControlInv /\ DrainInv /\ LeaseInv

-----------------------------------------------------------------------------
(* Lemmas about the operators of Kernel.                                   *)

\* A set of providers is finite: it can be laid out as a sequence.
LEMMA FiniteProviders ==
    ASSUME NEW S \in SUBSET Providers
    PROVE  IsFiniteSet(S) /\ Cardinality(S) \in Nat
<1>1. IsFiniteSet(Providers)
  BY FS_Interval, SizesAssumption DEF Providers
<1> QED
  BY <1>1, FS_Subset, FS_CardinalityType

\* Resolving the providers a hook lacks only appends providers.
LEMMA ConstructAppends ==
    ASSUME created \in Seq(Providers), NEW S \in SUBSET Providers, Construct(S)
    PROVE  /\ created' \in Seq(Providers)
           /\ Len(created') >= Len(created)
           /\ S = {} => created' = created
<1>1. PICK order \in Bijection(1 .. Cardinality(S), S) : created' = created \o order
  BY DEF Construct
<1>2. order \in [1 .. Cardinality(S) -> S]
  BY DEF Bijection, Injection
<1>3. Cardinality(S) \in Nat
  BY FiniteProviders
<1>4. order \in Seq(Providers) /\ Len(order) = Cardinality(S)
  BY <1>2, <1>3
<1>5. ASSUME S = {} PROVE order = <<>>
  <2>1. Cardinality(S) = 0
    BY <1>5, FS_EmptySet
  <2> QED
    BY <2>1, <1>4
<1> QED
  BY <1>1, <1>3, <1>4, <1>5

\* The calls rollback and cleanup plan are lifecycle calls.
LEMMA PlannedCalls ==
    created \in Seq(Providers) /\ initModules \subseteq Modules /\ runtimes \subseteq Extensions
        => RollbackCalls \subseteq Calls /\ CleanupCalls \subseteq Calls
<1> SUFFICES ASSUME created \in Seq(Providers), initModules \subseteq Modules,
                    runtimes \subseteq Extensions
             PROVE  RollbackCalls \subseteq Calls /\ CleanupCalls \subseteq Calls
  OBVIOUS
<1>1. Phases = {"close", "onModuleDestroy", "beforeApplicationShutdown",
                "onApplicationShutdown", "onApplicationDispose", "closeInstrumentation"}
  BY DEF Phases, PhaseRank
<1>2. CreatedSet \subseteq Providers
  BY DEF CreatedSet
<1>3. ExtensionCloses \subseteq Calls
  BY <1>1, <1>2 DEF ExtensionCloses, Calls
<1>4. ASSUME NEW P \in SUBSET Phases
      PROVE  ProviderCalls(P) \subseteq Calls
  BY <1>2 DEF ProviderCalls, Calls
<1>5. RollbackCalls \subseteq Calls
  BY <1>1, <1>3, <1>4 DEF RollbackCalls
<1>6. CleanupCalls \subseteq Calls
  BY <1>3, <1>4 DEF CleanupCalls
<1> QED
  BY <1>5, <1>6

\* What a hook lacks is a set of providers (Container.resolve of its tokens).
LEMMA MissingProviders ==
    ASSUME NEW call \in Calls
    PROVE  MissingFor(call) \in SUBSET Providers
<1>1. call[2] = "module" => call[3] \in Modules
  BY DEF Calls, InstrumentationClose
<1> QED
  BY <1>1, VisibilityAssumption DEF MissingFor

-----------------------------------------------------------------------------
(* Type correctness.                                                       *)

\* A kernel that was just constructed has the types of TypeOK.
LEMMA InitTyped == Init => TypeOK
<1> SUFFICES ASSUME Init PROVE TypeOK
  OBVIOUS
<1>1. modAt \in Modules /\ modAt \in 0 .. NumModules
  BY SizesAssumption DEF Init, Modules
<1>2. building \in Seq(Providers) /\ created \in Seq(Providers) /\ calls \in Seq(Calls)
  BY DEF Init
<1>3. inited \in 0 .. Len(created)
  BY DEF Init
<1> QED
  BY <1>1, <1>2, <1>3 DEF Init, TypeOK

\* Rollback plans its calls from what has been built so far.
LEMMA RollbackTyped ==
    ASSUME TypeOK, Rollback, Elsewhere, created' \in Seq(Providers),
           inited' \in 0 .. Len(created'), initModules' \subseteq Modules,
           runtimes' = runtimes
    PROVE  TypeOK'
<1>1. (created \in Seq(Providers) /\ initModules \subseteq Modules /\ runtimes \subseteq Extensions
          => RollbackCalls \subseteq Calls /\ CleanupCalls \subseteq Calls)'
  BY PlannedCalls, PTL
<1>2. due' \subseteq Calls
  BY <1>1 DEF Rollback, TypeOK
<1>3. building' \in Seq(Providers)
  BY DEF Rollback
<1> QED
  BY <1>2, <1>3 DEF TypeOK, Rollback, Elsewhere, drainVars, leaseVars

\* Every step of initialize(), and of its rollback, keeps the types.
LEMMA InitializeTyped == TypeOK /\ (Initialize \/ InitializeNext) => TypeOK'
<1> SUFFICES ASSUME TypeOK, Initialize \/ InitializeNext PROVE TypeOK'
  OBVIOUS
<1> USE DEF InitStep, Elsewhere, drainVars, leaseVars, callVars
<1>1. CASE Initialize
  BY <1>1 DEF Initialize, TypeOK
<1>2. CASE BindInputs
  <2>1. Logger \in Providers
    BY SizesAssumption
  <2>2. building' \in Seq(Providers)
    BY <1>2, <2>1 DEF BindInputs
  <2> QED
    BY <1>2, <2>2 DEF BindInputs, TypeOK
<1>3. CASE InputsMissing
  BY <1>3, RollbackTyped DEF InputsMissing, TypeOK
<1>4. CASE ResolveDependency
  <2>1. building' \in Seq(Providers)
    BY <1>4, VisibilityAssumption DEF ResolveDependency, TypeOK
  <2> QED
    BY <1>4, <2>1 DEF ResolveDependency, TypeOK
<1>5. CASE CreateProvider
  BY <1>5 DEF CreateProvider, TypeOK
<1>6. CASE ResolutionFails
  BY <1>6, RollbackTyped DEF ResolutionFails, TypeOK
<1>7. CASE InitInstance
  BY <1>7 DEF InitInstance, TypeOK
<1>8. CASE InitInstanceFails
  BY <1>8, RollbackTyped DEF InitInstanceFails, TypeOK
<1>9. CASE ResolveNext
  BY <1>9 DEF ResolveNext, Unresolved, TypeOK
<1>10. ASSUME AtModuleHook, Construct(MissingFor(<<"onModuleInit", "module", modAt>>))
       PROVE  modAt \in Modules /\ created' \in Seq(Providers) /\ Len(created') >= Len(created)
  <2>1. modAt \in Modules
    BY <1>10 DEF AtModuleHook, TypeOK
  <2>2. MissingFor(<<"onModuleInit", "module", modAt>>) \in SUBSET Providers
    BY <2>1, VisibilityAssumption DEF MissingFor
  <2> QED
    BY <1>10, <2>1, <2>2, ConstructAppends DEF TypeOK
<1>11. CASE InitModule
  <2>1. modAt \in Modules /\ created' \in Seq(Providers) /\ Len(created') >= Len(created)
    BY <1>10, <1>11 DEF InitModule
  <2>2. initModules' \subseteq Modules /\ inited' \in 0 .. Len(created')
    BY <1>11, <2>1 DEF InitModule, TypeOK
  <2>3. modAt' \in 0 .. NumModules
        /\ (stage' = "providers" => modAt' \in Modules)
        /\ stage' \in {"providers", "bootstrap"}
    BY <1>11, <2>1, SizesAssumption DEF InitModule, AtModuleHook, Modules, TypeOK
  <2> QED
    BY <1>11, <2>1, <2>2, <2>3 DEF InitModule, TypeOK
<1>12. CASE InitModuleFails
  <2>1. modAt \in Modules /\ created' \in Seq(Providers) /\ Len(created') >= Len(created)
    BY <1>10, <1>12 DEF InitModuleFails
  <2>2. initModules' \subseteq Modules /\ inited' \in 0 .. Len(created')
    BY <1>12, <2>1 DEF InitModuleFails, TypeOK
  <2> QED
    BY <1>12, <2>1, <2>2, RollbackTyped DEF InitModuleFails
<1>13. CASE Bootstrap
  BY <1>13, SizesAssumption DEF Bootstrap, Modules, TypeOK
<1>14. CASE CreateRuntime
  BY <1>14 DEF CreateRuntime, NextRuntime, TypeOK
<1>15. CASE Run
  BY <1>15 DEF Run, TypeOK
<1>16. CASE StartupFails
  BY <1>16, RollbackTyped DEF StartupFails, TypeOK
<1>17. CASE RollbackCall
  <2>1. PICK call \in due : /\ due' = due \ {call}
                            /\ calls' = Append(calls, call)
                            /\ Construct(MissingFor(call))
    BY <1>17 DEF RollbackCall, NextCalls
  <2>2. created' \in Seq(Providers) /\ Len(created') >= Len(created)
    BY <2>1, MissingProviders, ConstructAppends DEF TypeOK
  <2>3. due' \subseteq Calls /\ calls' \in Seq(Calls) /\ inited' \in 0 .. Len(created')
    BY <1>17, <2>1, <2>2 DEF RollbackCall, TypeOK
  <2> QED
    BY <1>17, <2>2, <2>3 DEF RollbackCall, TypeOK
<1>18. CASE RollbackDone
  <2>1. InstrumentationClose \in Calls
    BY DEF Calls
  <2> QED
    BY <1>18, <2>1 DEF RollbackDone, TypeOK
<1> QED
  BY <1>1, <1>2, <1>3, <1>4, <1>5, <1>6, <1>7, <1>8, <1>9, <1>11, <1>12, <1>13,
     <1>14, <1>15, <1>16, <1>17, <1>18 DEF InitializeNext

\* Beginning and completing an execution keeps the types.
LEMMA ExecutionTyped == TypeOK /\ ExecutionNext => TypeOK'
<1> SUFFICES ASSUME TypeOK, NEW l \in Leases, Begin(l) \/ Complete(l) PROVE TypeOK'
  BY DEF ExecutionNext
<1> USE DEF initVars, drainVars, callVars
<1>1. CASE Begin(l)
  BY <1>1 DEF Begin, TypeOK
<1>2. CASE Complete(l)
  <2>1. waiters' \subseteq {"attempt", "retry"}
    BY <1>2 DEF Complete, TypeOK
  <2>2. lease' \in [Leases -> {"unused", "active", "aborted", "completed"}]
    BY <1>2 DEF Complete, TypeOK
  <2> QED
    BY <1>2, <2>1, <2>2 DEF Complete, TypeOK
<1> QED
  BY <1>1, <1>2

\* Starting the drains keeps the types of the drain bookkeeping.
LEMMA BeginDrainTyped ==
    ASSUME TypeOK, BeginDrain
    PROVE  /\ state' = "draining" /\ attempt' = "draining" /\ failed' = FALSE
           /\ drainOp' \in [Extensions -> {"absent", "pending", "fulfilled"}]
           /\ drainRuns' \in [Extensions -> Nat]
           /\ drainResult' \in
                  [Extensions -> {"none", "waiting", "fulfilled", "rejected", "timedOut"}]
BY DEF BeginDrain, TypeOK

\* Crossing the safe boundary, or giving up before it, keeps the types.
LEMMA BoundaryTyped ==
    ASSUME TypeOK, AtBoundary \/ GiveUp
    PROVE  /\ attempt' \in {"none", "cleanup"}
           /\ drainOp' \in [Extensions -> {"absent", "pending", "fulfilled"}]
           /\ due' \subseteq Calls
           /\ waiters' \subseteq {"attempt", "retry"}
           /\ awaited' \subseteq Extensions
           /\ outcome' \in {"none", "resolved", "unsafe", "failed"}
<1>1. CleanupCalls \subseteq Calls
  BY PlannedCalls DEF TypeOK
<1> QED
  BY <1>1 DEF AtBoundary, GiveUp, TypeOK

\* Every step of shutdown() keeps the types.
LEMMA ShutdownTyped == TypeOK /\ (ShutdownCall \/ ShutdownNext) => TypeOK'
<1> SUFFICES ASSUME TypeOK, ShutdownCall \/ ShutdownNext PROVE TypeOK'
  OBVIOUS
<1> USE DEF initVars, drainVars, leaseVars, callVars
<1>1. CASE ShutdownDuringInit
  BY <1>1 DEF ShutdownDuringInit, TypeOK
<1>2. CASE ShutdownUnstarted
  BY <1>2 DEF ShutdownUnstarted, TypeOK
<1>3. CASE Shutdown
  BY <1>3, BeginDrainTyped DEF Shutdown, TypeOK
<1>4. CASE InitSettled
  BY <1>4, BeginDrainTyped DEF InitSettled, TypeOK
<1>5. CASE DrainsSettled
  <2>1. CASE Active = {}
    BY <1>5, <2>1, BoundaryTyped DEF DrainsSettled, TypeOK
  <2>2. CASE Active # {}
    BY <1>5, <2>2 DEF DrainsSettled, TypeOK
  <2> QED
    BY <2>1, <2>2
<1>6. CASE IdleReached
  BY <1>6, BoundaryTyped DEF IdleReached, TypeOK
<1>7. CASE IdleTimeout
  BY <1>7, BoundaryTyped DEF IdleTimeout, TypeOK
<1>8. CASE CleanupCall
  <2>1. PICK call \in due : /\ due' = due \ {call}
                            /\ calls' = Append(calls, call)
                            /\ Construct(MissingFor(call))
    BY <1>8 DEF CleanupCall, NextCalls
  <2>2. created' \in Seq(Providers) /\ Len(created') >= Len(created)
    BY <2>1, MissingProviders, ConstructAppends DEF TypeOK
  <2>3. due' \subseteq Calls /\ calls' \in Seq(Calls) /\ inited' \in 0 .. Len(created')
    BY <1>8, <2>1, <2>2 DEF CleanupCall, TypeOK
  <2>4. failed' \in BOOLEAN
    BY <1>8 DEF CleanupCall, TypeOK
  <2> QED
    BY <1>8, <2>2, <2>3, <2>4 DEF CleanupCall, TypeOK
<1>9. CASE CleanupDone
  BY <1>9 DEF CleanupDone, TypeOK
<1>10. CASE InstrumentationClosed
  <2>1. InstrumentationClose \in Calls
    BY DEF Calls
  <2> QED
    BY <1>10, <2>1 DEF InstrumentationClosed, TypeOK
<1>11. ASSUME NEW e \in Extensions, DrainTimeout(e) PROVE TypeOK'
  BY <1>11 DEF DrainTimeout, TypeOK
<1> QED
  BY <1>1, <1>2, <1>3, <1>4, <1>5, <1>6, <1>7, <1>8, <1>9, <1>10, <1>11
     DEF ShutdownCall, ShutdownNext

\* A drain that settles keeps the types.
LEMMA DrainTyped == TypeOK /\ DrainNext => TypeOK'
<1> SUFFICES ASSUME TypeOK, NEW e \in Extensions, NEW ok \in BOOLEAN, DrainSettles(e, ok)
             PROVE  TypeOK'
  BY DEF DrainNext
<1>1. drainRuns[e] - 1 \in Nat
  BY DEF DrainSettles, TypeOK
<1> QED
  BY <1>1 DEF DrainSettles, TypeOK, initVars, leaseVars, callVars

\* Every variable keeps its type.
\* TypeOK: every variable of the kernel keeps its type in every behaviour.
THEOREM TypeCorrect == Spec => []TypeOK
<1>1. Init => TypeOK
  BY InitTyped
<1>2. TypeOK /\ [Next]_vars => TypeOK'
  <2>1. TypeOK /\ UNCHANGED vars => TypeOK'
    BY DEF vars, initVars, drainVars, leaseVars, callVars, TypeOK
  <2> QED
    BY <2>1, InitializeTyped, ExecutionTyped, ShutdownTyped, DrainTyped DEF Next
<1> QED
  BY <1>1, <1>2, PTL DEF Spec

-----------------------------------------------------------------------------
(* The safe cleanup boundary.                                              *)

\* A kernel that was just constructed satisfies the boundary invariant.
LEMMA InitBoundary == Init => BoundaryInv
<1> SUFFICES ASSUME Init PROVE BoundaryInv
  OBVIOUS
<1>1. ControlInv
  BY DEF Init, ControlInv
<1>2. DrainInv
  BY DEF Init, DrainInv
<1>3. LeaseInv
  BY DEF Init, LeaseInv, Active
<1> QED
  BY <1>1, <1>2, <1>3, InitTyped DEF BoundaryInv

\* While initializing, only the initializer's own variables change.
LEMMA InitializeBoundary == BoundaryInv /\ (Initialize \/ InitializeNext) => BoundaryInv'
<1> SUFFICES ASSUME BoundaryInv, Initialize \/ InitializeNext PROVE BoundaryInv'
  OBVIOUS
<1> USE DEF Initialize, InitializeNext, InitStep, Elsewhere, drainVars, leaseVars, callVars
<1>1. UNCHANGED <<attempt, drainOp, drainRuns, drainResult, lease, waiters>>
  BY DEF BindInputs, InputsMissing, ResolveDependency, CreateProvider, ResolutionFails,
         InitInstance, InitInstanceFails, ResolveNext, InitModule, InitModuleFails,
         Bootstrap, CreateRuntime, Run, StartupFails, RollbackCall, RollbackDone
<1>2. /\ state \in {"created", "initializing"}
      /\ state' \in {"initializing", "running", "stopped"}
      /\ state' = "initializing" <=> stage' \notin {"none", "done"}
      /\ stage' = "rollback" => state' = "initializing"
      /\ state' = "running" => stage' = "done"
      /\ calls' # <<>> => stage' = "rollback" \/ state' = "stopped"
  <2>1. calls # <<>> => stage = "rollback"
    BY DEF BoundaryInv, ControlInv, AtModuleHook, TypeOK,
           BindInputs, InputsMissing, ResolveDependency, CreateProvider, ResolutionFails,
           InitInstance, InitInstanceFails, ResolveNext, InitModule, InitModuleFails,
           Bootstrap, CreateRuntime, Run, StartupFails, RollbackCall, RollbackDone
  <2> QED
    BY <2>1 DEF BoundaryInv, ControlInv, AtModuleHook, Rollback, TypeOK,
           BindInputs, InputsMissing, ResolveDependency, CreateProvider, ResolutionFails,
           InitInstance, InitInstanceFails, ResolveNext, InitModule, InitModuleFails,
           Bootstrap, CreateRuntime, Run, StartupFails, RollbackCall, RollbackDone
<1>3. ControlInv'
  BY <1>1, <1>2 DEF BoundaryInv, ControlInv
<1>4. DrainInv'
  BY <1>1, <1>2 DEF BoundaryInv, ControlInv, DrainInv
<1>5. LeaseInv'
  BY <1>1, <1>2 DEF BoundaryInv, ControlInv, LeaseInv, Active
<1> QED
  BY <1>3, <1>4, <1>5, InitializeTyped DEF BoundaryInv

\* A lease begins only while running, and the last to complete wakes the waiters.
LEMMA ExecutionBoundary == BoundaryInv /\ ExecutionNext => BoundaryInv'
<1> SUFFICES ASSUME BoundaryInv, NEW l \in Leases, Begin(l) \/ Complete(l)
             PROVE  BoundaryInv'
  BY DEF ExecutionNext
<1> USE DEF initVars, drainVars, callVars
<1>1. ControlInv' /\ DrainInv'
  BY DEF BoundaryInv, ControlInv, DrainInv, Begin, Complete
<1>2. LeaseInv'
  <2>1. CASE Begin(l)
    <3>1. Active' = Active \union {l}
      BY <2>1 DEF Begin, Active, BoundaryInv, TypeOK
    <3> QED
      BY <2>1, <3>1 DEF Begin, BoundaryInv, ControlInv, LeaseInv
  <2>2. CASE Complete(l)
    <3>1. Active' = Active \ {l}
      BY <2>2 DEF Complete, Active, BoundaryInv, TypeOK
    <3> QED
      BY <2>2, <3>1 DEF Complete, BoundaryInv, LeaseInv
  <2> QED
    BY <2>1, <2>2
<1> QED
  BY <1>1, <1>2, ExecutionTyped DEF BoundaryInv, ExecutionNext

\* Starting the drains leaves exactly one call running per pending operation.
LEMMA BeginDrainBoundary ==
    ASSUME BoundaryInv, BeginDrain, state \in {"running", "draining"},
           attempt \in {"none", "awaitInit"}, UNCHANGED <<initVars, leaseVars, calls>>
    PROVE  ControlInv' /\ DrainInv' /\ LeaseInv'
<1> USE DEF initVars, leaseVars
<1>1. ControlInv'
  BY DEF BoundaryInv, ControlInv, BeginDrain
<1>2. DrainInv'
  BY DEF BoundaryInv, TypeOK, DrainInv, BeginDrain, Draining
<1>3. LeaseInv'
  BY DEF BoundaryInv, LeaseInv, BeginDrain, Active
<1> QED
  BY <1>1, <1>2, <1>3

\* With no active execution, either some timed-out drain is pending and the
\* attempt gives up, or no drain is pending at all.
LEMMA AtBoundaryBoundary ==
    ASSUME BoundaryInv, AtBoundary, Active = {}, attempt \in {"draining", "awaitIdle"},
           \A e \in Extensions : drainResult[e] # "waiting",
           UNCHANGED <<state, initVars, drainRuns, drainResult, lease, calls>>
    PROVE  ControlInv' /\ DrainInv' /\ LeaseInv'
<1> USE DEF initVars
<1>1. Active' = {}
  BY DEF Active
<1>2. waiters = {}
  BY DEF BoundaryInv, LeaseInv
<1>5. waiters' = {}
  BY <1>2 DEF AtBoundary, GiveUp
<1>3. CASE \E e \in Extensions : drainResult[e] = "timedOut" /\ drainOp[e] = "pending"
  BY <1>1, <1>3, <1>5 DEF AtBoundary, GiveUp, BoundaryInv, ControlInv, DrainInv, LeaseInv
<1>4. CASE ~\E e \in Extensions : drainResult[e] = "timedOut" /\ drainOp[e] = "pending"
  <2>1. \A e \in Extensions : drainOp[e] # "pending" /\ drainRuns[e] = 0
    BY <1>4 DEF BoundaryInv, DrainInv
  <2> QED
    BY <1>1, <1>4, <1>5, <2>1
       DEF AtBoundary, BoundaryInv, ControlInv, DrainInv, LeaseInv
<1> QED
  BY <1>3, <1>4

\* Shutdown cleans up only across the boundary, and keeps its invariant.
LEMMA ShutdownBoundary == BoundaryInv /\ (ShutdownCall \/ ShutdownNext) => BoundaryInv'
<1> SUFFICES ASSUME BoundaryInv, ShutdownCall \/ ShutdownNext
             PROVE  ControlInv' /\ DrainInv' /\ LeaseInv'
  BY ShutdownTyped DEF BoundaryInv
<1> USE DEF initVars, drainVars, leaseVars, callVars
<1>1. CASE ShutdownDuringInit
  BY <1>1 DEF ShutdownDuringInit, BoundaryInv, ControlInv, DrainInv, LeaseInv, Active
<1>2. CASE ShutdownUnstarted
  BY <1>2 DEF ShutdownUnstarted, BoundaryInv, ControlInv, DrainInv, LeaseInv, Active
<1>3. CASE Shutdown
  BY <1>3, BeginDrainBoundary DEF Shutdown
<1>4. CASE InitSettled
  <2>1. CASE state = "running"
    BY <1>4, <2>1, BeginDrainBoundary DEF InitSettled
  <2>2. CASE state = "stopped"
    BY <1>4, <2>2 DEF InitSettled, BoundaryInv, ControlInv, DrainInv, LeaseInv, Active
  <2> QED
    BY <1>4, <2>1, <2>2 DEF InitSettled
<1>5. CASE DrainsSettled
  <2>1. CASE Active = {}
    BY <1>5, <2>1, AtBoundaryBoundary DEF DrainsSettled
  <2>2. CASE Active # {}
    <3>1. Active' = Active
      BY <1>5, <2>2 DEF DrainsSettled, Active, BoundaryInv, TypeOK
    <3> QED
      BY <1>5, <2>2, <3>1 DEF DrainsSettled, BoundaryInv, ControlInv, DrainInv, LeaseInv
  <2> QED
    BY <2>1, <2>2
<1>6. CASE IdleReached
  BY <1>6, AtBoundaryBoundary DEF IdleReached, BoundaryInv, LeaseInv, DrainInv
<1>7. CASE IdleTimeout
  BY <1>7 DEF IdleTimeout, GiveUp, BoundaryInv, ControlInv, DrainInv, LeaseInv, Active
<1>8. CASE CleanupCall
  BY <1>8 DEF CleanupCall, BoundaryInv, ControlInv, DrainInv, LeaseInv, Active
<1>9. CASE CleanupDone
  BY <1>9 DEF CleanupDone, BoundaryInv, ControlInv, DrainInv, LeaseInv, Active
<1>10. CASE InstrumentationClosed
  BY <1>10 DEF InstrumentationClosed, BoundaryInv, ControlInv, DrainInv, LeaseInv, Active
<1>11. ASSUME NEW e \in Extensions, DrainTimeout(e)
       PROVE  ControlInv' /\ DrainInv' /\ LeaseInv'
  BY <1>11 DEF DrainTimeout, BoundaryInv, TypeOK, ControlInv, DrainInv, LeaseInv, Active
<1> QED
  BY <1>1, <1>2, <1>3, <1>4, <1>5, <1>6, <1>7, <1>8, <1>9, <1>10, <1>11
     DEF ShutdownCall, ShutdownNext

\* A drain that settles was the one call its pending operation stands for.
LEMMA DrainBoundary == BoundaryInv /\ DrainNext => BoundaryInv'
<1> SUFFICES ASSUME BoundaryInv, NEW e \in Extensions, NEW ok \in BOOLEAN,
                    DrainSettles(e, ok)
             PROVE  BoundaryInv'
  BY DEF DrainNext
<1> USE DEF initVars, leaseVars, callVars
<1>1. drainOp[e] = "pending" /\ drainRuns[e] = 1
  BY DEF DrainSettles, BoundaryInv, DrainInv
<1>2. drainOp'[e] # "pending" /\ drainRuns'[e] = 0
  BY <1>1 DEF DrainSettles, BoundaryInv, TypeOK
<1>3. \A f \in Extensions \ {e} :
          /\ drainOp'[f] = drainOp[f]
          /\ drainRuns'[f] = drainRuns[f]
          /\ drainResult'[f] = drainResult[f]
  BY DEF DrainSettles, BoundaryInv, TypeOK
<1>4. drainResult[e] # "waiting" => drainResult'[e] # "waiting"
  BY DEF DrainSettles, BoundaryInv, TypeOK
<1>5. ControlInv' /\ LeaseInv'
  BY DEF DrainSettles, BoundaryInv, ControlInv, LeaseInv, Active
<1>6. DrainInv'
  BY <1>2, <1>3, <1>4 DEF DrainSettles, BoundaryInv, DrainInv
<1> QED
  BY <1>5, <1>6, DrainTyped DEF BoundaryInv, DrainNext

\* BoundaryInv: state, stage and attempt agree, the executions and drains that
\* are still running are accounted for, and waiters exist only with executions.
THEOREM BoundaryInductive == Spec => []BoundaryInv
<1>1. BoundaryInv /\ [Next]_vars => BoundaryInv'
  <2>1. BoundaryInv /\ UNCHANGED vars => BoundaryInv'
    BY DEF vars, initVars, drainVars, leaseVars, callVars, BoundaryInv, TypeOK,
           ControlInv, DrainInv, LeaseInv, Active
  <2> QED
    BY <2>1, InitializeBoundary, ExecutionBoundary, ShutdownBoundary, DrainBoundary DEF Next
<1> QED
  BY InitBoundary, <1>1, PTL DEF Spec

\* Nothing is torn down while an execution or a drain may still use it.
THEOREM CleanupIsSafe == Spec => []SafeCleanupBoundary
<1>1. BoundaryInv => SafeCleanupBoundary
  BY DEF BoundaryInv, ControlInv, DrainInv, LeaseInv, SafeCleanupBoundary, Cleaning
<1> QED
  BY <1>1, BoundaryInductive, PTL

\* A drain() still running is never entered a second time.
THEOREM DrainsAreNotReentered == Spec => []NoConcurrentDrain
<1>1. BoundaryInv => NoConcurrentDrain
  BY DEF BoundaryInv, DrainInv, NoConcurrentDrain
<1> QED
  BY <1>1, BoundaryInductive, PTL

\* Somebody waits for idle only while an execution is active.
THEOREM IdleWakeupsAreNotLost == Spec => []NoLostIdleWakeup
<1>1. BoundaryInv => NoLostIdleWakeup
  BY DEF BoundaryInv, LeaseInv, NoLostIdleWakeup
<1> QED
  BY <1>1, BoundaryInductive, PTL

\* A failed drain costs the remaining executions their graceful completion: none
\* begins, and no drain changes its verdict, while the kernel waits for idle.
THEOREM FailedDrainsAbortLeases == Spec => []FailedDrainAborts
<1>1. Init => FailedDrainAborts
  BY DEF Init, FailedDrainAborts
<1>2. BoundaryInv /\ FailedDrainAborts /\ [Next]_vars => FailedDrainAborts'
  <2> SUFFICES ASSUME BoundaryInv, FailedDrainAborts, [Next]_vars,
                      attempt' = "awaitIdle", DrainFailed'
               PROVE  \A l \in Active' : lease'[l] = "aborted"
    BY DEF FailedDrainAborts
  <2>1. CASE DrainsSettled
    <3>1. DrainFailed /\ Active # {}
      BY <2>1 DEF DrainsSettled, AtBoundary, GiveUp, DrainFailed
    <3> QED
      BY <2>1, <3>1 DEF DrainsSettled, Active
  <2>2. CASE attempt = "awaitIdle" /\ UNCHANGED <<lease, drainResult>>
    BY <2>2 DEF FailedDrainAborts, DrainFailed, Active
  <2>3. ASSUME attempt = "awaitIdle", NEW l \in Leases, Complete(l)
        PROVE  \A k \in Active' : lease'[k] = "aborted"
    BY <2>3 DEF Complete, drainVars, FailedDrainAborts, DrainFailed, Active,
                BoundaryInv, TypeOK
  <2>4. ASSUME NEW e \in Extensions, NEW ok \in BOOLEAN, DrainSettles(e, ok)
        PROVE  \A k \in Active' : lease'[k] = "aborted"
    <3>1. attempt = "awaitIdle" /\ UNCHANGED lease
      BY <2>4 DEF DrainSettles, leaseVars
    <3>2. drainResult' = drainResult
      BY <2>4, <3>1 DEF DrainSettles, BoundaryInv, TypeOK, DrainInv
    <3> QED
      BY <2>2, <3>1, <3>2
  <2>5. CASE UNCHANGED vars
    BY <2>2, <2>5 DEF vars, drainVars, leaseVars
  <2>6. CASE Initialize \/ InitializeNext
    <3>1. UNCHANGED <<attempt, lease, drainResult>>
      BY <2>6 DEF Initialize, InitializeNext, InitStep, Elsewhere, drainVars, leaseVars,
             BindInputs, InputsMissing, ResolveDependency, CreateProvider, ResolutionFails,
             InitInstance, InitInstanceFails, ResolveNext, InitModule, InitModuleFails,
             Bootstrap, CreateRuntime, Run, StartupFails, RollbackCall, RollbackDone
    <3> QED
      BY <2>2, <3>1
  <2>7. ASSUME NEW l \in Leases, Begin(l) PROVE FALSE
    BY <2>7 DEF Begin, BoundaryInv, ControlInv
  <2>8. CASE ShutdownCall
    BY <2>8 DEF ShutdownCall, ShutdownDuringInit, ShutdownUnstarted, Shutdown, BeginDrain
  <2>9. CASE InitSettled \/ IdleReached \/ IdleTimeout \/ CleanupCall \/ CleanupDone
             \/ InstrumentationClosed
    BY <2>9 DEF InitSettled, BeginDrain, IdleReached, IdleTimeout, AtBoundary, GiveUp,
                CleanupCall, CleanupDone, InstrumentationClosed
  <2>10. ASSUME NEW e \in Extensions, DrainTimeout(e) PROVE FALSE
    BY <2>10 DEF DrainTimeout
  <2>11. CASE ExecutionNext
    <3>1. PICK l \in Leases : Begin(l) \/ Complete(l)
      BY <2>11 DEF ExecutionNext
    <3>2. attempt = "awaitIdle"
      BY <2>7, <3>1 DEF Complete, drainVars
    <3> QED
      BY <2>3, <2>7, <3>1, <3>2
  <2>12. CASE DrainNext
    BY <2>4, <2>12 DEF DrainNext
  <2>13. CASE ShutdownNext
    BY <2>1, <2>9, <2>10, <2>13 DEF ShutdownNext
  <2> QED
    BY <2>5, <2>6, <2>8, <2>11, <2>12, <2>13 DEF Next
<1> QED
  BY <1>1, <1>2, BoundaryInductive, PTL DEF Spec

-----------------------------------------------------------------------------
(* The kernel implements AppLifecycle.                                     *)

\* A kernel that was just constructed is a created application.
LEMMA InitImplements == Init => Lifecycle!Init
BY DEF Init, Lifecycle!Init, Phase, Cleaning, Active

\* Initialization is the starting of the application; a rollback releases it.
LEMMA InitializeImplements ==
    BoundaryInv /\ (Initialize \/ InitializeNext) => [Lifecycle!Next]_Lifecycle!vars
<1> SUFFICES ASSUME BoundaryInv, Initialize \/ InitializeNext
             PROVE  Lifecycle!Next \/ UNCHANGED <<Phase, Active>>
  BY DEF Lifecycle!vars
<1> USE DEF Initialize, InitializeNext, InitStep, Elsewhere, drainVars, leaseVars, callVars
<1>1. Active' = Active /\ attempt' = attempt
  BY DEF Active, BindInputs, InputsMissing, ResolveDependency, CreateProvider,
         ResolutionFails, InitInstance, InitInstanceFails, ResolveNext, InitModule,
         InitModuleFails, Bootstrap, CreateRuntime, Run, StartupFails, RollbackCall,
         RollbackDone
<1>2. attempt # "cleanup" /\ attempt' # "cleanup"
  <2>1. state \in {"created", "initializing"}
    BY DEF BoundaryInv, ControlInv, AtModuleHook, TypeOK,
           BindInputs, InputsMissing, ResolveDependency, CreateProvider, ResolutionFails,
           InitInstance, InitInstanceFails, ResolveNext, InitModule, InitModuleFails,
           Bootstrap, CreateRuntime, Run, StartupFails, RollbackCall, RollbackDone
  <2> QED
    BY <1>1, <2>1 DEF BoundaryInv, ControlInv
<1>3. \/ state = "created" /\ stage = "none" /\ state' = "initializing" /\ stage' = "inputs"
      \/ /\ state = "initializing" /\ stage # "rollback" /\ state' = state
         /\ stage' \in {"providers", "bootstrap", "extensions", "rollback"}
      \/ state = "initializing" /\ stage = "extensions" /\ state' = "running" /\ stage' = "done"
      \/ /\ state = "initializing" /\ stage = "rollback"
         /\ state' = state /\ stage' = stage
      \/ state = "initializing" /\ stage = "rollback" /\ state' = "stopped" /\ stage' = "done"
  <2> USE DEF BoundaryInv, ControlInv
  <2>1. CASE Initialize
    BY <2>1
  <2>2. CASE BindInputs \/ ResolveDependency \/ CreateProvider \/ InitInstance \/ ResolveNext
    BY <2>2 DEF BindInputs, ResolveDependency, CreateProvider, InitInstance, ResolveNext
  <2>3. CASE InitModule \/ Bootstrap \/ CreateRuntime \/ Run
    BY <2>3 DEF InitModule, AtModuleHook, Bootstrap, CreateRuntime, Run
  <2>4. CASE InputsMissing \/ ResolutionFails \/ InitInstanceFails \/ InitModuleFails
             \/ StartupFails
    BY <2>4 DEF InputsMissing, ResolutionFails, InitInstanceFails, InitModuleFails,
                AtModuleHook, StartupFails, Rollback
  <2>5. CASE RollbackCall \/ RollbackDone
    BY <2>5 DEF RollbackCall, RollbackDone
  <2> QED
    BY <2>1, <2>2, <2>3, <2>4, <2>5
<1>4. CASE state = "initializing" /\ state' = state
  <2>1. Phase = IF stage = "rollback" THEN "releasing" ELSE "starting"
    BY <1>2, <1>4 DEF Phase, Cleaning
  <2>2. Phase' = IF stage' = "rollback" THEN "releasing" ELSE "starting"
    BY <1>2, <1>4 DEF Phase, Cleaning
  <2> QED
    BY <1>1, <1>3, <1>4, <2>1, <2>2 DEF Lifecycle!Next, Lifecycle!Move
<1>5. CASE state # state'
  BY <1>1, <1>2, <1>3, <1>5 DEF Phase, Cleaning, Lifecycle!Next, Lifecycle!Move
<1> QED
  BY <1>3, <1>4, <1>5

\* A lease that begins or completes is work admitted or finished.
LEMMA ExecutionImplements ==
    BoundaryInv /\ ExecutionNext => [Lifecycle!Next]_Lifecycle!vars
<1> SUFFICES ASSUME BoundaryInv, NEW l \in Leases, Begin(l) \/ Complete(l)
             PROVE  Lifecycle!Next
  BY DEF ExecutionNext
<1> USE DEF initVars
<1>1. UNCHANGED Phase
  BY DEF Begin, Complete, Phase, Cleaning
<1>2. CASE Begin(l)
  <2>1. Active' = Active \union {l} /\ l \notin Active
    BY <1>2 DEF Begin, Active, BoundaryInv, TypeOK
  <2>2. Phase = "open"
    BY <1>2 DEF Begin, Phase, Cleaning, BoundaryInv, ControlInv
  <2>3. Lifecycle!Admit(l)
    BY <1>1, <2>1, <2>2 DEF Lifecycle!Admit
  <2> QED
    BY <2>3 DEF Lifecycle!Next
<1>3. CASE Complete(l)
  <2>1. Active' = Active \ {l} /\ l \in Active
    BY <1>3 DEF Complete, Active, BoundaryInv, TypeOK
  <2>2. Lifecycle!Finish(l)
    BY <1>1, <2>1 DEF Lifecycle!Finish
  <2> QED
    BY <2>2 DEF Lifecycle!Next
<1> QED
  BY <1>2, <1>3

\* Crossing the boundary is the release; giving up is a stuttering step.
LEMMA AtBoundaryImplements ==
    ASSUME BoundaryInv, AtBoundary, Active = {}, state = "draining", attempt # "cleanup",
           UNCHANGED <<state, initVars, lease>>
    PROVE  Lifecycle!Next \/ UNCHANGED <<Phase, Active>>
<1> USE DEF initVars
<1>1. Active' = {} /\ attempt' \in {"none", "cleanup"}
  BY DEF Active, AtBoundary, GiveUp
<1>2. stage # "rollback" /\ Phase = "closing"
  BY DEF BoundaryInv, ControlInv, Phase, Cleaning
<1>3. Phase' \in {"closing", "releasing"}
  BY <1>1, <1>2 DEF Phase, Cleaning
<1> QED
  BY <1>1, <1>2, <1>3 DEF Lifecycle!Next, Lifecycle!Release, Lifecycle!Move

\* Shutdown closes and releases the application, or does nothing visible.
LEMMA ShutdownImplements ==
    BoundaryInv /\ (ShutdownCall \/ ShutdownNext) => [Lifecycle!Next]_Lifecycle!vars
<1> SUFFICES ASSUME BoundaryInv, ShutdownCall \/ ShutdownNext
             PROVE  Lifecycle!Next \/ UNCHANGED <<Phase, Active>>
  BY DEF Lifecycle!vars
<1> USE DEF initVars, drainVars, leaseVars, callVars, Phase, Cleaning, Lifecycle!Move
<1>1. CASE ShutdownDuringInit
  BY <1>1 DEF ShutdownDuringInit, Active
<1>2. CASE ShutdownUnstarted
  BY <1>2 DEF ShutdownUnstarted, BoundaryInv, ControlInv, Active, Lifecycle!Next
<1>3. CASE Shutdown
  BY <1>3 DEF Shutdown, BeginDrain, BoundaryInv, ControlInv, Active, Lifecycle!Next
<1>4. CASE InitSettled
  BY <1>4 DEF InitSettled, BeginDrain, BoundaryInv, ControlInv, Active, Lifecycle!Next
<1>5. CASE DrainsSettled
  <2>1. CASE Active = {}
    BY <1>5, <2>1, AtBoundaryImplements DEF DrainsSettled, BoundaryInv, ControlInv
  <2>2. CASE Active # {}
    BY <1>5, <2>2 DEF DrainsSettled, Active, BoundaryInv, TypeOK
  <2> QED
    BY <2>1, <2>2
<1>6. CASE IdleReached
  BY <1>6, AtBoundaryImplements DEF IdleReached, BoundaryInv, ControlInv, LeaseInv
<1>7. CASE IdleTimeout
  BY <1>7 DEF IdleTimeout, GiveUp, Active
<1>8. CASE CleanupCall
  BY <1>8 DEF CleanupCall, Active
<1>9. CASE CleanupDone
  BY <1>9 DEF CleanupDone, BoundaryInv, ControlInv, Active, Lifecycle!Next
<1>10. CASE InstrumentationClosed
  BY <1>10 DEF InstrumentationClosed, Active
<1>11. ASSUME NEW e \in Extensions, DrainTimeout(e) PROVE UNCHANGED <<Phase, Active>>
  BY <1>11 DEF DrainTimeout, Active
<1> QED
  BY <1>1, <1>2, <1>3, <1>4, <1>5, <1>6, <1>7, <1>8, <1>9, <1>10, <1>11
     DEF ShutdownCall, ShutdownNext

\* Work is admitted only while open, and released resources are out of use.
THEOREM KernelImplementsLifecycle == Spec => ImplementsLifecycle
<1>1. BoundaryInv /\ [Next]_vars => [Lifecycle!Next]_Lifecycle!vars
  <2>1. UNCHANGED vars \/ DrainNext => UNCHANGED <<Phase, Active>>
    BY DEF vars, initVars, leaseVars, callVars, DrainNext, DrainSettles,
           Phase, Cleaning, Active
  <2> QED
    BY <2>1, InitializeImplements, ExecutionImplements, ShutdownImplements
       DEF Next, Lifecycle!vars
<1> QED
  BY InitImplements, <1>1, BoundaryInductive, PTL
     DEF Spec, ImplementsLifecycle, Lifecycle!Spec

=============================================================================
