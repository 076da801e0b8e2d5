------------------------- MODULE KernelCleanupProofs -------------------------
(***************************************************************************)
(* Machine-checked proofs about the lifecycle calls that Kernel makes:     *)
(* each at most once, none forgotten, and none that constructs a provider. *)
(***************************************************************************)
EXTENDS KernelProofs

MadeCalls == {calls[i] : i \in DOMAIN calls}

\* The calls still due and the calls made are apart; the instrumentation is
\* closed last.
OnceInv ==
    /\ CallsMadeOnce
    /\ MadeCalls \cap due = {}
    /\ InstrumentationClose \notin due
    /\ Cleaning \/ attempt = "instrument" => InstrumentationClose \notin MadeCalls

\* What a module's hooks inject exists once the module is initialized, and only
\* the hooks of such modules are ever due.
HooksInv ==
    /\ \A m \in initModules : HookNeeds[m] \subseteq CreatedSet
    /\ \A call \in due : call[2] = "module" => call[3] \in initModules

\* Everything that must be released is due or has been called.
ReleaseInv ==
    /\ state = "created" => created = <<>> /\ initModules = {} /\ runtimes = {}
    /\ Cleaning => RollbackCalls \subseteq due \union MadeCalls
    /\ state = "stopped" => RollbackCalls \subseteq MadeCalls

CallsInv == BoundaryInv /\ OnceInv /\ HooksInv /\ ReleaseInv

-----------------------------------------------------------------------------
(* Lemmas about sequences of calls and of created providers.               *)

\* Appending a call that was not made before makes it, and it alone, once.
LEMMA AppendedCall ==
    ASSUME TypeOK, NEW call \in Calls, calls' = Append(calls, call)
    PROVE  /\ MadeCalls' = MadeCalls \union {call}
           /\ CallsMadeOnce /\ call \notin MadeCalls => CallsMadeOnce'
<1>1. /\ calls \in Seq(Calls)
      /\ DOMAIN calls = 1 .. Len(calls) /\ DOMAIN calls' = 1 .. Len(calls) + 1
      /\ \A i \in 1 .. Len(calls) : calls'[i] = calls[i]
      /\ calls'[Len(calls) + 1] = call
      /\ Len(calls) \in Nat
  BY DEF TypeOK
<1>2. MadeCalls' = MadeCalls \union {call}
  BY <1>1 DEF MadeCalls
<1>3. ASSUME CallsMadeOnce, call \notin MadeCalls
      PROVE  CallsMadeOnce'
  BY <1>1, <1>3 DEF CallsMadeOnce, MadeCalls
<1> QED
  BY <1>2, <1>3

\* Construct(S) adds exactly the providers of S.
LEMMA ConstructCovers ==
    ASSUME created \in Seq(Providers), NEW S \in SUBSET Providers, Construct(S)
    PROVE  CreatedSet' = CreatedSet \union S
<1>1. PICK order \in Bijection(1 .. Cardinality(S), S) : created' = created \o order
  BY DEF Construct
<1>2. Cardinality(S) \in Nat
  BY FiniteProviders
<1>3. /\ order \in [1 .. Cardinality(S) -> S]
      /\ \A p \in S : \E i \in 1 .. Cardinality(S) : order[i] = p
  BY <1>1 DEF Bijection, Injection, Surjection
<1>4. order \in Seq(S) /\ order \in Seq(Providers) /\ Len(order) = Cardinality(S)
  BY <1>2, <1>3
<1>5. /\ Len(created) \in Nat
      /\ DOMAIN created = 1 .. Len(created)
      /\ DOMAIN created' = 1 .. Len(created) + Cardinality(S)
      /\ \A i \in 1 .. Len(created) : created'[i] = created[i]
      /\ \A i \in 1 .. Cardinality(S) : created'[Len(created) + i] = order[i]
  BY <1>1, <1>2, <1>4
<1>6. CreatedSet \union S \subseteq CreatedSet'
  <2>1. \A i \in DOMAIN created : i \in DOMAIN created' /\ created'[i] = created[i]
    BY <1>2, <1>5
  <2>2. \A i \in 1 .. Cardinality(S) :
            Len(created) + i \in DOMAIN created' /\ created'[Len(created) + i] = order[i]
    BY <1>2, <1>5
  <2> QED
    BY <1>3, <2>1, <2>2 DEF CreatedSet
<1>7. ASSUME NEW i \in DOMAIN created'
      PROVE  created'[i] \in CreatedSet \union S
  <2>1. CASE i \in 1 .. Len(created)
    BY <1>5, <2>1 DEF CreatedSet
  <2>2. CASE i \notin 1 .. Len(created)
    <3>1. i - Len(created) \in 1 .. Cardinality(S)
      BY <1>2, <1>5, <1>7, <2>2
    <3>2. created'[i] = order[i - Len(created)]
      <4>1. created'[Len(created) + (i - Len(created))] = order[i - Len(created)]
        BY <1>5, <3>1
      <4>2. Len(created) + (i - Len(created)) = i
        BY <1>2, <1>5, <1>7
      <4> QED
        BY <4>1, <4>2
    <3> QED
      BY <1>3, <3>1, <3>2
  <2> QED
    BY <2>1, <2>2
<1> QED
  BY <1>6, <1>7 DEF CreatedSet

\* Closing the instrumentation is never one of the calls that are planned.
LEMMA PlansAvoidInstrumentation ==
    /\ InstrumentationClose \notin RollbackCalls
    /\ InstrumentationClose \notin CleanupCalls
    /\ RollbackCalls \subseteq CleanupCalls
    /\ \A call \in CleanupCalls : call[2] = "module" => call[3] \in initModules
<1>1. Phases = {"close", "onModuleDestroy", "beforeApplicationShutdown",
                "onApplicationShutdown", "onApplicationDispose", "closeInstrumentation"}
  BY DEF Phases, PhaseRank
<1> QED
  BY <1>1 DEF RollbackCalls, CleanupCalls, ExtensionCloses, ProviderCalls,
              InstrumentationClose

-----------------------------------------------------------------------------
(* The kinds of step there are.                                            *)

\* Before cleanup and rollback, no lifecycle call of theirs has been made.
LEMMA NothingCalled ==
    BoundaryInv /\ ~Cleaning /\ state # "stopped" => calls = <<>> /\ MadeCalls = {}
BY DEF BoundaryInv, ControlInv, Cleaning, MadeCalls

\* A step that neither plans nor makes a call, nor builds anything.
LEMMA QuietStep ==
    ASSUME CallsInv, UNCHANGED <<created, initModules, runtimes, calls, due>>,
           Cleaning' => Cleaning, attempt' = "instrument" => attempt = "instrument",
           state' \in {"created", "stopped"} => state' = state
    PROVE  OnceInv' /\ HooksInv' /\ ReleaseInv'
<1>1. MadeCalls' = MadeCalls /\ RollbackCalls' = RollbackCalls /\ CreatedSet' = CreatedSet
  BY DEF MadeCalls, RollbackCalls, ExtensionCloses, ProviderCalls, CreatedSet
<1>2. OnceInv'
  BY <1>1 DEF CallsInv, OnceInv, CallsMadeOnce
<1>3. HooksInv'
  BY <1>1 DEF CallsInv, HooksInv
<1>4. ReleaseInv'
  BY <1>1 DEF CallsInv, ReleaseInv
<1> QED
  BY <1>2, <1>3, <1>4

\* A step of initialization that builds something.
LEMMA BuildStep ==
    ASSUME CallsInv, UNCHANGED <<calls, due>>, ~Cleaning, ~Cleaning',
           attempt' # "instrument", state \notin {"stopped"},
           state' \notin {"created", "stopped"},
           CreatedSet \subseteq CreatedSet', initModules \subseteq initModules',
           \A m \in initModules' \ initModules : HookNeeds[m] \subseteq CreatedSet'
    PROVE  OnceInv' /\ HooksInv' /\ ReleaseInv'
<1>1. calls = <<>> /\ MadeCalls = {} /\ MadeCalls' = {}
  BY NothingCalled DEF CallsInv, MadeCalls
<1>2. OnceInv'
  BY <1>1 DEF CallsInv, OnceInv, CallsMadeOnce
<1>3. HooksInv'
  BY DEF CallsInv, HooksInv
<1>4. ReleaseInv'
  BY DEF CallsInv, ReleaseInv
<1> QED
  BY <1>2, <1>3, <1>4

\* The step that enters rollback or cleanup.
LEMMA PlanStep ==
    ASSUME CallsInv, calls' = calls, ~Cleaning, state # "stopped",
           attempt' # "instrument", state' \notin {"created", "stopped"},
           \A m \in initModules' : HookNeeds[m] \subseteq CreatedSet',
           due' = RollbackCalls' \/ due' = CleanupCalls'
    PROVE  OnceInv' /\ HooksInv' /\ ReleaseInv'
<1>1. calls = <<>> /\ MadeCalls' = {}
  BY NothingCalled DEF CallsInv, MadeCalls
<1>2. (/\ InstrumentationClose \notin RollbackCalls
       /\ InstrumentationClose \notin CleanupCalls
       /\ RollbackCalls \subseteq CleanupCalls
       /\ \A call \in CleanupCalls : call[2] = "module" => call[3] \in initModules)'
  BY PlansAvoidInstrumentation, PTL
<1>3. OnceInv'
  BY <1>1, <1>2 DEF OnceInv, CallsMadeOnce
<1>4. HooksInv'
  BY <1>2 DEF HooksInv
<1>5. ReleaseInv'
  BY <1>2 DEF ReleaseInv
<1> QED
  BY <1>3, <1>4, <1>5

\* A call of rollback or cleanup finds everything its hook injects.
LEMMA CallStep ==
    ASSUME CallsInv, Cleaning, Cleaning', NEW call \in due,
           due' = due \ {call}, calls' = Append(calls, call), Construct(MissingFor(call)),
           state' \notin {"created", "stopped"}, UNCHANGED <<initModules, runtimes>>
    PROVE  OnceInv' /\ HooksInv' /\ ReleaseInv' /\ created' = created
<1>1. call \in Calls /\ call \notin MadeCalls /\ call # InstrumentationClose
  BY DEF CallsInv, BoundaryInv, TypeOK, OnceInv
<1>2. MissingFor(call) = {}
  <2>1. ASSUME call[2] = "module", NEW p \in HookNeeds[call[3]] PROVE IsCreated(p)
    BY <2>1 DEF CallsInv, HooksInv, CreatedSet, IsCreated
  <2> QED
    BY <2>1 DEF MissingFor
<1>3. created' = created
  BY <1>2, ConstructAppends DEF CallsInv, BoundaryInv, TypeOK
<1>4. MadeCalls' = MadeCalls \union {call} /\ CallsMadeOnce'
  BY <1>1, AppendedCall DEF CallsInv, BoundaryInv, OnceInv
<1>5. RollbackCalls' = RollbackCalls /\ CreatedSet' = CreatedSet
  BY <1>3 DEF RollbackCalls, ExtensionCloses, ProviderCalls, CreatedSet
<1>6. OnceInv'
  BY <1>1, <1>4 DEF CallsInv, OnceInv
<1>7. HooksInv'
  BY <1>5 DEF CallsInv, HooksInv
<1>8. ReleaseInv'
  BY <1>4, <1>5 DEF CallsInv, ReleaseInv
<1> QED
  BY <1>3, <1>6, <1>7, <1>8

-----------------------------------------------------------------------------
(* Every step of the kernel.                                               *)

\* A kernel that was just constructed has planned and made no call.
LEMMA InitCalls == Init => CallsInv
<1> SUFFICES ASSUME Init PROVE OnceInv /\ HooksInv /\ ReleaseInv
  BY InitBoundary DEF CallsInv
<1>1. MadeCalls = {} /\ ~Cleaning
  BY DEF Init, MadeCalls, Cleaning
<1> QED
  BY <1>1 DEF Init, OnceInv, CallsMadeOnce, HooksInv, ReleaseInv

\* Rollback may begin at any failure of the initialization.
LEMMA RollbackPlan ==
    ASSUME CallsInv, Rollback, Elsewhere, state = "initializing", stage # "rollback",
           \A m \in initModules' : HookNeeds[m] \subseteq CreatedSet'
    PROVE  OnceInv' /\ HooksInv' /\ ReleaseInv'
<1>1. attempt \notin {"cleanup", "instrument"} /\ ~Cleaning
  BY DEF CallsInv, BoundaryInv, ControlInv, Cleaning
<1>2. /\ calls' = calls /\ due' = RollbackCalls' /\ state' = "initializing"
      /\ attempt' # "instrument"
  BY <1>1 DEF Rollback, Elsewhere
<1> QED
  BY <1>1, <1>2, PlanStep

\* Initialization builds, plans its rollback once and makes each call once.
LEMMA InitializeCalls ==
    CallsInv /\ (Initialize \/ InitializeNext)
        => OnceInv' /\ HooksInv' /\ ReleaseInv' /\ (Cleaning => created' = created)
<1> SUFFICES ASSUME CallsInv, Initialize \/ InitializeNext
             PROVE  OnceInv' /\ HooksInv' /\ ReleaseInv' /\ (Cleaning => created' = created)
  OBVIOUS
<1> USE DEF InitStep, Elsewhere, callVars, Cleaning
<1>1. /\ state \in {"created", "initializing"}
      /\ attempt \notin {"cleanup", "instrument"}
      /\ attempt' = attempt
  BY DEF CallsInv, BoundaryInv, ControlInv, AtModuleHook, TypeOK, Initialize, InitializeNext,
         BindInputs, InputsMissing, ResolveDependency, CreateProvider, ResolutionFails,
         InitInstance, InitInstanceFails, ResolveNext, InitModule, InitModuleFails,
         Bootstrap, CreateRuntime, Run, StartupFails, RollbackCall, RollbackDone
<1>2. state = "initializing" <=> stage \notin {"none", "done"}
  BY DEF CallsInv, BoundaryInv, ControlInv
<1>3. ASSUME modAt \in Modules, AtModuleHook,
             Construct(MissingFor(<<"onModuleInit", "module", modAt>>)),
             initModules' = initModules \union {modAt}
      PROVE  /\ CreatedSet \subseteq CreatedSet'
             /\ HookNeeds[modAt] \subseteq CreatedSet'
             /\ \A m \in initModules' : HookNeeds[m] \subseteq CreatedSet'
  <2> DEFINE S == MissingFor(<<"onModuleInit", "module", modAt>>)
  <2>1. S = {p \in HookNeeds[modAt] : ~IsCreated(p)} /\ S \in SUBSET Providers
    BY <1>3, VisibilityAssumption DEF MissingFor
  <2>2. CreatedSet' = CreatedSet \union S
    BY <1>3, <2>1, ConstructCovers DEF CallsInv, BoundaryInv, TypeOK
  <2>3. HookNeeds[modAt] \subseteq CreatedSet \union S
    BY <2>1 DEF IsCreated, CreatedSet
  <2> QED
    BY <1>3, <2>2, <2>3 DEF CallsInv, HooksInv
<1>4. AtModuleHook => modAt \in Modules /\ stage = "providers"
  BY DEF AtModuleHook, CallsInv, BoundaryInv, TypeOK
<1>5. UNCHANGED created => UNCHANGED CreatedSet
  BY DEF CreatedSet
<1>6. CASE Initialize \/ BindInputs \/ ResolveDependency \/ InitInstance \/ ResolveNext
  BY <1>1, <1>2, <1>5, <1>6, BuildStep
     DEF Initialize, BindInputs, ResolveDependency, InitInstance, ResolveNext
<1>7. CASE CreateProvider
  <2>1. /\ created \in Seq(Providers) /\ Head(building) \in Providers
        /\ created' = Append(created, Head(building))
    BY <1>7 DEF CreateProvider, CallsInv, BoundaryInv, TypeOK
  <2>2. \A i \in DOMAIN created : i \in DOMAIN created' /\ created'[i] = created[i]
    BY <2>1
  <2>3. CreatedSet \subseteq CreatedSet'
    BY <2>2 DEF CreatedSet
  <2> QED
    BY <1>1, <1>2, <1>7, <2>3, BuildStep DEF CreateProvider
<1>8. CASE InitModule
  BY <1>1, <1>2, <1>3, <1>4, <1>8, BuildStep DEF InitModule
<1>9. CASE Bootstrap \/ CreateRuntime \/ Run
  BY <1>1, <1>2, <1>5, <1>9, BuildStep DEF Bootstrap, CreateRuntime, Run
<1>10. CASE InputsMissing \/ ResolutionFails \/ InitInstanceFails \/ StartupFails
  <2>1. \A m \in initModules' : HookNeeds[m] \subseteq CreatedSet'
    BY <1>5, <1>10 DEF CallsInv, HooksInv, InputsMissing, ResolutionFails,
                       InitInstanceFails, StartupFails
  <2> QED
    BY <1>1, <1>2, <1>10, <2>1, RollbackPlan
       DEF InputsMissing, ResolutionFails, InitInstanceFails, StartupFails
<1>11. CASE InitModuleFails
  BY <1>1, <1>2, <1>3, <1>4, <1>11, RollbackPlan DEF InitModuleFails
<1>12. CASE RollbackCall
  <2>1. PICK call \in due : /\ due' = due \ {call}
                            /\ calls' = Append(calls, call)
                            /\ Construct(MissingFor(call))
    BY <1>12 DEF RollbackCall, NextCalls
  <2> QED
    BY <1>1, <1>2, <1>12, <2>1, CallStep DEF RollbackCall
<1>13. CASE RollbackDone
  <2>1. MadeCalls' = MadeCalls \union {InstrumentationClose} /\ CallsMadeOnce'
    BY <1>13, AppendedCall
       DEF RollbackDone, CallsInv, BoundaryInv, OnceInv, Calls
  <2>2. RollbackCalls' = RollbackCalls /\ CreatedSet' = CreatedSet
    BY <1>13 DEF RollbackDone, RollbackCalls, ExtensionCloses, ProviderCalls, CreatedSet
  <2>3. OnceInv'
    BY <1>1, <1>13, <2>1 DEF RollbackDone, CallsInv, OnceInv
  <2>4. HooksInv'
    BY <1>13, <2>2 DEF RollbackDone, CallsInv, HooksInv
  <2>5. ReleaseInv'
    BY <1>1, <1>13, <2>1, <2>2 DEF RollbackDone, CallsInv, ReleaseInv
  <2> QED
    BY <1>13, <2>3, <2>4, <2>5 DEF RollbackDone
<1> QED
  BY <1>6, <1>7, <1>8, <1>9, <1>10, <1>11, <1>12, <1>13 DEF InitializeNext

\* Crossing the boundary plans the cleanup; giving up plans nothing.
LEMMA BoundaryCalls ==
    ASSUME CallsInv, AtBoundary, state = "draining", attempt \in {"draining", "awaitIdle"},
           UNCHANGED <<state, initVars, calls>>
    PROVE  OnceInv' /\ HooksInv' /\ ReleaseInv'
<1> USE DEF initVars, Cleaning
<1>1. stage # "rollback"
  BY DEF CallsInv, BoundaryInv, ControlInv
<1>2. CASE GiveUp
  BY <1>1, <1>2, QuietStep DEF GiveUp
<1>3. CASE attempt' = "cleanup" /\ due' = CleanupCalls
  <2>1. CleanupCalls' = CleanupCalls /\ CreatedSet' = CreatedSet
    BY DEF CleanupCalls, ExtensionCloses, ProviderCalls, CreatedSet
  <2> QED
    BY <1>1, <1>3, <2>1, PlanStep DEF CallsInv, HooksInv
<1> QED
  BY <1>2, <1>3 DEF AtBoundary

\* Shutdown plans its cleanup once and makes each call once.
LEMMA ShutdownCalls ==
    CallsInv /\ (ShutdownCall \/ ShutdownNext)
        => OnceInv' /\ HooksInv' /\ ReleaseInv' /\ (Cleaning => created' = created)
<1> SUFFICES ASSUME CallsInv, ShutdownCall \/ ShutdownNext
             PROVE  OnceInv' /\ HooksInv' /\ ReleaseInv' /\ (Cleaning => created' = created)
  OBVIOUS
<1> USE DEF initVars, drainVars, leaseVars, callVars, Cleaning
<1>1. CASE ShutdownDuringInit
  BY <1>1, QuietStep DEF ShutdownDuringInit
<1>2. CASE ShutdownUnstarted
  <2>1. /\ calls' = <<>> /\ MadeCalls = {} /\ MadeCalls' = {}
        /\ RollbackCalls' = {} /\ stage' # "rollback"
    BY <1>2 DEF ShutdownUnstarted, CallsInv, BoundaryInv, ControlInv, ReleaseInv, MadeCalls,
                RollbackCalls, ExtensionCloses, ProviderCalls, CreatedSet
  <2>2. OnceInv' /\ ReleaseInv'
    BY <1>2, <2>1 DEF ShutdownUnstarted, CallsInv, OnceInv, ReleaseInv, CallsMadeOnce
  <2>3. HooksInv'
    BY <1>2 DEF ShutdownUnstarted, CallsInv, HooksInv, CreatedSet
  <2> QED
    BY <1>2, <2>2, <2>3 DEF ShutdownUnstarted
<1>3. CASE Shutdown
  BY <1>3, QuietStep DEF Shutdown, BeginDrain
<1>4. CASE InitSettled
  BY <1>4, QuietStep DEF InitSettled, BeginDrain
<1>5. CASE DrainsSettled
  <2>1. CASE Active = {}
    BY <1>5, <2>1, BoundaryCalls DEF DrainsSettled, CallsInv, BoundaryInv, ControlInv
  <2>2. CASE Active # {}
    BY <1>5, <2>2, QuietStep DEF DrainsSettled
  <2> QED
    BY <1>5, <2>1, <2>2 DEF DrainsSettled
<1>6. CASE IdleReached
  BY <1>6, BoundaryCalls DEF IdleReached, CallsInv, BoundaryInv, ControlInv
<1>7. CASE IdleTimeout
  BY <1>7, QuietStep DEF IdleTimeout, GiveUp
<1>8. CASE CleanupCall
  <2>1. PICK call \in due : /\ due' = due \ {call}
                            /\ calls' = Append(calls, call)
                            /\ Construct(MissingFor(call))
    BY <1>8 DEF CleanupCall, NextCalls
  <2>2. state = "draining"
    BY <1>8 DEF CleanupCall, CallsInv, BoundaryInv, ControlInv
  <2> QED
    BY <1>8, <2>1, <2>2, CallStep DEF CleanupCall
<1>9. CASE CleanupDone
  <2>1. /\ MadeCalls' = MadeCalls /\ RollbackCalls' = RollbackCalls
        /\ CreatedSet' = CreatedSet
    BY <1>9 DEF CleanupDone, MadeCalls, RollbackCalls, ExtensionCloses, ProviderCalls,
                CreatedSet
  <2> QED
    BY <1>9, <2>1 DEF CleanupDone, CallsInv, OnceInv, CallsMadeOnce, HooksInv, ReleaseInv
<1>10. CASE InstrumentationClosed
  <2>1. MadeCalls' = MadeCalls \union {InstrumentationClose} /\ CallsMadeOnce'
    BY <1>10, AppendedCall
       DEF InstrumentationClosed, CallsInv, BoundaryInv, OnceInv, Calls
  <2>2. RollbackCalls' = RollbackCalls /\ CreatedSet' = CreatedSet
    BY <1>10 DEF InstrumentationClosed, RollbackCalls, ExtensionCloses, ProviderCalls,
                 CreatedSet
  <2>3. state = "stopped" /\ stage # "rollback"
    BY <1>10 DEF InstrumentationClosed, CallsInv, BoundaryInv, ControlInv
  <2> QED
    BY <1>10, <2>1, <2>2, <2>3
       DEF InstrumentationClosed, CallsInv, OnceInv, HooksInv, ReleaseInv
<1>11. ASSUME NEW e \in Extensions, DrainTimeout(e)
       PROVE  OnceInv' /\ HooksInv' /\ ReleaseInv' /\ created' = created
  BY <1>11, QuietStep DEF DrainTimeout
<1> QED
  BY <1>1, <1>2, <1>3, <1>4, <1>5, <1>6, <1>7, <1>8, <1>9, <1>10, <1>11
     DEF ShutdownCall, ShutdownNext

\* Leases, drains and stuttering leave the calls alone.
LEMMA OtherCalls ==
    CallsInv /\ (ExecutionNext \/ DrainNext \/ UNCHANGED vars)
        => OnceInv' /\ HooksInv' /\ ReleaseInv' /\ created' = created
<1> SUFFICES ASSUME CallsInv, ExecutionNext \/ DrainNext \/ UNCHANGED vars
             PROVE  OnceInv' /\ HooksInv' /\ ReleaseInv' /\ created' = created
  OBVIOUS
<1>1. UNCHANGED <<created, initModules, runtimes, calls, due, stage, attempt, state>>
  BY DEF ExecutionNext, Begin, Complete, DrainNext, DrainSettles, vars, initVars, callVars
<1> QED
  BY <1>1, QuietStep DEF Cleaning

\* Every step keeps the call invariant, and none of cleanup constructs anything.
LEMMA StepCalls ==
    CallsInv /\ [Next]_vars
        => OnceInv' /\ HooksInv' /\ ReleaseInv' /\ (Cleaning => created' = created)
BY InitializeCalls, ShutdownCalls, OtherCalls DEF Next

\* CallsInv: no call is both due and made, none is made twice, hooks that will
\* run lack nothing, and what was built is due or released once cleanup starts.
THEOREM CallsInductive == Spec => []CallsInv
<1>1. BoundaryInv' /\ CallsInv /\ [Next]_vars => CallsInv'
  BY StepCalls DEF CallsInv
<1> QED
  BY InitCalls, <1>1, BoundaryInductive, PTL DEF Spec

\* However often shutdown fails and is retried, no lifecycle call is repeated.
THEOREM LifecycleCallsAreMadeOnce == Spec => []CallsMadeOnce
<1>1. CallsInv => CallsMadeOnce
  BY DEF CallsInv, OnceInv
<1> QED
  BY <1>1, CallsInductive, PTL

\* A stopped application has released whatever it had built.
THEOREM StoppedMeansReleased == Spec => []StoppedReleasesAll
<1>1. CallsInv => StoppedReleasesAll
  <2> SUFFICES ASSUME CallsInv, state = "stopped"
               PROVE  /\ \A p \in CreatedSet :
                             /\ Made(<<"onModuleDestroy", "instance", p>>)
                             /\ Made(<<"onApplicationDispose", "instance", p>>)
                      /\ \A m \in initModules :
                             /\ Made(<<"onModuleDestroy", "module", m>>)
                             /\ Made(<<"onApplicationDispose", "module", m>>)
                      /\ \A e \in runtimes \cap HasClose : Made(<<"close", "extension", e>>)
    BY DEF StoppedReleasesAll
  <2>1. \A call \in RollbackCalls : Made(call)
    BY DEF CallsInv, ReleaseInv, MadeCalls, Made
  <2> QED
    BY <2>1 DEF RollbackCalls, ExtensionCloses, ProviderCalls
<1> QED
  BY <1>1, CallsInductive, PTL

\* Cleanup and rollback construct no provider.
THEOREM NothingIsConstructedByCleanup == Spec => CleanupConstructsNothing
<1>1. CallsInv /\ [Next]_vars => [Cleaning => created' = created]_vars
  BY StepCalls
<1> QED
  BY <1>1, CallsInductive, PTL DEF Spec, CleanupConstructsNothing

-----------------------------------------------------------------------------
(* The order of construction.                                              *)

\* No instance is created twice, and none before what is injected into it.
CreationInv ==
    /\ \A i, j \in DOMAIN created : created[i] = created[j] => i = j
    /\ \A i \in DOMAIN created : \A q \in Deps[created[i]] :
           \E j \in DOMAIN created : j < i /\ created[j] = q

\* #initialize resolves the logger first, then the modules one after another.
ProgressInv ==
    /\ stage = "providers" =>
           Logger \in CreatedSet \/ (building # <<>> /\ building[Len(building)] = Logger)
    /\ stage \in {"none", "inputs", "providers"} =>
           \A p \in Providers : Owner[p] \in 1 .. modAt - 1 => p \in CreatedSet

ConstructionInv == TypeOK /\ CreationInv /\ ProgressInv

\* A kernel that was just constructed has created nothing.
LEMMA InitConstruction == Init => CreationInv /\ ProgressInv
<1> SUFFICES ASSUME Init PROVE CreationInv /\ ProgressInv
  OBVIOUS
<1>1. DOMAIN created = {} /\ modAt = 1 /\ stage = "none"
  BY DEF Init
<1> QED
  BY <1>1 DEF CreationInv, ProgressInv

\* A provider whose dependencies exist is created after all of them.
LEMMA AppendedProvider ==
    ASSUME TypeOK, CreationInv, NEW p \in Providers, ~IsCreated(p),
           \A q \in Deps[p] : IsCreated(q), created' = Append(created, p)
    PROVE  CreationInv' /\ CreatedSet' = CreatedSet \union {p}
<1>1. /\ created \in Seq(Providers) /\ Len(created) \in Nat
      /\ DOMAIN created = 1 .. Len(created) /\ DOMAIN created' = 1 .. Len(created) + 1
      /\ \A i \in 1 .. Len(created) : created'[i] = created[i]
      /\ created'[Len(created) + 1] = p
  BY DEF TypeOK
<1>2. CreatedSet' = CreatedSet \union {p}
  BY <1>1 DEF CreatedSet
<1>3. \A i, j \in DOMAIN created' : created'[i] = created'[j] => i = j
  BY <1>1 DEF CreationInv, IsCreated
<1>4. ASSUME NEW i \in DOMAIN created', NEW q \in Deps[created'[i]]
      PROVE  \E j \in DOMAIN created' : j < i /\ created'[j] = q
  <2>1. CASE i = Len(created) + 1
    <3>1. PICK j \in DOMAIN created : created[j] = q
      BY <1>1, <1>4, <2>1 DEF IsCreated
    <3> QED
      BY <1>1, <2>1, <3>1
  <2>2. CASE i \in DOMAIN created
    <3>1. PICK j \in DOMAIN created : j < i /\ created[j] = q
      BY <1>1, <1>4, <2>2 DEF CreationInv
    <3> QED
      BY <1>1, <3>1
  <2> QED
    BY <1>1, <1>4, <2>1, <2>2
<1> QED
  BY <1>2, <1>3, <1>4 DEF CreationInv

\* When a module's onModuleInit hook runs, whatever it injects exists.
LEMMA HookLacksNothing ==
    ASSUME ConstructionInv, AtModuleHook
    PROVE  MissingFor(<<"onModuleInit", "module", modAt>>) = {}
<1>1. modAt \in Modules /\ stage = "providers" /\ building = <<>>
  BY DEF AtModuleHook, ConstructionInv, TypeOK
<1>2. Logger \in CreatedSet /\ Logger \in Providers
  BY <1>1, SizesAssumption DEF ConstructionInv, ProgressInv
<1>3. \A q \in Deps[Logger] : q \in CreatedSet
  BY <1>2 DEF ConstructionInv, CreationInv, CreatedSet
<1>4. ASSUME NEW p \in HookNeeds[modAt] PROVE IsCreated(p)
  <2>1. p \in Providers /\ Owner[p] \in 0 .. NumModules
    BY <1>1, VisibilityAssumption
  <2>2. p = Logger \/ Owner[p] <= modAt
    BY <1>1, VisibilityAssumption
  <2>3. CASE p = Logger \/ Owner[p] = 0
    BY <1>2, <1>3, <2>1, <2>3, VisibilityAssumption DEF CreatedSet, IsCreated
  <2>4. CASE Owner[p] = modAt
    BY <2>1, <2>4 DEF AtModuleHook, Unresolved
  <2>5. CASE Owner[p] \in 1 .. modAt - 1
    BY <1>1, <2>1, <2>5 DEF ConstructionInv, ProgressInv, CreatedSet, IsCreated
  <2>6. modAt \in Nat
    BY <1>1 DEF Modules
  <2> QED
    BY <2>1, <2>2, <2>3, <2>4, <2>5, <2>6
<1> QED
  BY <1>4 DEF MissingFor

\* A step that creates nothing, and resolves nothing either.
LEMMA CreatesNothing ==
    ASSUME ConstructionInv, created' = created,
           stage' \notin {"none", "inputs", "providers"} \/ UNCHANGED <<stage, modAt, building>>
    PROVE  CreationInv' /\ ProgressInv'
<1>1. CreatedSet' = CreatedSet
  BY DEF CreatedSet
<1> QED
  BY <1>1 DEF ConstructionInv, CreationInv, ProgressInv

\* Every step of the kernel keeps the order of construction.
LEMMA StepConstruction ==
    CallsInv /\ CreationInv /\ ProgressInv /\ [Next]_vars => CreationInv' /\ ProgressInv'
<1> SUFFICES ASSUME CallsInv, CreationInv, ProgressInv, [Next]_vars
             PROVE  CreationInv' /\ ProgressInv'
  OBVIOUS
<1> USE DEF InitStep, Elsewhere, callVars
<1>1. ConstructionInv /\ (Cleaning => created' = created)
  BY StepCalls DEF ConstructionInv, CallsInv, BoundaryInv
<1>2. CASE Initialize
  <2>1. CreatedSet' = CreatedSet
    BY <1>2 DEF Initialize, CreatedSet
  <2> QED
    BY <1>2, <2>1 DEF Initialize, CreationInv, ProgressInv
<1>3. CASE BindInputs
  <2>1. CreatedSet' = CreatedSet
    BY <1>3 DEF BindInputs, CreatedSet
  <2>2. building' = <<Logger>> /\ Len(building') = 1 /\ building'[1] = Logger
    BY <1>3 DEF BindInputs
  <2> QED
    BY <1>3, <2>1, <2>2 DEF BindInputs, CreationInv, ProgressInv
<1>4. CASE ResolveDependency
  <2>1. PICK q \in Deps[Head(building)] : building' = <<q>> \o building
    BY <1>4 DEF ResolveDependency
  <2>2. /\ building \in Seq(Providers) /\ building # <<>>
        /\ Head(building) \in Providers /\ q \in Providers
    BY <1>1, <1>4, VisibilityAssumption DEF ResolveDependency, ConstructionInv, TypeOK
  <2>3. building' # <<>> /\ building'[Len(building')] = building[Len(building)]
    BY <2>1, <2>2
  <2>4. CreatedSet' = CreatedSet
    BY <1>4 DEF ResolveDependency, CreatedSet
  <2> QED
    BY <1>4, <2>2, <2>3, <2>4 DEF ResolveDependency, CreationInv, ProgressInv
<1>5. CASE CreateProvider
  <2>1. building \in Seq(Providers) /\ building # <<>> /\ Head(building) \in Providers
    BY <1>1, <1>5 DEF CreateProvider, ConstructionInv, TypeOK
  <2>2. CreationInv' /\ CreatedSet' = CreatedSet \union {Head(building)}
    BY <1>1, <1>5, <2>1, AppendedProvider DEF CreateProvider, ConstructionInv
  <2>3. CASE building' = <<>>
    <3>1. building[Len(building)] = Head(building)
      BY <1>5, <2>1, <2>3 DEF CreateProvider
    <3> QED
      BY <1>5, <2>2, <3>1 DEF CreateProvider, ProgressInv
  <2>4. CASE building' # <<>>
    <3>1. building'[Len(building')] = building[Len(building)]
      BY <1>5, <2>1, <2>4 DEF CreateProvider
    <3> QED
      BY <1>5, <2>2, <2>4, <3>1 DEF CreateProvider, ProgressInv
  <2> QED
    BY <2>3, <2>4
<1>6. CASE InitInstance \/ CreateRuntime
  BY <1>1, <1>6, CreatesNothing DEF InitInstance, CreateRuntime
<1>7. CASE ResolveNext
  <2>1. CreatedSet' = CreatedSet
    BY <1>7 DEF ResolveNext, CreatedSet
  <2> QED
    BY <1>7, <2>1 DEF ResolveNext, CreationInv, ProgressInv
<1>8. AtModuleHook /\ Construct(MissingFor(<<"onModuleInit", "module", modAt>>))
          => created' = created
  BY <1>1, HookLacksNothing, ConstructAppends DEF ConstructionInv, TypeOK
<1>9. CASE InitModule
  <2>1. created' = created /\ AtModuleHook
    BY <1>8, <1>9 DEF InitModule
  <2>2. CASE stage' = "bootstrap"
    BY <1>1, <2>1, <2>2, CreatesNothing
  <2>3. CASE stage' = stage /\ modAt' = modAt + 1
    <3>1. CreatedSet' = CreatedSet
      BY <2>1 DEF CreatedSet
    <3>2. modAt \in Modules /\ modAt \in Nat /\ stage = "providers"
      BY <1>1, <2>1 DEF AtModuleHook, ConstructionInv, TypeOK, Modules
    <3>3. \A p \in Providers : Owner[p] = modAt => p \in CreatedSet
      BY <2>1 DEF AtModuleHook, Unresolved, IsCreated, CreatedSet
    <3>4. \A p \in Providers : Owner[p] \in Nat
      BY VisibilityAssumption, SizesAssumption
    <3>5. \A p \in Providers : Owner[p] \in 1 .. modAt' - 1 => p \in CreatedSet'
      BY <2>3, <3>1, <3>2, <3>3, <3>4 DEF ProgressInv
    <3> QED
      BY <1>9, <2>1, <2>3, <3>1, <3>2, <3>5 DEF InitModule, CreationInv, ProgressInv
  <2> QED
    BY <1>9, <2>2, <2>3 DEF InitModule
<1>10. CASE Bootstrap
  BY <1>1, <1>10, CreatesNothing DEF Bootstrap
<1>11. CASE Run \/ RollbackDone
  BY <1>1, <1>11, CreatesNothing DEF Run, RollbackDone
<1>12. CASE InputsMissing \/ ResolutionFails \/ InitInstanceFails \/ StartupFails
  BY <1>1, <1>12, CreatesNothing
     DEF InputsMissing, ResolutionFails, InitInstanceFails, StartupFails, Rollback
<1>13. CASE InitModuleFails
  BY <1>1, <1>8, <1>13, CreatesNothing DEF InitModuleFails, Rollback
<1>14. CASE RollbackCall
  BY <1>1, <1>14, CreatesNothing DEF RollbackCall, Cleaning
<1>15. CASE ExecutionNext \/ DrainNext \/ UNCHANGED vars
  BY <1>1, <1>15, CreatesNothing
     DEF ExecutionNext, Begin, Complete, DrainNext, DrainSettles, vars, initVars
<1>16. CASE ShutdownCall \/ ShutdownNext
  <2>1. UNCHANGED <<stage, modAt, building>>
    BY <1>16 DEF ShutdownCall, ShutdownNext, ShutdownDuringInit, ShutdownUnstarted, Shutdown,
           InitSettled, DrainsSettled, IdleReached, IdleTimeout, CleanupCall, CleanupDone,
           InstrumentationClosed, DrainTimeout, initVars
  <2>2. created' = created
    BY <1>1, <1>16 DEF ShutdownCall, ShutdownNext, ShutdownDuringInit, ShutdownUnstarted,
           Shutdown, InitSettled, DrainsSettled, IdleReached, IdleTimeout, CleanupCall,
           CleanupDone, InstrumentationClosed, DrainTimeout, initVars, Cleaning
  <2> QED
    BY <1>1, <2>1, <2>2, CreatesNothing
<1> QED
  BY <1>2, <1>3, <1>4, <1>5, <1>6, <1>7, <1>9, <1>10, <1>11, <1>12, <1>13, <1>14, <1>15,
     <1>16 DEF Next, InitializeNext

\* However initialization goes, an instance is created once and after all that
\* is injected into it, and each module's hooks find what they inject.
THEOREM ConstructionInductive == Spec => []ConstructionInv
<1>1. CallsInv /\ CreationInv /\ ProgressInv /\ [Next]_vars => (CreationInv /\ ProgressInv)'
  BY StepConstruction
<1>2. Spec => [](CreationInv /\ ProgressInv)
  BY InitConstruction, <1>1, CallsInductive, PTL DEF Spec
<1> QED
  BY <1>2, TypeCorrect, PTL DEF ConstructionInv

-----------------------------------------------------------------------------
(* The order of the lifecycle calls.                                       *)

\* The calls were made in order, and what is due comes after them: in rollback a
\* module's hook comes before its instances, in cleanup after them.
OrderInv ==
    /\ CleanupOrder
    /\ \A call \in due \union MadeCalls :
           call[2] = "instance" => call[1] \notin {"close", "closeInstrumentation"}
    /\ Cleaning => \A x \in MadeCalls, y \in due : Precedes(x, y, stage = "rollback")

\* The phases of shutdown are numbered in order; a call has one of them.
LEMMA PhaseRanks ==
    /\ \A phase \in Phases :
           PhaseRank[phase] \in Nat /\ PhaseRank[phase] <= PhaseRank["closeInstrumentation"]
    /\ \A call \in Calls : call[1] \in Phases
<1>1. Phases = {"close", "onModuleDestroy", "beforeApplicationShutdown",
                "onApplicationShutdown", "onApplicationDispose", "closeInstrumentation"}
  BY DEF Phases, PhaseRank
<1>2. \A phase \in Phases :
          PhaseRank[phase] \in Nat /\ PhaseRank[phase] <= PhaseRank["closeInstrumentation"]
  BY <1>1 DEF PhaseRank
<1> QED
  BY <1>1, <1>2 DEF Calls, InstrumentationClose

\* An instance is later in creation order than what is injected into it.
LEMMA InjectedEarlier ==
    ASSUME TypeOK, CreationInv, NEW p \in CreatedSet, NEW q \in Deps[p]
    PROVE  q \in CreatedSet /\ CreatedAt(q) < CreatedAt(p)
<1>1. PICK i \in DOMAIN created : created[i] = p
  BY DEF CreatedSet
<1>2. PICK j \in DOMAIN created : j < i /\ created[j] = q
  BY <1>1 DEF CreationInv
<1>3. CreatedAt(p) \in DOMAIN created /\ created[CreatedAt(p)] = p
  BY <1>1 DEF CreatedAt
<1>4. CreatedAt(q) \in DOMAIN created /\ created[CreatedAt(q)] = q
  BY <1>2 DEF CreatedAt
<1>5. CreatedAt(p) = i
  BY <1>1, <1>3 DEF CreationInv
<1>6. CreatedAt(q) = j
  BY <1>2, <1>4 DEF CreationInv
<1> QED
  BY <1>2, <1>5, <1>6 DEF CreatedSet

\* No phase's call of a dependency comes before the call of its dependent.
LEMMA DependencyNotFirst ==
    ASSUME TypeOK, CreationInv, NEW p \in CreatedSet, NEW q \in Deps[p],
           NEW phase \in Phases \ {"close", "closeInstrumentation"},
           phase = "onApplicationDispose" \/ q # Logger, NEW hookFirst \in BOOLEAN
    PROVE  ~Precedes(<<phase, "instance", q>>, <<phase, "instance", p>>, hookFirst)
<1>1. CreatedAt(q) < CreatedAt(p)
  BY InjectedEarlier
<1>2. CreatedAt(p) \in Int /\ CreatedAt(q) \in Int
  <2>1. \A r \in CreatedSet : CreatedAt(r) \in DOMAIN created
    BY DEF CreatedSet, CreatedAt
  <2> QED
    BY <2>1, InjectedEarlier DEF TypeOK
<1>3. p \in Providers /\ q \in Providers /\ PhaseRank[phase] \in Nat
  <2>1. p \in Providers
    BY DEF CreatedSet, TypeOK
  <2> QED
    BY <2>1, PhaseRanks, VisibilityAssumption
<1>4. q # Logger => Owner[q] <= Owner[p]
  BY <1>3, VisibilityAssumption
<1>5. Owner[p] \in Int /\ Owner[q] \in Int
  BY <1>3, VisibilityAssumption
<1>6. ~LaterInstance(<<phase, "instance", q>>, <<phase, "instance", p>>)
  BY <1>1, <1>2 DEF LaterInstance
<1>7. CASE phase = "onApplicationDispose"
  BY <1>3, <1>6, <1>7 DEF Precedes, InDisposeOrder
<1>8. CASE phase # "onApplicationDispose"
  <2>1. ~InModuleOrder(<<phase, "instance", q>>, <<phase, "instance", p>>, hookFirst)
    BY <1>4, <1>5, <1>6, <1>8 DEF InModuleOrder, OwnerOf
  <2> QED
    BY <1>3, <1>8, <2>1 DEF Precedes
<1> QED
  BY <1>7, <1>8

\* A call that comes after all the calls made keeps them in order.
LEMMA OrderedCall ==
    ASSUME TypeOK, CreationInv, OrderInv, NEW call \in Calls, NEW hookFirst \in BOOLEAN,
           \/ call = InstrumentationClose
           \/ /\ call[2] = "instance" => call[1] \notin {"close", "closeInstrumentation"}
              /\ \A x \in MadeCalls : Precedes(x, call, hookFirst),
           calls' = Append(calls, call), created' = created
    PROVE  CleanupOrder'
<1>1. /\ calls \in Seq(Calls) /\ Len(calls) \in Nat
      /\ DOMAIN calls = 1 .. Len(calls) /\ DOMAIN calls' = 1 .. Len(calls) + 1
      /\ \A i \in 1 .. Len(calls) : calls'[i] = calls[i]
      /\ calls'[Len(calls) + 1] = call
  BY DEF TypeOK
<1>2. \A i \in DOMAIN calls : calls[i] \in MadeCalls /\ calls[i] \in Calls
  BY <1>1 DEF MadeCalls
<1>3. CreatedSet' = CreatedSet
  BY DEF CreatedSet
<1>4. PhasesInOrder'
  <2>1. \A x \in Calls : x[1] \in Phases /\ PhaseRank[x[1]] \in Nat
    BY PhaseRanks
  <2>2. ASSUME NEW x \in MadeCalls, x \in Calls
        PROVE  PhaseRank[x[1]] <= PhaseRank[call[1]]
    <3>1. CASE call = InstrumentationClose
      BY <2>1, <2>2, <3>1, PhaseRanks DEF InstrumentationClose
    <3>2. CASE Precedes(x, call, hookFirst)
      BY <2>1, <2>2, <3>2 DEF Precedes
    <3> QED
      BY <2>2, <3>1, <3>2
  <2> QED
    BY <1>1, <1>2, <2>1, <2>2 DEF OrderInv, CleanupOrder, PhasesInOrder
<1>5. DependentsFirst'
  <2> SUFFICES ASSUME NEW p \in CreatedSet, NEW q \in Deps[p], NEW phase \in Phases,
                      phase = "onApplicationDispose" \/ q # Logger,
                      NEW i \in DOMAIN calls', NEW j \in DOMAIN calls',
                      calls'[i] = <<phase, "instance", p>>,
                      calls'[j] = <<phase, "instance", q>>
               PROVE  i < j
    BY <1>3 DEF DependentsFirst
  <2>1. phase \notin {"close", "closeInstrumentation"}
    BY <1>1, <1>2 DEF OrderInv, InstrumentationClose
  <2>2. p # q
    <3>1. CreatedAt(q) < CreatedAt(p)
      BY InjectedEarlier
    <3>2. CreatedAt(p) \in Int
      BY DEF CreatedSet, CreatedAt, TypeOK
    <3> QED
      BY <3>1, <3>2
  <2>3. CASE i \in DOMAIN calls /\ j \in DOMAIN calls
    <3>1. calls[i] = <<phase, "instance", p>> /\ calls[j] = <<phase, "instance", q>>
      BY <1>1, <2>3
    <3>2. DependentsFirst
      BY DEF OrderInv, CleanupOrder
    <3> QED
      BY <2>3, <3>1, <3>2 DEF DependentsFirst
  <2>4. CASE i = Len(calls) + 1 /\ j \in DOMAIN calls
    <3>1. call = <<phase, "instance", p>> /\ <<phase, "instance", q>> \in MadeCalls
      BY <1>1, <1>2, <2>4
    <3>2. Precedes(<<phase, "instance", q>>, <<phase, "instance", p>>, hookFirst)
      BY <3>1 DEF InstrumentationClose
    <3> QED
      BY <2>1, <3>2, DependencyNotFirst
  <2>5. i # j
    BY <2>2
  <2> QED
    BY <1>1, <2>3, <2>4, <2>5
<1> QED
  BY <1>4, <1>5 DEF CleanupOrder

\* Nothing has been called before rollback and cleanup are planned.
LEMMA UncalledOrder ==
    ASSUME calls = <<>>, due = {} \/ due = RollbackCalls \/ due = CleanupCalls
    PROVE  OrderInv
<1>1. MadeCalls = {} /\ DOMAIN calls = {}
  BY DEF MadeCalls
<1>2. \A call \in RollbackCalls \union CleanupCalls :
          call[2] = "instance" => call[1] \notin {"close", "closeInstrumentation"}
  BY DEF RollbackCalls, CleanupCalls, ExtensionCloses, ProviderCalls
<1> QED
  BY <1>1, <1>2 DEF OrderInv, CleanupOrder, DependentsFirst, PhasesInOrder

\* A step of rollback or cleanup makes the next of the calls that are due.
LEMMA NextCallOrder ==
    ASSUME TypeOK, CreationInv, OrderInv, Cleaning,
           NEW call \in NextCalls(stage = "rollback"),
           due' = due \ {call}, calls' = Append(calls, call), created' = created,
           stage' = stage
    PROVE  OrderInv'
<1>1. call \in due /\ call \in Calls
  BY DEF NextCalls, TypeOK
<1>2. \A x \in MadeCalls : Precedes(x, call, stage = "rollback")
  BY <1>1 DEF OrderInv
<1>3. \A y \in due' : Precedes(call, y, stage = "rollback")
  BY DEF NextCalls
<1>4. MadeCalls' = MadeCalls \union {call}
  BY <1>1, AppendedCall
<1>5. CleanupOrder'
  BY <1>1, <1>2, OrderedCall DEF OrderInv
<1>6. \A x \in MadeCalls', y \in due' : Precedes(x, y, stage = "rollback")
  BY <1>3, <1>4 DEF OrderInv
<1>7. \A x, y, hookFirst : Precedes(x, y, hookFirst)' <=> Precedes(x, y, hookFirst)
  BY DEF Precedes, InDisposeOrder, InModuleOrder, LaterInstance, OwnerOf, CreatedAt
<1> QED
  BY <1>1, <1>4, <1>5, <1>6, <1>7 DEF OrderInv

\* A step that plans and makes no call.
LEMMA QuietOrder ==
    ASSUME OrderInv, UNCHANGED <<calls, due>>,
           \/ calls = <<>>
           \/ created' = created /\ (Cleaning' => Cleaning /\ stage' = stage)
    PROVE  OrderInv'
<1>1. MadeCalls' = MadeCalls
  BY DEF MadeCalls
<1>2. CASE calls = <<>>
  <2>1. MadeCalls = {} /\ DOMAIN calls' = {}
    BY <1>2 DEF MadeCalls
  <2> QED
    BY <1>1, <2>1 DEF OrderInv, CleanupOrder, DependentsFirst, PhasesInOrder
<1>3. CASE created' = created /\ (Cleaning' => Cleaning /\ stage' = stage)
  <2>1. CreatedSet' = CreatedSet
    BY <1>3 DEF CreatedSet
  <2>2. \A x, y, hookFirst : Precedes(x, y, hookFirst)' <=> Precedes(x, y, hookFirst)
    BY <1>3 DEF Precedes, InDisposeOrder, InModuleOrder, LaterInstance, OwnerOf, CreatedAt
  <2>3. CleanupOrder'
    BY <2>1 DEF OrderInv, CleanupOrder, DependentsFirst, PhasesInOrder
  <2> QED
    BY <1>1, <1>3, <2>2, <2>3 DEF OrderInv
<1> QED
  BY <1>2, <1>3

\* The instrumentation is closed after everything else.
LEMMA LastCallOrder ==
    ASSUME TypeOK, CreationInv, OrderInv, calls' = Append(calls, InstrumentationClose),
           created' = created, due' = due, ~Cleaning'
    PROVE  OrderInv'
<1>1. InstrumentationClose \in Calls
  BY DEF Calls
<1>2. MadeCalls' = MadeCalls \union {InstrumentationClose}
  BY <1>1, AppendedCall
<1>3. CleanupOrder'
  BY <1>1, OrderedCall
<1>4. InstrumentationClose[2] # "instance"
  BY DEF InstrumentationClose
<1> QED
  BY <1>2, <1>3, <1>4 DEF OrderInv

\* Initialization makes no call but those of its rollback, in order.
LEMMA InitializeOrder ==
    ASSUME CallsInv, CallsInv', ConstructionInv, OrderInv, Initialize \/ InitializeNext
    PROVE  OrderInv'
<1> USE DEF InitStep, Elsewhere, callVars, Cleaning
<1>1. TypeOK /\ CreationInv /\ (Cleaning => created' = created)
  BY StepCalls DEF ConstructionInv, Next
<1>2. /\ state \in {"created", "initializing"}
      /\ attempt' = attempt /\ attempt # "cleanup"
  BY DEF CallsInv, BoundaryInv, ControlInv, AtModuleHook, TypeOK, Initialize, InitializeNext,
         BindInputs, InputsMissing, ResolveDependency, CreateProvider, ResolutionFails,
         InitInstance, InitInstanceFails, ResolveNext, InitModule, InitModuleFails,
         Bootstrap, CreateRuntime, Run, StartupFails, RollbackCall, RollbackDone
<1>3. stage # "rollback" => calls = <<>>
  BY <1>2 DEF CallsInv, BoundaryInv, ControlInv
<1>4. AtModuleHook => stage = "providers"
  BY <1>1 DEF AtModuleHook, TypeOK
<1>5. CASE RollbackCall
  <2>1. PICK call \in NextCalls(TRUE) : due' = due \ {call} /\ calls' = Append(calls, call)
    BY <1>5 DEF RollbackCall
  <2>2. stage = "rollback" /\ stage' = stage /\ created' = created
    BY <1>1, <1>5 DEF RollbackCall
  <2>3. call \in NextCalls(stage = "rollback")
    BY <2>1, <2>2
  <2> QED
    BY <1>1, <2>1, <2>2, <2>3, NextCallOrder
<1>6. CASE RollbackDone
  BY <1>1, <1>2, <1>6, LastCallOrder DEF RollbackDone
<1>7. CASE InputsMissing \/ ResolutionFails \/ InitInstanceFails \/ InitModuleFails
           \/ StartupFails
  <2>1. calls' = <<>> /\ due' = RollbackCalls'
    BY <1>3, <1>4, <1>7 DEF InputsMissing, ResolutionFails, InitInstanceFails,
                            InitModuleFails, AtModuleHook, StartupFails, Rollback
  <2>2. (calls = <<>> /\ due = RollbackCalls => OrderInv)'
    BY UncalledOrder, PTL
  <2> QED
    BY <2>1, <2>2
<1>8. CASE Initialize \/ BindInputs \/ ResolveDependency \/ CreateProvider \/ InitInstance
           \/ ResolveNext \/ InitModule \/ Bootstrap \/ CreateRuntime \/ Run
  <2>1. calls = <<>> /\ UNCHANGED <<calls, due>>
    <3>1. stage # "rollback"
      BY <1>2, <1>4, <1>8 DEF Initialize, BindInputs, ResolveDependency, CreateProvider,
             InitInstance, ResolveNext, InitModule, Bootstrap, CreateRuntime, Run
    <3> QED
      BY <1>3, <1>8, <3>1 DEF Initialize, BindInputs, ResolveDependency, CreateProvider,
             InitInstance, ResolveNext, InitModule, Bootstrap, CreateRuntime, Run
  <2> QED
    BY <2>1, QuietOrder
<1> QED
  BY <1>5, <1>6, <1>7, <1>8 DEF InitializeNext

\* Shutdown makes the calls of its cleanup in order, whatever failed before.
LEMMA ShutdownOrder ==
    ASSUME CallsInv, ConstructionInv, OrderInv, ShutdownCall \/ ShutdownNext
    PROVE  OrderInv'
<1> USE DEF initVars, drainVars, leaseVars, callVars, Cleaning
<1>1. TypeOK /\ CreationInv /\ (Cleaning => created' = created)
  BY StepCalls DEF ConstructionInv, Next
<1>2. CASE ShutdownCall
  BY <1>2, QuietOrder
     DEF ShutdownCall, ShutdownDuringInit, ShutdownUnstarted, Shutdown, BeginDrain
<1>3. CASE InitSettled
  BY <1>3, QuietOrder DEF InitSettled, BeginDrain
<1>4. CASE IdleTimeout \/ CleanupDone \/ \E e \in Extensions : DrainTimeout(e)
  BY <1>4, QuietOrder DEF IdleTimeout, GiveUp, CleanupDone, DrainTimeout
<1>5. CASE DrainsSettled \/ IdleReached
  <2>1. /\ UNCHANGED <<calls, created, stage>>
        /\ attempt \in {"draining", "awaitIdle"} /\ state = "draining"
    BY <1>5 DEF DrainsSettled, IdleReached, CallsInv, BoundaryInv, ControlInv
  <2>2. calls = <<>>
    BY <2>1, NothingCalled DEF CallsInv, BoundaryInv, ControlInv
  <2>3. CASE due' = due
    BY <2>1, <2>2, <2>3, QuietOrder
  <2>4. CASE due' = CleanupCalls
    <3>1. CleanupCalls' = CleanupCalls
      BY <1>5, <2>1 DEF DrainsSettled, IdleReached, CleanupCalls, ExtensionCloses,
                        ProviderCalls, CreatedSet
    <3>2. (calls = <<>> /\ due = CleanupCalls => OrderInv)'
      BY UncalledOrder, PTL
    <3> QED
      BY <2>1, <2>2, <2>4, <3>1, <3>2
  <2> QED
    BY <1>5, <2>3, <2>4 DEF DrainsSettled, IdleReached, AtBoundary, GiveUp
<1>6. CASE CleanupCall
  <2>1. PICK call \in NextCalls(FALSE) : due' = due \ {call} /\ calls' = Append(calls, call)
    BY <1>6 DEF CleanupCall
  <2>2. stage # "rollback" /\ stage' = stage /\ created' = created
    BY <1>1, <1>6 DEF CleanupCall, CallsInv, BoundaryInv, ControlInv
  <2>3. call \in NextCalls(stage = "rollback")
    BY <2>1, <2>2
  <2> QED
    BY <1>1, <1>6, <2>1, <2>2, <2>3, NextCallOrder DEF CleanupCall
<1>7. CASE InstrumentationClosed
  BY <1>1, <1>7, LastCallOrder
     DEF InstrumentationClosed, CallsInv, BoundaryInv, ControlInv
<1> QED
  BY <1>2, <1>3, <1>4, <1>5, <1>6, <1>7 DEF ShutdownNext

\* CleanupOrder: no instance is torn down before what uses it, and the phases of
\* shutdown do not overlap, for every graph of modules and providers and
\* wherever initialization or an earlier shutdown stopped.
THEOREM CleanupIsOrdered == Spec => []CleanupOrder
<1>1. Init => OrderInv
  BY UncalledOrder DEF Init
<1>2. CallsInv /\ CallsInv' /\ ConstructionInv /\ OrderInv /\ [Next]_vars => OrderInv'
  <2>1. CallsInv /\ OrderInv /\ (ExecutionNext \/ DrainNext \/ UNCHANGED vars) => OrderInv'
    <3> SUFFICES ASSUME OrderInv, ExecutionNext \/ DrainNext \/ UNCHANGED vars
                 PROVE  OrderInv'
      OBVIOUS
    <3>1. UNCHANGED <<created, calls, due, stage, attempt>>
      BY DEF ExecutionNext, Begin, Complete, DrainNext, DrainSettles, vars, initVars, callVars
    <3> QED
      BY <3>1, QuietOrder DEF Cleaning
  <2> QED
    BY <2>1, InitializeOrder, ShutdownOrder DEF Next
<1>3. OrderInv => CleanupOrder
  BY DEF OrderInv
<1> QED
  BY <1>1, <1>2, <1>3, CallsInductive, ConstructionInductive, PTL DEF Spec

=============================================================================
