--------------------------- MODULE TasksRuntimeProofs ---------------------------
(***************************************************************************)
(* Machine-checked proofs about TasksRuntime, for every number of triggers,*)
(* starts and invocations.                                                 *)
(***************************************************************************)
EXTENDS TasksRuntime, TLAPS, FiniteSetTheorems

(* The inductive invariant.                                                *)

\* A startup has begun only handles of its own.
BegunInv == \A g \in Starts : \A h \in begun[g] : h[1] = g

\* There is one engine: a startup under way is the one triggerStartup names, and
\* nothing is registered yet; a stop that is under way has every handle that
\* runs, and waits for a startup first.
EngineInv ==
    /\ Starting = {triggerStartup} \ {0}
    /\ Starting # {} \/ triggerHandles # {} => triggersStarted
    /\ Starting # {} => triggerHandles = {}
    /\ \A h, k \in triggerHandles : h[1] = k[1]
    /\ \A h \in live : h \in triggerHandles \/ (h[1] \in Starting /\ h \in begun[h[1]])
    /\ stop = "awaitStartup" => Starting \subseteq {stopAfter}
    /\ stop = "stopping" =>
           /\ Starting = {}
           /\ stopping \union stopFailed \subseteq triggerHandles
           /\ live \subseteq stopping \union stopFailed

\* Nothing begins after the kernel has called drain(); and a drain() or close()
\* that went on has seen the engine empty.
ClosingInv ==
    /\ drain # "none" \/ close # "none" => state # "running"
    /\ drain = "resolved" => Running = {}
    /\ close \in {"stopping", "resolved"} => Starting = {} /\ Running = {}
    /\ ~overlapped =>
           /\ drain \in {"invocations", "resolved"} => live = {} /\ Starting = {}
           /\ close = "resolved" => live = {}

TasksInv == TypeOK /\ BegunInv /\ (~overlapped => EngineInv) /\ ClosingInv

-----------------------------------------------------------------------------
(* Lemmas about the startups under way and the handles.                    *)

\* Beginning to undo a startup leaves it under way, and ending it does not.
LEMMA StartupMoves ==
    ASSUME TypeOK, NEW g \in Starting
    PROVE  /\ g \in Starts
           /\ startup' = [startup EXCEPT ![g] = "undoing"] => Starting' = Starting
           /\ startup' = [startup EXCEPT ![g] = "done"] => Starting' = Starting \ {g}
BY DEF Starting, TypeOK

\* A trigger that is started is a handle of its startup.
LEMMA StartedHandle ==
    ASSUME TypeOK, NEW g \in Starts
    PROVE  <<g, trying[g]>> \in Handles /\ <<g, trying[g]>>[1] = g
BY DEF Handles, TypeOK

\* stopTriggers() finds no startup, or waits for the one there is.
LEMMA CallStopTyped ==
    ASSUME TypeOK, CallStop
    PROVE  /\ stop' \in {"awaitStartup", "stopping"}
           /\ stopAfter' \in 0 .. MaxStarts
           /\ stopping' \subseteq Handles /\ stopFailed' \subseteq Handles
BY DEF CallStop, StopHandles, stopVars, TypeOK

-----------------------------------------------------------------------------
(* Type correctness.                                                       *)

\* A Tasks extension that was just started has the types of TypeOK.
LEMMA InitTyped == Init => TypeOK
<1> SUFFICES ASSUME Init PROVE TypeOK
  OBVIOUS
<1>1. triggersStarted \in BOOLEAN /\ overlapped \in BOOLEAN
  BY DEF Init
<1>2. trying \in [Starts -> 1 .. NumTriggers]
      /\ triggerStartup \in 0 .. MaxStarts /\ stopAfter \in 0 .. MaxStarts
  BY CountsAssumption DEF Init
<1> QED
  BY <1>1, <1>2 DEF Init, TypeOK

\* Every step of a startup keeps the types.
LEMMA StartupTyped == TypeOK /\ StartupNext /\ UNCHANGED overlapped => TypeOK'
<1> SUFFICES ASSUME TypeOK, UNCHANGED overlapped, NEW g \in Starts,
                    \/ TriggerStarted(g) \/ TriggerFails(g) \/ StartupUndone(g)
                    \/ \E h \in Handles, ok \in BOOLEAN : UndoHandle(g, h, ok)
             PROVE  TypeOK'
  BY DEF StartupNext
<1> USE DEF engineVars, stopVars, kernelVars
<1>1. CASE TriggerStarted(g)
  <2>1. live' \subseteq Handles /\ begun' \in [Starts -> SUBSET Handles]
    BY <1>1, StartedHandle DEF TriggerStarted, TypeOK
  <2>2. /\ startup' \in [Starts -> {"none", "starting", "undoing", "done"}]
        /\ undoing' \in [Starts -> SUBSET Handles]
        /\ trying' \in [Starts -> 1 .. NumTriggers]
        /\ triggerHandles' \subseteq Handles /\ triggerStartup' \in 0 .. MaxStarts
    <3>1. CASE state # "running"
      BY <1>1, <2>1, <3>1 DEF TriggerStarted, Undo, TypeOK
    <3>2. CASE state = "running" /\ trying[g] < NumTriggers
      <4>1. trying[g] + 1 \in 1 .. NumTriggers
        BY <3>2, CountsAssumption DEF TypeOK
      <4> QED
        BY <1>1, <3>2, <4>1 DEF TriggerStarted, TypeOK
    <3>3. CASE state = "running" /\ ~(trying[g] < NumTriggers)
      BY <1>1, <2>1, <3>3, CountsAssumption DEF TriggerStarted, EndStartup, TypeOK
    <3> QED
      BY <3>1, <3>2, <3>3
  <2> QED
    BY <1>1, <2>1, <2>2 DEF TriggerStarted, TypeOK
<1>2. CASE TriggerFails(g)
  BY <1>2 DEF TriggerFails, Undo, TypeOK
<1>3. CASE StartupUndone(g)
  BY <1>3, CountsAssumption DEF StartupUndone, EndStartup, TypeOK
<1>4. ASSUME NEW h \in Handles, NEW ok \in BOOLEAN, UndoHandle(g, h, ok)
      PROVE  TypeOK'
  <2>1. /\ begun' \in [Starts -> SUBSET Handles] /\ undoing' \in [Starts -> SUBSET Handles]
        /\ live' \subseteq Handles
    BY <1>4 DEF UndoHandle, TypeOK
  <2> QED
    BY <1>4, <2>1 DEF UndoHandle, TypeOK
<1> QED
  BY <1>1, <1>2, <1>3, <1>4

\* Every step of stopTriggers() keeps the types.
LEMMA StopTyped == TypeOK /\ (StopTriggers \/ StopNext) /\ UNCHANGED overlapped => TypeOK'
<1> SUFFICES ASSUME TypeOK, UNCHANGED overlapped, StopTriggers \/ StopNext PROVE TypeOK'
  OBVIOUS
<1> USE DEF engineVars, startupVars, kernelVars
<1>1. CASE StopTriggers
  BY <1>1, CallStopTyped DEF StopTriggers, TypeOK
<1>2. CASE StartupAwaited
  BY <1>2 DEF StartupAwaited, StopHandles, TypeOK
<1>3. CASE StopDone
  BY <1>3 DEF StopDone, TypeOK
<1>4. ASSUME NEW h \in Handles, NEW ok \in BOOLEAN, StopHandle(h, ok) PROVE TypeOK'
  BY <1>4 DEF StopHandle, TypeOK
<1> QED
  BY <1>1, <1>2, <1>3, <1>4 DEF StopNext

\* Invocations and the calls of the kernel keep the types.
LEMMA KernelTyped ==
    /\ TypeOK /\ UNCHANGED overlapped
    /\ (\E i \in Invocations : Invoke(i) \/ Settles(i)) \/ Drain \/ DrainDone \/ GiveUp \/ Close
    => TypeOK'
<1> SUFFICES ASSUME TypeOK, UNCHANGED overlapped,
                    \/ \E i \in Invocations : Invoke(i) \/ Settles(i)
                    \/ Drain \/ DrainDone \/ GiveUp \/ Close
             PROVE  TypeOK'
  OBVIOUS
<1> USE DEF engineVars, startupVars
<1>1. ASSUME NEW i \in Invocations, Invoke(i) \/ Settles(i) PROVE TypeOK'
  BY <1>1 DEF Invoke, Settles, stopVars, kernelVars, TypeOK
<1>2. CASE Drain
  BY <1>2, CallStopTyped DEF Drain, TypeOK
<1>3. CASE DrainDone \/ GiveUp
  BY <1>3 DEF DrainDone, GiveUp, stopVars, TypeOK
<1>4. CASE Close
  BY <1>4, CallStopTyped DEF Close, TypeOK
<1> QED
  BY <1>1, <1>2, <1>3, <1>4

\* startTriggers() keeps the types.
LEMMA StartTyped ==
    TypeOK /\ StartTriggers /\ overlapped' = (overlapped \/ stop # "none") => TypeOK'
<1> SUFFICES ASSUME TypeOK, StartTriggers, overlapped' = (overlapped \/ stop # "none")
             PROVE  TypeOK'
  OBVIOUS
<1>1. overlapped' \in BOOLEAN /\ triggersStarted' \in BOOLEAN
  BY DEF StartTriggers
<1>2. triggerStartup' \in 0 .. MaxStarts
  BY CountsAssumption DEF StartTriggers, Starts
<1> QED
  BY <1>1, <1>2 DEF StartTriggers, stopVars, kernelVars, TypeOK

\* TypeOK: every variable of the extension keeps its type in every behaviour.
THEOREM TasksTypeCorrect == Spec => []TypeOK
<1>1. TypeOK /\ [Next]_vars => TypeOK'
  <2>1. TypeOK /\ UNCHANGED vars => TypeOK'
    BY DEF vars, codeVars, engineVars, startupVars, stopVars, kernelVars, TypeOK
  <2> QED
    BY <2>1, StartTyped, StartupTyped, StopTyped, KernelTyped DEF Next, Others
<1> QED
  BY InitTyped, <1>1, PTL DEF Spec

-----------------------------------------------------------------------------
(* One engine.                                                             *)

\* A step that touches neither startups nor handles keeps what EngineInv says.
LEMMA EngineKept ==
    ASSUME EngineInv,
           UNCHANGED <<engineVars, startup, begun, stop, stopAfter, stopping, stopFailed, live>>
    PROVE  EngineInv'
BY DEF EngineInv, engineVars, Starting

\* stopTriggers() takes over every handle that runs, or waits for the startup.
LEMMA CallStopEngine ==
    ASSUME TypeOK, EngineInv, CallStop, UNCHANGED <<engineVars, startupVars, live>>
    PROVE  EngineInv'
<1> USE DEF engineVars, startupVars
<1>1. Starting' = Starting
  BY DEF Starting
<1>2. CASE stop # "none"
  BY <1>2, EngineKept DEF CallStop, stopVars
<1>3. CASE stop = "none" /\ triggerStartup # 0
  BY <1>1, <1>3 DEF CallStop, EngineInv
<1>4. CASE stop = "none" /\ triggerStartup = 0
  <2>1. Starting = {} /\ live \subseteq triggerHandles
    BY <1>4 DEF EngineInv
  <2> QED
    BY <1>1, <1>4, <2>1 DEF CallStop, StopHandles, EngineInv
<1> QED
  BY <1>2, <1>3, <1>4

\* start() begins an engine only when there is none, if it is not called during a
\* stop().
LEMMA StartEngine ==
    ASSUME TypeOK, EngineInv, StartTriggers, stop = "none"
    PROVE  EngineInv'
<1>1. PICK g \in Starts : /\ startup[g] = "none"
                          /\ startup' = [startup EXCEPT ![g] = "starting"]
                          /\ triggerStartup' = g
  BY DEF StartTriggers
<1>2. Starting = {} /\ triggerHandles = {} /\ live = {}
  BY DEF StartTriggers, EngineInv
<1>3. Starting' = {g}
  BY <1>1, <1>2 DEF Starting, TypeOK
<1>4. g # 0
  BY DEF Starts
<1> QED
  BY <1>1, <1>2, <1>3, <1>4 DEF StartTriggers, stopVars, EngineInv

\* While a startup is under way it is the only one, nothing is registered, and
\* stop() at most waits for it.
LEMMA OneStartup ==
    ASSUME TypeOK, EngineInv, NEW g \in Starting
    PROVE  /\ g \in Starts /\ Starting = {g} /\ triggerStartup = g
           /\ triggersStarted /\ triggerHandles = {}
           /\ \A h \in live : h \in begun[g]
           /\ stop # "stopping"
           /\ stop = "awaitStartup" => stopAfter = g
<1>1. Starting = {g} /\ triggerStartup = g
  BY DEF EngineInv
<1>2. \A h \in live : h \in begun[g]
  BY <1>1 DEF EngineInv
<1> QED
  BY <1>1, <1>2, StartupMoves DEF EngineInv

\* A startup that ends registers every handle that runs.
LEMMA EndStartupEngine ==
    ASSUME TypeOK, EngineInv, NEW g \in Starting, EndStartup(g),
           live' \subseteq triggerHandles', triggerHandles' # {} => triggersStarted',
           \A h \in triggerHandles' : h[1] = g, UNCHANGED <<stop, stopAfter>>
    PROVE  EngineInv'
<1>1. Starting' = {} /\ triggerStartup' = 0
  BY OneStartup, StartupMoves DEF EndStartup
<1> QED
  BY <1>1, OneStartup DEF EngineInv

\* Every step of a startup keeps its handles its own and the engine the only one.
LEMMA StartupEngine ==
    ASSUME TypeOK, BegunInv, StartupNext
    PROVE  BegunInv' /\ (EngineInv => EngineInv')
<1> SUFFICES ASSUME NEW g \in Starts,
                    \/ TriggerStarted(g) \/ TriggerFails(g) \/ StartupUndone(g)
                    \/ \E h \in Handles, ok \in BOOLEAN : UndoHandle(g, h, ok)
             PROVE  BegunInv' /\ (EngineInv => EngineInv')
  BY DEF StartupNext
<1> USE DEF engineVars, stopVars
<1>1. g \in Starting
  BY DEF Starting, TriggerStarted, TriggerFails, StartupUndone, UndoHandle
<1>2. CASE TriggerStarted(g)
  <2> DEFINE h == <<g, trying[g]>>
  <2>1. /\ live' = live \union {h} /\ begun' = [begun EXCEPT ![g] = @ \union {h}]
        /\ h[1] = g
    BY <1>2 DEF TriggerStarted
  <2> HIDE DEF h
  <2>2. BegunInv'
    BY <2>1 DEF BegunInv, TypeOK
  <2>3. begun'[g] = begun[g] \union {h}
    BY <2>1 DEF TypeOK
  <2>4. ASSUME EngineInv PROVE EngineInv'
    <3>1. live' \subseteq begun'[g]
      BY <1>1, <2>1, <2>3, <2>4, OneStartup
    <3>2. CASE state # "running" \/ trying[g] < NumTriggers
      <4>1. Starting' = Starting
        BY <1>1, <1>2, <3>2, StartupMoves DEF TriggerStarted, Undo, Starting
      <4>2. UNCHANGED <<engineVars, stopVars>>
        BY <1>2, <3>2 DEF TriggerStarted
      <4>3. \A k \in live' : k[1] \in Starting' /\ k \in begun'[k[1]]
        BY <1>1, <2>2, <3>1, <4>1 DEF BegunInv
      <4> QED
        BY <1>1, <2>4, <4>1, <4>2, <4>3, OneStartup DEF EngineInv
    <3>3. CASE state = "running" /\ ~(trying[g] < NumTriggers)
      <4>1. triggerHandles' = begun'[g] /\ EndStartup(g) /\ UNCHANGED <<stop, stopAfter>>
            /\ triggersStarted' = triggersStarted
        BY <1>2, <3>3 DEF TriggerStarted
      <4>2. \A k \in triggerHandles' : k[1] = g
        BY <2>2, <4>1 DEF BegunInv
      <4> QED
        BY <1>1, <2>4, <3>1, <4>1, <4>2, OneStartup, EndStartupEngine
    <3> QED
      BY <3>2, <3>3
  <2> QED
    BY <2>2, <2>4
<1>3. CASE TriggerFails(g)
  <2>1. BegunInv'
    BY <1>3 DEF TriggerFails, BegunInv
  <2>2. Starting' = Starting
    BY <1>1, <1>3, StartupMoves DEF TriggerFails, Undo
  <2>3. EngineInv => EngineInv'
    BY <1>3, <2>2 DEF TriggerFails, EngineInv
  <2> QED
    BY <2>1, <2>3
<1>4. CASE StartupUndone(g)
  <2>1. BegunInv'
    BY <1>4 DEF StartupUndone, BegunInv
  <2>2. ASSUME EngineInv PROVE EngineInv'
    <3>1. live' \subseteq triggerHandles' /\ UNCHANGED <<stop, stopAfter>>
      BY <1>1, <1>4, <2>2, OneStartup DEF StartupUndone
    <3>2. triggerHandles' # {} => triggersStarted'
      BY <1>4 DEF StartupUndone
    <3>3. \A h \in triggerHandles' : h[1] = g
      BY <1>4 DEF StartupUndone, BegunInv
    <3> QED
      BY <1>1, <1>4, <2>2, <3>1, <3>2, <3>3, EndStartupEngine DEF StartupUndone
  <2> QED
    BY <2>1, <2>2
<1>5. ASSUME NEW h \in Handles, NEW ok \in BOOLEAN, UndoHandle(g, h, ok)
      PROVE  BegunInv' /\ (EngineInv => EngineInv')
  <2>1. BegunInv'
    BY <1>5 DEF UndoHandle, BegunInv, TypeOK
  <2>2. ASSUME EngineInv PROVE EngineInv'
    <3>1. Starting' = Starting
      BY <1>5 DEF UndoHandle, Starting
    <3>2. begun'[g] = IF ok THEN begun[g] \ {h} ELSE begun[g]
      BY <1>5 DEF UndoHandle, TypeOK
    <3>3. live' \subseteq begun'[g]
      BY <1>1, <1>5, <2>2, <3>2, OneStartup DEF UndoHandle
    <3>4. \A k \in live' : k[1] \in Starting' /\ k \in begun'[k[1]]
      BY <1>1, <2>1, <3>1, <3>3 DEF BegunInv
    <3> QED
      BY <1>1, <1>5, <2>2, <3>1, <3>4, OneStartup DEF UndoHandle, EngineInv
  <2> QED
    BY <2>1, <2>2
<1> QED
  BY <1>2, <1>3, <1>4, <1>5

\* A stop keeps registered what it could not stop.
LEMMA StopEngine ==
    ASSUME TypeOK, EngineInv, StopTriggers \/ StopNext
    PROVE  EngineInv'
<1> USE DEF engineVars, startupVars
<1>1. CASE StopTriggers
  BY <1>1, CallStopEngine DEF StopTriggers
<1>2. CASE StartupAwaited
  <2>1. Starting = {} /\ Starting' = {}
    BY <1>2 DEF StartupAwaited, EngineInv, Starting
  <2>2. live \subseteq triggerHandles
    BY <2>1 DEF EngineInv
  <2> QED
    BY <1>2, <2>1, <2>2 DEF StartupAwaited, StopHandles, EngineInv
<1>3. CASE StopDone
  <2>1. Starting' = Starting /\ Starting = {}
    BY <1>3 DEF StopDone, EngineInv, Starting
  <2>2. live \subseteq stopFailed /\ stopFailed \subseteq triggerHandles
    BY <1>3 DEF StopDone, EngineInv
  <2>3. triggerHandles' # {} => triggersStarted'
    BY <1>3 DEF StopDone
  <2> QED
    BY <1>3, <2>1, <2>2, <2>3 DEF StopDone, EngineInv
<1>4. ASSUME NEW h \in Handles, NEW ok \in BOOLEAN, StopHandle(h, ok) PROVE EngineInv'
  <2>1. Starting' = Starting
    BY <1>4 DEF StopHandle, Starting
  <2> QED
    BY <1>4, <2>1 DEF StopHandle, EngineInv
<1> QED
  BY <1>1, <1>2, <1>3, <1>4 DEF StopNext

-----------------------------------------------------------------------------
(* Shutdown.                                                               *)

\* start() and run() are refused once shutdown has begun.
LEMMA OpenClosing ==
    ASSUME TypeOK, ClosingInv, state = "running", UNCHANGED <<state, drain, close>>
    PROVE  ClosingInv'
<1>1. drain = "none" /\ close = "none"
  BY DEF ClosingInv, TypeOK
<1> QED
  BY <1>1 DEF ClosingInv

\* What only shrinks stays empty.
LEMMA ShrinkingClosing ==
    ASSUME ClosingInv, UNCHANGED <<state, drain, close, overlapped>>,
           live' \subseteq live, Starting' \subseteq Starting, Running' \subseteq Running
    PROVE  ClosingInv'
BY DEF ClosingInv

\* A startup under way keeps drain() and close() from going on.
LEMMA StartupClosing ==
    ASSUME TypeOK, ClosingInv, StartupNext, UNCHANGED overlapped
    PROVE  ClosingInv'
<1>1. PICK g \in Starts :
          \/ TriggerStarted(g) \/ TriggerFails(g) \/ StartupUndone(g)
          \/ \E h \in Handles, ok \in BOOLEAN : UndoHandle(g, h, ok)
  BY DEF StartupNext
<1>2. g \in Starting
  BY <1>1 DEF Starting, TriggerStarted, TriggerFails, StartupUndone, UndoHandle
<1>3. UNCHANGED <<state, invoked, drain, close>>
  BY <1>1 DEF TriggerStarted, TriggerFails, StartupUndone, UndoHandle, kernelVars
<1>4. Running' = Running
  BY <1>3 DEF Running
<1> QED
  BY <1>2, <1>3, <1>4 DEF ClosingInv

\* When a stop is over, drain() and close() go on only if nothing is left.
LEMMA StopClosing ==
    ASSUME TypeOK, ~overlapped => EngineInv, ClosingInv, StopTriggers \/ StopNext,
           UNCHANGED overlapped
    PROVE  ClosingInv'
<1> USE DEF engineVars, startupVars, kernelVars
<1>1. Starting' = Starting /\ Running' = Running
  BY DEF StopTriggers, StopNext, StartupAwaited, StopDone, StopHandle, Starting, Running
<1>2. CASE StopTriggers \/ StartupAwaited \/ \E h \in Handles, ok \in BOOLEAN : StopHandle(h, ok)
  <2>1. live' \subseteq live /\ UNCHANGED <<state, drain, close>>
    BY <1>2 DEF StopTriggers, StartupAwaited, StopHandle
  <2> QED
    BY <1>1, <2>1, ShrinkingClosing
<1>3. CASE StopDone
  <2>1. ~overlapped => Starting = {} /\ live \subseteq triggerHandles'
    BY <1>3 DEF StopDone, EngineInv
  <2>2. live' = live
    BY <1>3 DEF StopDone
  <2>3. /\ drain' # drain => drain = "stopping" /\ drain' \in {"invocations", "rejected"}
        /\ drain' # drain /\ drain' = "invocations" => triggerHandles' = {}
    BY <1>3 DEF StopDone
  <2>4. /\ close' # close => close = "stopping" /\ close' \in {"resolved", "rejected"}
        /\ close' # close /\ close' = "resolved" => triggerHandles' = {}
        /\ state' \in {state, "stopped"}
    BY <1>3 DEF StopDone
  <2> QED
    BY <1>1, <2>1, <2>2, <2>3, <2>4 DEF ClosingInv
<1> QED
  BY <1>2, <1>3 DEF StopNext

\* drain() resolves when no invocation is left, and close() is called then.
LEMMA KernelClosing ==
    ASSUME TypeOK, ClosingInv, UNCHANGED overlapped,
           \/ \E i \in Invocations : Invoke(i) \/ Settles(i)
           \/ Drain \/ DrainDone \/ GiveUp \/ Close
    PROVE  ClosingInv'
<1> USE DEF engineVars, startupVars, kernelVars
<1>1. ASSUME NEW i \in Invocations, Invoke(i) PROVE ClosingInv'
  BY <1>1, OpenClosing DEF Invoke
<1>2. ASSUME NEW i \in Invocations, Settles(i) PROVE ClosingInv'
  BY <1>2, ShrinkingClosing DEF Settles, Starting, Running, TypeOK
<1>3. CASE Drain \/ DrainDone \/ GiveUp \/ Close
  <2>1. Starting' = Starting /\ Running' = Running /\ live' = live
    BY <1>3 DEF Drain, DrainDone, GiveUp, Close, Starting, Running
  <2>2. CASE Drain
    BY <2>1, <2>2 DEF Drain, ClosingInv
  <2>3. CASE DrainDone
    BY <2>1, <2>3 DEF DrainDone, ClosingInv
  <2>4. CASE GiveUp
    BY <2>1, <2>4 DEF GiveUp, ClosingInv
  <2>5. CASE Close
    BY <2>1, <2>5 DEF Close, LeasesHeld, ClosingInv
  <2> QED
    BY <1>3, <2>2, <2>3, <2>4, <2>5
<1> QED
  BY <1>1, <1>2, <1>3

-----------------------------------------------------------------------------
(* What the extension promises.                                            *)

\* An extension that was just started has no engine.
LEMMA InitTasks == Init => TasksInv
<1> SUFFICES ASSUME Init PROVE BegunInv /\ EngineInv /\ ClosingInv
  BY InitTyped DEF TasksInv
<1>1. Starting = {} /\ Running = {}
  BY DEF Init, Starting, Running
<1> QED
  BY <1>1 DEF Init, BegunInv, EngineInv, ClosingInv

\* A step of start() keeps the invariant; one that overlaps a stop() gives up the
\* promise of one engine, and no other.
LEMMA StartTasks ==
    TasksInv /\ StartTriggers /\ overlapped' = (overlapped \/ stop # "none") => TasksInv'
<1> SUFFICES ASSUME TasksInv, StartTriggers, overlapped' = (overlapped \/ stop # "none")
             PROVE  TasksInv'
  OBVIOUS
<1>1. TypeOK'
  BY StartTyped DEF TasksInv
<1>2. BegunInv'
  BY DEF TasksInv, BegunInv, StartTriggers
<1>3. ~overlapped' => EngineInv'
  BY StartEngine DEF TasksInv
<1>4. ClosingInv'
  BY OpenClosing DEF TasksInv, StartTriggers, kernelVars
<1> QED
  BY <1>1, <1>2, <1>3, <1>4 DEF TasksInv

\* Every other step keeps the invariant.
LEMMA OthersTasks == TasksInv /\ Others /\ UNCHANGED overlapped => TasksInv'
<1> SUFFICES ASSUME TasksInv, Others, UNCHANGED overlapped PROVE TasksInv'
  OBVIOUS
<1> USE DEF TasksInv
<1>1. CASE StartupNext
  BY <1>1, StartupTyped, StartupEngine, StartupClosing
<1>2. CASE StopTriggers \/ StopNext
  <2>1. BegunInv'
    BY <1>2 DEF StopTriggers, StopNext, StartupAwaited, StopDone, StopHandle, startupVars, BegunInv
  <2> QED
    BY <1>2, <2>1, StopTyped, StopEngine, StopClosing
<1>3. CASE (\E i \in Invocations : Invoke(i) \/ Settles(i)) \/ Drain \/ DrainDone \/ GiveUp \/ Close
  <2>1. BegunInv' /\ (EngineInv => EngineInv')
    <3>1. UNCHANGED <<engineVars, startupVars, live>>
      BY <1>3 DEF Invoke, Settles, Drain, DrainDone, GiveUp, Close
    <3>2. CallStop \/ UNCHANGED stopVars
      BY <1>3 DEF Invoke, Settles, Drain, DrainDone, GiveUp, Close
    <3> QED
      BY <3>1, <3>2, CallStopEngine, EngineKept DEF BegunInv, startupVars, stopVars
  <2> QED
    BY <1>3, <2>1, KernelTyped, KernelClosing
<1> QED
  BY <1>1, <1>2, <1>3 DEF Others

\* TasksInv: the startup, the registered handles, the stop and the handles that
\* run account for each other, and a shutdown that goes on has seen them empty.
THEOREM TasksInductive == Spec => []TasksInv
<1>1. TasksInv /\ [Next]_vars => TasksInv'
  <2>1. ASSUME TasksInv, UNCHANGED vars PROVE TasksInv'
    <3>1. TypeOK' /\ BegunInv'
      BY <2>1 DEF vars, codeVars, engineVars, startupVars, stopVars, kernelVars, TasksInv,
                  TypeOK, BegunInv
    <3>2. EngineInv => EngineInv'
      BY <2>1, EngineKept DEF vars, codeVars, engineVars, startupVars, stopVars
    <3>3. ClosingInv'
      BY <2>1, ShrinkingClosing
         DEF vars, codeVars, engineVars, startupVars, kernelVars, TasksInv, Starting, Running
    <3>4. overlapped' = overlapped
      BY <2>1 DEF vars
    <3> QED
      BY <2>1, <3>1, <3>2, <3>3, <3>4 DEF TasksInv
  <2> QED
    BY <2>1, StartTasks, OthersTasks DEF Next
<1> QED
  BY InitTasks, <1>1, PTL DEF Spec

\* As long as start() is not called during a stop(), there is at most one engine,
\* and every trigger that runs is one a later stop() reaches.
THEOREM TriggersAreNotOrphaned == Spec => []NoOrphan
<1>1. TasksInv => NoOrphan
  <2> SUFFICES ASSUME TasksInv, ~overlapped
               PROVE  /\ AlreadyStartedIsRefused
                      /\ live \subseteq triggerHandles \union stopping
                                            \union UNION {begun[g] : g \in Starting}
    BY DEF NoOrphan
  <2>1. live \subseteq triggerHandles \union UNION {begun[g] : g \in Starting}
    BY DEF TasksInv, EngineInv
  <2>2. \A a, b \in Engines : a = b
    BY DEF TasksInv, EngineInv, Engines
  <2>3. AlreadyStartedIsRefused
    <3>1. CASE Engines = {}
      BY <3>1, FS_EmptySet DEF AlreadyStartedIsRefused
    <3>2. CASE Engines # {}
      <4>1. PICK a : Engines = {a}
        BY <2>2, <3>2
      <4>2. Cardinality({a}) = 1
        BY FS_Singleton
      <4> QED
        BY <4>1, <4>2 DEF AlreadyStartedIsRefused
    <3> QED
      BY <3>1, <3>2
  <2> QED
    BY <2>1, <2>3
<1> QED
  BY <1>1, TasksInductive, PTL

\* A drain() that resolves leaves no trigger and no task running, and neither does
\* a close(), even after a drain() that was rejected.
THEOREM ShutdownLeavesNothing == Spec => []ShutdownMeansIdle
<1>1. TasksInv => ShutdownMeansIdle
  BY DEF TasksInv, ClosingInv, ShutdownMeansIdle, LeasesHeld
<1> QED
  BY <1>1, TasksInductive, PTL

=============================================================================
