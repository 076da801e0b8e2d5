# loutrejs verification project

TLA+ models of loutre (`src/packages/*`), the TLC configurations that check
them, and TLAPS proofs about them. Everything in a module is translated from the
source; `PROJECT.json` maps each definition to its lines.

* Run a model: `tlc -workers 2 -config Kernel.cfg MCKernel`
* Check a proof: `tlapm KernelProofs.tla`

## 1. The system

loutre is a TypeScript framework. A declared application is compiled into an
*Application Model*; a *kernel* constructs and runs it; *extensions* (HTTP,
WebSocket, tasks, MessagePort, GraphQL) attach ways to call it; *adapters* (Node,
Bun, Lambda, Workers, Electron) connect the extensions to a platform. It is
single-threaded JavaScript: code between two `await`s is atomic, and everything
difficult happens across an `await`.

| Component | State it keeps | Operations | Talks to |
| --- | --- | --- | --- |
| Application Kernel (`runtime/kernel.ts`, `runtime/execution-tracker.ts`) | `#state`, created instances, initialized modules, extension runtimes, drain operations, leases, idle waiters | `initialize`, `beginExecution`, `lease.complete`, `shutdown` | container, extension runtimes, instrumentation |
| DI container (`runtime/di.ts`) | instances, resolution stack | `resolve`, `runInScope` | kernel, provider factories |
| Application Model (`core/model/`, `graph/`) | none (pure) | build, validate | kernel, CLI |
| Shutdown and signals (`runtime/shutdown.ts`, `runtime/shutdown-hooks.ts`) | `#started`, `#closed`, `#closing`; signal listeners, retry loop | `close`, `install`, `dispose` | adapters, `process` |
| Node adapter (`node/src/index.ts`), Bun adapter (`adapters/bun.ts`) | native server, pending listen, `serverClosingPromise` | `serve`, `close` | HTTP server, shutdown |
| Tasks (`tasks/extension.ts`, `tasks/runtime/`) | engine state, trigger handles, startup and stop promises, active invocations | `start`, `stop`, `run`, drain, close | kernel leases, queue drivers |
| MessagePort (`message-port/extension.ts`, `runtime/async-iterator-lifecycle.ts`, `runtime/ingress-gate.ts`) | gate, active streams, iterator lifecycle per stream | `invoke`, `next`, `return`, `throw`, `cancel`, drain | kernel leases, handlers' iterators |
| WebSocket (`websocket/extension.ts`, `websocket/driver.ts`) | gate, sessions, per session its state, `sendTail`, `closeOperation`, `transportFailed` | `upgrade`, `send`, `close`, drain and its budget | kernel leases, layers, connection drivers |
| WebSocket drivers (`adapters/websocket-native.ts`, `node/src/websocket.ts`) | native socket, `closed` promise | `send`, `close`, `terminate` | sockets of Node, Bun, Workers |
| HTTP (`http/extension.ts`) | gate, active requests, the streams of responses and their cleanup | `fetch`, `pull`, `cancel`, drain | kernel leases, layers, handlers, response bodies |
| Layers (`core/generic-layer.ts`) | continuation per call | `composeLayers` | HTTP, WebSocket |
| GraphQL (`graphql/src/websocket.ts`, `graphql/src/scope.ts`) | operations, tasks and leases per session; batches per operation | messages of `graphql-transport-ws`, `load`, `flush` | WebSocket sessions, graphql-ws, resolvers |
| Host API (`application/kernel.ts`) | `initialized`, namespaces | `init`, `close`, host calls | kernel |
| Other adapters (Lambda, Workers, Electron) | the promise of the first initialization | handler | kernel, HTTP |
| Development server (`cli/src/dev/server.ts`, `dev/run-supervisor.ts`, `cli/src/index.ts`) | `state`, `watchedPaths`, `reloadRequested`; `child`, `closing`, `settled` | `reload`, watcher events, `start`, `close` | files, processes, Devtools clients |
| Devtools channel (`cli/src/dev/application-channel.ts`, `dev/event-store.ts`) | connected applications, pending commands, runs | hello, results, `command`, `close` | applications, control plane |
| GraphQL generator (`cli/src/graphql-cli.ts`, `cli/src/graphql-codegen.ts`) | `running`, `queued`; stages with backups | `refresh`, `generate` | file system, watcher |

### What is hard here, and what makes each part correct

* **Kernel.** Shutdown is a retryable protocol with two timeouts. Drains may hang,
  reject, or settle after the attempt that started them has given up; executions
  come and go while it waits; `shutdown()` may be called during initialization, be
  joined, or be retried. Correct means: resources are released only past the *safe
  cleanup boundary* (nothing executes, nothing drains), all of them, each once, in
  dependency order, and a failed attempt can be retried.
* **Host.** `close()`, a signal, a failing `serve()` and a `listen()` under way
  race each other. Correct means: a resolved `close()` leaves nothing behind,
  nothing starts after shutdown began, a signal is persistent, nobody waits for
  ever for reasons of our own.
* **Tasks.** Starting triggers takes several awaits, any of which may fail or find
  the runtime draining, and stopping them may fail too. Correct means: one engine at a
  time, no trigger that runs unregistered, an idle extension when drained.
* **MessagePort streams.** The consumer's calls, the cleanup and the drain share an
  async iterator, and a call that has settled is taken up microtasks later. Correct means: the execution
  lease is held exactly while the iterator may run, the iterator is asked to return once, and every stream ends.
  The code falls short of the first two in one corner each (section 5).
* **WebSocket.** A handshake may complete while the extension drains; sends are
  chained and the one close operation, shared by handler and drain, waits for them; a
  graceful close races a timer and a terminate that may fail. Correct means: the
  execution lease is held until connection and handler have both ended, a
  resolved drain has left neither handshake nor session, and every session ends
  however silent its peer.
* **HTTP and layers.** A response that streams takes its request's lease over; the
  client, the source, a failing event and the drain may all end it. Correct means: the lease
  outlives every read of the source, also when the drain's deadline passes in the middle of
  the cleanup, and every request ends.
* **GraphQL.** Operations of a session run concurrently under leases of their own, and a
  client may use an id again as soon as it has completed it. Correct means: a lease outlives its
  operation's code (but for the resolvers of an event nobody waits for any more), one operation's end is not another's. A data scope collects the loads of a turn;
  correct means: each is flushed, and answered with its own value.
* **Triggers.** A stop races timers, jobs being validated and runs. Correct means: nothing is taken on after it, nothing
  is left when it has resolved.
* **Development server, Devtools, generator.** Files change while they are being read, processes end
  and are killed, connections replace each other, file operations fail half-way. Correct means: what is
  shown is what is there, no process is left, and no generation of outputs is lost.

`PROJECT.json` lists these hazards one by one, at their lines, with the properties
that guard them.

## 2. The modules

| Module | Models | Composition |
| --- | --- | --- |
| `AppLifecycle` | the contract of an application: admit work only while open, release only after the last piece of work | abstract |
| `Kernel` | `ApplicationKernelRuntime`, `ExecutionTracker`, the part of `Container` it drives | implements `AppLifecycle` (`ImplementsLifecycle`) |
| `RuntimeHost` | `RuntimeShutdown`, `ProcessShutdownHooks`, the Node and Bun adapters | uses `AppLifecycle` as the application inside (`App == INSTANCE AppLifecycle`) |
| `TasksRuntime` | the Tasks extension runtime | its environment is the kernel's drain, boundary and close |
| `MessagePort` | `MessagePort` invocations and streams, with `AsyncIteratorLifecycle` and `IngressGate` | its environment is the kernel's drain and `abortAll` |
| `WebSocket` | the WebSocket extension: handshakes, sessions, drain | its environment is the kernel's drain, boundary and close, and the connection drivers |
| `Http` | the HTTP extension: preflight, layers, handler, streams, drain | its environment is the kernel's drain, and clients |
| `ExecutionLeases` | what every extension promises about the leases of its executions, and what its `drain()` means | abstract; `MessagePort`, `WebSocket`, `Http` and `GraphqlSocket` implement it |
| `GraphqlSocket` | a `graphql-transport-ws` session | implements `ExecutionLeases` for its operations |
| `DataScope` | the batches of a GraphQL operation | |
| `Triggers` | one cron, fixed-delay or queue trigger, with the BullMQ driver | what `TasksRuntime` takes as a handle |
| `DevServer` | `loutre dev`: reloads, watcher, supervised application | |
| `DevtoolsChannel` | application connections, runs and commands of the development server | |
| `GraphqlCodegen` | `loutre graphql generate --watch` on a file system that fails, in a process that is killed | |
| `Periphery` | the sum of the last six: a behaviour is one of exactly one of them | `INSTANCE` of each |
| `KernelProofs`, `KernelCleanupProofs` | proofs about `Kernel` | the second extends the first |
| `RuntimeHostProofs`, `TasksRuntimeProofs`, `MessagePortProofs`, `WebSocketProofs`, `HttpProofs` | proofs about the module each is named after | |
| `PeripheryProofs` | proofs about the six components of `Periphery` | each component's invariant by itself, then the theorem over the sum |
| `MC...` | instances for TLC | |

In every module one action is the code between two awaits of one
control flow. What can happen at an await, a hook that throws, a driver
that rejects, a timer, another caller, is a nondeterministic choice. Operators
whose comment starts with *Fault* are not used by any specification: each is a plausible
bug in the definition that follows it, and the property that would catch it
is listed in `PROJECT.json`.

### Kernel

`stage`, `modAt` and `building` are the program counter of `#initialize`: the
container resolves the logger, then each module's providers in declaration order
(depth first, dependencies in any order the constructor asks for them), running
`onModuleInit` for what it has created, then the module's hook. `attempt` is the
program counter of `#shutdownApplication`: `draining` (the drains against their
timeouts), `awaitIdle`, `cleanup`, `instrument`. `due` holds the lifecycle
calls that cleanup or rollback has still to make; `NextCalls` picks the one the
loops of the code reach next, from `Precedes`, the code's order; `calls` is the
history of those made. `drainOp` is the map of drain operations, `drainRuns` counts
the promises really unsettled, `drainResult` is what this attempt's timeout made of
each. Leases follow `ExecutionTracker`; `waiters` are its idle waiters.

Abstracted: which error is thrown (only that one is), instrumentation and logging
events, request-scoped providers, option values. `onModuleInit` and
`onApplicationBootstrap` calls are not recorded, only their failure.

### RuntimeHost

One module for both adapters; `adapter` is chosen once, in `Init`. `attempt`,
`safe`, `errors` and `resource` are the locals of `#close`; `loop` and `retryNeeds`
are the signal handler's retry loop and the `retryAfter` it awaits; `serve`,
`server`, `socket`, `closing` are the adapter's serve function, its server
variable, the native server and `serverClosingPromise`. The native server
(`node:http`, `Bun.serve`) is external: `listen()` succeeds or fails, `close()` ends
when the last connection has, or reports an error.

### TasksRuntime

A handle is `<<g, t>>`: what the g-th `startTriggers()` started for trigger `t`.
`startup[g]` is where that call is, `stop` where the shared `triggerStop` is, and
`live` the handles that really run. Queue drivers are user code and may reject.
The inside of a trigger is in `Triggers`: here a trigger is a thing that runs until its
`stop()` resolves, and that may `Invoke`.

### MessagePort

Per stream: the wrapper's flags (`finished`, `cancelled`, `settled`), the
consumer's calls under way, the one cleanup and its position, and the
iterator lifecycle (`returning`, `continuing`, `done`, `broken`). `deadline[s]` is whether the
cleanup deadline of the last drain has passed. `op[s][o]` follows a call through the microtasks after its answer:
`ReturnSettles` is `#run` (`#inFlight` falls, `#done` is set, the idle waiters are resolved), and a return's answer (`more`, `done` or
`error`) waits in `op` until `ReturnContinues`, where `return()` clears `#returnPending` and sets
`#returnContinuationPending`. A cleanup that waited goes on in between (`ReturnAwaited`) or after; the model leaves the order free.
`answered` and `late` are history variables: that an unfinished `return()` has been answered, and that `cancel()` was first called
on a stream whose lease was completed.

### WebSocket

`upgrade[s]` is where `upgrade()` is: in its opening validation, in the middlewares
(`layers`), in `driver.upgrade()` below them, on the way back through them with a
connection (`leaving`), terminating that connection after a failure, or over. A session's
variables are the locals of `createSession`: `session` is its `state`, `queued` and `sending` are
`sendTail`, `failed` is `transportFailed`, `closing` is where `closeOperation` is, `handler` and
`rejected` are `completion`. `stopping[s]` is where the `drain()` that runs is with the session: its
graceful close against `webSocketGracefulShutdownBudget`, `terminate()`, the wait for `completion`.

Abstracted: an aborted signal is one of the ways in which `LayersEnd` and `LayersFail` happen, and incoming
messages, which the handler pulls from an iterator, are part of its running; codecs may
succeed or fail (`Encoded`); errors are not told apart. The connection driver is external: `driver.ts`
settles `closed` once and races a `send()` that waits for the socket to open against it; that the calls settle
once the connection has ended is all that is assumed. The Bun driver waits for the opening alone
(`adapters/websocket-native.ts:76`), so it keeps to this only if Bun opens every socket it has upgraded.

### Http

`stage[r]` is where `fetch()` is with a request: in its preflight, preparing its input, in the layers, finalizing the
handler's result, mapping an error, answering. `body` tells what kind of stream the response has adopted, a body
passed through (`leased`) or server-sent events; `pull`, `finished`, `cleanup`, `failed`, `continuing`, `ended` and
`deadline` are the locals of that stream, of its `stop()` and of its `AsyncIteratorLifecycle`; `abort[r]` is where the
drain's `stream.abort()` is. Matching of paths, validation and encoding appear as what they may answer.

### GraphqlSocket and DataScope

An operation is a subscribe message; `idOf` gives its id, `task` is the program counter of the promise `dispatch()` keeps
for it, `operations` and `operationTasks` are the maps of that name, and `subscriptions` is the reservation of an id in
graphql-ws, which is external: it refuses an id in use, iterates what `subscribe()` returned, gives the id back at the end or on
a complete message, and reports the end through `onComplete` or `onError`, also that of a query `onSubscribe` answered with
errors. What it iterates is the mapped source of `graphql/src/execution.ts`: `delivery` is where an event is, in its resolvers
(`EventComes`, `EventResolved`) or being sent (`EventSent`), and `return()` goes to the source without waiting for it. Sources
themselves are taken to be async generators. `orderly` is the set of ids on which the client keeps to the order of its messages;
it is chosen in `Init`, on the others the client does as it likes. `phase` is `cleanupSession`, `init` is `connection_init`.
`await context.closed` is taken to resolve: should it reject, the `finally` that completes the remaining leases is not reached.

In `DataScope` a load is `<<parent, batch>>`; `waiting` is `batch.requests`, `flight` what a running `flush()` has left,
`dedup` the `WeakMap` of promises, which primitives do not enter. A load whose arguments or selection have no key has a
batch of its own.

### Triggers

`TickOnce` is `tick()`, `loop` the program counter of the fixed-delay loop, whose sleep ends by the timer or by `stop()`,
both of which take effect in a later microtask (`woken`). The worker of BullMQ is external: it hands out jobs up to its
concurrency, and `close()` waits for them. A job's payload is validated (`validating`) before its run begins, which may be
after `stop()` was called. The five fields of an expression are reduced to the set of `matching` minutes.

### DevServer, DevtoolsChannel and GraphqlCodegen

`DevServer`: a project is an entry and a helper it may import; a load reads the files at one instant and ends later with
the graph and the files it depends on (`watched`). `load`, `again` and `joined` are `reloadPromise`, `reloadRequested` and the
watcher's continuation. `missed` is a history variable: a change that nobody can notice, because it was made before the
watcher was ready, or during a build to a file that only the graph being built depends on. `crashedOn` is another:
the graph of the files when the last child ended with an error. A watcher that fails during its first scan makes
`startDevServer` reject (`ScanFails`). An `error` event of a child
stands for a spawn that failed; one that failing to signal a running child raises is left out.

`DevtoolsChannel`: a socket that `close()` was called on still delivers what was on its way, and its `close` event comes later; after
`terminate()` only the event comes.

`GraphqlCodegen`: `root`, `temporary` and `backup` are the files of each target; every `mkdir`, `writeFile`, `rename`
and `rm` may fail, a removal half-way (`Damaged`), and `Crash` kills the process between any two. What an earlier
process has left lies under random names and is nobody's. `before` and `seen` are history variables. The outcome
`unclean` is a failure of the `finally` that removes stages and backups, which replaces any other. The set of
inputs is fixed, and one generator runs at a time.

## 3. The runs

| Run | Question | Instance |
| --- | --- | --- |
| `Kernel` | Does shutdown, in any interleaving with initialization, executions, hanging and failing drains and retries, release everything once, in order, past the boundary, and end? Does the kernel implement `AppLifecycle`? | 2 modules, 4 providers with dependencies within and across modules and a logger, 2 extensions, 2 executions; 5 963 states |
| `RuntimeHost` | Is `close()` total and final for two callers, a signal and `serve()`, with either adapter? | 2 callers, 2 requests, both adapters; 19 616 states |
| `TasksRuntime` | Is the engine single, are its triggers all reachable, and does shutdown complete? | 2 triggers, 2 starts, 1 invocation; 78 778 states |
| `TasksDoubleStart` | Is `LUTRE_TRIGGERS_ALREADY_STARTED` reliable when `stop()` is not awaited? It is not: see the findings. | as above |
| `MessagePort` | Does the extension implement `ExecutionLeases`, when does a cleanup return from an iterator that is being returned from, and does a shutdown that is retried end every stream? | 2 invocations, one of which answers with a stream, 2 concurrent calls; 30 358 states |
| `PortStuck` | Does a rejected drain let `retryAfter` settle by itself? It does not: see the findings. | 1 stream, 1 call |
| `WebSocket` | Does the extension implement `ExecutionLeases`, does the close wait for the sends, does shutdown end every session whatever peers do? | 2 upgrades, one of which may connect and send; 25 032 states |
| `WebSocketOrphan` | Does a handshake that fails terminate its connection? Not always: see the findings. | 1 session, no `send()` |
| `Http` | Does the extension implement `ExecutionLeases`, is every request answered, and does every stream end? | 2 requests, one of which may answer with a stream; 42 347 states |
| `HttpDetached` | Is nothing of a request left when it has been answered? Not always: see the findings. | 1 request, no stream |
| `Periphery` | For each of its six components: see its properties, below. | the bounds below; 288 883 states, three minutes |
| `GraphqlCancel` | Does the end of a completed operation leave the others alone? Not always: see the findings. | 2 operations, 1 id |

The properties of `Periphery`: `DevFollowsSource`, what `loutre dev` shows follows the source unless a change was
`missed`, a valid graph has its application running unless that crashed on this very graph, and no child outlives the command; `GenerationsKept`, all outputs
are of the new generation, or what each held before is in its place or in a backup, and a change of the input
is generated; `RunsMirrorConnections`, a run is shown as connected exactly while a live connection answers for it, and
commands wait on no other; `OperationsImplementLeases`, operations on `orderly` ids implement `ExecutionLeases`,
resolvers that outlive their lease have had their signal aborted, hooks come after everything a session ran, and a session whose
connection has begun to close resolves with no lease left but the displaced ones (section 5); `LoadsAreAnswered`, every load
is answered with its own parent's value or an error, all of them at once when the scope is aborted;
`StoppedTriggersAreQuiet`, after `stop()` no timer begins a run and a queue takes no job on (one handed over before may
begin its run), nothing is left when it resolves, and a minute that
matches fires once.

`ReturnNotReentered` of `MessagePort` says exactly what the code ensures, not the single `return()` that its ADR and its test
expect: the cleanup never calls `return()` over one that is under way, and repeats one that was answered `done: false` only in the
gap before that answer is taken up (section 5). Likewise `ImplementsLeases` leaves out the cleanup of a `late` cancel.

Bounds, and why they are enough. *Kernel*: two modules give the import order, two
extensions a drain that fails next to one that does not, two executions one that completes
while another holds the boundary; the four providers have a dependency inside a
module, one across, one with two dependencies and the logger. Nothing else
is bounded: shutdown may be retried for ever. *RuntimeHost*: two callers are a join, a
repeat and a retry. *TasksRuntime*: `MaxStarts` bounds how often the engine is
started; two starts are what it takes for an engine to meet another one's
stop. *MessagePort*, *WebSocket*, *Http*: executions meet only in the gate and the drain, so one that does all it
can stands beside one that holds the gate or the drain up: `Streaming`, `Connecting` and `Outputs` name the former. A
stream's interleavings come from two consumer calls and the cleanup. `MaxQueued` is 1 because the second send that
waits meets nothing the first does not.

*Periphery*: three operations on one id (a predecessor, its successor and one that waits for it; with two ids
operations meet only in the connection); three connections of two runs (a run taken over twice, beside another); three
loads, of objects and primitives, with chunks of two and a keyed batch beside opaque ones; two targets and two versions
of the input, with any number of crashes and restarts; two changes of the files and one reload asked for by a
client; three minutes, two firings of a delay in each, two jobs at a time. Clients are not assumed to behave: on an id outside
`orderly` one uses it again after it was refused, or has a message overtake an earlier one that still waits for its turn, which takes
an operation that has failed in between. What is stated of leases is stated of the ids in `orderly`, which such a client does not disturb;
section 5 says what happens on the others.

Deadlock is not checked: a stopped application takes no further step, nor does one that is
never shut down.

### Fairness

Weak fairness stands for: the JavaScript runtime runs every continuation whose promise has
settled, timers fire, the operating system answers `listen()`. Nothing is assumed of
drains, executions, clients, queue drivers or handlers unless a property needs it, and then it is
part of that property or of the named fairness formula:

* `KernelFairness`: lifecycle hooks return, the kernel's own steps and timers
  happen. Drains and leases need not.
* `RetryFairness` (Kernel, a hypothesis of `ShutdownEnds`): the signal handler retries when
  `retryAfter` settles, executions complete, a drain that is retried again and again
  succeeds in the end (strong fairness: an attempt may overtake it).
* `HostFairness`, `PeerFairness` (RuntimeHost): the latter, a hypothesis of
  `EveryoneAnswered`, is that clients close their connections and requests end.
* `TasksFairness`: queue drivers and tasks answer, successfully or not.
* `PortFairness`, `RetryFairness` (MessagePort): iterators answer, one that is asked again and again
  ends, and the host calls `close()` again after a rejected drain.
* `SocketFairness`, `RetryFairness` (WebSocket): middlewares and drivers finish a handshake, a driver's calls
  settle once its connection has ended, a handler ends once its connection has. Nothing is assumed of
  a peer: only the budget and `terminate()` end a session whose peer is silent, and the
  hypothesis of `SessionsEnd` is that `terminate()` does not fail for ever and that the host retries.
* `HttpFairness`, `RetryFairness` (Http): layers, handlers and sources answer; otherwise as for MessagePort. Nothing is
  assumed of clients.
* `PeripheryFairness`: each component's own, of the one that runs. `DevServer`: loads and timers end and the watcher reports;
  a child that is only asked to exit need not. `GraphqlCodegen`: the process goes on unless it is killed. `GraphqlSocket`: hooks,
  resolvers and `return()` settle, an aborted stream ends even if the resolvers of its event do not, a connection that closes is closed; nothing obliges a stream to end by
  itself, nor a client to say anything. `DataScope`: microtasks run and `load` settles. `Triggers`: validations and runs
  settle. A channel needs none.

## 4. What is proved

Every invariant that a run checks is proved for every value of the constants, and so are all action properties, the
refinements of `AppLifecycle` and `ExecutionLeases`, and the safety part of each property of `Periphery`. TLC checked
each inductive invariant on the run's instance before it was proved.

| Module | Theorem | What it states |
| --- | --- | --- |
| `KernelProofs` | `TypeCorrect`, `CleanupIsSafe`, `DrainsAreNotReentered`, `IdleWakeupsAreNotLost`, `FailedDrainsAbortLeases` | `TypeOK`, `SafeCleanupBoundary`, `NoConcurrentDrain`, `NoLostIdleWakeup`, `FailedDrainAborts` |
| | `KernelImplementsLifecycle` | `ImplementsLifecycle`, the refinement of `AppLifecycle` |
| `KernelCleanupProofs` | `LifecycleCallsAreMadeOnce`, `StoppedMeansReleased`, `NothingIsConstructedByCleanup` | `CallsMadeOnce`, `StoppedReleasesAll`, `CleanupConstructsNothing` |
| | `ConstructionInductive` | what is created is created once, and after all that is injected into it |
| | `CleanupIsOrdered` | `CleanupOrder` |
| `RuntimeHostProofs` | `HostTypeCorrect`, `ClosedIsQuiet`, `HooksStayOff`, `ServersAreNotLost`, `ServersAreServedInTime` | `TypeOK`, `ClosedMeansQuiet`, `HooksOffOnceStarted`, `ServerNotLost`, `ServedBeforeShutdown` |
| `TasksRuntimeProofs` | `TasksTypeCorrect`, `TriggersAreNotOrphaned`, `ShutdownLeavesNothing` | `TypeOK`, `NoOrphan`, `ShutdownMeansIdle` |
| `MessagePortProofs` | `PortTypeCorrect`, `ReturnIsNotReentered` | `TypeOK`, `ReturnNotReentered` |
| | `PortImplementsLeases`, `PortIsSafe` | `ImplementsLeases`, and the contract's `Safe` as an invariant of the extension, both but for the cleanup of a `late` cancel |
| `WebSocketProofs` | `SocketTypeCorrect`, `ClosesFollowTheirSends` | `TypeOK`, `CloseAfterSends` |
| | `SocketImplementsLeases`, `SocketIsSafe` | as for MessagePort |
| `HttpProofs` | `HttpTypeCorrect` | `TypeOK`, which says of a request too that it holds its lease until it is answered |
| | `HttpImplementsLeases`, `HttpIsSafe` | the same of the sources of streamed bodies; handlers are not covered (`HttpDetached` shows one that runs under a completed lease) |
| `PeripheryProofs` | `PeripheryTypeCorrect`, `RunsAreMirrored` | `TypeOK`, `RunsMirrorConnections` |
| | `SessionsImplementLeases`, `LoadsGetTheirOwn`, `StoppedTriggersBeginNothing`, `GenerationsAreKept`, `NoChildOutlivesTheCommand` | the safety halves of `OperationsImplementLeases`, `LoadsAreAnswered`, `StoppedTriggersAreQuiet`, `GenerationsKept`, `DevFollowsSource` |

### From which assumptions

* `SizesAssumption`, `VisibilityAssumption` (Kernel): what `buildApplicationModel` and its validation establish: imports come
  before importers, a provider or hook sees its own module and what that imports, and the providers that no module declares are the
  default logger and what `compileApplicationLogger` (`core/model/logger.ts`) injects into it.
* `AdaptersAssumption`, `CountsAssumption`, `SocketAssumption` and the two `StreamingAssumption` say only that constants are
  sets and counts of the right kind.
* `PeripheryAssumption`: likewise, and that the marks `"none"`, `"unsettled"`, `"rejected"` are no objects of the program.
* `SessionsImplementLeases` has no hypothesis about clients: whatever one does on an id outside `orderly` is part of the model, and the
  theorem says that the others keep the contract. `NoOrphan` and `ShutdownMeansIdle` speak, as they
  stand, of hosts that await `stop()`.

### Along which argument

None of the properties is inductive alone, with one exception; each module begins with the invariant that is.

* *Kernel, boundary*: `BoundaryInv` adds `ControlInv`, where `#state`, the initializer and the attempt can be together; `DrainInv`,
  one running `drain()` per pending operation, and a pending one that the attempt still waits for or has seen time out; `LeaseInv`,
  no lease outside running and draining. The boundary is safe because an attempt enters `cleanup` only with no active lease and
  no pending operation, and nothing admits an execution afterwards.
* *Kernel, cleanup*: `CallsInv` adds `OnceInv`, calls due and calls made are apart; `HooksInv`, everything an initialized module's
  hooks inject exists already, which is why resolving it constructs nothing; `ReleaseInv`, from the first cleanup call on
  whatever needs release is due or done.
* *Kernel, order*: `ConstructionInv` says that nothing is created twice or before what is injected into it (`CreationInv`), and
  that the logger and the modules before the one being built are complete (`ProgressInv`), so that a
  provider's module precedes those that use it. `OrderInv` adds to `CleanupOrder` that in cleanup every call made precedes every
  call due. `NextCalls` takes calls that nothing due precedes; that `Precedes` never has two of them wait for each other comes from the
  lemmas about it.
* *Host*: `HostInv`. `StartedInv` ties `started`, the hooks and the application's phase together; `ServerInv` ties
  `serverClosingPromise`, the native server and the adapter's variable, and says that an attempt with nothing to wait for has no server
  left; `AnsweredInv`, that who was told all is closed was told so when it was.
* *Tasks*: `TasksInv`. `EngineInv`, there is one engine: the one startup under way is that of `triggerStartup`, nothing is registered
  during it, and a stop under way has every handle that runs. It holds for hosts that await `stop()` and fails for others
  (`TasksDoubleStart`). `ClosingInv`, a drain or close that went on has seen the engine empty.
* *MessagePort, WebSocket, HTTP*: `PortInv`, `SocketInv`, `HttpInv` have one part per stream, session or request, which relates its
  lease to where its code is, and `DrainInv`, which says that a drain past its barrier looks after every lease that is left.
  The refinement is a simulation: each action is a step of `ExecutionLeases` or leaves its variables alone. In MessagePort the point is a
  `return()` of the consumer that outlives the calls after it: it leaves a trace (`returning`, `continuing`, `done` or `broken`) until its
  answer has been taken up, and an answer that did not end the iterator one until the gap in which the cleanup may ask again; and a
  stream that is not open runs nothing but a `late` cleanup. In HTTP, a stream whose lease is completed has nothing to wait for.
* *Devtools channel*: the mirror is the exception, inductive with the types alone.
* *GraphQL session*: `SessionInv` has `OperationInv`, where the lease, iterator and event of an operation are together with its task, for
  every id; `HolderInv`, a live operation on an orderly id has its lease and the entry of its id; `InOrder`, the messages of such an id
  before the one that runs are past; `EntryInv` and `LatestInv`, what the two maps of the session hold; `SettledInv`, a session that cleans up has
  no task left. `finish()` completes the right lease because the entry of an id is the last operation to have started on it, which
  `InOrder` gives on ids without overtaking, and an operation's end on another id does not touch.
* *Data scope*: `ScopeInv`: a load that is unsettled and shares with nobody is pending, one that shares does so with one of its own parent
  and batch, and `dedup` names it. *Trigger*: `TriggerInv`: a cron has looked at every minute it has fired in, and what is stopped is
  disarmed and its loop not asleep.
* *Generator*: `CodegenInv`: while it stages nothing is mutated; while it publishes each target already mutated has what it held
  in its backup; while it rolls back those done are as before, or damaged with their backup preserved.
* *Development server*: `DevInv`: a child belongs to a supervisor, a supervisor to a server that listens.

### What the proofs have changed

An overlap of two guards in `AbortStreams` (`MessagePort`), which would have made a `CASE` arbitrary, was removed. `Restore`
(`GraphqlCodegen`) read the history variable instead of the backup, and would have restored more than the code can; it now moves
the backup. `CleanupOrder` needs to know what no module declares, hence the last part of `VisibilityAssumption`. The proof attempt of
`SessionsImplementLeases` ran into the overtaking message that section 5 describes; it takes four operations to lose a lease by it,
more than the run has. With every client in the model, the proof is also what shows that an id is spoiled by its own messages only. `Typed` was made a definition of its own in `Http`, as the types are what the lemmas need.

### Only model-checked

Liveness, which needs fairness and `ENABLED` and is outside what the prover supports: `ShutdownEnds`, `UnsafeAnswersPromptly`,
`EveryoneAnswered`, `ShutdownCompletes`, `StreamsEnd`, `SessionsEnd`, `RequestsEnd`, and the parts of the form `[]<>` of `DevFollowsSource`,
`GenerationsKept`, `OperationsImplementLeases`, `LoadsAreAnswered` and `StoppedTriggersAreQuiet`. Induction over
data is outside too: no result here is about what a recursive function computes for every input.

## 5. Findings

* **Two trigger engines** (`TasksDoubleStart`). A `stop()` without running triggers, not awaited, writes
  `triggersStarted = false` after a `start()` called in between has set it
  (`tasks/extension.ts:679`); a second `start()` then passes the guard at line 696 and both run.
  The safety properties of `TasksRuntime` are therefore stated for hosts that await `stop()` (`~overlapped`).
* **A rejected MessagePort drain does not settle** (`PortStuck`).
  ADR `loutre_construction_and_runtime_ownership.md:43` says a rejected drain does not hold back the
  notification that resumes shutdown. Nobody continues a stream's cleanup after `AsyncIteratorCleanupDeadlineError`, so the
  lease stays and `retryAfter`, which waits for all leases, does not settle. A `close()` by hand does go on (`StreamsEnd`).

* **A failed handshake may leave a connection** (`WebSocketOrphan`).
  ADR `loutre_http_protocol_delegation.md:87` says that a middleware failing after the handshake has
  started terminates the connection and releases the lease. A middleware that throws while the `next()` it has called is
  pending in `driver.upgrade()` makes `composeLayers` reject at once (`core/generic-layer.ts:103` awaits the
  middleware alone); the `catch` of `upgrade()` (`websocket/extension.ts:733`) then knows no connection to
  terminate, and completes the lease. The connection that `driver.upgrade()` yields later belongs to no session and no
  drain. A driver has to be slow to show it: those in the repository complete their upgrade without waiting.


* **A request is answered over its running handler** (`HttpDetached`). ADR
  `loutre_application_graph_kernel_architecture.md:142` says that the check for a `next()` that was not awaited leaves no detached
  execution behind. A layer that throws while its `next()` is pending skips that check (`core/generic-layer.ts:103`, `:128`); the
  request is answered, its lease completed and the gate left while the handler runs on.

* **A cancelled operation closes the connection** (`GraphqlCancel`). The `context()` of an operation that rejects because
  its client has completed it, as `docs/graphql-codegen.md:245` suggests it should, makes `receive()` reject; the catch of
  `dispatch()` (`graphql/src/websocket.ts:309`) looks at the session's signal only and closes the connection with 1011,
  which aborts all other operations. ADR `loutre_graphql_transport_architecture.md:427` and `tests/graphql.test.ts:1357` say that
  a complete message reaches its own operation only.

Met while modelling: part of the models, and excluded by name from the properties rather than checked by runs of their own:

* `MessagePort`: the cleanup may ask an iterator to return a second time. When a consumer's `return()` is answered
  `done: false`, `#run` resolves the idle waiters (`runtime/async-iterator-lifecycle.ts:86`), and a `drain()` that waited at line 55
  resumes before the continuation at line 40 sets `#returnContinuationPending`: it finds the iterator neither done nor to be continued, and
  calls `return()` again. ADR `loutre_execution_extension_contract_architecture.md:416` has such an iterator continued by `next()`, and
  `tests/message-port-extension.test.ts:484` expects one `return()` of cleanups that meet. `ReturnNotReentered` leaves out this gap.
* `MessagePort`: a consumer's `return()` that rejects completes the lease while the iterator is not done; a `cancel()` after that
  starts the cleanup all the same (`message-port/extension.ts:451`, `:497` look neither at the lease nor at `completed`), and
  the iterator's `return()` and `next()` run under a completed lease, which a shutdown does not wait for (`late`).
* `GraphqlSocket`: the resolvers of an event may outlive the lease of their operation. `return()` of the mapped iterator
  (`graphql/src/execution.ts:130`) goes to the source and does not wait for the `executeSubscriptionEvent()` of line 119, and
  the iteration that graphql-ws does ends by racing the abort; `finish()` then completes the lease. ADR
  `loutre_graphql_transport_architecture.md:390` has the iterator returned and waited for. What is left to say, and
  stated, is that such resolvers have had their signal aborted.
* `GraphqlCodegen`: a removal in the `finally` that rejects (`graphql-codegen.ts:714`) replaces the `AggregateError` that names the
  kept backups (`:708`); the backups are kept, but nobody is told where (`unclean`).

* `GraphqlSocket`: the complete message of a subscription that still waits for its predecessor (`websocket.ts:296`) finds no
  operation, and the operation runs when its turn comes. After a refused duplicate id a complete and a further subscribe of
  that id overwrite the entry of the operation that runs (`Reuses`: without the guard `orderly` puts on `Subscribe`, `OperationsImplementLeases`
  is violated). An operation
  that fails, and whose id is used again while the connection closes, is not found by `finish()` any more: its lease
  and trace stay open (`Displaced`).
* `GraphqlSocket`: a message may overtake an earlier one of its id, and one operation's end is then another's
  (`Overtakes`; a lease is lost from `MaxOperations = 4` on). Operation 1 runs; 2 waits for 1 and 3 for
  2, on one id, each completed by the client before the next is sent. The context of 2 fails: the id is given back while its
  `finally` still runs. 4 is sent, finds no predecessor (`websocket.ts:296`) and starts. The connection closes, 2 ends, and 3, whose
  turn it is, takes the entry of the id; the end of 4 then completes the lease of 3 while 3 runs.
* `DevServer`: changes before the watcher is ready (`server.ts:172`, `:220`), or during a build to a file only the new graph depends
  on (`:331`), are not shown until the next one (`missed`), though `cli/README.md:67` says that a change of the source rebuilds the graph.
* `adapters/aws-lambda.ts:198`: the streaming pump waits for `drain` for ever if its output has gone.

## 6. Not modelled, and the plan

Not modelled, and why:

* Translation without state: OpenAPI and client generation, CORS and authentication helpers, the matching and decoding of
  HTTP requests, GraphQL schemas, selections and generated text, the wire formats of Devtools, the commands of the CLI that
  print what they compute, scaffolding and presentation. With types, formatting and validation these are most of the
  implementation's lines; what is mapped is the code that keeps state across an `await`.
* Adapters that forward calls (Lambda, Workers, Electron), and the host API, whose `init()` is one synchronous step after
  `initialize()`.
* The native WebSocket drivers: `WebSocket` states what it takes from them.
* The observer of Devtools inside an application (bounded previews of values), and the client channel of the development server.
* One instance under two providers: `#trackedInstances` (`runtime/kernel.ts:358`) keeps the second from being tracked again. Each
  provider of `Kernel` has an instance of its own.
* A `Bun.serve` that succeeds while printing the server's address throws: the `catch` of `adapters/bun.ts:204`, which
  `BunServeFails` enters with no port bound, would then close a server that listens.
* The inside of a source's `next()` in GraphQL (an async generator is assumed), and iterators of MessagePort without `return` or
  `throw`, whose calls settle at once.
* Request-scoped and transient providers, and the pure validation of the application model, of which `Kernel` takes the results as
  assumptions.

Next, the proofs: of what the runs check only liveness is without a theorem, and it stays with TLC. What remains to be said
about safety:

1. The contracts by themselves: `ExecutionLeases!Safe` and its counterpart in `AppLifecycle` as theorems of the abstract
   modules, so that a further implementation has to show no more than its simulation.
2. The safety facts that the liveness arguments pass through: that a drain which waits has something left to wait for, in each
   extension, and that a retry of a failed attempt finds only what the failed one left.
3. The single-server facts of `DevServer` behind `DevFollowsSource`: that a snapshot which is shown was read at one instant.
