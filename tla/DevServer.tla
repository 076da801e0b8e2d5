------------------------------- MODULE DevServer -------------------------------
(***************************************************************************)
(* `loutre dev` (cli/index.ts, dev/server.ts, dev/run-supervisor.ts): the  *)
(* Application Graph is loaded again when a file it depends on changes, and*)
(* the application process, which is started by a valid graph, is started  *)
(* again by a change after it has crashed.                                 *)
(*                                                                         *)
(* The project is an entry and a helper the entry may import.  A load reads*)
(* the files at one instant and ends later, with the graph and the files it*)
(* depends on.  The watcher reports a change some time after it.           *)
(***************************************************************************)
EXTENDS Naturals

CONSTANTS
    MaxChanges,   \* bound: how often a file changes
    MaxRequests   \* bound: how often a Devtools client asks for a reload

Files       == {"entry", "helper"}
EntryTexts  == {"plain", "imports", "invalid"}   \* "invalid": a graph with error diagnostics
HelperTexts == {"one", "other", "broken"}        \* "broken": cannot be built

VARIABLES
    disk,         \* the text of each file
    changes,      \* how often one has changed
    requests,     \* how often a reload has been asked for
    watcher,      \* none, scanning, ready or closed
    events,       \* files whose change the watcher has not reported
    reloadTimer,  \* the debounce of the watcher is armed
    load,         \* where reload() is: none, reading or building
    read,         \* the texts a build is of
    again,        \* reloadRequested
    joined,       \* the watcher's continuation waits for the reload
    watched,      \* watchedPaths; all files when undefined
    snapshot,     \* state.snapshot
    error,        \* state.error: none, build or watch
    valid,        \* applicationModelValid
    supervisor,   \* none, running, closing or settled (its result)
    child,        \* none, running, signalled or killed
    crashedOn,    \* the graph of the files when the last child ended with an error (history)
    server,       \* starting, listening or closed
    missed        \* a change went unnoticed (history)

graphVars == <<again, joined, watched, snapshot, error, valid>>
runVars   == <<supervisor, child, crashedOn>>
vars == <<disk, changes, requests, watcher, events, reloadTimer, load, read, graphVars,
          runVars, server, missed>>

NoGraph == [entry |-> "none", helper |-> "none"]

\* What a build of these texts shows of them.
GraphOf(texts) == IF texts.entry = "imports" THEN texts ELSE [texts EXCEPT !.helper = "none"]
FilesOf(texts) == IF texts.entry = "imports" THEN Files ELSE {"entry"}
Builds(texts)  == GraphOf(texts).helper # "broken"
Valid(graph)   == graph.entry # "invalid"

\* The first reload() is awaited before there is a watcher.
Init ==
    /\ disk \in [entry : EntryTexts, helper : {"one", "broken"}]
    /\ changes = 0 /\ requests = 0
    /\ watcher = "none" /\ events = {} /\ reloadTimer = FALSE
    /\ load = "reading" /\ read = disk
    /\ again = FALSE /\ joined = FALSE /\ watched = Files
    /\ snapshot = NoGraph /\ error = "none"
    /\ Builds(disk) /\ valid = Valid(disk)
    /\ supervisor = "none" /\ child = "none" /\ crashedOn = NoGraph
    /\ server = "starting"
    /\ missed = FALSE

-----------------------------------------------------------------------------
(* Files and the watcher                                                   *)

\* What happens to a file while the watcher is not ready may stay unreported.
Change ==
    /\ changes < MaxChanges /\ changes' = changes + 1
    /\ \E texts \in [entry : EntryTexts, helper : HelperTexts], file \in Files :
           /\ texts[file] # disk[file]
           /\ \A other \in Files \ {file} : texts[other] = disk[other]
           /\ disk' = texts
           /\ \/ watcher \in {"scanning", "ready"} /\ events' = events \union {file} /\ UNCHANGED missed
              \/ watcher # "ready" /\ missed' = TRUE /\ UNCHANGED events
    /\ UNCHANGED <<requests, watcher, reloadTimer, load, read, graphVars, runVars,
                   server>>

\* The build under way has read a text of the file that is not its text any more.
Raced(file) == load = "building" /\ file \in FilesOf(read) /\ read[file] # disk[file]

\* watcher 'all': shouldReloadPath, then the debounce.
Reported(file) ==
    /\ file \in events
    /\ events' = events \ {file}
    /\ IF file \in watched
       THEN reloadTimer' = TRUE /\ UNCHANGED missed
       ELSE missed' = (missed \/ Raced(file)) /\ UNCHANGED reloadTimer
    /\ UNCHANGED <<disk, changes, requests, watcher, load, read, graphVars, runVars,
                   server>>

WatcherReady ==
    /\ watcher = "scanning" /\ watcher' = "ready"
    /\ UNCHANGED <<disk, changes, requests, events, reloadTimer, load, read, graphVars,
                   runVars, server, missed>>

WatcherFails ==
    /\ watcher = "ready" /\ error # "watch"
    /\ error' = "watch"
    /\ UNCHANGED <<disk, changes, requests, watcher, events, reloadTimer, load, read,
                   again, joined, watched, snapshot, valid, runVars, server, missed>>

\* Before it is ready, startDevServer() rejects.
ScanFails ==
    /\ server = "starting" /\ watcher = "scanning"
    /\ error' = "watch"
    /\ server' = "closed" /\ watcher' = "closed" /\ events' = {}
    /\ UNCHANGED <<disk, changes, requests, reloadTimer, load, read, again, joined,
                   watched, snapshot, valid, runVars, missed>>

-----------------------------------------------------------------------------
(* reload()                                                                *)

\* Fault: a call while a load runs shares that load.
JoinReload ==
    /\ load' = IF load = "none" THEN "reading" ELSE load
    /\ UNCHANGED again

\* A call while a load runs asks that load to be repeated.
CallReload ==
    IF load = "none" THEN load' = "reading" /\ UNCHANGED again
    ELSE again' = TRUE /\ UNCHANGED load

Debounced ==
    /\ reloadTimer /\ reloadTimer' = FALSE
    /\ CallReload /\ joined' = TRUE
    /\ UNCHANGED <<disk, changes, requests, watcher, events, read, watched, snapshot,
                   error, valid, runVars, server, missed>>

\* graph.reload of a Devtools client.
RequestReload ==
    /\ server = "listening"
    /\ requests < MaxRequests /\ requests' = requests + 1
    /\ CallReload
    /\ UNCHANGED <<disk, changes, watcher, events, reloadTimer, read, joined, watched,
                   snapshot, error, valid, runVars, server, missed>>

ReadFiles ==
    /\ load = "reading"
    /\ read' = disk /\ load' = "building"
    /\ UNCHANGED <<disk, changes, requests, watcher, events, reloadTimer, graphVars,
                   runVars, server, missed>>

\* start() of the supervisor.
StartChild ==
    IF supervisor = "running" /\ child = "none"
    THEN child' = "running" /\ crashedOn' = NoGraph /\ UNCHANGED supervisor
    ELSE UNCHANGED runVars

\* After the last load: onSourceGraphReload, if the watcher asked for it and the
\* state has no error.
EndReload ==
    IF again
    THEN load' = "reading" /\ again' = FALSE /\ UNCHANGED <<joined, runVars>>
    ELSE /\ load' = "none" /\ joined' = FALSE /\ UNCHANGED again
         /\ IF joined /\ error' = "none" /\ valid' THEN StartChild ELSE UNCHANGED runVars

\* The first load is over: the server and the watcher are made.
MakeWatcher == watcher' = IF watcher = "none" THEN "scanning" ELSE watcher

BuildSucceeds ==
    /\ load = "building" /\ Builds(read)
    /\ snapshot' = GraphOf(read) /\ error' = "none"
    /\ valid' = Valid(read) /\ watched' = FilesOf(read)
    /\ EndReload /\ MakeWatcher
    /\ UNCHANGED <<disk, changes, requests, events, reloadTimer, read, server, missed>>

\* The last snapshot stays, and any file may be what repairs the build.
BuildFails ==
    /\ load = "building" /\ ~Builds(read)
    /\ error' = "build" /\ watched' = Files
    /\ UNCHANGED <<snapshot, valid>>
    /\ EndReload /\ MakeWatcher
    /\ UNCHANGED <<disk, changes, requests, events, reloadTimer, read, server, missed>>

-----------------------------------------------------------------------------
(* startDevServer() and the command around it                              *)

\* The server listens, and the supervisor is made; it starts a child at once if
\* the graph is valid.
Listen ==
    /\ server = "starting" /\ watcher = "ready"
    /\ server' = "listening"
    /\ supervisor' = "running"
    /\ child' = IF valid THEN "running" ELSE "none"
    /\ UNCHANGED <<disk, changes, requests, watcher, events, reloadTimer, load, read,
                   graphVars, crashedOn, missed>>

\* The port is taken; the timer is not cleared.
ListenFails ==
    /\ server = "starting" /\ watcher = "ready"
    /\ server' = "closed" /\ watcher' = "closed" /\ events' = {}
    /\ UNCHANGED <<disk, changes, requests, reloadTimer, load, read, graphVars, runVars,
                   missed>>

\* The command ends with the supervisor's result: the server is closed.
CloseServer ==
    /\ server = "listening" /\ supervisor = "settled"
    /\ server' = "closed" /\ watcher' = "closed" /\ events' = {} /\ reloadTimer' = FALSE
    /\ UNCHANGED <<disk, changes, requests, load, read, graphVars, runVars, missed>>

-----------------------------------------------------------------------------
(* The supervisor                                                          *)

RunOnly ==
    UNCHANGED <<disk, changes, requests, watcher, events, reloadTimer, load, read,
                graphVars, server, missed>>

SpawnFails ==
    /\ child = "running"
    /\ child' = "none" /\ supervisor' = "settled" /\ UNCHANGED crashedOn
    /\ RunOnly

\* 'exit': the result when closing or after exit code 0; a crash is waited out.
ChildExits(ok) ==
    /\ child # "none"
    /\ child' = "none"
    /\ crashedOn' = IF ok THEN NoGraph ELSE GraphOf(disk)
    /\ supervisor' = IF supervisor = "closing" \/ ok THEN "settled" ELSE supervisor
    /\ RunOnly

\* close(), by SIGINT or SIGTERM.
Close ==
    /\ supervisor = "running"
    /\ IF child = "none"
       THEN supervisor' = "settled" /\ UNCHANGED child
       ELSE supervisor' = "closing" /\ child' = "signalled"
    /\ UNCHANGED crashedOn /\ RunOnly

\* shutdownTimeoutMs after that.
ForceKill ==
    /\ child = "signalled" /\ child' = "killed"
    /\ UNCHANGED <<supervisor, crashedOn>> /\ RunOnly

-----------------------------------------------------------------------------
BuildStep == ReadFiles \/ BuildSucceeds \/ BuildFails
WatchStep == WatcherReady \/ \E file \in Files : Reported(file)
ListenStep == Listen \/ ListenFails
KilledExits == child = "killed" /\ \E ok \in BOOLEAN : ChildExits(ok)

Next ==
    \/ Change \/ WatchStep \/ WatcherFails \/ ScanFails
    \/ Debounced \/ RequestReload \/ BuildStep
    \/ ListenStep \/ CloseServer
    \/ SpawnFails \/ Close \/ ForceKill
    \/ \E ok \in BOOLEAN : ChildExits(ok)

Spec == Init /\ [][Next]_vars

\* Loads end, the watcher reports and timers fire; nothing obliges a child that is
\* only asked to exit.
DevFairness ==
    /\ WF_vars(BuildStep) /\ WF_vars(WatchStep) /\ WF_vars(Debounced)
    /\ WF_vars(ListenStep) /\ WF_vars(CloseServer) /\ WF_vars(ForceKill)
    /\ WF_vars(KilledExits)

FairSpec == Spec /\ DevFairness

-----------------------------------------------------------------------------
(* Properties                                                              *)

TypeOK ==
    /\ disk \in [entry : EntryTexts, helper : HelperTexts]
    /\ changes \in 0 .. MaxChanges /\ requests \in 0 .. MaxRequests
    /\ watcher \in {"none", "scanning", "ready", "closed"}
    /\ events \subseteq Files /\ watched \subseteq Files
    /\ reloadTimer \in BOOLEAN /\ again \in BOOLEAN /\ joined \in BOOLEAN /\ valid \in BOOLEAN
    /\ load \in {"none", "reading", "building"}
    /\ read \in [entry : EntryTexts, helper : HelperTexts]
    /\ {snapshot, crashedOn} \subseteq [entry : EntryTexts \union {"none"}, helper : HelperTexts \union {"none"}]
    /\ error \in {"none", "build", "watch"}
    /\ supervisor \in {"none", "running", "closing", "settled"}
    /\ child \in {"none", "running", "signalled", "killed"}
    /\ missed \in BOOLEAN
    /\ server \in {"starting", "listening", "closed"}

\* What a client is shown is the source: its graph, or that it does not build.
Shown == IF Builds(disk) THEN snapshot = GraphOf(disk) ELSE error # "none"

Ending == supervisor \in {"closing", "settled"} \/ server = "closed"

\* Unless a change has escaped (it was made before the watcher was ready, or during
\* a build, to a file that only the graph being built depends on), the source is
\* shown, and a graph that has become valid has started the application; one that
\* has crashed stays down only until the graph changes.
Followed ==
    \/ missed \/ Ending
    \/ Shown /\ (Builds(disk) /\ Valid(disk) => child # "none" \/ crashedOn = GraphOf(disk))

\* No process outlives the command, whatever load was under way when it ended.
NoChildLeft == Ending /\ supervisor # "closing" => child = "none"

CommandEnded == supervisor \in {"closing", "settled"} => server = "closed"

=============================================================================
