---------------------------- MODULE DevtoolsChannel ----------------------------
(***************************************************************************)
(* The application channel of `loutre dev` (dev/application-channel.ts) and*)
(* the runs its event store shows (dev/event-store.ts): an application     *)
(* connects, says hello with the id of its run, answers the commands of    *)
(* Devtools clients, and goes; another connection may take its run over.   *)
(*                                                                         *)
(* A socket that close() was called on still delivers what was on its way; *)
(* its 'close' event comes later.  One that was terminated delivers nothing*)
(* more.                                                                   *)
(***************************************************************************)
EXTENDS Naturals, FiniteSets

CONSTANTS
    Connections,  \* sockets of applications, each used once
    Runs,         \* run ids
    Commands,     \* commands, each with a request id of its own
    NoConnection

VARIABLES
    socket,        \* none, open, closing, terminated or closed
    run,           \* the runs a connection has said hello with: none or one
    applications,  \* the connection registered for a run
    pendingOn,     \* the commands that wait on a connection
    command,       \* what became of a command
    shown,         \* the event store's run: unknown, connected or stopped
    channel        \* open, closing or closed

vars == <<socket, run, applications, pendingOn, command, shown, channel>>

Init ==
    /\ socket = [c \in Connections |-> "none"]
    /\ run = [c \in Connections |-> {}]
    /\ applications = [r \in Runs |-> NoConnection]
    /\ pendingOn = [c \in Connections |-> {}]
    /\ command = [k \in Commands |-> "none"]
    /\ shown = [r \in Runs |-> "unknown"]
    /\ channel = "open"

\* Sockets whose messages still arrive.
Delivering == {c \in Connections : socket[c] \in {"open", "closing"}}

\* rejectPending of some connections: their commands fail, and are forgotten.
Reject(conns) ==
    LET failing == UNION {pendingOn[c] : c \in conns}
    IN  /\ pendingOn' = [c \in Connections |-> IF c \in conns THEN {} ELSE pendingOn[c]]
        /\ command' = [k \in Commands |-> IF k \in failing THEN "failed" ELSE command[k]]

-----------------------------------------------------------------------------
(* attachApplication()                                                     *)

Connect(c) ==
    /\ channel = "open" /\ socket[c] = "none"
    /\ socket' = [socket EXCEPT ![c] = "open"]
    /\ UNCHANGED <<run, applications, pendingOn, command, shown, channel>>

\* Fault: the connection before it keeps its commands.
HelloKeepingPending(c, r) ==
    /\ c \in Delivering /\ run[c] = {}
    /\ run' = [run EXCEPT ![c] = {r}]
    /\ LET before == applications[r] IN
           IF before = NoConnection
           THEN UNCHANGED <<socket, pendingOn, command>>
           ELSE socket' = [socket EXCEPT ![before] = "terminated"] /\ UNCHANGED <<pendingOn, command>>
    /\ applications' = [applications EXCEPT ![r] = c]
    /\ shown' = [shown EXCEPT ![r] = "connected"]
    /\ UNCHANGED channel

\* The first message: the run is registered, and taken from a connection before.
Hello(c, r) ==
    /\ c \in Delivering /\ run[c] = {}
    /\ run' = [run EXCEPT ![c] = {r}]
    /\ LET before == applications[r] IN
           IF before = NoConnection
           THEN UNCHANGED <<socket, pendingOn, command>>
           ELSE /\ socket' = [socket EXCEPT ![before] =
                                 IF @ \in {"open", "closing"} THEN "terminated" ELSE @]
                /\ Reject({before})
    /\ applications' = [applications EXCEPT ![r] = c]
    /\ shown' = [shown EXCEPT ![r] = "connected"]
    /\ UNCHANGED channel

\* A message that is refused (another hello, a binary one, a batch of another
\* run), no hello within five seconds, or the peer begins to close.
Closing(c) ==
    /\ socket[c] = "open"
    /\ socket' = [socket EXCEPT ![c] = "closing"]
    /\ UNCHANGED <<run, applications, pendingOn, command, shown, channel>>

\* command.result; one for a command that is not pending any more is ignored.
Result(c, k) ==
    /\ c \in Delivering /\ run[c] # {}
    /\ k \in pendingOn[c]
    /\ pendingOn' = [pendingOn EXCEPT ![c] = @ \ {k}]
    /\ command' = [command EXCEPT ![k] = "answered"]
    /\ UNCHANGED <<socket, run, applications, shown, channel>>

\* 'close': a run stops with the connection registered for it, and no other.
Closed(c) ==
    LET own == {r \in run[c] : applications[r] = c} IN
    /\ socket[c] \in {"open", "closing", "terminated"}
    /\ socket' = [socket EXCEPT ![c] = "closed"]
    /\ Reject({c})
    /\ applications' = [r \in Runs |-> IF r \in own THEN NoConnection ELSE applications[r]]
    /\ shown' = [r \in Runs |-> IF r \in own THEN "stopped" ELSE shown[r]]
    /\ UNCHANGED <<run, channel>>

-----------------------------------------------------------------------------
(* command() and close()                                                   *)

\* To a run that is not there, or whose socket is not open, it fails at once;
\* send() may throw.
Command(k, r) ==
    /\ command[k] = "none"
    /\ LET c == applications[r] IN
           \/ /\ c # NoConnection /\ socket[c] = "open"
              /\ pendingOn' = [pendingOn EXCEPT ![c] = @ \union {k}]
              /\ command' = [command EXCEPT ![k] = "pending"]
           \/ /\ command' = [command EXCEPT ![k] = "failed"] /\ UNCHANGED pendingOn
    /\ UNCHANGED <<socket, run, applications, shown, channel>>

\* LUTRE_DEVTOOLS_COMMAND_TIMEOUT
TimesOut(k) ==
    /\ command[k] = "pending"
    /\ command' = [command EXCEPT ![k] = "failed"]
    /\ pendingOn' = [c \in Connections |-> pendingOn[c] \ {k}]
    /\ UNCHANGED <<socket, run, applications, shown, channel>>

\* Every registered run is given up, and every socket terminated.
Close ==
    /\ channel = "open" /\ channel' = "closing"
    /\ Reject({applications[r] : r \in Runs} \ {NoConnection})
    /\ applications' = [r \in Runs |-> NoConnection]
    /\ socket' = [c \in Connections |-> IF c \in Delivering THEN "terminated" ELSE socket[c]]
    /\ UNCHANGED <<run, shown>>

\* The WebSocket server is closed when its clients are.
CloseDone ==
    /\ channel = "closing" /\ channel' = "closed"
    /\ \A c \in Connections : socket[c] \in {"none", "closed"}
    /\ UNCHANGED <<socket, run, applications, pendingOn, command, shown>>

-----------------------------------------------------------------------------
Next ==
    \/ \E c \in Connections :
           \/ Connect(c) \/ Closing(c) \/ Closed(c)
           \/ \E r \in Runs : Hello(c, r)
           \/ \E k \in Commands : Result(c, k)
    \/ \E k \in Commands : TimesOut(k) \/ \E r \in Runs : Command(k, r)
    \/ Close \/ CloseDone

Spec == Init /\ [][Next]_vars

-----------------------------------------------------------------------------
(* Properties                                                              *)

TypeOK ==
    /\ socket \in [Connections -> {"none", "open", "closing", "terminated", "closed"}]
    /\ run \in [Connections -> SUBSET Runs] /\ \A c \in Connections : Cardinality(run[c]) <= 1
    /\ applications \in [Runs -> Connections \union {NoConnection}]
    /\ pendingOn \in [Connections -> SUBSET Commands]
    /\ command \in [Commands -> {"none", "pending", "answered", "failed"}]
    /\ shown \in [Runs -> {"unknown", "connected", "stopped"}]
    /\ channel \in {"open", "closing", "closed"}

\* Devtools shows a run as connected exactly while an application answers for it,
\* however connections of one run follow each other; and a command waits only on
\* that application, so that the end of a connection is an answer and not the
\* ten seconds of a command's timer.
RunsMirrorConnections ==
    /\ channel = "open" => \A r \in Runs :
           (shown[r] = "connected") <=> (applications[r] # NoConnection)
    /\ \A r \in Runs : applications[r] # NoConnection =>
           /\ run[applications[r]] = {r}
           /\ socket[applications[r]] \in {"open", "closing"}
    /\ \A c \in Connections : pendingOn[c] # {} => \E r \in Runs : applications[r] = c
    /\ \A k \in Commands : command[k] = "pending" => \E c \in Connections : k \in pendingOn[c]

=============================================================================
