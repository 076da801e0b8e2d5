--------------------------- MODULE PeripheryProofs ---------------------------
(***************************************************************************)
(* Machine-checked proofs about the components that Periphery runs side by *)
(* side, each from an invariant of its own: what Devtools shows of an      *)
(* application is what its connections are; a trigger that is stopped      *)
(* begins nothing; loads get the value of their own parent; a GraphQL      *)
(* session implements ExecutionLeases; no child outlives `loutre dev`; and *)
(* the generator loses no output.  The types of all six come last.         *)
(***************************************************************************)
EXTENDS Periphery, Sequences, FiniteSetTheorems, TLAPS

-----------------------------------------------------------------------------
(* The Devtools channel: the mirror is inductive as it stands.             *)

ChannelInv == Channel!TypeOK /\ Channel!RunsMirrorConnections

\* The channel counts as FiniteSets does.
LEMMA SameCardinality == \A S : Channel!Cardinality(S) = Cardinality(S)
BY Zenon DEF Channel!Cardinality, Cardinality

\* rejectPending keeps the types, fails what it forgets and touches no other.
LEMMA RejectEffect ==
    ASSUME Channel!TypeOK, NEW conns, Channel!Reject(conns)
    PROVE  /\ pendingOn' \in [Connections -> SUBSET Commands]
           /\ command' \in [Commands -> {"none", "pending", "answered", "failed"}]
           /\ \A c \in Connections : pendingOn'[c] = IF c \in conns THEN {} ELSE pendingOn[c]
           /\ \A k \in Commands :
                  command'[k] = "pending" =>
                      command[k] = "pending" /\ \A c \in conns : k \notin pendingOn[c]
BY DEF Channel!TypeOK, Channel!Reject

\* The hello of a connection takes its run over from the one before, which keeps
\* no command: it cannot be the connection itself, that has said none yet.
LEMMA HelloKeeps ==
    ASSUME ChannelInv, NEW c \in Connections, NEW r \in Runs, Channel!Hello(c, r)
    PROVE  ChannelInv'
<1> DEFINE former == applications[r]
<1>1. /\ Channel!TypeOK /\ NoConnection \notin Connections
      /\ former \in Connections \union {NoConnection}
  BY PeripheryAssumption DEF ChannelInv, Channel!TypeOK
<1>2. /\ socket[c] \in {"open", "closing"} /\ run[c] = {} /\ run'[c] = {r}
      /\ \A d \in Connections \ {c} : run'[d] = run[d]
      /\ applications'[r] = c /\ \A q \in Runs \ {r} : applications'[q] = applications[q]
      /\ shown'[r] = "connected" /\ \A q \in Runs \ {r} : shown'[q] = shown[q]
      /\ UNCHANGED channel
  BY <1>1 DEF Channel!Hello, Channel!Delivering, Channel!TypeOK
<1>3. former # c
  <2>1. CASE former = NoConnection
    BY <1>1, <2>1
  <2>2. CASE former # NoConnection
    <3>1. run[former] = {r}
      BY <2>2 DEF ChannelInv, Channel!RunsMirrorConnections
    <3> QED
      BY <1>2, <3>1
  <2> QED
    BY <2>1, <2>2
<1>4. /\ \A d \in Connections \ {former} : socket'[d] = socket[d]
      /\ socket' \in [Connections -> {"none", "open", "closing", "terminated", "closed"}]
  <2>1. CASE former = NoConnection
    BY <1>1, <2>1 DEF Channel!Hello, Channel!TypeOK
  <2>2. CASE former # NoConnection
    <3>1. socket' = [socket EXCEPT ![former] =
                        IF @ \in {"open", "closing"} THEN "terminated" ELSE @]
      BY <2>2 DEF Channel!Hello
    <3> QED
      BY <1>1, <3>1 DEF Channel!TypeOK
  <2> QED
    BY <2>1, <2>2
<1>5. /\ pendingOn' \in [Connections -> SUBSET Commands]
      /\ command' \in [Commands -> {"none", "pending", "answered", "failed"}]
      /\ \A d \in Connections : pendingOn'[d] = IF d = former THEN {} ELSE pendingOn[d]
      /\ \A k \in Commands :
             command'[k] = "pending" =>
                 command[k] = "pending" /\ (former \in Connections => k \notin pendingOn[former])
  <2>1. CASE former = NoConnection
    BY <1>1, <2>1 DEF Channel!Hello, Channel!TypeOK
  <2>2. CASE former # NoConnection
    <3>1. Channel!Reject({former})
      BY <2>2 DEF Channel!Hello
    <3> QED
      BY <1>1, <2>2, <3>1, RejectEffect
  <2> QED
    BY <2>1, <2>2
<1>6. Channel!TypeOK'
  <2>1. run' \in [Connections -> SUBSET Runs] /\ applications' \in [Runs -> Connections \union {NoConnection}]
    BY <1>1 DEF Channel!Hello, Channel!TypeOK
  <2>2. \A d \in Connections : Channel!Cardinality(run'[d]) <= 1
    <3>1. Cardinality({r}) = 1
      BY FS_Singleton
    <3>2. Channel!Cardinality(run'[c]) <= 1
      BY <1>2, <3>1, SameCardinality
    <3>3. \A d \in Connections \ {c} : Channel!Cardinality(run'[d]) <= 1
      BY <1>1, <1>2 DEF Channel!TypeOK
    <3> QED
      BY <3>2, <3>3
  <2>3. shown' \in [Runs -> {"unknown", "connected", "stopped"}]
    BY <1>1 DEF Channel!Hello, Channel!TypeOK
  <2> QED
    BY <1>1, <1>2, <1>4, <1>5, <2>1, <2>2, <2>3 DEF Channel!TypeOK
<1>7. channel' = "open" =>
          \A q \in Runs : (shown'[q] = "connected") <=> (applications'[q] # NoConnection)
  BY <1>1, <1>2 DEF ChannelInv, Channel!RunsMirrorConnections
<1>8. ASSUME NEW q \in Runs, applications'[q] # NoConnection
      PROVE  run'[applications'[q]] = {q} /\ socket'[applications'[q]] \in {"open", "closing"}
  <2>1. CASE q = r
    BY <1>2, <1>3, <1>4, <2>1
  <2>2. CASE q # r
    <3>1. applications'[q] = applications[q] /\ applications[q] \in Connections
      BY <1>1, <1>2, <1>8, <2>2 DEF Channel!TypeOK
    <3>2. /\ run[applications[q]] = {q}
          /\ socket[applications[q]] \in {"open", "closing"}
      BY <1>8, <3>1 DEF ChannelInv, Channel!RunsMirrorConnections
    <3>3. applications[q] # c
      BY <1>2, <3>2
    <3>4. applications[q] # former
      BY <1>1, <2>2, <3>1, <3>2 DEF ChannelInv, Channel!RunsMirrorConnections
    <3> QED
      BY <1>2, <1>4, <3>1, <3>2, <3>3, <3>4
  <2> QED
    BY <2>1, <2>2
<1>9. ASSUME NEW d \in Connections, pendingOn'[d] # {}
      PROVE  \E q \in Runs : applications'[q] = d
  <2>1. d # former /\ pendingOn[d] # {}
    BY <1>5, <1>9
  <2>2. PICK q \in Runs : applications[q] = d
    BY <2>1 DEF ChannelInv, Channel!RunsMirrorConnections
  <2> QED
    BY <1>2, <2>1, <2>2
<1>10. ASSUME NEW k \in Commands, command'[k] = "pending"
       PROVE  \E d \in Connections : k \in pendingOn'[d]
  <2>1. PICK d \in Connections : k \in pendingOn[d]
    BY <1>5, <1>10 DEF ChannelInv, Channel!RunsMirrorConnections
  <2> QED
    BY <1>5, <1>10, <2>1
<1> QED
  BY <1>6, <1>7, <1>8, <1>9, <1>10 DEF ChannelInv, Channel!RunsMirrorConnections

\* The end of a connection stops the run it is registered for, and no other, and
\* fails the commands that waited on it.
LEMMA ClosedKeeps ==
    ASSUME ChannelInv, NEW c \in Connections, Channel!Closed(c)
    PROVE  ChannelInv'
<1> DEFINE own == {r \in run[c] : applications[r] = c}
<1>1. Channel!TypeOK /\ NoConnection \notin Connections
  BY PeripheryAssumption DEF ChannelInv
<1>2. /\ socket' = [socket EXCEPT ![c] = "closed"] /\ UNCHANGED <<run, channel>>
      /\ applications' = [r \in Runs |-> IF r \in own THEN NoConnection ELSE applications[r]]
      /\ shown' = [r \in Runs |-> IF r \in own THEN "stopped" ELSE shown[r]]
      /\ Channel!Reject({c})
  BY DEF Channel!Closed
<1>3. /\ pendingOn' \in [Connections -> SUBSET Commands]
      /\ command' \in [Commands -> {"none", "pending", "answered", "failed"}]
      /\ \A d \in Connections : pendingOn'[d] = IF d = c THEN {} ELSE pendingOn[d]
      /\ \A k \in Commands :
             command'[k] = "pending" => command[k] = "pending" /\ k \notin pendingOn[c]
  BY <1>1, <1>2, RejectEffect
<1>4. \A r \in Runs : r \in own <=> applications[r] = c
  BY <1>1 DEF ChannelInv, Channel!RunsMirrorConnections
<1>5. Channel!TypeOK'
  BY <1>1, <1>2, <1>3 DEF Channel!TypeOK
<1>6. channel' = "open" =>
          \A r \in Runs : (shown'[r] = "connected") <=> (applications'[r] # NoConnection)
  BY <1>2 DEF ChannelInv, Channel!RunsMirrorConnections
<1>7. ASSUME NEW r \in Runs, applications'[r] # NoConnection
      PROVE  run'[applications'[r]] = {r} /\ socket'[applications'[r]] \in {"open", "closing"}
  <2>1. applications'[r] = applications[r] /\ applications[r] # c /\ applications[r] \in Connections
    BY <1>1, <1>2, <1>4, <1>7 DEF Channel!TypeOK
  <2> QED
    BY <1>1, <1>2, <1>7, <2>1 DEF ChannelInv, Channel!RunsMirrorConnections, Channel!TypeOK
<1>8. ASSUME NEW d \in Connections, pendingOn'[d] # {}
      PROVE  \E r \in Runs : applications'[r] = d
  <2>1. d # c /\ pendingOn[d] # {}
    BY <1>3, <1>8
  <2>2. PICK r \in Runs : applications[r] = d
    BY <2>1 DEF ChannelInv, Channel!RunsMirrorConnections
  <2> QED
    BY <1>2, <1>4, <2>1, <2>2
<1>9. ASSUME NEW k \in Commands, command'[k] = "pending"
      PROVE  \E d \in Connections : k \in pendingOn'[d]
  <2>1. PICK d \in Connections : k \in pendingOn[d]
    BY <1>3, <1>9 DEF ChannelInv, Channel!RunsMirrorConnections
  <2> QED
    BY <1>3, <1>9, <2>1
<1> QED
  BY <1>5, <1>6, <1>7, <1>8, <1>9 DEF ChannelInv, Channel!RunsMirrorConnections

\* A command waits on the connection of its run, and stops waiting there and
\* nowhere else, with its answer or at its timeout.
LEMMA CommandKeeps ==
    ASSUME ChannelInv, NEW k \in Commands,
           \/ Channel!TimesOut(k) \/ \E r \in Runs : Channel!Command(k, r)
           \/ \E c \in Connections : Channel!Result(c, k)
    PROVE  ChannelInv'
<1>1. Channel!TypeOK /\ NoConnection \notin Connections
  BY PeripheryAssumption DEF ChannelInv
<1>2. UNCHANGED <<socket, run, applications, shown, channel>>
  BY DEF Channel!TimesOut, Channel!Command, Channel!Result
<1> DEFINE Waiting ==
               /\ pendingOn' \in [Connections -> SUBSET Commands]
               /\ command' \in [Commands -> {"none", "pending", "answered", "failed"}]
               /\ \A c \in Connections :
                      pendingOn'[c] \subseteq pendingOn[c] \/ \E r \in Runs : applications[r] = c
               /\ \A j \in Commands :
                      command'[j] = "pending" =>
                          \/ \E c \in Connections : j \in pendingOn'[c]
                          \/ command[j] = "pending"
                             /\ \A c \in Connections : j \in pendingOn[c] => j \in pendingOn'[c]
<1>3. Waiting
  <2>1. CASE Channel!TimesOut(k)
    BY <1>1, <2>1 DEF Channel!TimesOut, Channel!TypeOK
  <2>2. ASSUME NEW c \in Connections, Channel!Result(c, k) PROVE Waiting
    BY <1>1, <2>2 DEF Channel!Result, Channel!TypeOK
  <2>3. ASSUME NEW r \in Runs, Channel!Command(k, r) PROVE Waiting
    BY <1>1, <2>3 DEF Channel!Command, Channel!TypeOK
  <2> QED
    BY <2>1, <2>2, <2>3
<1>4. Channel!TypeOK'
  BY <1>1, <1>2, <1>3 DEF Channel!TypeOK
<1> QED
  BY <1>2, <1>3, <1>4 DEF ChannelInv, Channel!RunsMirrorConnections

\* So do the connection's first and last steps, and the channel's.
LEMMA ChannelKeeps ==
    ASSUME ChannelInv,
           \/ \E c \in Connections : Channel!Connect(c) \/ Channel!Closing(c)
           \/ Channel!Close \/ Channel!CloseDone
    PROVE  ChannelInv'
<1>1. Channel!TypeOK /\ NoConnection \notin Connections
  BY PeripheryAssumption DEF ChannelInv
<1>2. ASSUME NEW c \in Connections, Channel!Connect(c) \/ Channel!Closing(c) PROVE ChannelInv'
  <2>1. /\ UNCHANGED <<run, applications, pendingOn, command, shown, channel>>
        /\ socket' \in [Connections -> {"none", "open", "closing", "terminated", "closed"}]
        /\ \A d \in Connections :
               socket[d] \in {"open", "closing"} => socket'[d] \in {"open", "closing"}
    BY <1>1, <1>2 DEF Channel!Connect, Channel!Closing, Channel!TypeOK
  <2>2. Channel!TypeOK'
    BY <1>1, <2>1 DEF Channel!TypeOK
  <2> QED
    BY <1>1, <2>1, <2>2 DEF ChannelInv, Channel!RunsMirrorConnections, Channel!TypeOK
<1>3. CASE Channel!Close
  <2> DEFINE registered == {applications[r] : r \in Runs} \ {NoConnection}
  <2>1. /\ UNCHANGED <<run, shown>> /\ channel' = "closing"
        /\ applications' = [r \in Runs |-> NoConnection]
        /\ socket' \in [Connections -> {"none", "open", "closing", "terminated", "closed"}]
        /\ Channel!Reject(registered)
    BY <1>1, <1>3 DEF Channel!Close, Channel!TypeOK
  <2>2. /\ pendingOn' \in [Connections -> SUBSET Commands]
        /\ command' \in [Commands -> {"none", "pending", "answered", "failed"}]
        /\ \A c \in Connections : pendingOn'[c] = IF c \in registered THEN {} ELSE pendingOn[c]
        /\ \A k \in Commands :
               command'[k] = "pending" =>
                   command[k] = "pending" /\ \A c \in registered : k \notin pendingOn[c]
    BY <1>1, <2>1, RejectEffect
  <2>3. \A c \in Connections : c \notin registered => pendingOn[c] = {}
    BY <1>1 DEF ChannelInv, Channel!RunsMirrorConnections
  <2>4. \A k \in Commands : command'[k] # "pending"
    BY <2>2, <2>3 DEF ChannelInv, Channel!RunsMirrorConnections
  <2>5. Channel!TypeOK'
    BY <1>1, <2>1, <2>2 DEF Channel!TypeOK
  <2> QED
    BY <2>1, <2>2, <2>3, <2>4, <2>5 DEF ChannelInv, Channel!RunsMirrorConnections
<1>4. CASE Channel!CloseDone
  BY <1>4 DEF Channel!CloseDone, ChannelInv, Channel!TypeOK, Channel!RunsMirrorConnections
<1> QED
  BY <1>2, <1>3, <1>4

\* Every step of the channel keeps the invariant.
LEMMA ChannelStep == ChannelInv /\ Channel!Next => ChannelInv'
BY HelloKeeps, ClosedKeeps, CommandKeeps, ChannelKeeps DEF Channel!Next

\* Whoever leaves the channel's variables alone keeps it too.
LEMMA ChannelStutter == ChannelInv /\ UNCHANGED channelVars => ChannelInv'
BY DEF ChannelInv, Channel!TypeOK, Channel!RunsMirrorConnections, channelVars

\* The channel starts with nothing connected.
LEMMA ChannelInit == Channel!Init => ChannelInv
<1> SUFFICES ASSUME Channel!Init PROVE ChannelInv
  OBVIOUS
<1>1. \A c \in Connections : Channel!Cardinality(run[c]) <= 1
  BY FS_EmptySet, SameCardinality DEF Channel!Init
<1>2. Channel!TypeOK
  BY <1>1 DEF Channel!Init, Channel!TypeOK
<1> QED
  BY <1>2 DEF Channel!Init, ChannelInv, Channel!RunsMirrorConnections

\* The channel by itself: Devtools shows a run as connected exactly while a
\* connection is registered for it, and commands wait on no other.
THEOREM ChannelMirrorsConnections == Channel!Spec => []Channel!RunsMirrorConnections
<1>1. UNCHANGED Channel!vars => UNCHANGED channelVars
  BY DEF Channel!vars, channelVars
<1>2. ChannelInv => Channel!RunsMirrorConnections
  BY DEF ChannelInv
<1> QED
  BY <1>1, <1>2, ChannelInit, ChannelStep, ChannelStutter, PTL DEF Channel!Spec

-----------------------------------------------------------------------------
(* The components side by side.                                            *)

\* A step of Periphery is a step of the channel or leaves it alone.
LEMMA ChannelOrOther == [Next]_vars => Channel!Next \/ UNCHANGED channelVars
BY DEF Next, Only, Unless, vars

\* RunsMirrorConnections: the same of the channel among the other components.
THEOREM RunsAreMirrored == Spec => []RunsMirrorConnections
<1>1. Init => ChannelInv
  BY ChannelInit DEF Init
<1>2. ChannelInv /\ [Next]_vars => ChannelInv'
  BY ChannelOrOther, ChannelStep, ChannelStutter
<1>3. ChannelInv => RunsMirrorConnections
  BY DEF ChannelInv, RunsMirrorConnections
<1> QED
  BY <1>1, <1>2, <1>3, PTL DEF Spec

-----------------------------------------------------------------------------
(* A trigger.                                                              *)

\* A delay runs its task from its loop alone, and a cron has looked at every
\* minute it has fired in; what is stopped is disarmed, and its loop not asleep.
TriggerInv ==
    /\ Trigger!TypeOK
    /\ IF kind \in Trigger!Delays
       THEN loop # "none" /\ runs = IF loop = "running" THEN 1 ELSE 0
       ELSE loop \in {"unstarted", "none"}
    /\ loop = "unstarted" => runs = 0 /\ ~armed
    /\ IF kind = "queue" THEN validating + runs <= Concurrency ELSE validating = 0
    /\ loop = "unstarted" => validating = 0
    /\ kind = "cronSkip" => runs <= 1
    /\ kind \in Trigger!Crons =>
           /\ lastMinute <= minute
           /\ \A m \in 1 .. MaxMinutes :
                  firings[m] <= IF m \in matching /\ m <= lastMinute THEN 1 ELSE 0
    /\ stop # "none" => ~armed /\ loop \notin {"unstarted", "sleeping"}
    /\ stop = "resolved" => validating = 0 /\ runs = 0 /\ loop \in {"none", "ended"}

\* A cron that looks at a minute fires in it once, if it matches, and never over a
\* run it has to skip.
LEMMA TickKeeps ==
    ASSUME TriggerInv, stop = "none",
           \/ Trigger!StartCron
           \/ Trigger!Tick
    PROVE  TriggerInv'
<1> USE DEF Trigger!Crons, Trigger!Delays, Trigger!Kinds, Trigger!Minutes
<1>1. /\ UNCHANGED <<kind, matching, validating, minute, stop>>
      /\ kind \in {"cronSkip", "cronAllow"}
      /\ armed' \in BOOLEAN /\ loop' = "none" /\ loop \in {"unstarted", "none"}
      /\ Trigger!TickOnce
  BY DEF Trigger!StartCron, Trigger!Tick, TriggerInv, Trigger!TypeOK
<1>2. /\ minute \in 1 .. MaxMinutes /\ lastMinute \in 0 .. MaxMinutes /\ runs \in Nat
      /\ firings \in [1 .. MaxMinutes -> Nat] /\ MaxMinutes \in Nat
      /\ matching \subseteq 1 .. MaxMinutes
  BY PeripheryAssumption DEF TriggerInv, Trigger!TypeOK
<1>3. CASE UNCHANGED <<lastMinute, runs, firings>>
  BY <1>1, <1>2, <1>3 DEF TriggerInv, Trigger!TypeOK
<1>4. CASE /\ minute \in matching /\ lastMinute # minute /\ lastMinute' = minute
           /\ UNCHANGED <<runs, firings>>
  BY <1>1, <1>2, <1>4 DEF TriggerInv, Trigger!TypeOK
<1>5. CASE /\ minute \in matching /\ lastMinute # minute /\ lastMinute' = minute
           /\ ~(kind = "cronSkip" /\ runs > 0) /\ Trigger!Begun
  <2>1. /\ runs' = runs + 1 /\ firings' = [firings EXCEPT ![minute] = @ + 1]
        /\ kind = "cronSkip" => runs = 0
    BY <1>2, <1>5 DEF Trigger!Begun
  <2>2. lastMinute < minute /\ firings[minute] = 0
    BY <1>1, <1>2, <1>5 DEF TriggerInv
  <2>3. /\ firings' \in [1 .. MaxMinutes -> Nat] /\ firings'[minute] = 1
        /\ \A m \in 1 .. MaxMinutes : m # minute => firings'[m] = firings[m]
    BY <1>2, <2>1, <2>2
  <2>4. \A m \in 1 .. MaxMinutes :
            firings'[m] <= IF m \in matching' /\ m <= lastMinute' THEN 1 ELSE 0
    BY <1>1, <1>2, <1>5, <2>2, <2>3 DEF TriggerInv
  <2>5. Trigger!TypeOK'
    BY <1>1, <1>2, <1>5, <2>1, <2>3 DEF TriggerInv, Trigger!TypeOK
  <2> QED
    BY <1>1, <1>2, <1>5, <2>1, <2>4, <2>5 DEF TriggerInv
<1> QED
  BY <1>1, <1>3, <1>4, <1>5 DEF Trigger!TickOnce

\* A delay begins its runs before stop() is called.
LEMMA BeginKeeps ==
    ASSUME TriggerInv, Trigger!StartDelay \/ Trigger!Wake
    PROVE  TriggerInv' /\ Trigger!BeginsNothing
<1> USE DEF Trigger!Crons, Trigger!Delays, Trigger!Kinds, Trigger!Minutes
<1>1. /\ minute \in 1 .. MaxMinutes /\ validating \in Nat /\ runs \in Nat
      /\ firings \in [1 .. MaxMinutes -> Nat]
  BY DEF TriggerInv, Trigger!TypeOK
<1>2. Trigger!Begun => /\ runs' = runs + 1
                       /\ firings' \in [1 .. MaxMinutes -> Nat]
  BY <1>1 DEF Trigger!Begun
<1>3. CASE Trigger!StartDelay
  <2>1. /\ UNCHANGED <<kind, matching, validating, minute, lastMinute, stop>>
        /\ kind \in {"delayed", "immediate"} /\ loop = "unstarted" /\ runs = 0 /\ stop = "none"
        /\ validating = 0
        /\ \/ loop' = "running" /\ Trigger!Begun /\ armed' = armed
           \/ loop' = "sleeping" /\ armed' = TRUE /\ UNCHANGED <<runs, firings>>
    BY <1>3 DEF Trigger!StartDelay, TriggerInv
  <2>2. armed' \in BOOLEAN
    BY <2>1 DEF TriggerInv, Trigger!TypeOK
  <2>3. runs' \in Nat /\ firings' \in [1 .. MaxMinutes -> Nat] /\ loop' \in {"running", "sleeping"}
    BY <1>1, <1>2, <2>1
  <2>4. Trigger!TypeOK'
    BY <2>1, <2>2, <2>3 DEF TriggerInv, Trigger!TypeOK
  <2> QED
    BY <1>1, <1>2, <2>1, <2>4 DEF TriggerInv, Trigger!BeginsNothing
<1>4. CASE Trigger!Wake
  <2>1. TriggerInv'
    BY <1>1, <1>2, <1>4 DEF Trigger!Wake, TriggerInv, Trigger!TypeOK
  <2>2. kind # "queue" /\ (stop # "none" => firings' = firings)
    BY <1>4 DEF Trigger!Wake, TriggerInv
  <2> QED
    BY <2>1, <2>2 DEF Trigger!BeginsNothing
<1> QED
  BY <1>3, <1>4

\* A queue is handed its jobs before stop() is called; those it has may still begin
\* their runs.
LEMMA JobKeeps ==
    ASSUME TriggerInv, Trigger!Job \/ Trigger!ValidationEnds \/ Trigger!JobEnds
    PROVE  TriggerInv' /\ Trigger!BeginsNothing
<1> USE DEF Trigger!Crons, Trigger!Delays, Trigger!Kinds, Trigger!Minutes
<1>1. /\ minute \in 1 .. MaxMinutes /\ validating \in Nat /\ runs \in Nat
      /\ firings \in [1 .. MaxMinutes -> Nat] /\ Concurrency \in Nat
  BY PeripheryAssumption DEF TriggerInv, Trigger!TypeOK
<1>2. /\ UNCHANGED <<kind, matching, minute, lastMinute, armed, loop, stop>> /\ kind = "queue"
  BY DEF Trigger!Job, Trigger!ValidationEnds, Trigger!JobValidated, Trigger!JobRefused, Trigger!JobEnds,
     TriggerInv
<1>3. firings' \in [1 .. MaxMinutes -> Nat]
  BY <1>1 DEF Trigger!Job, Trigger!ValidationEnds, Trigger!JobValidated, Trigger!JobRefused,
     Trigger!JobEnds, Trigger!Begun
<1>4. \/ /\ armed /\ validating + runs < Concurrency
         /\ validating' = validating + 1 /\ runs' = runs
      \/ /\ validating > 0 /\ validating' = validating - 1 /\ runs' \in {runs, runs + 1}
      \/ /\ runs > 0 /\ runs' = runs - 1 /\ validating' = validating
  BY DEF Trigger!Job, Trigger!ValidationEnds, Trigger!JobValidated, Trigger!JobRefused, Trigger!JobEnds,
     Trigger!Begun
<1>5. loop # "unstarted" /\ stop # "resolved" /\ (armed => stop = "none")
  BY <1>1, <1>4 DEF TriggerInv
<1>6. /\ validating' \in Nat /\ runs' \in Nat /\ validating' + runs' <= Concurrency
      /\ stop # "none" => validating' + runs' <= validating + runs
  <2>1. validating + runs <= Concurrency
    BY <1>2 DEF TriggerInv
  <2> QED
    BY <1>1, <1>4, <1>5, <2>1
<1>7. Trigger!TypeOK'
  BY <1>1, <1>2, <1>3, <1>6 DEF TriggerInv, Trigger!TypeOK
<1>8. TriggerInv'
  BY <1>2, <1>5, <1>6, <1>7 DEF TriggerInv
<1> QED
  BY <1>2, <1>6, <1>8 DEF Trigger!BeginsNothing, Trigger!InHand

\* The other steps take no work on.
LEMMA RestKeeps ==
    ASSUME TriggerInv,
           \/ Trigger!StartQueue \/ Trigger!ClockTicks \/ Trigger!TimerFires
           \/ Trigger!CronRunEnds \/ Trigger!DelayRunEnds \/ Trigger!StopCalled \/ Trigger!StopResolves
    PROVE  TriggerInv' /\ Trigger!BeginsNothing
<1> USE DEF Trigger!Crons, Trigger!Delays, Trigger!Kinds, Trigger!Minutes
<1>1. /\ minute \in 1 .. MaxMinutes /\ lastMinute \in 0 .. MaxMinutes /\ runs \in Nat
      /\ firings \in [1 .. MaxMinutes -> Nat] /\ MaxMinutes \in Nat /\ validating \in Nat
      /\ Concurrency \in Nat
  BY PeripheryAssumption DEF TriggerInv, Trigger!TypeOK
<1>2. CASE Trigger!StartQueue
  BY <1>1, <1>2 DEF Trigger!StartQueue, TriggerInv, Trigger!TypeOK, Trigger!BeginsNothing, Trigger!InHand
<1>3. CASE Trigger!ClockTicks
  BY <1>1, <1>3 DEF Trigger!ClockTicks, TriggerInv, Trigger!TypeOK, Trigger!BeginsNothing, Trigger!InHand
<1>4. CASE Trigger!TimerFires
  BY <1>1, <1>4 DEF Trigger!TimerFires, TriggerInv, Trigger!TypeOK, Trigger!BeginsNothing, Trigger!InHand
<1>5. CASE Trigger!CronRunEnds
  <2>1. /\ UNCHANGED <<kind, matching, validating, minute, lastMinute, armed, loop, firings, stop>>
        /\ kind \in {"cronSkip", "cronAllow"} /\ runs > 0 /\ runs' = runs - 1
    BY <1>5 DEF Trigger!CronRunEnds
  <2>2. Trigger!TypeOK'
    BY <1>1, <2>1 DEF TriggerInv, Trigger!TypeOK
  <2> QED
    BY <1>1, <2>1, <2>2 DEF TriggerInv, Trigger!BeginsNothing
<1>6. CASE Trigger!DelayRunEnds
  <2>1. kind \in Trigger!Delays /\ runs = 1 /\ runs' = 0
    BY <1>1, <1>6 DEF Trigger!DelayRunEnds, TriggerInv
  <2> QED
    <3>1. /\ UNCHANGED <<kind, matching, validating, minute, lastMinute, firings, stop>>
          /\ \/ stop # "none" /\ loop' = "ended" /\ armed' = armed
             \/ stop = "none" /\ loop' = "sleeping" /\ armed' = TRUE
      BY <1>6 DEF Trigger!DelayRunEnds
    <3>2. Trigger!TypeOK'
      BY <1>1, <2>1, <3>1 DEF TriggerInv, Trigger!TypeOK
    <3> QED
      BY <1>1, <2>1, <3>1, <3>2 DEF TriggerInv, Trigger!BeginsNothing
<1>7. CASE Trigger!StopCalled
  BY <1>1, <1>7 DEF Trigger!StopCalled, TriggerInv, Trigger!TypeOK, Trigger!BeginsNothing
<1>8. CASE Trigger!StopResolves
  BY <1>1, <1>8 DEF Trigger!StopResolves, TriggerInv, Trigger!TypeOK, Trigger!BeginsNothing, Trigger!InHand
<1> QED
  BY <1>2, <1>3, <1>4, <1>5, <1>6, <1>7, <1>8

\* Every step of a trigger keeps the invariant, and none takes work on after stop().
LEMMA TriggerStep == TriggerInv /\ Trigger!Next => TriggerInv' /\ Trigger!BeginsNothing
<1> SUFFICES ASSUME TriggerInv, Trigger!Next
             PROVE  TriggerInv' /\ Trigger!BeginsNothing
  OBVIOUS
<1>1. CASE Trigger!StartCron \/ Trigger!Tick
  <2>1. stop = "none"
    BY <1>1 DEF Trigger!StartCron, Trigger!Tick, TriggerInv
  <2> QED
    BY <1>1, <2>1, TickKeeps DEF Trigger!BeginsNothing
<1> QED
  BY <1>1, BeginKeeps, JobKeeps, RestKeeps DEF Trigger!Next, Trigger!RunEnds

\* Whoever leaves the trigger's variables alone keeps it too.
LEMMA TriggerStutter == TriggerInv /\ UNCHANGED triggerVars => TriggerInv'
<1> SUFFICES ASSUME TriggerInv, UNCHANGED triggerVars PROVE TriggerInv'
  OBVIOUS
<1>1. UNCHANGED <<kind, matching, minute, lastMinute, armed, loop, validating, runs, firings, stop>>
  BY DEF triggerVars
<1> QED
  BY <1>1 DEF TriggerInv, Trigger!TypeOK, Trigger!Delays, Trigger!Crons, Trigger!Minutes, Trigger!Kinds

\* A trigger starts with nothing armed and nothing run.
LEMMA TriggerInit == Trigger!Init => TriggerInv
<1> SUFFICES ASSUME Trigger!Init PROVE TriggerInv
  OBVIOUS
<1>1. MaxMinutes \in Nat \ {0} /\ Concurrency \in Nat \ {0}
  BY PeripheryAssumption
<1>2. kind \in Trigger!Kinds /\ matching \subseteq 1 .. MaxMinutes
  BY DEF Trigger!Init, Trigger!Minutes
<1>3. /\ minute = 1 /\ lastMinute = 0 /\ loop = "unstarted" /\ runs = 0 /\ stop = "none"
      /\ firings \in [1 .. MaxMinutes -> Nat] /\ validating = 0
  BY DEF Trigger!Init, Trigger!Minutes
<1>4. armed = FALSE /\ armed \in BOOLEAN
  BY DEF Trigger!Init
<1>5. Trigger!TypeOK
  BY <1>1, <1>2, <1>3, <1>4 DEF Trigger!TypeOK, Trigger!Minutes
<1> QED
  BY <1>1, <1>3, <1>5 DEF Trigger!Init, TriggerInv, Trigger!Delays, Trigger!Crons, Trigger!Minutes, Trigger!Kinds

\* What StoppedTriggersAreQuiet says of a state follows from the invariant.
LEMMA TriggerSafe ==
    TriggerInv => /\ stop = "resolved" => Trigger!InHand = 0 /\ ~armed /\ loop \in {"none", "ended"}
                  /\ kind \notin {"cronAllow", "queue"} => Trigger!InHand <= 1
                  /\ kind = "queue" => Trigger!InHand <= Concurrency
                  /\ kind \in Trigger!Crons =>
                         \A m \in Trigger!Minutes : firings[m] <= IF m \in matching THEN 1 ELSE 0
<1> SUFFICES ASSUME TriggerInv
             PROVE  /\ stop = "resolved" => Trigger!InHand = 0 /\ ~armed /\ loop \in {"none", "ended"}
                    /\ kind \notin {"cronAllow", "queue"} => Trigger!InHand <= 1
                    /\ kind = "queue" => Trigger!InHand <= Concurrency
                    /\ kind \in Trigger!Crons =>
                           \A m \in Trigger!Minutes : firings[m] <= IF m \in matching THEN 1 ELSE 0
  OBVIOUS
<1>1. stop = "resolved" => Trigger!InHand = 0 /\ ~armed /\ loop \in {"none", "ended"}
  BY DEF TriggerInv, Trigger!InHand
<1>2. /\ kind \notin {"cronAllow", "queue"} => Trigger!InHand <= 1
      /\ kind = "queue" => Trigger!InHand <= Concurrency
  BY DEF TriggerInv, Trigger!TypeOK, Trigger!Kinds, Trigger!Delays, Trigger!InHand
<1>3. ASSUME kind \in Trigger!Crons, NEW m \in Trigger!Minutes
      PROVE  firings[m] <= IF m \in matching THEN 1 ELSE 0
  <2>1. firings[m] <= IF m \in matching /\ m <= lastMinute THEN 1 ELSE 0
    BY <1>3 DEF TriggerInv, Trigger!Minutes
  <2>2. firings[m] \in Nat
    BY <1>3 DEF TriggerInv, Trigger!TypeOK
  <2> QED
    BY <2>1, <2>2
<1> QED
  BY <1>1, <1>2, <1>3

\* StoppedTriggersAreQuiet, of a trigger by itself: after stop() has been called no run
\* begins but of a job handed over before, none is left when it has resolved, only what
\* may overlaps its runs, a queue within its concurrency, and a cron fires once in a
\* minute that matches and never in another.
THEOREM StoppedTriggerBeginsNothing == Trigger!Spec => Trigger!StoppedTriggersAreQuiet
<1> DEFINE Quiet   == stop = "resolved" => Trigger!InHand = 0 /\ ~armed /\ loop \in {"none", "ended"}
           Single  == kind \notin {"cronAllow", "queue"} => Trigger!InHand <= 1
           Bounded == kind = "queue" => Trigger!InHand <= Concurrency
           OnTime  == kind \in Trigger!Crons =>
                          \A m \in Trigger!Minutes : firings[m] <= IF m \in matching THEN 1 ELSE 0
<1>1. UNCHANGED Trigger!vars => UNCHANGED triggerVars
  BY DEF Trigger!vars, triggerVars
<1>2. TriggerInv => Quiet /\ Single /\ Bounded /\ OnTime
  BY TriggerSafe
<1>3. TriggerInv /\ [Trigger!Next]_(Trigger!vars) => TriggerInv' /\ [Trigger!BeginsNothing]_(Trigger!vars)
  BY <1>1, TriggerStep, TriggerStutter
<1> HIDE DEF Quiet, Single, Bounded, OnTime
<1>4. Trigger!Spec => [][Trigger!BeginsNothing]_(Trigger!vars) /\ []Quiet /\ []Single /\ []Bounded /\ []OnTime
  BY <1>2, <1>3, TriggerInit, PTL DEF Trigger!Spec
<1> QED
  BY <1>4 DEF Trigger!StoppedTriggersAreQuiet, Quiet, Single, Bounded, OnTime

\* A step of Periphery is a step of the trigger or leaves it alone.
LEMMA TriggerOrOther == [Next]_vars => Trigger!Next \/ UNCHANGED triggerVars
BY DEF Next, Only, Unless, vars

\* The safety half of StoppedTriggersAreQuiet, of the trigger among the other
\* components: what is stopping takes no work on, and leaves none behind.
THEOREM StoppedTriggersBeginNothing == Spec => Trigger!StoppedTriggersAreQuiet
<1> DEFINE Quiet   == stop = "resolved" => Trigger!InHand = 0 /\ ~armed /\ loop \in {"none", "ended"}
           Single  == kind \notin {"cronAllow", "queue"} => Trigger!InHand <= 1
           Bounded == kind = "queue" => Trigger!InHand <= Concurrency
           OnTime  == kind \in Trigger!Crons =>
                          \A m \in Trigger!Minutes : firings[m] <= IF m \in matching THEN 1 ELSE 0
<1>1. Init => TriggerInv
  BY TriggerInit DEF Init
<1>2. TriggerInv => Quiet /\ Single /\ Bounded /\ OnTime
  BY TriggerSafe
<1>3. TriggerInv /\ [Next]_vars => TriggerInv' /\ [Trigger!BeginsNothing]_(Trigger!vars)
  <2>1. UNCHANGED triggerVars => UNCHANGED Trigger!vars
    BY DEF Trigger!vars, triggerVars
  <2> QED
    BY <2>1, TriggerOrOther, TriggerStep, TriggerStutter
<1> HIDE DEF Quiet, Single, Bounded, OnTime
<1>4. Spec => [][Trigger!BeginsNothing]_(Trigger!vars) /\ []Quiet /\ []Single /\ []Bounded /\ []OnTime
  BY <1>1, <1>2, <1>3, PTL DEF Spec
<1> QED
  BY <1>4 DEF Trigger!StoppedTriggersAreQuiet, Quiet, Single, Bounded, OnTime

-----------------------------------------------------------------------------
(* A data scope.                                                           *)

\* Requests in the order of their loads, all of which have been made.
MadeRequests(s) == s \in Seq(Scope!Loads) /\ \A i \in 1 .. Len(s) : s[i] <= called

\* A load that has been made has its own promise or one of the same parent; a
\* request is settled or pending; a batch shares the promise of an object that is
\* pending; and once the scope aborts, nothing is pending.
ScopeTyped ==
    /\ called \in 0 .. MaxLoads /\ aborting \in BOOLEAN
    /\ batch \in [Scope!Loads -> Scope!Batches]
    /\ parent \in [Scope!Loads -> Parents \union {"none"}]
    /\ shares \in [Scope!Loads -> 0 .. MaxLoads]
    /\ settled \in [Scope!Loads -> Parents \union {"unsettled", "rejected"}]
    /\ dedup \in [Scope!Batches -> [Parents -> 0 .. MaxLoads]]
    /\ pending \subseteq Scope!Loads
    /\ flushes \subseteq Scope!Batches /\ loading \subseteq Scope!Loads
QueuesMade ==
    /\ DOMAIN waiting = Scope!Batches /\ DOMAIN flight = Scope!Loads
    /\ waiting = [b \in Scope!Batches |-> waiting[b]] /\ flight = [l \in Scope!Loads |-> flight[l]]
    /\ \A b \in Scope!Batches : MadeRequests(waiting[b])
    /\ \A f \in Scope!Loads : MadeRequests(flight[f])
LoadInv(l) ==
    /\ l <= called =>
           /\ parent[l] \in Parents
           /\ shares[l] \in 1 .. called
           /\ parent[shares[l]] = parent[l] /\ shares[shares[l]] = shares[l]
           /\ settled[l] \in {"unsettled", "rejected", parent[l]}
           /\ shares[l] = l /\ settled[l] = "unsettled" => l \in pending
    /\ l > called => settled[l] = "unsettled"
    /\ l \in pending =>
           /\ l <= called /\ shares[l] = l /\ settled[l] = "unsettled"
           /\ parent[l] \notin Primitives => dedup[batch[l]][parent[l]] = l
DedupInv ==
    \A b \in Scope!Batches, p \in Parents :
        dedup[b][p] # 0 =>
            LET m == dedup[b][p] IN
            m <= called /\ batch[m] = b /\ parent[m] = p /\ shares[m] = m
ScopeInv ==
    /\ ScopeTyped /\ QueuesMade /\ DedupInv
    /\ \A l \in Scope!Loads : LoadInv(l)
    /\ aborting => pending = {}

\* Nothing of a data scope is a mark.
LEMMA ParentsAreNoMarks ==
    /\ "none" \notin Parents /\ "unsettled" \notin Parents /\ "rejected" \notin Parents
    /\ Primitives \subseteq Parents
    /\ MaxLoads \in Nat
BY PeripheryAssumption

\* Requests that have been made settle with the value of their own parent or with
\* an error, and are pending no more; nothing else changes.
LEMMA SettleKeeps ==
    ASSUME ScopeInv, NEW chunk, \A l \in chunk : l \in 1 .. called,
           settled' \in [Scope!Loads -> Parents \union {"unsettled", "rejected"}],
           \A l \in Scope!Loads :
               IF l \in chunk /\ settled[l] = "unsettled"
               THEN settled'[l] \in {"rejected", parent[l]}
               ELSE settled'[l] = settled[l],
           pending' = pending \ chunk,
           UNCHANGED <<called, parent, batch, shares, dedup, aborting, flushes>>,
           loading' \subseteq Scope!Loads, QueuesMade'
    PROVE  ScopeInv'
<1>1. ScopeTyped'
  BY DEF ScopeInv, ScopeTyped
<1>2. DedupInv'
  BY DEF ScopeInv, DedupInv
<1>3. ASSUME NEW l \in Scope!Loads PROVE LoadInv(l)'
  <2>1. LoadInv(l) /\ (l <= called => parent[l] \in Parents)
    BY DEF ScopeInv, LoadInv
  <2>2. l > called => l \notin chunk
    BY DEF ScopeInv, ScopeTyped, Scope!Loads
  <2>3. l <= called /\ settled'[l] = "unsettled" => settled[l] = "unsettled" /\ l \notin chunk
    BY <2>1, ParentsAreNoMarks
  <2> QED
    BY <2>1, <2>2, <2>3 DEF LoadInv
<1> QED
  BY <1>1, <1>2, <1>3 DEF ScopeInv

\* What a sequence of requests consists of.
LEMMA RequestsOf ==
    ASSUME called \in 0 .. MaxLoads, NEW s, MadeRequests(s)
    PROVE  \A l \in Scope!ToSet(s) : l \in 1 .. called /\ l \in Scope!Loads
<1>1. \A i \in 1 .. Len(s) : s[i] \in Scope!Loads /\ s[i] <= called
  BY DEF MadeRequests
<1> QED
  BY <1>1, ParentsAreNoMarks DEF Scope!ToSet, MadeRequests, Scope!Loads

\* A chunk and the rest of a flush consist of requests of the flush.
LEMMA PartOfRequests ==
    ASSUME NEW s, MadeRequests(s), NEW i \in 1 .. Len(s) + 1, NEW j \in 0 .. Len(s)
    PROVE  MadeRequests(SubSeq(s, i, j))
BY DEF MadeRequests

\* A data scope starts without loads.
LEMMA ScopeInit == Scope!Init => ScopeInv
<1> SUFFICES ASSUME Scope!Init PROVE ScopeInv
  OBVIOUS
<1> USE ParentsAreNoMarks
<1>1. ScopeTyped
  <2>1. /\ called \in 0 .. MaxLoads /\ pending = {} /\ flushes = {} /\ loading = {}
        /\ batch \in [Scope!Loads -> Scope!Batches]
        /\ parent \in [Scope!Loads -> Parents \union {"none"}]
        /\ shares \in [Scope!Loads -> 0 .. MaxLoads]
        /\ settled \in [Scope!Loads -> Parents \union {"unsettled", "rejected"}]
    BY DEF Scope!Init, Scope!Batches, Scope!Loads, Scope!NoParent, Scope!NoLoad
  <2>2. dedup \in [Scope!Batches -> [Parents -> 0 .. MaxLoads]]
    BY DEF Scope!Init, Scope!NoLoad
  <2>3. aborting \in BOOLEAN
    BY DEF Scope!Init
  <2> QED
    BY <2>1, <2>2, <2>3 DEF ScopeTyped
<1>2. QueuesMade
  BY DEF Scope!Init, QueuesMade, MadeRequests
<1>3. DedupInv
  BY DEF Scope!Init, DedupInv, Scope!NoLoad
<1>4. \A l \in Scope!Loads : LoadInv(l)
  BY DEF Scope!Init, LoadInv, Scope!Loads
<1> QED
  BY <1>1, <1>2, <1>3, <1>4 DEF Scope!Init, ScopeInv

\* A promise that is shared no more has settled.
LEMMA ForgetKeeps ==
    ASSUME ScopeInv, NEW l \in Scope!Loads, Scope!Forget(l)
    PROVE  ScopeInv'
<1> DEFINE b == batch[l]
           p == parent[l]
<1>1. /\ b \in Scope!Batches /\ p \in Parents /\ l \notin pending
      /\ dedup' = [dedup EXCEPT ![b][p] = 0]
      /\ UNCHANGED <<called, parent, batch, shares, waiting, flushes, flight, loading, pending, settled, aborting>>
  BY ParentsAreNoMarks DEF Scope!Forget, ScopeInv, ScopeTyped, LoadInv, Scope!NoParent, Scope!NoLoad
<1>2. /\ dedup' \in [Scope!Batches -> [Parents -> 0 .. MaxLoads]]
      /\ \A c \in Scope!Batches, q \in Parents :
             dedup'[c][q] = IF c = b /\ q = p THEN 0 ELSE dedup[c][q]
  BY <1>1, ParentsAreNoMarks DEF ScopeInv, ScopeTyped
<1>3. dedup[b][p] = l
  BY DEF Scope!Forget
<1>4. ScopeTyped' /\ QueuesMade' /\ DedupInv'
  BY <1>1, <1>2 DEF ScopeInv, ScopeTyped, QueuesMade, MadeRequests, DedupInv
<1>5. ASSUME NEW m \in Scope!Loads PROVE LoadInv(m)'
  <2>1. m \in pending /\ parent[m] \notin Primitives => dedup'[batch[m]][parent[m]] = m
    <3> SUFFICES ASSUME m \in pending, parent[m] \notin Primitives
                 PROVE  dedup'[batch[m]][parent[m]] = m
      OBVIOUS
    <3>1. dedup[batch[m]][parent[m]] = m /\ m # l /\ parent[m] \in Parents /\ batch[m] \in Scope!Batches
      BY <1>1 DEF ScopeInv, ScopeTyped, LoadInv
    <3> QED
      BY <1>2, <1>3, <3>1
  <2> QED
    BY <1>1, <2>1 DEF ScopeInv, LoadInv
<1> QED
  BY <1>1, <1>4, <1>5 DEF ScopeInv

\* A flush takes what waits.
LEMMA FlushKeeps ==
    ASSUME ScopeInv, NEW b \in Scope!Batches, Scope!Flush(b)
    PROVE  ScopeInv'
<1>1. /\ flushes' = flushes \ {b}
      /\ flight' = [flight EXCEPT ![Head(waiting[b])] = waiting[b]]
      /\ waiting' = [waiting EXCEPT ![b] = <<>>]
      /\ UNCHANGED <<called, parent, batch, shares, loading, dedup, pending, settled, aborting>>
  BY DEF Scope!Flush
<1>2. QueuesMade'
  <2>1. MadeRequests(<<>>) /\ MadeRequests(waiting[b])
    BY DEF ScopeInv, QueuesMade, MadeRequests
  <2> QED
    BY <1>1, <2>1 DEF ScopeInv, QueuesMade, MadeRequests
<1>3. ScopeTyped' /\ DedupInv' /\ \A l \in Scope!Loads : LoadInv(l)'
  BY <1>1 DEF ScopeInv, ScopeTyped, DedupInv, LoadInv
<1> QED
  BY <1>1, <1>2, <1>3 DEF ScopeInv

\* Aborting rejects all that is pending.
LEMMA AbortKeeps == ScopeInv /\ Scope!Abort => ScopeInv'
<1> SUFFICES ASSUME ScopeInv, Scope!Abort PROVE ScopeInv'
  OBVIOUS
<1> USE ParentsAreNoMarks
<1>1. /\ aborting' = TRUE /\ pending' = {}
      /\ settled' = [l \in Scope!Loads |->
             IF l \in pending /\ settled[l] = "unsettled" THEN "rejected" ELSE settled[l]]
      /\ UNCHANGED <<called, parent, batch, shares, waiting, flushes, flight, loading, dedup>>
  BY DEF Scope!Abort, Scope!Settle, Scope!Rejected
<1>2. settled' \in [Scope!Loads -> Parents \union {"unsettled", "rejected"}]
  BY <1>1 DEF ScopeInv, ScopeTyped
<1>3. aborting' \in BOOLEAN
  BY <1>1
<1>4. ScopeTyped' /\ QueuesMade' /\ DedupInv'
  BY <1>1, <1>2, <1>3 DEF ScopeInv, ScopeTyped, QueuesMade, MadeRequests, DedupInv
<1>5. ASSUME NEW l \in Scope!Loads PROVE LoadInv(l)'
  <2>1. LoadInv(l) /\ l \in Nat /\ called \in Nat
    BY DEF ScopeInv, ScopeTyped, Scope!Loads
  <2>2. settled'[l] = IF l \in pending THEN "rejected" ELSE settled[l]
    BY <1>1, <2>1 DEF LoadInv
  <2> QED
    BY <1>1, <2>1, <2>2 DEF LoadInv
<1> QED
  BY <1>1, <1>4, <1>5 DEF ScopeInv

\* The next chunk of a flush is loaded, or all that is left rejected.
LEMMA NextChunkKeeps ==
    ASSUME ScopeInv, NEW f \in Scope!Loads, Scope!NextChunk(f)
    PROVE  ScopeInv'
<1> USE ParentsAreNoMarks
<1>1. UNCHANGED <<called, parent, batch, shares, waiting, flushes, dedup, aborting>>
  BY DEF Scope!NextChunk
<1>2. CASE aborting
  <2> DEFINE chunk == Scope!ToSet(flight[f])
  <2>1. /\ settled' = [l \in Scope!Loads |->
               IF l \in chunk /\ settled[l] = "unsettled" THEN "rejected" ELSE settled[l]]
        /\ pending' = pending \ chunk
        /\ flight' = [flight EXCEPT ![f] = <<>>] /\ UNCHANGED loading
    BY <1>2 DEF Scope!NextChunk, Scope!Settle, Scope!Rejected
  <2>2. \A l \in chunk : l \in 1 .. called
    BY RequestsOf DEF ScopeInv, ScopeTyped, QueuesMade
  <2>3. QueuesMade'
    <3>1. MadeRequests(<<>>)
      BY DEF MadeRequests
    <3> HIDE DEF chunk
    <3> QED
      BY <1>1, <2>1, <3>1 DEF ScopeInv, QueuesMade, MadeRequests
  <2>4. settled' \in [Scope!Loads -> Parents \union {"unsettled", "rejected"}]
    BY <2>1 DEF ScopeInv, ScopeTyped
  <2>5. loading' \subseteq Scope!Loads
    BY <2>1 DEF ScopeInv, ScopeTyped
  <2> HIDE DEF chunk
  <2> QED
    BY <1>1, <2>1, <2>2, <2>3, <2>4, <2>5, SettleKeeps
<1>3. CASE ~aborting
  <2>1. loading' = loading \union {f} /\ UNCHANGED <<flight, settled, pending>>
    BY <1>3 DEF Scope!NextChunk
  <2>2. ScopeTyped' /\ QueuesMade' /\ DedupInv' /\ \A l \in Scope!Loads : LoadInv(l)'
    BY <1>1, <2>1 DEF ScopeInv, ScopeTyped, QueuesMade, MadeRequests, DedupInv, LoadInv
  <2> QED
    BY <1>1, <2>1, <2>2 DEF ScopeInv
<1> QED
  BY <1>2, <1>3

\* A chunk that is loaded gives each of its requests the value of its parent, or an
\* error.
LEMMA ChunkLoadedKeeps ==
    ASSUME ScopeInv, NEW f \in Scope!Loads, Scope!ChunkLoaded(f)
    PROVE  ScopeInv'
<1> DEFINE chunk == Scope!ToSet(Scope!ChunkOf(f))
<1> USE ParentsAreNoMarks
<1>1. /\ UNCHANGED <<called, parent, batch, shares, waiting, flushes, dedup, aborting>>
      /\ loading' = loading \ {f}
      /\ flight' = [flight EXCEPT ![f] = Scope!Rest(f)]
      /\ pending' = pending \ chunk
  BY DEF Scope!ChunkLoaded, Scope!Settle
<1>2. \E errors \in SUBSET chunk :
          settled' = [l \in Scope!Loads |->
              IF l \in chunk /\ settled[l] = "unsettled"
              THEN IF l \in errors THEN "rejected" ELSE parent[l]
              ELSE settled[l]]
  <2>1. CASE Scope!Settle(chunk, Scope!Rejected)
    BY <2>1 DEF Scope!Settle, Scope!Rejected
  <2>2. CASE ~Scope!Settle(chunk, Scope!Rejected)
    BY <2>2 DEF Scope!ChunkLoaded, Scope!Settle
  <2> QED
    BY <2>1, <2>2
<1>3. /\ MadeRequests(flight[f]) /\ MadeRequests(Scope!ChunkOf(f)) /\ MadeRequests(Scope!Rest(f))
      /\ called \in 0 .. MaxLoads
  <2>1. MadeRequests(flight[f]) /\ Len(flight[f]) \in Nat /\ MaxBatchSize \in Nat
    BY PeripheryAssumption DEF ScopeInv, QueuesMade, MadeRequests
  <2> DEFINE size == IF Len(flight[f]) < MaxBatchSize THEN Len(flight[f]) ELSE MaxBatchSize
  <2>2. size \in 0 .. Len(flight[f]) /\ Scope!ChunkOf(f) = SubSeq(flight[f], 1, size)
    BY <2>1 DEF Scope!ChunkOf
  <2>3. Len(Scope!ChunkOf(f)) = size
    BY <2>1, <2>2 DEF MadeRequests
  <2>4. Scope!Rest(f) = SubSeq(flight[f], size + 1, Len(flight[f]))
    BY <2>3 DEF Scope!Rest
  <2>5. MadeRequests(SubSeq(flight[f], 1, size))
    BY <2>1, <2>2, PartOfRequests
  <2>6. MadeRequests(SubSeq(flight[f], size + 1, Len(flight[f])))
    <3>1. size + 1 \in 1 .. Len(flight[f]) + 1 /\ Len(flight[f]) \in 0 .. Len(flight[f])
      BY <2>1, <2>2
    <3> HIDE DEF size
    <3> QED
      BY <2>1, <3>1, PartOfRequests
  <2> QED
    BY <2>1, <2>2, <2>4, <2>5, <2>6 DEF ScopeInv, ScopeTyped
<1>4. \A l \in chunk : l \in 1 .. called
  BY <1>3, RequestsOf
<1>5. QueuesMade'
  BY <1>1, <1>3 DEF ScopeInv, QueuesMade, MadeRequests
<1>6. settled' \in [Scope!Loads -> Parents \union {"unsettled", "rejected"}]
  <2>1. \A l \in chunk : parent[l] \in Parents
    BY <1>4, <1>3 DEF ScopeInv, LoadInv, Scope!Loads
  <2> HIDE DEF chunk
  <2> QED
    BY <1>2, <2>1 DEF ScopeInv, ScopeTyped
<1>7. loading' \subseteq Scope!Loads
  BY <1>1 DEF ScopeInv, ScopeTyped
<1>8. \A l \in Scope!Loads :
          IF l \in chunk /\ settled[l] = "unsettled"
          THEN settled'[l] \in {"rejected", parent[l]}
          ELSE settled'[l] = settled[l]
  <2> HIDE DEF chunk
  <2> QED
    BY <1>2
<1> HIDE DEF chunk
<1> QED
  BY <1>1, <1>4, <1>5, <1>6, <1>7, <1>8, SettleKeeps

\* Queues stay made when only further loads are called.
LEMMA QueuesStayMade ==
    ASSUME QueuesMade, called \in Nat, called' \in Nat, called <= called',
           waiting' = waiting, flight' = flight
    PROVE  QueuesMade'
<1>1. ASSUME NEW s, MadeRequests(s) PROVE MadeRequests(s)'
  <2>1. ASSUME NEW i \in 1 .. Len(s) PROVE s[i] <= called'
    <3>1. s[i] \in Scope!Loads /\ s[i] <= called
      BY <1>1 DEF MadeRequests
    <3>2. s[i] \in Int
      BY <3>1 DEF Scope!Loads
    <3> QED
      BY <3>1, <3>2
  <2> QED
    BY <1>1, <2>1 DEF MadeRequests, Scope!Loads
<1> QED
  BY <1>1 DEF QueuesMade, Scope!Loads

\* A load that is called after the abort is rejected; one that finds its object
\* pending shares its promise; any other waits with a promise of its own.
LEMMA LoadKeeps ==
    ASSUME ScopeInv, NEW p \in Parents, NEW b \in Scope!Batches, Scope!Load(p, b)
    PROVE  ScopeInv'
<1> DEFINE l == called + 1
<1> USE ParentsAreNoMarks
<1>1. /\ called \in Nat /\ called < MaxLoads /\ l \in Scope!Loads /\ l \in 1 .. MaxLoads
      /\ called' = l /\ called' \in 0 .. MaxLoads
      /\ parent' = [parent EXCEPT ![l] = p] /\ batch' = [batch EXCEPT ![l] = b]
      /\ UNCHANGED <<flight, loading, aborting>>
  BY DEF Scope!Load, ScopeInv, ScopeTyped, Scope!Loads
<1>2. /\ batch' \in [Scope!Loads -> Scope!Batches]
      /\ parent' \in [Scope!Loads -> Parents \union {"none"}]
      /\ parent'[l] = p /\ batch'[l] = b /\ l \notin pending /\ settled[l] = "unsettled"
      /\ \A m \in Scope!Loads : m # l => parent'[m] = parent[m] /\ batch'[m] = batch[m]
  BY <1>1 DEF ScopeInv, ScopeTyped, LoadInv
<1>3. \A m \in Scope!Loads : (m <= called' <=> m <= called \/ m = l) /\ (m <= called => m # l)
  BY <1>1 DEF Scope!Loads
<1>4. \A m \in Scope!Loads :
          m <= called => shares[m] \in Scope!Loads /\ shares[m] <= called /\ shares[m] # l
  BY <1>1 DEF ScopeInv, LoadInv, Scope!Loads
<1>5. \A c \in Scope!Batches, q \in Parents :
          dedup[c][q] # 0 =>
              dedup[c][q] \in Scope!Loads /\ dedup[c][q] <= called /\ dedup[c][q] # l
  <2>1. \A c \in Scope!Batches, q \in Parents :
            dedup[c][q] \in 0 .. MaxLoads /\ (dedup[c][q] # 0 => dedup[c][q] <= called)
    BY DEF ScopeInv, ScopeTyped, DedupInv
  <2> QED
    BY <1>1, <2>1 DEF Scope!Loads
<1>9. ASSUME NEW m \in Scope!Loads, m # l,
             \A k \in Scope!Loads : k # l => shares'[k] = shares[k],
             settled'[m] = settled[m], m \in pending' <=> m \in pending,
             m \in pending /\ parent[m] \notin Primitives =>
                 dedup'[batch[m]][parent[m]] = dedup[batch[m]][parent[m]]
      PROVE  LoadInv(m)'
  <2>1. /\ LoadInv(m) /\ m \in Nat
        /\ parent'[m] = parent[m] /\ batch'[m] = batch[m] /\ shares'[m] = shares[m]
        /\ m <= called' <=> m <= called
        /\ m > called' => m > called
    BY <1>1, <1>2, <1>3, <1>9 DEF ScopeInv, Scope!Loads
  <2>2. m <= called =>
            /\ parent'[shares[m]] = parent[shares[m]] /\ shares'[shares[m]] = shares[shares[m]]
            /\ shares[m] \in 1 .. called'
    BY <1>1, <1>2, <1>4, <1>9 DEF Scope!Loads
  <2> QED
    BY <1>9, <2>1, <2>2 DEF LoadInv
<1>6. CASE aborting
  <2>1. /\ settled' = [settled EXCEPT ![l] = "rejected"] /\ shares' = [shares EXCEPT ![l] = l]
        /\ UNCHANGED <<waiting, flushes, dedup, pending>>
    BY <1>6 DEF Scope!Load
  <2>2. ScopeTyped'
    BY <1>1, <1>2, <2>1 DEF ScopeInv, ScopeTyped
  <2>3. QueuesMade'
    BY <1>1, <2>1, QueuesStayMade DEF ScopeInv
  <2>4. DedupInv'
    BY <1>1, <1>2, <1>5, <2>1 DEF ScopeInv, ScopeTyped, DedupInv
  <2>5. ASSUME NEW m \in Scope!Loads PROVE LoadInv(m)'
    <3>1. CASE m = l
      BY <1>1, <1>2, <1>3, <2>1, <3>1 DEF ScopeInv, ScopeTyped, LoadInv, Scope!Loads
    <3>2. CASE m # l
      BY <1>1, <1>9, <2>1, <3>2 DEF ScopeInv, ScopeTyped
    <3> QED
      BY <3>1, <3>2
  <2> QED
    BY <1>1, <2>1, <2>2, <2>3, <2>4, <2>5 DEF ScopeInv
<1>7. CASE ~aborting /\ dedup[b][p] # 0
  <2> DEFINE m0 == dedup[b][p]
  <2>1. /\ shares' = [shares EXCEPT ![l] = m0]
        /\ UNCHANGED <<waiting, flushes, dedup, pending, settled>>
        /\ m0 \in Scope!Loads /\ m0 <= called /\ m0 # l /\ parent[m0] = p /\ shares[m0] = m0
    BY <1>5, <1>7 DEF Scope!Load, Scope!NoLoad, ScopeInv, DedupInv
  <2>2. ScopeTyped'
    <3>1. shares' \in [Scope!Loads -> 0 .. MaxLoads]
      BY <2>1 DEF ScopeInv, ScopeTyped, Scope!Loads
    <3> QED
      BY <1>1, <1>2, <2>1, <3>1 DEF ScopeInv, ScopeTyped
  <2>3. QueuesMade'
    BY <1>1, <2>1, QueuesStayMade DEF ScopeInv
  <2>4. DedupInv'
    BY <1>1, <1>2, <1>5, <2>1 DEF ScopeInv, ScopeTyped, DedupInv
  <2>5. ASSUME NEW m \in Scope!Loads PROVE LoadInv(m)'
    <3>1. CASE m = l
      BY <1>1, <1>2, <1>3, <2>1, <3>1 DEF ScopeInv, ScopeTyped, LoadInv, Scope!Loads
    <3>2. CASE m # l
      BY <1>1, <1>9, <2>1, <3>2 DEF ScopeInv, ScopeTyped
    <3> QED
      BY <3>1, <3>2
  <2> QED
    BY <1>1, <1>7, <2>1, <2>2, <2>3, <2>4, <2>5 DEF ScopeInv
<1>8. CASE ~aborting /\ dedup[b][p] = 0
  <2>1. /\ shares' = [shares EXCEPT ![l] = l] /\ pending' = pending \union {l}
        /\ flushes' = IF waiting[b] = <<>> THEN flushes \union {b} ELSE flushes
        /\ waiting' = [waiting EXCEPT ![b] = Append(@, l)]
        /\ dedup' = IF p \in Primitives THEN dedup ELSE [dedup EXCEPT ![b][p] = l]
        /\ UNCHANGED settled
    BY <1>8 DEF Scope!Load, Scope!QueueFlush, Scope!NoLoad
  <2>2. /\ dedup' \in [Scope!Batches -> [Parents -> 0 .. MaxLoads]]
        /\ \A c \in Scope!Batches, q \in Parents :
               dedup'[c][q] = IF c = b /\ q = p /\ p \notin Primitives THEN l ELSE dedup[c][q]
    BY <1>1, <2>1 DEF ScopeInv, ScopeTyped
  <2>3. ScopeTyped'
    BY <1>1, <1>2, <2>1, <2>2 DEF ScopeInv, ScopeTyped
  <2>4. QueuesMade'
    <3> DEFINE longer == Append(waiting[b], l)
    <3>1. /\ \A c \in Scope!Batches :
                 /\ waiting[c] \in Seq(Scope!Loads)
                 /\ \A i \in 1 .. Len(waiting[c]) : waiting[c][i] \in Nat /\ waiting[c][i] <= called
          /\ \A f \in Scope!Loads :
                 /\ flight[f] \in Seq(Scope!Loads)
                 /\ \A i \in 1 .. Len(flight[f]) : flight[f][i] \in Nat /\ flight[f][i] <= called
      BY DEF ScopeInv, QueuesMade, MadeRequests, Scope!Loads
    <3>2. longer \in Seq(Scope!Loads) /\ \A i \in 1 .. Len(longer) : longer[i] <= called'
      BY <1>1, <3>1
    <3> HIDE DEF longer
    <3>3. /\ \A c \in Scope!Batches : waiting'[c] = IF c = b THEN longer ELSE waiting[c]
          /\ DOMAIN waiting' = Scope!Batches
          /\ waiting' = [c \in Scope!Batches |-> waiting'[c]]
      BY <2>1 DEF longer, ScopeInv, QueuesMade
    <3>4. /\ \A c \in Scope!Batches : MadeRequests(waiting[c])'
          /\ \A f \in Scope!Loads : MadeRequests(flight[f])'
      <4>1. \A n \in Nat : n <= called => n <= called'
        BY <1>1
      <4>2. \A c \in Scope!Batches \ {b} : MadeRequests(waiting[c])'
        BY <3>1, <3>3, <4>1 DEF MadeRequests
      <4>3. \A f \in Scope!Loads : MadeRequests(flight[f])'
        BY <1>1, <3>1, <4>1 DEF MadeRequests
      <4>4. waiting'[b] = longer
        BY <3>3
      <4> QED
        BY <3>2, <4>2, <4>3, <4>4 DEF MadeRequests
    <3> QED
      BY <1>1, <3>3, <3>4 DEF ScopeInv, QueuesMade
  <2>5. DedupInv'
    BY <1>1, <1>2, <1>5, <2>1, <2>2 DEF ScopeInv, ScopeTyped, DedupInv
  <2>6. ASSUME NEW m \in Scope!Loads PROVE LoadInv(m)'
    <3>1. CASE m = l
      BY <1>1, <1>2, <1>8, <2>1, <2>2, <3>1 DEF ScopeInv, ScopeTyped, LoadInv, Scope!Loads
    <3>2. CASE m # l
      <4>1. /\ \A k \in Scope!Loads : k # l => shares'[k] = shares[k]
            /\ settled'[m] = settled[m] /\ (m \in pending' <=> m \in pending)
        BY <1>1, <2>1, <3>2 DEF ScopeInv, ScopeTyped
      <4>2. m \in pending /\ parent[m] \notin Primitives =>
                dedup'[batch[m]][parent[m]] = dedup[batch[m]][parent[m]]
        <5> SUFFICES ASSUME m \in pending, parent[m] \notin Primitives
                     PROVE  dedup'[batch[m]][parent[m]] = dedup[batch[m]][parent[m]]
          OBVIOUS
        <5>1. /\ parent[m] \in Parents /\ batch[m] \in Scope!Batches /\ m # 0
              /\ dedup[batch[m]][parent[m]] = m
          BY DEF ScopeInv, ScopeTyped, LoadInv, Scope!Loads
        <5> QED
          BY <1>8, <2>2, <5>1
      <4> QED
        BY <1>9, <3>2, <4>1, <4>2
    <3> QED
      BY <3>1, <3>2
  <2> QED
    BY <1>1, <1>8, <2>1, <2>3, <2>4, <2>5, <2>6 DEF ScopeInv
<1> QED
  BY <1>6, <1>7, <1>8

\* Every step of a data scope keeps the invariant.
LEMMA ScopeStep == ScopeInv /\ Scope!Next => ScopeInv'
<1> SUFFICES ASSUME ScopeInv, Scope!Next PROVE ScopeInv'
  OBVIOUS
<1>1. CASE \E p \in Parents, b \in Scope!Batches : Scope!Load(p, b)
  BY <1>1, LoadKeeps
<1>2. CASE Scope!Microtask
  BY <1>2, FlushKeeps, ForgetKeeps, NextChunkKeeps DEF Scope!Microtask
<1>3. CASE Scope!ChunkStep
  BY <1>3, ChunkLoadedKeeps DEF Scope!ChunkStep
<1>4. CASE Scope!Abort
  BY <1>4, AbortKeeps
<1> QED
  BY <1>1, <1>2, <1>3, <1>4 DEF Scope!Next

\* Whoever leaves the scope's variables alone keeps it too.
LEMMA ScopeStutter == ScopeInv /\ UNCHANGED scopeVars => ScopeInv'
<1> SUFFICES ASSUME ScopeInv, UNCHANGED scopeVars PROVE ScopeInv'
  OBVIOUS
<1>1. UNCHANGED <<called, parent, batch, shares, waiting, flushes, flight, loading, dedup, pending, settled,
                  aborting>>
  BY DEF scopeVars
<1> QED
  BY <1>1 DEF ScopeInv, ScopeTyped, QueuesMade, MadeRequests, DedupInv, LoadInv

\* What LoadsAreAnswered says of a state follows from the invariant.
LEMMA ScopeInvIsSafe == ScopeInv => Scope!AnsweredWithOwn
<1> SUFFICES ASSUME ScopeInv PROVE Scope!AnsweredWithOwn
  OBVIOUS
<1>1. ASSUME NEW l \in Scope!Loads, l <= called
      PROVE  /\ shares[l] \in Scope!Loads /\ shares[l] <= called
             /\ parent[shares[l]] = parent[l] /\ shares[shares[l]] = shares[l]
  BY <1>1, ParentsAreNoMarks DEF ScopeInv, ScopeTyped, LoadInv, Scope!Loads
<1>2. ASSUME NEW l \in Scope!Loads, l <= called
      PROVE  settled[shares[l]] \in {"unsettled", "rejected", parent[l]}
  <2>1. settled[shares[l]] \in {"unsettled", "rejected", parent[shares[l]]}
    BY <1>1, <1>2 DEF ScopeInv, LoadInv
  <2> QED
    BY <1>1, <1>2, <2>1
<1>3. ASSUME aborting, NEW l \in Scope!Loads, l <= called
      PROVE  settled[shares[l]] # "unsettled"
  <2>1. shares[l] \notin pending
    BY <1>3 DEF ScopeInv
  <2> QED
    BY <1>1, <1>3, <2>1 DEF ScopeInv, LoadInv
<1>4. ASSUME NEW l \in pending, NEW m \in pending, l # m, batch[l] = batch[m], parent[l] = parent[m],
             parent[l] \notin Primitives
      PROVE  FALSE
  BY <1>4 DEF ScopeInv, ScopeTyped, LoadInv
<1> QED
  BY <1>2, <1>3, <1>4 DEF Scope!AnsweredWithOwn, Scope!Asked, Scope!Outcome, Scope!Answered

\* The safety half of LoadsAreAnswered, of a data scope among the other components.
THEOREM LoadsGetTheirOwn == Spec => []Scope!AnsweredWithOwn
<1>1. Init => ScopeInv
  BY ScopeInit DEF Init
<1>2. ScopeInv /\ [Next]_vars => ScopeInv'
  <2>1. [Next]_vars => Scope!Next \/ UNCHANGED scopeVars
    BY DEF Next, Only, Unless, vars
  <2> QED
    BY <2>1, ScopeStep, ScopeStutter
<1> QED
  BY <1>1, <1>2, ScopeInvIsSafe, PTL DEF Spec

-----------------------------------------------------------------------------
(* A GraphQL session.                                                      *)

\* The tasks of operations that may still be found by their ids, and those that
\* touch their operation no more.
LiveTasks == {"context", "running", "streaming", "result", "breaking", "ending", "erring", "failing"}
PastTasks == {"refused", "closing", "done"}

SessionTyped ==
    /\ sent \in 0 .. MaxOperations
    /\ phase \in {"reading", "settling", "hooks", "finishing", "resolved"}
    /\ idOf \in [Session!Operations -> OperationIds]
    /\ predecessor \in [Session!Operations -> 0 .. MaxOperations]
    /\ orderly \subseteq OperationIds
    /\ task \in [Session!Operations ->
                    LiveTasks \union PastTasks \union {"none", "queued", "leaving", "failed"}]
    /\ operations \in [OperationIds -> 0 .. MaxOperations]
    /\ operationTasks \in [OperationIds -> 0 .. MaxOperations]
    /\ subscriptions \in [OperationIds -> 0 .. MaxOperations]
    /\ aborted \subseteq Session!Operations
    /\ iterator \in [Session!Operations -> {"none", "open", "returning", "closed"}]
    /\ delivery \in [Session!Operations -> {"none", "resolving", "sending"}]
    /\ lease \in [Session!Operations -> {"none", "active", "completed"}]

\* An operation waits for the message before it; its iterator returns while its task
\* is about it; and it is aborted when its lease ends.
OperationInv(o) ==
    /\ task[o] = "none" <=> o > sent
    /\ task[o] \in {"none", "queued", "refused"} => lease[o] = "none"
    /\ lease[o] = "none" => task[o] \in {"none", "queued", "refused", "done"}
    /\ lease[o] = "completed" => o \in aborted
    /\ iterator[o] = "returning" => task[o] \in {"streaming", "breaking", "ending", "erring"}
    /\ delivery[o] = "sending" => task[o] = "streaming"
    /\ delivery[o] = "resolving" => task[o] = "streaming" \/ o \in aborted
    /\ task[o] = "queued" =>
           /\ predecessor[o] \in 1 .. o - 1 /\ idOf[predecessor[o]] = idOf[o]
           /\ \A q \in predecessor[o] + 1 .. o - 1 : idOf[q] # idOf[o]

\* On an id whose messages are in order, an operation that is live has its lease and
\* the entry of its id, and until it is aborted the id itself; one whose lease is left
\* has failed, and keeps the entry until another takes it.
HolderInv(o) ==
    idOf[o] \in orderly =>
        /\ task[o] \in LiveTasks =>
               /\ lease[o] = "active" /\ operations[idOf[o]] = o
               /\ o \notin aborted => subscriptions[idOf[o]] = o
        /\ lease[o] = "active" => operations[idOf[o]] = o \/ Session!Displaced(o)

\* A message is received when those before it on such an id are past.
InOrder(o, p) ==
    /\ o < p /\ idOf[o] = idOf[p] /\ idOf[o] \in orderly
    /\ \/ lease[p] # "none"
       \/ task[p] \in {"refused", "done"} /\ \E r \in p + 1 .. sent : idOf[r] = idOf[p]
    => task[o] \in PastTasks

\* The entry of an id has its lease, and the task of an id is its last message; with the
\* messages in order it is the last operation received on the id, and without a
\* task they are all past, or a refused one is the last.
EntryInv(i) ==
    operations[i] # 0 =>
        /\ idOf[operations[i]] = i /\ lease[operations[i]] = "active"
        /\ task[operations[i]] \in LiveTasks \union {"closing", "done"}
        /\ i \in orderly =>
               \A o \in Session!Operations : o > operations[i] /\ idOf[o] = i => lease[o] = "none"
LatestInv(i) ==
    /\ operationTasks[i] # 0 =>
           /\ operationTasks[i] <= sent /\ idOf[operationTasks[i]] = i
           /\ \A r \in operationTasks[i] + 1 .. sent : idOf[r] # i
    /\ operationTasks[i] = 0 /\ i \in orderly =>
           \A o \in 1 .. sent : idOf[o] = i =>
               \/ task[o] \in PastTasks
               \/ \E p \in o + 1 .. sent : idOf[p] = i /\ Session!Refused(p)
IdInv(i) == EntryInv(i) /\ LatestInv(i)

SettledInv ==
    /\ phase \in {"hooks", "finishing", "resolved"} =>
           \A o \in Session!Operations : task[o] \in {"none", "done"} /\ iterator[o] # "returning"
    /\ phase = "resolved" => \A i \in OperationIds : operations[i] = 0

SessionInv ==
    /\ SessionTyped /\ SettledInv
    /\ \A o \in Session!Operations : OperationInv(o) /\ HolderInv(o)
    /\ \A o, p \in Session!Operations : InOrder(o, p)
    /\ \A i \in OperationIds : IdInv(i)

\* Operations are numbered from 1.
LEMMA OperationNumbers ==
    /\ MaxOperations \in Nat /\ Session!Operations = 1 .. MaxOperations
    /\ \A o \in Session!Operations : o \in Nat /\ o # 0
BY PeripheryAssumption DEF Session!Operations

\* A session starts with nothing received.
LEMMA SessionInit == Session!Init => SessionInv
<1> SUFFICES ASSUME Session!Init PROVE SessionInv
  OBVIOUS
<1>1. SessionTyped
  BY OperationNumbers DEF Session!Init, SessionTyped, Session!NoOperation
<1>2. SettledInv
  BY DEF Session!Init, SettledInv
<1>3. \A o \in Session!Operations : OperationInv(o) /\ HolderInv(o)
  BY OperationNumbers DEF Session!Init, OperationInv, HolderInv, LiveTasks
<1>4. \A o, p \in Session!Operations : InOrder(o, p)
  BY DEF Session!Init, InOrder
<1>5. \A i \in OperationIds : IdInv(i)
  BY DEF Session!Init, IdInv, EntryInv, LatestInv, Session!NoOperation
<1> QED
  BY <1>1, <1>2, <1>3, <1>4, <1>5 DEF SessionInv

\* A live task that goes on, aborting at most its own operation.
LEMMA MoveKeeps ==
    ASSUME SessionInv, NEW o \in Session!Operations, task[o] \in LiveTasks,
           NEW t \in LiveTasks, task' = [task EXCEPT ![o] = t],
           NEW v \in {"none", "open", "returning", "closed"},
           v = "returning" => t \in {"streaming", "breaking", "ending", "erring"},
           iterator' = [iterator EXCEPT ![o] = v],
           aborted \subseteq aborted', aborted' \subseteq aborted \union {o},
           NEW d \in {"none", "resolving", "sending"},
           d = "sending" => t = "streaming", d = "resolving" => t = "streaming" \/ o \in aborted',
           delivery' = [delivery EXCEPT ![o] = d],
           UNCHANGED <<phase, sent, idOf, orderly, predecessor, operations, operationTasks,
                       subscriptions, lease>>
    PROVE  SessionInv'
<1>1. SessionTyped'
  BY DEF SessionInv, SessionTyped
<1>2. SettledInv'
  BY DEF SessionInv, SettledInv, LiveTasks
<1>3. \A q \in Session!Operations :
          /\ task'[q] = IF q = o THEN t ELSE task[q]
          /\ iterator'[q] = IF q = o THEN v ELSE iterator[q]
          /\ delivery'[q] = IF q = o THEN d ELSE delivery[q]
  BY DEF SessionInv, SessionTyped
<1>4. /\ task[o] \notin {"none", "queued", "refused", "closing", "done"}
      /\ t \notin {"none", "queued", "refused", "closing", "done"}
  BY DEF LiveTasks
<1>5. \A q \in Session!Operations : task[q] \in PastTasks => task'[q] \in PastTasks
  BY <1>3, <1>4 DEF PastTasks
<1>6. ASSUME NEW q \in Session!Operations PROVE OperationInv(q)' /\ HolderInv(q)'
  <2>1. OperationInv(q)'
    BY <1>3, <1>4 DEF SessionInv, OperationInv
  <2>2. HolderInv(q)'
    BY <1>3, <1>4 DEF SessionInv, HolderInv, Session!Displaced
  <2> QED
    BY <2>1, <2>2
<1>7. ASSUME NEW q \in Session!Operations, NEW p \in Session!Operations PROVE InOrder(q, p)'
  BY <1>3, <1>4, <1>5 DEF SessionInv, InOrder
<1>8. ASSUME NEW i \in OperationIds PROVE IdInv(i)'
  <2>1. IdInv(i) /\ operations[i] \in 0 .. MaxOperations /\ sent \in 0 .. MaxOperations
    BY DEF SessionInv, SessionTyped
  <2>2. operations[i] # 0 => operations[i] \in Session!Operations
    BY <2>1, OperationNumbers
  <2>3. \A q \in 1 .. sent : q \in Session!Operations
    BY <2>1, OperationNumbers
  <2>4. \A p \in Session!Operations : Session!Refused(p) => Session!Refused(p)'
    BY <1>3, <1>4 DEF Session!Refused
  <2>5. ASSUME operationTasks[i] = 0, i \in orderly, NEW q \in 1 .. sent, idOf[q] = i
        PROVE  \/ task'[q] \in PastTasks
               \/ \E p \in q + 1 .. sent : idOf[p] = i /\ Session!Refused(p)'
    <3>1. \A p \in q + 1 .. sent : p \in Session!Operations
      BY <2>1, <2>5, OperationNumbers
    <3> QED
      BY <1>5, <2>1, <2>3, <2>4, <2>5, <3>1 DEF IdInv, LatestInv
  <2>6. operations[i] # 0 => task'[operations[i]] \in LiveTasks \union {"closing", "done"}
    BY <1>3, <2>1, <2>2 DEF IdInv, EntryInv
  <2> QED
    BY <2>1, <2>5, <2>6 DEF IdInv, EntryInv, LatestInv
<1> QED
  BY <1>1, <1>2, <1>6, <1>7, <1>8 DEF SessionInv


\* return() has been answered.
LEMMA ReturnedKeeps ==
    ASSUME SessionInv, NEW o \in Session!Operations, iterator[o] = "returning",
           iterator' = [iterator EXCEPT ![o] = "closed"],
           UNCHANGED <<phase, sent, idOf, orderly, predecessor, task, operations, operationTasks,
                       subscriptions, aborted, delivery, lease>>
    PROVE  SessionInv'
<1>1. SessionTyped' /\ SettledInv'
  BY DEF SessionInv, SessionTyped, SettledInv
<1>2. \A q \in Session!Operations : iterator'[q] = IF q = o THEN "closed" ELSE iterator[q]
  BY DEF SessionInv, SessionTyped
<1>3. \A q \in Session!Operations : OperationInv(q)' /\ HolderInv(q)'
  BY <1>2 DEF SessionInv, OperationInv, HolderInv, Session!Displaced
<1>4. \A q, p \in Session!Operations : InOrder(q, p)'
  BY DEF SessionInv, InOrder
<1>5. \A i \in OperationIds : IdInv(i)'
  BY DEF SessionInv, IdInv, EntryInv, LatestInv, Session!Refused
<1> QED
  BY <1>1, <1>3, <1>4, <1>5 DEF SessionInv

\* An event comes, its resolvers end, or its result is sent.
LEMMA DeliveryKeeps ==
    ASSUME SessionInv, NEW o \in Session!Operations, NEW d \in {"none", "resolving", "sending"},
           delivery' = [delivery EXCEPT ![o] = d],
           d = "sending" => task[o] = "streaming",
           d = "resolving" => task[o] = "streaming" \/ o \in aborted,
           UNCHANGED <<phase, sent, idOf, orderly, predecessor, task, operations, operationTasks,
                       subscriptions, aborted, iterator, lease>>
    PROVE  SessionInv'
<1>1. SessionTyped' /\ SettledInv'
  BY DEF SessionInv, SessionTyped, SettledInv
<1>2. \A q \in Session!Operations : delivery'[q] = IF q = o THEN d ELSE delivery[q]
  BY DEF SessionInv, SessionTyped
<1>3. \A q \in Session!Operations : OperationInv(q)' /\ HolderInv(q)'
  BY <1>2 DEF SessionInv, OperationInv, HolderInv, Session!Displaced
<1>4. \A q, p \in Session!Operations : InOrder(q, p)'
  BY DEF SessionInv, InOrder
<1>5. \A i \in OperationIds : IdInv(i)'
  BY DEF SessionInv, IdInv, EntryInv, LatestInv, Session!Refused
<1> QED
  BY <1>1, <1>3, <1>4, <1>5 DEF SessionInv


\* The session goes on, possibly aborting operations.
LEMMA SessionMoveKeeps ==
    ASSUME SessionInv, aborted \subseteq aborted', aborted' \subseteq Session!Operations,
           phase' \in {"reading", "settling", "hooks", "finishing", "resolved"}, SettledInv',
           UNCHANGED <<sent, idOf, orderly, predecessor, task, operations, operationTasks,
                       subscriptions, iterator, delivery, lease>>
    PROVE  SessionInv'
<1>1. SessionTyped'
  BY DEF SessionInv, SessionTyped
<1>2. \A q \in Session!Operations : OperationInv(q)' /\ HolderInv(q)'
  BY DEF SessionInv, OperationInv, HolderInv, Session!Displaced
<1>3. \A q, p \in Session!Operations : InOrder(q, p)'
  BY DEF SessionInv, InOrder
<1>4. \A i \in OperationIds : IdInv(i)'
  BY DEF SessionInv, IdInv, EntryInv, LatestInv, Session!Refused
<1> QED
  BY <1>1, <1>2, <1>3, <1>4 DEF SessionInv


\* finish(), which on an id whose messages are not in order may end the lease of a
\* later operation than the one it is called for.
LEMMA FinishKeeps ==
    ASSUME SessionInv, NEW o \in Session!Operations, Session!Finish(idOf[o]),
           NEW t, task' = [task EXCEPT ![o] = t],
           \/ /\ task[o] \in {"ending", "erring"} /\ t \in {"leaving", "failed"}
              /\ iterator[o] # "returning"
           \/ task[o] = "done" /\ t = "done" /\ operations[idOf[o]] = o,
           UNCHANGED <<phase, sent, idOf, orderly, predecessor, operationTasks, subscriptions,
                       iterator, delivery>>
    PROVE  SessionInv'
<1> DEFINE e == operations[idOf[o]]
<1>1. /\ idOf[o] \in OperationIds /\ o # 0 /\ e \in 0 .. MaxOperations /\ IdInv(idOf[o])
      /\ OperationInv(o) /\ HolderInv(o)
  BY OperationNumbers DEF SessionInv, SessionTyped
<1>2. /\ e # 0 => e \in Session!Operations /\ idOf[e] = idOf[o] /\ lease[e] = "active"
      /\ idOf[o] \in orderly => e = o
  <2>1. e # 0 => e \in Session!Operations
    BY <1>1, OperationNumbers
  <2> QED
    BY <1>1, <2>1 DEF IdInv, EntryInv, HolderInv, LiveTasks
<1>3. /\ \A i \in OperationIds : operations'[i] = IF i = idOf[o] THEN 0 ELSE operations[i]
      /\ \A q \in Session!Operations : lease'[q] = IF q = e THEN "completed" ELSE lease[q]
      /\ aborted \subseteq aborted' /\ aborted' \subseteq aborted \union {e}
      /\ aborted' \subseteq Session!Operations
      /\ e \in Session!Operations => e \in aborted'
      /\ operations' \in [OperationIds -> 0 .. MaxOperations]
      /\ lease' \in [Session!Operations -> {"none", "active", "completed"}]
  <2>1. CASE e = 0
    BY <1>1, <2>1, OperationNumbers DEF Session!Finish, Session!NoOperation, SessionInv, SessionTyped
  <2>2. CASE e # 0
    <3>1. /\ operations' = [operations EXCEPT ![idOf[o]] = 0]
          /\ aborted' = aborted \union {e}
          /\ lease' = [lease EXCEPT ![e] = "completed"]
      BY <2>2 DEF Session!Finish, Session!NoOperation
    <3>2. /\ operations \in [OperationIds -> 0 .. MaxOperations] /\ 0 \in 0 .. MaxOperations
          /\ aborted \subseteq Session!Operations
          /\ lease \in [Session!Operations -> {"none", "active", "completed"}]
      <4>1. SessionTyped
        BY DEF SessionInv
      <4>2. 0 \in 0 .. MaxOperations
        BY OperationNumbers
      <4> QED
        BY <4>1, <4>2 DEF SessionTyped
    <3> HIDE DEF e
    <3>3. e \in Session!Operations /\ idOf[o] \in OperationIds
      BY <1>1, <1>2, <2>2
    <3>4. /\ \A i \in OperationIds : operations'[i] = IF i = idOf[o] THEN 0 ELSE operations[i]
          /\ operations' \in [OperationIds -> 0 .. MaxOperations]
      BY <3>1, <3>2, <3>3
    <3>5. /\ \A q \in Session!Operations : lease'[q] = IF q = e THEN "completed" ELSE lease[q]
          /\ lease' \in [Session!Operations -> {"none", "active", "completed"}]
      BY <3>1, <3>2, <3>3
    <3> QED
      BY <3>1, <3>2, <3>3, <3>4, <3>5
  <2> QED
    BY <2>1, <2>2
<1>4. \A q \in Session!Operations : task'[q] = IF q = o THEN t ELSE task[q]
  BY DEF SessionInv, SessionTyped
<1>5. /\ t \in LiveTasks \union PastTasks \union {"none", "queued", "leaving", "failed"}
      /\ t \notin {"none", "queued", "refused", "streaming"} /\ t \notin LiveTasks
      /\ t = "done" => task[o] = "done"
      /\ task[o] \in PastTasks => t \in PastTasks
      /\ task[o] \in {"ending", "erring", "done"}
  BY DEF LiveTasks, PastTasks
<1>6. \A q \in Session!Operations :
          /\ lease'[q] = "none" <=> lease[q] = "none"
          /\ task[q] \in PastTasks => task'[q] \in PastTasks
          /\ task'[q] \in {"refused", "done"} => task[q] = task'[q]
          /\ Session!Refused(q) => Session!Refused(q)'
  BY <1>2, <1>3, <1>4, <1>5, OperationNumbers DEF Session!Refused
<1>7. SessionTyped'
  <2>1. task' \in [Session!Operations ->
                      LiveTasks \union PastTasks \union {"none", "queued", "leaving", "failed"}]
    BY <1>5 DEF SessionInv, SessionTyped
  <2> QED
    BY <1>3, <2>1 DEF SessionInv, SessionTyped
<1>8. SettledInv'
  BY <1>3, <1>4 DEF SessionInv, SettledInv
<1>9. ASSUME NEW q \in Session!Operations PROVE OperationInv(q)'
  <2>1. OperationInv(q)
    BY DEF SessionInv
  <2>2. lease'[q] = "completed" => q \in aborted'
    BY <1>3, <2>1 DEF OperationInv
  <2>3. CASE q = o
    BY <1>3, <1>4, <1>5, <1>6, <2>1, <2>2, <2>3 DEF OperationInv
  <2>4. CASE q # o
    BY <1>3, <1>4, <1>6, <2>1, <2>2, <2>4 DEF OperationInv
  <2> QED
    BY <2>3, <2>4
<1>10. ASSUME NEW q \in Session!Operations PROVE HolderInv(q)'
  <2> SUFFICES ASSUME idOf[q] \in orderly PROVE HolderInv(q)'
    BY DEF HolderInv
  <2>1. HolderInv(q) /\ idOf[q] \in OperationIds
    BY DEF SessionInv, SessionTyped
  <2>2. Session!Displaced(q) => Session!Displaced(q)'
    BY <1>6 DEF Session!Displaced
  <2>3. CASE q = o
    BY <1>2, <1>3, <1>4, <1>5, <2>3 DEF HolderInv
  <2>4. CASE q # o
    <3>1. operations[idOf[q]] = q => idOf[q] # idOf[o]
      BY <1>2, <2>4
    <3>2. q # e
      BY <1>2, <2>4, OperationNumbers
    <3> QED
      BY <1>3, <1>4, <2>1, <2>2, <2>4, <3>1, <3>2 DEF HolderInv
  <2> QED
    BY <2>3, <2>4
<1>11. ASSUME NEW q \in Session!Operations, NEW p \in Session!Operations PROVE InOrder(q, p)'
  BY <1>6 DEF SessionInv, InOrder
<1>12. ASSUME NEW i \in OperationIds PROVE IdInv(i)'
  <2>1. IdInv(i) /\ operations[i] \in 0 .. MaxOperations /\ sent \in 0 .. MaxOperations
    BY DEF SessionInv, SessionTyped
  <2>2. \A q \in 1 .. sent : q \in Session!Operations
    BY <2>1, OperationNumbers
  <2>3. ASSUME operationTasks[i] = 0, i \in orderly, NEW q \in 1 .. sent, idOf[q] = i
        PROVE  \/ task'[q] \in PastTasks
               \/ \E p \in q + 1 .. sent : idOf[p] = i /\ Session!Refused(p)'
    <3>1. \A p \in q + 1 .. sent : p \in Session!Operations
      BY <2>1, <2>3, OperationNumbers
    <3> QED
      BY <1>6, <2>1, <2>2, <2>3, <3>1 DEF IdInv, LatestInv
  <2>4. LatestInv(i)'
    BY <2>1, <2>3 DEF IdInv, LatestInv
  <2>5. ASSUME operations'[i] # 0
        PROVE  /\ operations'[i] = operations[i] /\ operations[i] \in Session!Operations
               /\ operations[i] # e /\ operations[i] # o
    <3>1. operations'[i] = operations[i] /\ i # idOf[o] /\ operations[i] # 0
      BY <1>3, <2>5
    <3>2. operations[i] \in Session!Operations /\ idOf[operations[i]] = i
      BY <2>1, <3>1, OperationNumbers DEF IdInv, EntryInv
    <3> QED
      BY <1>2, <3>1, <3>2
  <2>6. EntryInv(i)'
    BY <1>3, <1>4, <1>6, <2>1, <2>5 DEF IdInv, EntryInv
  <2> QED
    BY <2>4, <2>6 DEF IdInv
<1> QED
  BY <1>7, <1>8, <1>9, <1>10, <1>11, <1>12 DEF SessionInv


\* A task that touches its operation no more ends, giving its id back.
LEMMA EndKeeps ==
    ASSUME SessionInv, NEW o \in Session!Operations,
           task[o] \in {"failing", "failed", "leaving", "refused", "closing"},
           NEW t \in {"closing", "done"}, task' = [task EXCEPT ![o] = t],
           task[o] = "refused" => t = "done",
           \/ UNCHANGED subscriptions
           \/ /\ task[o] \in {"failing", "failed", "leaving"}
              /\ subscriptions' = [subscriptions EXCEPT ![idOf[o]] = 0],
           \/ t = "closing" /\ UNCHANGED operationTasks
           \/ /\ t = "done"
              /\ operationTasks' = [i \in OperationIds |->
                     IF operationTasks[i] = o THEN 0 ELSE operationTasks[i]],
           UNCHANGED <<phase, sent, idOf, orderly, predecessor, operations, aborted, iterator,
                       delivery, lease>>
    PROVE  SessionInv'
<1>1. /\ idOf[o] \in OperationIds /\ o # 0 /\ o \in Nat /\ o <= sent /\ sent \in 0 .. MaxOperations
      /\ task[o] # "refused" => lease[o] # "none"
      /\ iterator[o] # "returning" /\ delivery[o] # "sending"
      /\ delivery[o] = "resolving" => o \in aborted
  <2>1. /\ idOf[o] \in OperationIds /\ o # 0 /\ o \in Nat /\ sent \in 0 .. MaxOperations
        /\ OperationInv(o)
    BY OperationNumbers DEF SessionInv, SessionTyped
  <2> QED
    BY <2>1, OperationNumbers DEF OperationInv
<1>2. /\ \A q \in Session!Operations : task'[q] = IF q = o THEN t ELSE task[q]
      /\ t \in PastTasks /\ t \notin LiveTasks /\ t \notin {"none", "queued", "refused"}
  BY DEF SessionInv, SessionTyped, LiveTasks, PastTasks
<1>3. SessionTyped'
  <2>1. task' \in [Session!Operations ->
                      LiveTasks \union PastTasks \union {"none", "queued", "leaving", "failed"}]
    BY <1>2 DEF SessionInv, SessionTyped
  <2>2. subscriptions' \in [OperationIds -> 0 .. MaxOperations]
    <3>1. subscriptions \in [OperationIds -> 0 .. MaxOperations] /\ 0 \in 0 .. MaxOperations
      BY OperationNumbers DEF SessionInv, SessionTyped
    <3> QED
      BY <3>1
  <2>3. operationTasks' \in [OperationIds -> 0 .. MaxOperations]
    <3>1. operationTasks \in [OperationIds -> 0 .. MaxOperations] /\ 0 \in 0 .. MaxOperations
      BY OperationNumbers DEF SessionInv, SessionTyped
    <3>2. CASE operationTasks' = operationTasks
      BY <3>1, <3>2
    <3>3. CASE operationTasks' # operationTasks
      <4>1. \A i \in OperationIds :
                (IF operationTasks[i] = o THEN 0 ELSE operationTasks[i]) \in 0 .. MaxOperations
        BY <3>1
      <4> QED
        BY <3>3, <4>1
    <3> QED
      BY <3>2, <3>3
  <2> QED
    BY <2>1, <2>2, <2>3 DEF SessionInv, SessionTyped
<1>4. SettledInv'
  BY <1>2 DEF SessionInv, SettledInv
<1>5. ASSUME NEW q \in Session!Operations PROVE OperationInv(q)' /\ HolderInv(q)'
  <2>1. OperationInv(q) /\ HolderInv(q) /\ idOf[q] \in OperationIds /\ q \in Nat
    BY OperationNumbers DEF SessionInv, SessionTyped
  <2>2. Session!Displaced(q) <=> Session!Displaced(q)'
    BY DEF Session!Displaced
  <2>3. CASE q = o
    BY <1>1, <1>2, <2>1, <2>2, <2>3 DEF OperationInv, HolderInv
  <2>4. CASE q # o
    <3>1. task[q] \in LiveTasks /\ idOf[q] \in orderly => subscriptions'[idOf[q]] = subscriptions[idOf[q]]
      <4> SUFFICES ASSUME task[q] \in LiveTasks, task[o] \in {"failing", "failed", "leaving"},
                          idOf[q] = idOf[o], idOf[q] \in orderly
                   PROVE  FALSE
        BY <2>1 DEF SessionInv, SessionTyped
      <4>1. lease[q] # "none" /\ lease[o] # "none"
        BY <1>1, <2>1 DEF HolderInv
      <4>2. task[q] \notin PastTasks /\ task[o] \notin PastTasks
        BY DEF LiveTasks, PastTasks
      <4> QED
        BY <1>1, <2>1, <2>4, <4>1, <4>2 DEF SessionInv, InOrder
    <3>2. OperationInv(q)'
      BY <1>2, <2>1, <2>4 DEF OperationInv
    <3>3. HolderInv(q)'
      BY <1>2, <2>1, <2>2, <2>4, <3>1 DEF HolderInv
    <3> QED
      BY <3>2, <3>3
  <2> QED
    BY <2>3, <2>4
<1>6. ASSUME NEW q \in Session!Operations, NEW p \in Session!Operations PROVE InOrder(q, p)'
  BY <1>1, <1>2 DEF SessionInv, InOrder
<1>7. ASSUME NEW i \in OperationIds PROVE IdInv(i)'
  <2>1. IdInv(i) /\ operations[i] \in 0 .. MaxOperations /\ operationTasks[i] \in 0 .. MaxOperations
    BY DEF SessionInv, SessionTyped
  <2>2. \A q \in 1 .. sent : q \in Session!Operations
    BY <1>1, OperationNumbers
  <2>3. EntryInv(i)'
    BY <1>2, <2>1, OperationNumbers DEF IdInv, EntryInv
  <2>4. \A p \in Session!Operations : Session!Refused(p) => Session!Refused(p)'
    BY <1>2 DEF Session!Refused, PastTasks
  <2>5. ASSUME operationTasks[i] = 0
        PROVE  LatestInv(i)'
    <3>1. operationTasks'[i] = 0
      BY <1>1, <2>5
    <3>2. ASSUME i \in orderly, NEW q \in 1 .. sent, idOf[q] = i
          PROVE  \/ task'[q] \in PastTasks
                 \/ \E p \in q + 1 .. sent : idOf[p] = i /\ Session!Refused(p)'
      <4>1. \A p \in q + 1 .. sent : p \in Session!Operations
        BY <1>1, <3>2, OperationNumbers
      <4> QED
        BY <1>2, <2>1, <2>2, <2>4, <2>5, <3>2, <4>1 DEF IdInv, LatestInv
    <3> QED
      BY <3>1, <3>2 DEF LatestInv
  <2>6. ASSUME operationTasks[i] # 0, operationTasks'[i] = operationTasks[i]
        PROVE  LatestInv(i)'
    <3>1. sent' = sent /\ idOf' = idOf
      OBVIOUS
    <3> QED
      BY <2>1, <2>6, <3>1 DEF IdInv, LatestInv
  <2>7. ASSUME operationTasks[i] # 0, operationTasks'[i] # operationTasks[i]
        PROVE  LatestInv(i)'
    <3>1. operationTasks[i] = o /\ operationTasks'[i] = 0 /\ t = "done" /\ idOf[o] = i
      BY <2>1, <2>7 DEF SessionInv, SessionTyped, IdInv, LatestInv
    <3>2. ASSUME i \in orderly, NEW q \in 1 .. sent, idOf[q] = i
          PROVE  \/ task'[q] \in PastTasks
                 \/ \E p \in q + 1 .. sent : idOf[p] = i /\ Session!Refused(p)'
      <4>1. q <= o
        BY <1>1, <2>1, <3>1, <3>2 DEF IdInv, LatestInv
      <4>2. CASE q = o
        BY <1>2, <4>2
      <4>3. CASE q < o /\ lease[o] # "none"
        BY <1>2, <2>2, <3>1, <3>2, <4>3 DEF SessionInv, InOrder
      <4>4. CASE q < o /\ lease[o] = "none"
        <5>1. Session!Refused(o)' /\ o \in q + 1 .. sent
          BY <1>1, <1>2, <3>1, <4>4 DEF Session!Refused
        <5> QED
          BY <3>1, <5>1
      <4> QED
        BY <1>1, <4>1, <4>2, <4>3, <4>4
    <3>3. sent' = sent /\ idOf' = idOf
      OBVIOUS
    <3> QED
      BY <3>1, <3>2, <3>3 DEF LatestInv
  <2> QED
    BY <2>3, <2>5, <2>6, <2>7 DEF IdInv
<1> QED
  BY <1>3, <1>4, <1>5, <1>6, <1>7 DEF SessionInv


\* A complete message aborts the operation that has the id, before it gives it back.
LEMMA CompleteKeeps ==
    ASSUME SessionInv, NEW i \in OperationIds, Session!Complete(i)
    PROVE  SessionInv'
<1>1. /\ aborted' = IF operations[i] = 0 THEN aborted ELSE aborted \union {operations[i]}
      /\ subscriptions' = [subscriptions EXCEPT ![i] = 0]
      /\ UNCHANGED <<phase, sent, idOf, orderly, predecessor, task, operations, operationTasks,
                     delivery, lease>>
  BY DEF Session!Complete, Session!sessionVars, Session!messageVars, Session!NoOperation
<1>2. /\ iterator' \in [Session!Operations -> {"none", "open", "returning", "closed"}]
      /\ \A q \in Session!Operations :
             iterator'[q] # iterator[q] => task[q] = "streaming"
  BY DEF Session!Complete, Session!NoOperation, SessionInv, SessionTyped
<1>3. /\ aborted' \subseteq Session!Operations /\ aborted \subseteq aborted'
      /\ \A q \in Session!Operations : operations[i] = q => q \in aborted'
      /\ \A j \in OperationIds : j # i => subscriptions'[j] = subscriptions[j]
      /\ subscriptions' \in [OperationIds -> 0 .. MaxOperations]
  <2>1. /\ operations[i] \in 0 .. MaxOperations /\ aborted \subseteq Session!Operations
        /\ subscriptions \in [OperationIds -> 0 .. MaxOperations] /\ 0 \in 0 .. MaxOperations
    BY OperationNumbers DEF SessionInv, SessionTyped
  <2>2. operations[i] # 0 => operations[i] \in Session!Operations
    BY <2>1, OperationNumbers
  <2>3. aborted' \subseteq Session!Operations /\ aborted \subseteq aborted'
    BY <1>1, <2>1, <2>2
  <2>4. \A q \in Session!Operations : operations[i] = q => q \in aborted'
    BY <1>1, OperationNumbers
  <2> QED
    BY <1>1, <2>1, <2>3, <2>4
<1>4. SessionTyped'
  BY <1>1, <1>2, <1>3 DEF SessionInv, SessionTyped
<1>5. SettledInv'
  BY <1>1, <1>2 DEF SessionInv, SettledInv
<1>6. ASSUME NEW q \in Session!Operations PROVE OperationInv(q)' /\ HolderInv(q)'
  <2>1. /\ OperationInv(q) /\ HolderInv(q) /\ idOf[q] \in OperationIds
        /\ Session!Displaced(q) <=> Session!Displaced(q)'
    BY <1>1 DEF SessionInv, SessionTyped, Session!Displaced
  <2>2. OperationInv(q)'
    BY <1>1, <1>2, <1>3, <2>1 DEF OperationInv
  <2>3. HolderInv(q)'
    BY <1>1, <1>3, <2>1 DEF HolderInv
  <2> QED
    BY <2>2, <2>3
<1>7. \A q, p \in Session!Operations : InOrder(q, p)'
  BY <1>1 DEF SessionInv, InOrder
<1>8. \A j \in OperationIds : IdInv(j)'
  BY <1>1 DEF SessionInv, IdInv, EntryInv, LatestInv, Session!Refused
<1> QED
  BY <1>4, <1>5, <1>6, <1>7, <1>8 DEF SessionInv

\* A message arrives: it has waited in the queue, or is the next that is sent; if
\* the client keeps to the order of its id, none was refused on it.
Arrives(p) ==
    \/ /\ p <= sent /\ task[p] = "queued"
       /\ UNCHANGED <<sent, operationTasks, predecessor>>
    \/ /\ p = sent + 1 /\ sent' = p
       /\ operationTasks' = [operationTasks EXCEPT ![idOf[p]] = p]
       /\ predecessor' \in [Session!Operations -> 0 .. MaxOperations]
       /\ \A o \in Session!Operations : o # p => predecessor'[o] = predecessor[o]
       /\ idOf[p] \in orderly => \A o \in 1 .. sent : idOf[o] = idOf[p] => ~Session!Refused(o)

\* Those before a message on its id are past.
BeforeArePast(p) ==
    \A o \in Session!Operations : o < p /\ idOf[o] = idOf[p] => task[o] \in PastTasks

\* What arrives has no lease, and nothing behind it on its id has been received.
LEMMA ArrivalIsLast ==
    ASSUME SessionInv, NEW p \in Session!Operations, Arrives(p)
    PROVE  /\ p \in Nat /\ p # 0 /\ sent \in 0 .. MaxOperations /\ sent' \in 0 .. MaxOperations
           /\ idOf[p] \in OperationIds /\ sent <= sent' /\ p <= sent'
           /\ \A o \in 1 .. sent' : o \in 1 .. sent \/ o = p
           /\ task[p] \in {"none", "queued"} /\ lease[p] = "none" /\ iterator[p] # "returning"
           /\ delivery[p] # "sending" /\ (delivery[p] = "resolving" => p \in aborted)
           /\ \A o \in Session!Operations :
                  o > p /\ idOf[o] = idOf[p] /\ idOf[p] \in orderly =>
                      /\ lease[o] = "none"
                      /\ ~(task[o] \in {"refused", "done"} /\ \E r \in o + 1 .. sent : idOf[r] = idOf[o])
<1>1. OperationInv(p) /\ p \in 1 .. MaxOperations /\ sent \in 0 .. MaxOperations /\ idOf[p] \in OperationIds
  BY OperationNumbers DEF SessionInv, SessionTyped
<1>2. /\ task[p] \in {"none", "queued"} /\ lease[p] = "none" /\ iterator[p] # "returning"
      /\ delivery[p] # "sending" /\ (delivery[p] = "resolving" => p \in aborted)
  BY <1>1 DEF OperationInv, Arrives
<1>3. ASSUME NEW o \in Session!Operations, o > p, idOf[o] = idOf[p], idOf[p] \in orderly
      PROVE  /\ lease[o] = "none"
             /\ ~(task[o] \in {"refused", "done"} /\ \E r \in o + 1 .. sent : idOf[r] = idOf[o])
  <2>1. task[p] \notin PastTasks
    BY <1>2 DEF PastTasks
  <2> QED
    BY <1>1, <1>3, <2>1, OperationNumbers DEF SessionInv, InOrder
<1>4. /\ sent' \in 0 .. MaxOperations /\ sent <= sent' /\ p <= sent'
      /\ \A o \in 1 .. sent' : o \in 1 .. sent \/ o = p
  BY <1>1 DEF Arrives
<1> QED
  BY <1>1, <1>2, <1>3, <1>4


\* The order of an id is kept by what arrives, provided those before it are past
\* when it is received, or is refused though others are behind it.
LEMMA ArrivalKeepsOrder ==
    ASSUME SessionInv, NEW p \in Session!Operations, Arrives(p), UNCHANGED <<idOf, orderly>>,
           NEW t \in {"queued", "refused", "context", "erring"}, task' = [task EXCEPT ![p] = t],
           \A o \in Session!Operations : o # p => lease'[o] = lease[o],
           idOf[p] \in orderly /\ (lease'[p] # "none" \/ (t = "refused" /\ p <= sent)) =>
               BeforeArePast(p)
    PROVE  \A o, q \in Session!Operations : InOrder(o, q)'
<1> SUFFICES ASSUME NEW o \in Session!Operations, NEW q \in Session!Operations, o < q, idOf[o] = idOf[q],
                    idOf[o] \in orderly,
                    \/ lease'[q] # "none"
                    \/ task'[q] \in {"refused", "done"} /\ \E r \in q + 1 .. sent' : idOf[r] = idOf[q]
             PROVE  task'[o] \in PastTasks
  BY DEF InOrder
<1>1. /\ \A r \in Session!Operations : task'[r] = IF r = p THEN t ELSE task[r]
      /\ p \in Nat /\ o \in Nat /\ q \in Nat /\ sent \in Nat /\ sent' \in Nat
  <2>1. sent \in 0 .. MaxOperations /\ sent' \in 0 .. MaxOperations
    BY ArrivalIsLast
  <2>2. \A r \in Session!Operations : task'[r] = IF r = p THEN t ELSE task[r]
    BY DEF SessionInv, SessionTyped
  <2> QED
    BY <2>1, <2>2, OperationNumbers
<1>2. CASE q = p
  <2>1. lease'[p] # "none" \/ (t = "refused" /\ p < sent')
    BY <1>1, <1>2
  <2>2. p < sent' => p <= sent
    BY <1>1 DEF Arrives
  <2>3. BeforeArePast(p)
    BY <1>2, <2>1, <2>2
  <2> QED
    BY <1>1, <1>2, <2>3 DEF BeforeArePast
<1>3. CASE q # p
  <2>1. \/ lease[q] # "none"
        \/ task[q] \in {"refused", "done"} /\ \E r \in q + 1 .. sent : idOf[r] = idOf[q]
    <3> SUFFICES ASSUME lease[q] = "none"
                 PROVE  task[q] \in {"refused", "done"} /\ \E r \in q + 1 .. sent : idOf[r] = idOf[q]
      OBVIOUS
    <3>1. task[q] \in {"refused", "done"} /\ \E r \in q + 1 .. sent' : idOf[r] = idOf[q]
      BY <1>1, <1>3
    <3>2. PICK r \in q + 1 .. sent' : idOf[r] = idOf[q]
      BY <3>1
    <3>3. CASE r \in 1 .. sent
      BY <1>1, <3>1, <3>2, <3>3
    <3>4. CASE r \notin 1 .. sent
      <4>1. r = p /\ p = sent + 1 /\ q \in 1 .. sent
        BY <1>1, <3>2, <3>4, ArrivalIsLast, OperationNumbers DEF Arrives
      <4>2. ~Session!Refused(q)
        BY <1>1, <3>2, <4>1 DEF Arrives
      <4> QED
        BY <3>1, <4>2 DEF Session!Refused
    <3> QED
      BY <3>3, <3>4
  <2>2. task[o] \in PastTasks
    BY <2>1 DEF SessionInv, InOrder
  <2>3. o # p
    BY <2>2, ArrivalIsLast DEF PastTasks
  <2> QED
    BY <1>1, <2>2, <2>3
<1> QED
  BY <1>2, <1>3

\* So is what is known of the last message of an id.
LEMMA ArrivalKeepsLatest ==
    ASSUME SessionInv, NEW p \in Session!Operations, Arrives(p), UNCHANGED <<idOf, orderly>>,
           NEW t \in {"queued", "refused", "context", "erring"}, task' = [task EXCEPT ![p] = t],
           \A o \in Session!Operations : o # p => lease'[o] = lease[o]
    PROVE  \A i \in OperationIds : LatestInv(i)'
<1> SUFFICES ASSUME NEW i \in OperationIds PROVE LatestInv(i)'
  OBVIOUS
<1>1. /\ \A r \in Session!Operations : task'[r] = IF r = p THEN t ELSE task[r]
      /\ p \in Nat /\ p # 0 /\ sent \in 0 .. MaxOperations /\ sent' \in 0 .. MaxOperations
      /\ LatestInv(i) /\ operationTasks[i] \in 0 .. MaxOperations
      /\ task[p] \in {"none", "queued"}
  BY ArrivalIsLast DEF SessionInv, SessionTyped, IdInv
<1>2. ASSUME operationTasks'[i] # 0
      PROVE  /\ operationTasks'[i] <= sent' /\ idOf[operationTasks'[i]] = i
             /\ \A r \in operationTasks'[i] + 1 .. sent' : idOf[r] # i
  <2>1. CASE operationTasks'[i] = operationTasks[i] /\ (sent' = sent \/ idOf[p] # i)
    BY <1>1, <1>2, <2>1 DEF LatestInv, Arrives
  <2>2. CASE operationTasks'[i] = p /\ sent' = p /\ idOf[p] = i
    BY <1>1, <2>2
  <2> QED
    BY <2>1, <2>2 DEF Arrives, SessionInv, SessionTyped
<1>3. ASSUME operationTasks'[i] = 0, i \in orderly, NEW o \in 1 .. sent', idOf[o] = i
      PROVE  \/ task'[o] \in PastTasks
             \/ \E r \in o + 1 .. sent' : idOf[r] = i /\ Session!Refused(r)'
  <2>1. /\ operationTasks[i] = 0 /\ o \in 1 .. sent /\ sent <= sent'
    BY <1>1, <1>3, ArrivalIsLast DEF Arrives, SessionInv, SessionTyped
  <2>2. \/ task[o] \in PastTasks
        \/ \E r \in o + 1 .. sent : idOf[r] = i /\ Session!Refused(r)
    BY <1>1, <1>3, <2>1 DEF LatestInv
  <2>3. CASE task[o] \in PastTasks
    <3>1. o # p /\ o \in Session!Operations
      BY <1>1, <2>1, <2>3, OperationNumbers DEF PastTasks
    <3> QED
      BY <1>1, <2>3, <3>1
  <2>4. ASSUME NEW r \in o + 1 .. sent, idOf[r] = i, Session!Refused(r)
        PROVE  r \in o + 1 .. sent' /\ Session!Refused(r)'
    <3>1. r \in Session!Operations /\ r # p
      BY <1>1, <2>1, <2>4, OperationNumbers DEF Session!Refused
    <3> QED
      BY <1>1, <2>1, <2>4, <3>1 DEF Session!Refused
  <2> QED
    BY <2>2, <2>3, <2>4
<1> QED
  BY <1>2, <1>3 DEF LatestInv

\* The types of a session when a message arrives.
LEMMA ArrivalKeepsTypes ==
    ASSUME SessionInv, NEW p \in Session!Operations, Arrives(p),
           UNCHANGED <<phase, idOf, orderly, iterator, delivery>>,
           NEW t \in {"queued", "refused", "context", "erring"}, task' = [task EXCEPT ![p] = t],
           aborted \subseteq aborted', aborted' \subseteq aborted \union {p},
           \/ UNCHANGED <<operations, subscriptions, lease>>
           \/ /\ operations' = [operations EXCEPT ![idOf[p]] = p]
              /\ subscriptions' = [subscriptions EXCEPT ![idOf[p]] = p]
              /\ lease' = [lease EXCEPT ![p] = "active"]
    PROVE  SessionTyped'
<1>1. p \in 0 .. MaxOperations /\ sent' \in 0 .. MaxOperations
  BY ArrivalIsLast, OperationNumbers
<1>2. task' \in [Session!Operations ->
                    LiveTasks \union PastTasks \union {"none", "queued", "leaving", "failed"}]
  BY DEF SessionInv, SessionTyped, LiveTasks, PastTasks
<1>3. operationTasks' \in [OperationIds -> 0 .. MaxOperations]
      /\ predecessor' \in [Session!Operations -> 0 .. MaxOperations]
  BY <1>1 DEF SessionInv, SessionTyped, Arrives
<1>4. /\ operations' \in [OperationIds -> 0 .. MaxOperations]
      /\ subscriptions' \in [OperationIds -> 0 .. MaxOperations]
      /\ lease' \in [Session!Operations -> {"none", "active", "completed"}]
  BY <1>1 DEF SessionInv, SessionTyped
<1>5. aborted' \subseteq Session!Operations
  BY DEF SessionInv, SessionTyped
<1> QED
  BY <1>1, <1>2, <1>3, <1>4, <1>5 DEF SessionInv, SessionTyped

\* A message that has to wait, or is refused.
LEMMA AsideKeeps ==
    ASSUME SessionInv, NEW p \in Session!Operations, Arrives(p), phase \in {"reading", "settling"},
           NEW t \in {"queued", "refused"}, task' = [task EXCEPT ![p] = t],
           t = "queued" =>
               /\ predecessor'[p] \in 1 .. p - 1 /\ idOf[predecessor'[p]] = idOf[p]
               /\ \A q \in predecessor'[p] + 1 .. p - 1 : idOf[q] # idOf[p],
           idOf[p] \in orderly /\ t = "refused" /\ p <= sent => BeforeArePast(p),
           UNCHANGED <<phase, idOf, orderly, operations, subscriptions, aborted, iterator, delivery,
                       lease>>
    PROVE  SessionInv'
<1>1. /\ task[p] \in {"none", "queued"} /\ lease[p] = "none" /\ iterator[p] # "returning"
      /\ delivery[p] # "sending" /\ (delivery[p] = "resolving" => p \in aborted)
      /\ p \in Nat /\ sent \in Nat /\ sent' \in Nat /\ sent <= sent' /\ p <= sent'
      /\ sent' # sent => p = sent + 1 /\ sent' = p
  BY ArrivalIsLast DEF Arrives
<1>2. \A r \in Session!Operations : task'[r] = IF r = p THEN t ELSE task[r]
  BY DEF SessionInv, SessionTyped
<1>3. SessionTyped'
  BY ArrivalKeepsTypes
<1>4. SettledInv'
  BY DEF SettledInv
<1>5. ASSUME NEW q \in Session!Operations PROVE OperationInv(q)' /\ HolderInv(q)'
  <2>1. /\ OperationInv(q) /\ HolderInv(q) /\ q \in Nat
        /\ Session!Displaced(q) <=> Session!Displaced(q)'
    BY OperationNumbers DEF SessionInv, Session!Displaced
  <2>2. CASE q = p
    BY <1>1, <1>2, <2>1, <2>2 DEF OperationInv, HolderInv, LiveTasks
  <2>3. CASE q # p
    <3>1. q > sent <=> q > sent'
      BY <1>1, <2>1, <2>3
    <3>2. predecessor'[q] = predecessor[q]
      BY <2>3 DEF Arrives
    <3>3. OperationInv(q)'
      BY <1>2, <2>1, <2>3, <3>1, <3>2 DEF OperationInv
    <3>4. HolderInv(q)'
      BY <1>2, <2>1, <2>3 DEF HolderInv
    <3> QED
      BY <3>3, <3>4
  <2> QED
    BY <2>2, <2>3
<1>6. \A o, q \in Session!Operations : InOrder(o, q)'
  <2>1. lease'[p] = "none" /\ \A o \in Session!Operations : o # p => lease'[o] = lease[o]
    BY <1>1
  <2> QED
    BY <2>1, ArrivalKeepsOrder
<1>7. \A i \in OperationIds : LatestInv(i)'
  BY ArrivalKeepsLatest
<1>8. ASSUME NEW i \in OperationIds PROVE EntryInv(i)'
  <2>1. EntryInv(i) /\ operations[i] \in 0 .. MaxOperations
    BY DEF SessionInv, SessionTyped, IdInv
  <2>2. operations[i] # 0 => operations[i] \in Session!Operations
    BY <2>1, OperationNumbers
  <2>3. operations[i] # 0 => operations[i] # p
    BY <1>1, <2>1 DEF EntryInv
  <2> QED
    BY <1>2, <2>1, <2>2, <2>3 DEF EntryInv
<1> QED
  BY <1>3, <1>4, <1>5, <1>6, <1>7, <1>8 DEF SessionInv, IdInv

\* A message that is received takes the entry of its id; if the client keeps to the
\* order of the id, those before it are past.
LEMMA ReceivedKeeps ==
    ASSUME SessionInv, NEW p \in Session!Operations, Arrives(p), phase \in {"reading", "settling"},
           NEW t \in {"context", "erring"}, task' = [task EXCEPT ![p] = t],
           idOf[p] \in orderly => BeforeArePast(p),
           operations' = [operations EXCEPT ![idOf[p]] = p],
           subscriptions' = [subscriptions EXCEPT ![idOf[p]] = p],
           lease' = [lease EXCEPT ![p] = "active"],
           aborted \subseteq aborted', aborted' \subseteq aborted \union {p},
           UNCHANGED <<phase, idOf, orderly, iterator, delivery>>
    PROVE  SessionInv'
<1>1. /\ task[p] \in {"none", "queued"} /\ lease[p] = "none" /\ iterator[p] # "returning"
      /\ delivery[p] # "sending" /\ (delivery[p] = "resolving" => p \in aborted)
      /\ p \in Nat /\ p # 0 /\ sent \in Nat /\ sent' \in Nat /\ sent <= sent' /\ p <= sent'
      /\ sent' # sent => p = sent + 1 /\ sent' = p
      /\ idOf[p] \in OperationIds
      /\ idOf[p] \in orderly =>
             \A o \in Session!Operations : o > p /\ idOf[o] = idOf[p] => lease[o] = "none"
  BY ArrivalIsLast DEF Arrives
<1>2. /\ \A r \in Session!Operations :
             /\ task'[r] = IF r = p THEN t ELSE task[r]
             /\ lease'[r] = IF r = p THEN "active" ELSE lease[r]
      /\ \A i \in OperationIds :
             /\ operations'[i] = IF i = idOf[p] THEN p ELSE operations[i]
             /\ subscriptions'[i] = IF i = idOf[p] THEN p ELSE subscriptions[i]
  BY <1>1 DEF SessionInv, SessionTyped
<1>3. SessionTyped'
  BY ArrivalKeepsTypes
<1>4. SettledInv'
  BY DEF SettledInv
<1>5. ASSUME NEW q \in Session!Operations PROVE OperationInv(q)'
  <2>1. OperationInv(q) /\ q \in Nat
    BY OperationNumbers DEF SessionInv
  <2>2. CASE q = p
    BY <1>1, <1>2, <2>1, <2>2 DEF OperationInv
  <2>3. CASE q # p
    <3>1. (q > sent <=> q > sent') /\ predecessor'[q] = predecessor[q]
      BY <1>1, <2>1, <2>3 DEF Arrives
    <3> QED
      BY <1>2, <2>1, <2>3, <3>1 DEF OperationInv
  <2> QED
    BY <2>2, <2>3
<1>9. ASSUME NEW q \in Session!Operations PROVE HolderInv(q)'
  <2> SUFFICES ASSUME idOf[q] \in orderly PROVE HolderInv(q)'
    BY DEF HolderInv
  <2>1. OperationInv(q) /\ HolderInv(q) /\ q \in Nat /\ idOf[q] \in OperationIds
    BY OperationNumbers DEF SessionInv, SessionTyped
  <2>2. CASE q = p
    BY <1>1, <1>2, <2>2 DEF HolderInv
  <2>3. CASE q # p
    <3>1. task[q] \in LiveTasks => idOf[q] # idOf[p]
      <4> SUFFICES ASSUME task[q] \in LiveTasks, idOf[q] = idOf[p] PROVE FALSE
        OBVIOUS
      <4>1. task[q] \notin PastTasks /\ lease[q] # "none"
        BY <2>1 DEF HolderInv, LiveTasks, PastTasks
      <4> QED
        BY <1>1, <2>1, <2>3, <4>1 DEF BeforeArePast
    <3>2. Session!Displaced(q) => Session!Displaced(q)'
      BY <1>2 DEF Session!Displaced
    <3>3. lease[q] = "active" /\ idOf[q] = idOf[p] => Session!Displaced(q)'
      BY <1>1, <1>2, <2>1, <2>3 DEF Session!Displaced
    <3> QED
      BY <1>2, <2>1, <2>3, <3>1, <3>2, <3>3 DEF HolderInv
  <2> QED
    BY <2>2, <2>3
<1>6. \A o, q \in Session!Operations : InOrder(o, q)'
  <2>1. \A o \in Session!Operations : o # p => lease'[o] = lease[o]
    BY <1>2
  <2> QED
    BY <2>1, ArrivalKeepsOrder
<1>7. \A i \in OperationIds : LatestInv(i)'
  <2>1. \A o \in Session!Operations : o # p => lease'[o] = lease[o]
    BY <1>2
  <2> QED
    BY <2>1, ArrivalKeepsLatest
<1>8. ASSUME NEW i \in OperationIds PROVE EntryInv(i)'
  <2>1. EntryInv(i) /\ operations[i] \in 0 .. MaxOperations
    BY DEF SessionInv, SessionTyped, IdInv
  <2>2. operations[i] # 0 => operations[i] \in Session!Operations
    BY <2>1, OperationNumbers
  <2>3. CASE i = idOf[p]
    BY <1>1, <1>2, <2>3 DEF EntryInv, LiveTasks
  <2>4. CASE i # idOf[p]
    <3>1. operations'[i] = operations[i] /\ (operations[i] # 0 => operations[i] # p)
      BY <1>2, <2>1, <2>4 DEF EntryInv
    <3>2. \A o \in Session!Operations : idOf[o] = i => lease'[o] = lease[o]
      BY <1>2, <2>4
    <3> QED
      BY <1>2, <2>1, <2>2, <3>1, <3>2 DEF EntryInv
  <2> QED
    BY <2>3, <2>4
<1> QED
  BY <1>3, <1>4, <1>5, <1>6, <1>7, <1>8, <1>9 DEF SessionInv, IdInv

\* What a step does to the leases: nothing, beyond the end of the session's
\* operations; or it begins or completes one, and touches no other operation, but on
\* ids whose messages are not in order.
Accepting == phase \in {"reading", "settling"}
OthersRest(o) ==
    \A q \in Session!Operations \ {o} :
        idOf[q] \in orderly => task'[q] = task[q] /\ iterator'[q] = iterator[q]
LeaseEffect ==
    \/ lease' = lease /\ Accepting' = Accepting
    \/ lease' = lease /\ Accepting' = FALSE /\ UNCHANGED <<task, iterator>>
    \/ \E o \in Session!Operations :
           /\ Accepting /\ Accepting' /\ lease[o] = "none" /\ OthersRest(o)
           /\ lease' = [lease EXCEPT ![o] = "active"]
    \/ \E o \in Session!Operations :
           /\ Accepting' = Accepting /\ lease[o] = "active" /\ OthersRest(o)
           /\ lease' = [lease EXCEPT ![o] = "completed"]

\* Those before a queued message on its id are past when its predecessor is done.
LEMMA QueueInOrder ==
    ASSUME SessionInv, NEW p \in Session!Operations, task[p] = "queued", task[predecessor[p]] = "done"
    PROVE  (idOf[p] \in orderly => BeforeArePast(p)) /\ p <= sent
<1> DEFINE d == predecessor[p]
<1>1. /\ p \in Nat /\ p \in 1 .. MaxOperations /\ sent \in 0 .. MaxOperations /\ ~(p > sent)
      /\ d \in 1 .. p - 1 /\ idOf[d] = idOf[p] /\ \A q \in d + 1 .. p - 1 : idOf[q] # idOf[p]
      /\ task[d] = "done"
  BY OperationNumbers DEF SessionInv, SessionTyped, OperationInv
<1>2. d \in Session!Operations /\ p \in d + 1 .. sent
  BY <1>1, OperationNumbers
<1>3. ASSUME idOf[p] \in orderly, NEW o \in Session!Operations, o < p, idOf[o] = idOf[p]
      PROVE  task[o] \in PastTasks
  <2>1. CASE o = d
    BY <1>1, <2>1 DEF PastTasks
  <2>2. CASE o < d
    <3>1. InOrder(o, d)
      BY <1>2 DEF SessionInv
    <3> QED
      BY <1>1, <1>2, <1>3, <2>2, <3>1 DEF InOrder
  <2>3. CASE o > d
    BY <1>1, <1>3, <2>3, OperationNumbers
  <2> QED
    BY <1>1, <2>1, <2>2, <2>3, OperationNumbers
<1> QED
  BY <1>1, <1>3 DEF BeforeArePast

\* So they are when a message is received as it is sent, on an id whose messages are
\* in order.
LEMMA SentInOrder ==
    ASSUME SessionInv, NEW p \in Session!Operations, p = sent + 1, idOf[p] \in orderly,
           Session!PredecessorOf(idOf[p]) = 0, subscriptions[idOf[p]] = 0,
           ~Session!Overtakes(idOf[p]),
           \A o \in 1 .. sent : idOf[o] = idOf[p] => ~Session!Refused(o)
    PROVE  BeforeArePast(p)
<1> DEFINE i == idOf[p]
           q == operations[i]
<1>1. /\ sent \in 0 .. MaxOperations /\ i \in OperationIds /\ q \in 0 .. MaxOperations
      /\ IdInv(i) /\ p \in Nat
  BY OperationNumbers DEF SessionInv, SessionTyped
<1> SUFFICES ASSUME NEW o \in Session!Operations, o < p, idOf[o] = i PROVE task[o] \in PastTasks
  BY DEF BeforeArePast
<1>2. o \in 1 .. sent /\ ~Session!Refused(o) /\ task[o] # "queued"
  <2>1. o \in 1 .. sent
    BY <1>1, OperationNumbers
  <2>2. task[o] # "queued"
    BY <2>1 DEF Session!Overtakes, Session!NoOperation
  <2> QED
    BY <2>1, <2>2
<1>3. CASE q # 0 /\ q \notin aborted
  <2>1. /\ q \in Session!Operations /\ lease[q] = "active" /\ idOf[q] = i
        /\ task[q] \in LiveTasks \union {"closing", "done"}
        /\ \A r \in Session!Operations : r > q /\ idOf[r] = i => lease[r] = "none"
    BY <1>1, <1>3, OperationNumbers DEF IdInv, EntryInv
  <2>2. task[q] \in PastTasks
    <3>1. HolderInv(q)
      BY <2>1 DEF SessionInv
    <3> QED
      BY <1>3, <2>1, <3>1, OperationNumbers DEF HolderInv, PastTasks
  <2>3. CASE o = q
    BY <2>2, <2>3
  <2>4. CASE o < q
    <3>1. InOrder(o, q)
      BY <2>1 DEF SessionInv
    <3> QED
      BY <2>1, <2>4, <3>1 DEF InOrder
  <2>5. CASE o > q
    <3>1. lease[o] = "none" /\ OperationInv(o) /\ o \in Nat
      BY <2>1, <2>5, OperationNumbers DEF SessionInv
    <3>2. task[o] # "none"
      BY <1>1, <1>2, <3>1 DEF OperationInv
    <3> QED
      BY <1>2, <3>1, <3>2 DEF OperationInv, Session!Refused
  <2> QED
    BY <2>1, <2>3, <2>4, <2>5, OperationNumbers
<1>4. CASE q = 0 \/ q \in aborted
  <2>1. operationTasks[i] = 0
    BY <1>4 DEF Session!PredecessorOf, Session!NoOperation
  <2>2. \A r \in o + 1 .. sent : r \in 1 .. sent
    BY <1>1, <1>2
  <2> QED
    BY <1>1, <1>2, <2>1, <2>2 DEF IdInv, LatestInv
<1> QED
  BY <1>3, <1>4

\* graphql-ws refuses a message, or receives it.
LEMMA ReceiveKeeps ==
    ASSUME SessionInv, NEW p \in Session!Operations, Arrives(p), phase \in {"reading", "settling"},
           Session!Receive(p), UNCHANGED <<phase, idOf, orderly, iterator, delivery>>,
           idOf[p] \in orderly /\ (p <= sent \/ subscriptions[idOf[p]] = 0) => BeforeArePast(p)
    PROVE  SessionInv' /\ LeaseEffect
<1>1. lease[p] = "none" /\ idOf[p] \in OperationIds
  BY ArrivalIsLast
<1>2. CASE init # "ready" \/ subscriptions[idOf[p]] # 0
  <2>1. task' = [task EXCEPT ![p] = "refused"] /\ UNCHANGED <<operations, subscriptions, aborted, lease>>
    BY <1>2 DEF Session!Receive, Session!NoOperation
  <2>2. SessionInv'
    BY <2>1, AsideKeeps
  <2> QED
    BY <2>1, <2>2 DEF LeaseEffect, Accepting
<1>3. CASE ~(init # "ready" \/ subscriptions[idOf[p]] # 0)
  <2>1. PICK t \in {"context", "erring"} : task' = [task EXCEPT ![p] = t]
    BY <1>3 DEF Session!Receive, Session!NoOperation
  <2>2. /\ operations' = [operations EXCEPT ![idOf[p]] = p]
        /\ subscriptions' = [subscriptions EXCEPT ![idOf[p]] = p]
        /\ lease' = [lease EXCEPT ![p] = "active"]
        /\ aborted' = IF conn = "closed" THEN aborted \union {p} ELSE aborted
    BY <1>3 DEF Session!Receive, Session!NoOperation
  <2>3. aborted \subseteq aborted' /\ aborted' \subseteq aborted \union {p}
    BY <2>2
  <2>4. idOf[p] \in orderly => BeforeArePast(p)
    BY <1>3
  <2>5. SessionInv'
    BY <2>1, <2>2, <2>3, <2>4, ReceivedKeeps
  <2>6. OthersRest(p)
    BY <2>1 DEF OthersRest, SessionInv, SessionTyped
  <2> QED
    BY <1>1, <2>2, <2>5, <2>6 DEF LeaseEffect, Accepting
<1> QED
  BY <1>2, <1>3

\* A subscribe message.
LEMMA SubscribeKeeps ==
    ASSUME SessionInv, Session!Subscribe
    PROVE  SessionInv' /\ LeaseEffect
<1> DEFINE p == sent + 1
           i == idOf[p]
           d == Session!PredecessorOf(i)
<1>1. /\ phase = "reading" /\ sent < MaxOperations /\ sent' = p
      /\ i \in orderly =>
             ~Session!Overtakes(i) /\ \A o \in 1 .. sent : idOf[o] = i => ~Session!Refused(o)
      /\ predecessor' = [predecessor EXCEPT ![p] = d]
      /\ operationTasks' = [operationTasks EXCEPT ![i] = p]
      /\ IF d = 0 THEN Session!Receive(p)
         ELSE /\ task' = [task EXCEPT ![p] = "queued"]
              /\ UNCHANGED <<conn, operations, subscriptions, aborted, lease>>
      /\ UNCHANGED <<phase, idOf, orderly, iterator, delivery>>
  BY DEF Session!Subscribe, Session!Reuses, Session!NoOperation
<1>2. sent \in 0 .. MaxOperations /\ p \in Session!Operations /\ p \in Nat
  BY <1>1, OperationNumbers DEF SessionInv, SessionTyped
<1>3. i \in OperationIds /\ operationTasks[i] \in 0 .. MaxOperations /\ d \in 0 .. MaxOperations
      /\ (d # 0 => d = operationTasks[i])
  BY <1>2, OperationNumbers DEF SessionInv, SessionTyped, Session!PredecessorOf, Session!NoOperation
<1>4. /\ predecessor' \in [Session!Operations -> 0 .. MaxOperations] /\ predecessor'[p] = d
      /\ \A o \in Session!Operations : o # p => predecessor'[o] = predecessor[o]
  BY <1>1, <1>2, <1>3 DEF SessionInv, SessionTyped
<1>5. Arrives(p)
  BY <1>1, <1>4 DEF Arrives
<1>6. CASE d = 0
  <2>1. i \in orderly /\ subscriptions[i] = 0 => BeforeArePast(p)
    BY <1>1, <1>2, <1>6, SentInOrder
  <2>2. ~(p <= sent)
    BY <1>2
  <2>3. Session!Receive(p)
    BY <1>1, <1>6
  <2> HIDE DEF p
  <2> QED
    BY <1>1, <1>2, <1>5, <2>1, <2>2, <2>3, ReceiveKeeps
<1>7. CASE d # 0
  <2>1. /\ d \in 1 .. p - 1 /\ idOf[d] = i
        /\ \A q \in d + 1 .. p - 1 : idOf[q] # i
    <3>1. LatestInv(i)
      BY <1>3 DEF SessionInv, IdInv
    <3> QED
      BY <1>2, <1>3, <1>7, <3>1 DEF LatestInv
  <2>2. task' = [task EXCEPT ![p] = "queued"] /\ UNCHANGED <<operations, subscriptions, aborted, lease>>
    BY <1>1, <1>7
  <2>3. phase \in {"reading", "settling"}
    BY <1>1
  <2> HIDE DEF p, d
  <2>4. SessionInv'
    BY <1>1, <1>2, <1>4, <1>5, <2>1, <2>2, <2>3, AsideKeeps
  <2> QED
    BY <1>1, <2>2, <2>4 DEF LeaseEffect, Accepting
<1> QED
  BY <1>6, <1>7

\* A message whose predecessor is done.
LEMMA DequeueKeeps ==
    ASSUME SessionInv, NEW p \in Session!Operations, Session!Dequeue(p)
    PROVE  SessionInv' /\ LeaseEffect
<1>1. /\ task[p] = "queued" /\ task[predecessor[p]] = "done" /\ Session!Receive(p)
      /\ UNCHANGED <<phase, sent, idOf, orderly, predecessor, operationTasks, iterator, delivery>>
  BY DEF Session!Dequeue, Session!messageVars
<1>2. (idOf[p] \in orderly => BeforeArePast(p)) /\ p <= sent
  BY <1>1, QueueInOrder
<1>3. Arrives(p)
  BY <1>1, <1>2 DEF Arrives
<1>4. phase \in {"reading", "settling"}
  <2>1. phase \notin {"hooks", "finishing", "resolved"}
    BY <1>1 DEF SessionInv, SettledInv
  <2> QED
    BY <2>1 DEF SessionInv, SessionTyped
<1> QED
  BY <1>1, <1>2, <1>3, <1>4, ReceiveKeeps

\* onComplete or onError, whose finish() finds the operation it is called for on an id
\* whose messages are in order.
LEMMA EndingKeeps ==
    ASSUME SessionInv, NEW o \in Session!Operations, Session!Ending(o)
    PROVE  SessionInv' /\ LeaseEffect
<1>1. /\ task[o] \in {"ending", "erring"} /\ iterator[o] \in {"none", "closed"}
      /\ UNCHANGED <<phase, sent, idOf, orderly, predecessor, operationTasks, subscriptions, iterator,
                     delivery>>
  BY DEF Session!Ending, Session!TaskOnly, Session!messageVars
<1>2. task[o] \in LiveTasks
  BY <1>1 DEF LiveTasks
<1>3. ASSUME Session!Finish(idOf[o]), NEW t \in {"leaving", "failed"}, Session!Goto(o, t)
      PROVE  SessionInv' /\ LeaseEffect
  <2> DEFINE e == operations[idOf[o]]
  <2>1. task' = [task EXCEPT ![o] = t] /\ iterator[o] # "returning"
    BY <1>1, <1>3 DEF Session!Goto
  <2>2. SessionInv'
    BY <1>1, <1>3, <2>1, FinishKeeps
  <2>3. /\ e # 0 => e \in Session!Operations /\ lease[e] = "active"
        /\ idOf[o] \in orderly => e = o
    <3>1. idOf[o] \in OperationIds /\ e \in 0 .. MaxOperations /\ IdInv(idOf[o]) /\ HolderInv(o)
      BY DEF SessionInv, SessionTyped
    <3> QED
      BY <1>2, <3>1, OperationNumbers DEF IdInv, EntryInv, HolderInv
  <2>4. CASE e = 0
    BY <1>1, <1>3, <2>2, <2>4 DEF Session!Finish, Session!NoOperation, LeaseEffect, Accepting
  <2>5. CASE e # 0
    <3>1. lease' = [lease EXCEPT ![e] = "completed"]
      BY <1>3, <2>5 DEF Session!Finish, Session!NoOperation
    <3>2. OthersRest(e)
      BY <1>1, <2>1, <2>3 DEF OthersRest, SessionInv, SessionTyped
    <3>3. Accepting' = Accepting
      BY <1>1 DEF Accepting
    <3> QED
      BY <2>2, <2>3, <2>5, <3>1, <3>2, <3>3 DEF LeaseEffect
  <2> QED
    BY <2>4, <2>5
<1>4. CASE Session!Goto(o, "failing") /\ UNCHANGED <<operations, aborted, lease>>
  <2>1. task' = [task EXCEPT ![o] = "failing"] /\ UNCHANGED <<operations, aborted, lease>>
    BY <1>4 DEF Session!Goto
  <2>2. /\ iterator' = [iterator EXCEPT ![o] = iterator[o]]
        /\ delivery' = [delivery EXCEPT ![o] = delivery[o]]
        /\ iterator[o] \in {"none", "open", "returning", "closed"} /\ iterator[o] # "returning"
        /\ delivery[o] \in {"none", "resolving", "sending"} /\ delivery[o] # "sending"
        /\ delivery[o] = "resolving" => o \in aborted'
    BY <1>1, <1>4 DEF SessionInv, SessionTyped, OperationInv
  <2>3. "failing" \in LiveTasks
    BY DEF LiveTasks
  <2>4. SessionInv'
    BY <1>1, <1>2, <2>1, <2>2, <2>3, MoveKeeps
  <2> QED
    BY <1>1, <2>1, <2>4 DEF LeaseEffect, Accepting
<1> QED
  BY <1>3, <1>4 DEF Session!Ending


\* The steps by which a task goes on.
LEMMA TaskMoveKeeps ==
    ASSUME SessionInv, NEW o \in Session!Operations,
           \/ Session!ContextEnds(o) \/ Session!RunEnds(o) \/ Session!ResultSent(o)
           \/ Session!StreamEnds(o) \/ Session!Broken(o)
    PROVE  SessionInv' /\ LeaseEffect
<1>1. UNCHANGED <<phase, sent, idOf, orderly, predecessor, operations, operationTasks, subscriptions,
                  delivery, lease>>
  BY DEF Session!ContextEnds, Session!RunEnds, Session!ResultSent, Session!StreamEnds, Session!Broken,
         Session!TaskOnly, Session!messageVars
<1>2. /\ task[o] \in {"context", "running", "result", "streaming", "breaking"}
      /\ iterator[o] \in {"none", "open", "returning", "closed"}
      /\ iterator[o] = "returning" => task[o] \in {"streaming", "breaking"}
      /\ iterator = [iterator EXCEPT ![o] = iterator[o]]
  BY DEF Session!ContextEnds, Session!RunEnds, Session!ResultSent, Session!StreamEnds, Session!Broken,
         SessionInv, SessionTyped, OperationInv
<1>3. \E t \in LiveTasks, v \in {"none", "open", "returning", "closed"} :
          /\ task' = [task EXCEPT ![o] = t] /\ iterator' = [iterator EXCEPT ![o] = v]
          /\ v = "returning" => t \in {"streaming", "breaking", "ending", "erring"}
          /\ aborted \subseteq aborted' /\ aborted' \subseteq aborted \union {o}
  <2> USE DEF LiveTasks, Session!Goto
  <2>1. CASE Session!ContextEnds(o)
    BY <1>2, <2>1 DEF Session!ContextEnds
  <2>2. CASE Session!RunEnds(o)
    BY <1>2, <2>2 DEF Session!RunEnds
  <2>3. CASE Session!ResultSent(o)
    BY <1>2, <2>3 DEF Session!ResultSent
  <2>4. CASE Session!StreamEnds(o)
    BY <1>2, <2>4 DEF Session!StreamEnds
  <2>5. CASE Session!Broken(o)
    BY <1>2, <2>5 DEF Session!Broken
  <2> QED
    BY <2>1, <2>2, <2>3, <2>4, <2>5
<1>4. task[o] \in LiveTasks
  BY <1>2 DEF LiveTasks
<1>5. /\ delivery' = [delivery EXCEPT ![o] = delivery[o]]
      /\ delivery[o] \in {"none", "resolving", "sending"}
      /\ delivery[o] # "sending" /\ (delivery[o] = "resolving" => o \in aborted)
  <2>1. OperationInv(o) /\ delivery \in [Session!Operations -> {"none", "resolving", "sending"}]
    BY DEF SessionInv, SessionTyped
  <2>2. CASE Session!StreamEnds(o)
    BY <1>1, <2>1, <2>2 DEF Session!StreamEnds
  <2>3. CASE ~Session!StreamEnds(o)
    <3>1. task[o] # "streaming"
      BY <2>3 DEF Session!ContextEnds, Session!RunEnds, Session!ResultSent, Session!Broken
    <3> QED
      BY <1>1, <2>1, <3>1 DEF OperationInv
  <2> QED
    BY <2>2, <2>3
<1>6. SessionInv'
  <2>1. PICK t \in LiveTasks, v \in {"none", "open", "returning", "closed"} :
            /\ task' = [task EXCEPT ![o] = t] /\ iterator' = [iterator EXCEPT ![o] = v]
            /\ v = "returning" => t \in {"streaming", "breaking", "ending", "erring"}
            /\ aborted \subseteq aborted' /\ aborted' \subseteq aborted \union {o}
    BY <1>3
  <2>2. delivery[o] = "resolving" => o \in aborted'
    BY <1>5, <2>1
  <2> QED
    BY <1>1, <1>4, <1>5, <2>1, <2>2, MoveKeeps
<1> QED
  BY <1>1, <1>6 DEF LeaseEffect, Accepting

\* Those of the events of its source.
LEMMA EventKeeps ==
    ASSUME SessionInv, NEW o \in Session!Operations,
           Session!EventComes(o) \/ Session!EventResolved(o) \/ Session!EventSent(o)
    PROVE  SessionInv' /\ LeaseEffect
<1>1. /\ UNCHANGED <<phase, sent, idOf, orderly, predecessor, operations, operationTasks,
                     subscriptions, lease>>
      /\ OperationInv(o) /\ delivery[o] \in {"none", "resolving", "sending"}
  BY DEF Session!EventComes, Session!EventResolved, Session!EventSent, Session!sessionVars,
         Session!messageVars, SessionInv, SessionTyped
<1>2. CASE UNCHANGED <<task, iterator, aborted>>
  <2>1. \E d \in {"none", "resolving", "sending"} :
            /\ delivery' = [delivery EXCEPT ![o] = d]
            /\ d = "sending" => task[o] = "streaming"
            /\ d = "resolving" => task[o] = "streaming" \/ o \in aborted
    BY <1>1 DEF Session!EventComes, Session!EventResolved, Session!EventSent, OperationInv
  <2>2. SessionInv'
    BY <1>1, <1>2, <2>1, DeliveryKeeps
  <2> QED
    BY <1>1, <2>2 DEF LeaseEffect, Accepting
<1>3. CASE Session!EventSent(o) /\ ~UNCHANGED <<task, iterator, aborted>>
  <2>1. /\ delivery[o] = "sending" /\ delivery' = [delivery EXCEPT ![o] = "none"]
        /\ task' = [task EXCEPT ![o] = "breaking"]
        /\ iterator' = [iterator EXCEPT ![o] = IF iterator[o] = "closed" THEN "closed" ELSE "returning"]
        /\ aborted \subseteq aborted' /\ aborted' \subseteq aborted \union {o}
    BY <1>3 DEF Session!EventSent, Session!Goto
  <2>2. task[o] \in LiveTasks /\ "breaking" \in LiveTasks
    BY <1>1, <2>1 DEF OperationInv, LiveTasks
  <2>3. (IF iterator[o] = "closed" THEN "closed" ELSE "returning") \in
            {"none", "open", "returning", "closed"}
    OBVIOUS
  <2>4. SessionInv'
    BY <1>1, <2>1, <2>2, <2>3, MoveKeeps
  <2> QED
    BY <1>1, <2>4 DEF LeaseEffect, Accepting
<1> QED
  BY <1>2, <1>3 DEF Session!EventComes, Session!EventResolved


\* The steps by which a task ends.
LEMMA TaskEndKeeps ==
    ASSUME SessionInv, NEW o \in Session!Operations,
           Session!Leaving(o) \/ Session!Failing(o) \/ Session!CloseEnds(o) \/ Session!Returned(o)
    PROVE  SessionInv' /\ LeaseEffect
<1>1. UNCHANGED <<phase, sent, idOf, orderly, predecessor, operations, aborted, delivery, lease>>
  BY DEF Session!Leaving, Session!Failing, Session!CloseEnds, Session!Returned, Session!TaskOnly,
         Session!messageVars, Session!sessionVars
<1>2. CASE Session!Returned(o)
  <2>1. /\ iterator[o] = "returning" /\ iterator' = [iterator EXCEPT ![o] = "closed"]
        /\ UNCHANGED <<task, operationTasks, subscriptions>>
    BY <1>2 DEF Session!Returned, Session!TaskOnly
  <2>2. SessionInv'
    BY <1>1, <2>1, ReturnedKeeps
  <2> QED
    BY <1>1, <2>2 DEF LeaseEffect, Accepting
<1>3. CASE Session!Leaving(o) \/ Session!Failing(o) \/ Session!CloseEnds(o)
  <2>1. \E t \in {"closing", "done"} :
            /\ task[o] \in {"failing", "failed", "leaving", "refused", "closing"}
            /\ task' = [task EXCEPT ![o] = t]
            /\ task[o] = "refused" => t = "done"
            /\ \/ UNCHANGED subscriptions
               \/ /\ task[o] \in {"failing", "failed", "leaving"}
                  /\ subscriptions' = [subscriptions EXCEPT ![idOf[o]] = 0]
            /\ \/ t = "closing" /\ UNCHANGED operationTasks
               \/ /\ t = "done"
                  /\ operationTasks' = [i \in OperationIds |->
                         IF operationTasks[i] = o THEN 0 ELSE operationTasks[i]]
            /\ UNCHANGED iterator
    <3> USE DEF Session!Goto, Session!Done, Session!NoOperation, Session!TaskOnly
    <3>1. CASE Session!Leaving(o)
      BY <3>1 DEF Session!Leaving
    <3>2. CASE Session!Failing(o)
      BY <3>2 DEF Session!Failing
    <3>3. CASE Session!CloseEnds(o)
      BY <3>3 DEF Session!CloseEnds
    <3> QED
      BY <1>3, <3>1, <3>2, <3>3
  <2>2. SessionInv'
    BY <1>1, <2>1, EndKeeps
  <2> QED
    BY <1>1, <2>2 DEF LeaseEffect, Accepting
<1> QED
  BY <1>2, <1>3

\* The steps of the session, up to the last of its operations.
LEMMA SessionGoesOn ==
    ASSUME SessionInv,
           \/ Session!ConnectionInit \/ Session!Closing \/ Session!Closed \/ Session!InitEnds
           \/ Session!InputEnds \/ Session!TasksSettled \/ Session!HooksEnd \/ Session!Resolve
    PROVE  SessionInv' /\ LeaseEffect
<1> USE DEF Session!OperationsUnchanged, Session!messageVars, Session!Known, Session!NoOperation
<1>1. /\ UNCHANGED <<sent, idOf, orderly, predecessor, task, operations, operationTasks, subscriptions,
                     iterator, delivery, lease>>
      /\ aborted' \in {aborted, aborted \union Session!Known}
  BY DEF Session!ConnectionInit, Session!Closing, Session!Closed, Session!InitEnds, Session!InputEnds,
         Session!TasksSettled, Session!HooksEnd, Session!Resolve
<1>2. aborted \subseteq aborted' /\ aborted' \subseteq Session!Operations
  <2>1. Session!Known \subseteq Session!Operations
    BY OperationNumbers DEF SessionInv, SessionTyped
  <2> QED
    BY <1>1, <2>1 DEF SessionInv, SessionTyped
<1>3. CASE UNCHANGED phase
  <2>1. SettledInv'
    BY <1>1, <1>3 DEF SessionInv, SettledInv
  <2>2. phase' \in {"reading", "settling", "hooks", "finishing", "resolved"}
    BY <1>3 DEF SessionInv, SessionTyped
  <2> QED
    BY <1>1, <1>2, <1>3, <2>1, <2>2, SessionMoveKeeps DEF LeaseEffect, Accepting
<1>4. CASE Session!InputEnds
  <2>1. phase = "reading" /\ phase' = "settling"
    BY <1>4 DEF Session!InputEnds
  <2>2. SettledInv'
    BY <2>1 DEF SettledInv
  <2> QED
    BY <1>1, <1>2, <2>1, <2>2, SessionMoveKeeps DEF LeaseEffect, Accepting
<1>5. CASE Session!TasksSettled
  <2>1. /\ phase' = "hooks"
        /\ \A o \in Session!Operations : task[o] \in {"none", "done"} /\ iterator[o] # "returning"
    BY <1>5 DEF Session!TasksSettled
  <2>2. SettledInv'
    BY <1>1, <2>1 DEF SettledInv
  <2>3. SessionInv'
    BY <1>1, <1>2, <2>1, <2>2, SessionMoveKeeps
  <2>4. Accepting' = FALSE
    BY <2>1 DEF Accepting
  <2> QED
    BY <1>1, <2>3, <2>4 DEF LeaseEffect
<1>6. CASE Session!HooksEnd \/ Session!Resolve
  <2>1. /\ phase \in {"hooks", "finishing"} /\ phase' \in {"finishing", "resolved"}
        /\ phase' = "resolved" => \A i \in OperationIds : operations[i] = 0
    BY <1>6 DEF Session!HooksEnd, Session!Resolve
  <2>2. SettledInv'
    BY <1>1, <2>1 DEF SessionInv, SettledInv
  <2>3. Accepting' = Accepting
    BY <2>1 DEF Accepting
  <2> QED
    BY <1>1, <1>2, <2>1, <2>2, <2>3, SessionMoveKeeps DEF LeaseEffect
<1> QED
  BY <1>3, <1>4, <1>5, <1>6 DEF Session!ConnectionInit, Session!Closing, Session!Closed, Session!InitEnds

\* The finally of cleanupSession finishes an operation whose task is done.
LEMMA RemainingKeeps ==
    ASSUME SessionInv, NEW i \in OperationIds, Session!FinishRemaining(i)
    PROVE  SessionInv' /\ LeaseEffect
<1> DEFINE o == operations[i]
<1>1. /\ phase = "finishing" /\ o # 0
      /\ operations' = [operations EXCEPT ![i] = 0]
      /\ aborted' = aborted \union {o} /\ lease' = [lease EXCEPT ![o] = "completed"]
      /\ Session!Finish(i)
      /\ UNCHANGED <<phase, sent, idOf, orderly, predecessor, task, operationTasks, subscriptions,
                     iterator, delivery>>
  BY DEF Session!FinishRemaining, Session!Finish, Session!NoOperation, Session!sessionVars,
         Session!messageVars
<1>2. o \in Session!Operations /\ idOf[o] = i /\ lease[o] = "active" /\ task[o] = "done"
  <2>1. o \in Session!Operations /\ EntryInv(i)
    BY <1>1, OperationNumbers DEF SessionInv, SessionTyped, IdInv
  <2>2. idOf[o] = i /\ lease[o] = "active" /\ task[o] \in LiveTasks \union {"closing", "done"}
    BY <1>1, <2>1 DEF EntryInv
  <2>3. task[o] \in {"none", "done"}
    BY <1>1, <2>1 DEF SessionInv, SettledInv
  <2> QED
    BY <2>1, <2>2, <2>3 DEF LiveTasks
<1>3. task' = [task EXCEPT ![o] = "done"]
  BY <1>1, <1>2 DEF SessionInv, SessionTyped
<1>4. SessionInv'
  BY <1>1, <1>2, <1>3, FinishKeeps
<1>5. OthersRest(o)
  BY <1>1 DEF OthersRest
<1> QED
  BY <1>1, <1>2, <1>4, <1>5 DEF LeaseEffect, Accepting

\* Every step of a session keeps the invariant, and begins or completes at most one
\* lease.
LEMMA SessionStep ==
    ASSUME SessionInv, Session!Next
    PROVE  SessionInv' /\ LeaseEffect
<1>1. ASSUME NEW i \in OperationIds, Session!Complete(i) PROVE SessionInv' /\ LeaseEffect
  <2>1. lease' = lease /\ phase' = phase
    BY <1>1 DEF Session!Complete, Session!sessionVars
  <2> QED
    BY <1>1, <2>1, CompleteKeeps DEF LeaseEffect, Accepting
<1>2. ASSUME NEW o \in Session!Operations, Session!TaskStep(o) \/ Session!EventComes(o) \/ Session!StreamEnds(o)
      PROVE  SessionInv' /\ LeaseEffect
  BY <1>2, DequeueKeeps, EndingKeeps, TaskMoveKeeps, EventKeeps, TaskEndKeeps DEF Session!TaskStep
<1>3. CASE Session!SessionStep
  BY <1>3, SessionGoesOn, RemainingKeeps DEF Session!SessionStep
<1> QED
  BY <1>1, <1>2, <1>3, SubscribeKeeps, SessionGoesOn DEF Session!Next

\* The ids a client uses, and those it uses in order, are its own choice.
LEMMA SessionIdsFixed == Session!Next => UNCHANGED <<idOf, orderly>>
<1> USE DEF Session!messageVars, Session!sessionVars, Session!OperationsUnchanged, Session!TaskOnly
<1>1. ASSUME NEW o \in Session!Operations, Session!TaskStep(o) \/ Session!EventComes(o) \/ Session!StreamEnds(o)
      PROVE  UNCHANGED <<idOf, orderly>>
  BY <1>1 DEF Session!TaskStep, Session!EventComes, Session!StreamEnds, Session!Dequeue,
         Session!ContextEnds, Session!RunEnds, Session!ResultSent, Session!EventResolved,
         Session!EventSent, Session!Returned, Session!Broken, Session!Ending, Session!Leaving,
         Session!Failing, Session!CloseEnds
<1>2. CASE Session!SessionStep
  BY <1>2 DEF Session!SessionStep, Session!InitEnds, Session!InputEnds, Session!TasksSettled,
         Session!HooksEnd, Session!Resolve, Session!FinishRemaining
<1> QED
  BY <1>1, <1>2 DEF Session!Next, Session!ConnectionInit, Session!Closing, Session!Closed,
     Session!Subscribe, Session!Complete

\* Whoever leaves the session's variables alone keeps it too.
LEMMA SessionStutter == SessionInv /\ UNCHANGED sessionVars => SessionInv'
<1> SUFFICES ASSUME SessionInv, UNCHANGED sessionVars PROVE SessionInv'
  OBVIOUS
<1>1. UNCHANGED <<phase, sent, idOf, orderly, predecessor, task, operations, operationTasks,
                  subscriptions, aborted, iterator, delivery, lease>>
  BY DEF sessionVars
<1>2. SessionTyped' /\ SettledInv'
  BY <1>1 DEF SessionInv, SessionTyped, SettledInv
<1>3. \A o \in Session!Operations : OperationInv(o)' /\ HolderInv(o)'
  BY <1>1 DEF SessionInv, OperationInv, HolderInv, Session!Displaced
<1>4. \A o, p \in Session!Operations : InOrder(o, p)'
  BY <1>1 DEF SessionInv, InOrder
<1>5. \A i \in OperationIds : IdInv(i)'
  BY <1>1 DEF SessionInv, IdInv, EntryInv, LatestInv, Session!Refused
<1> QED
  BY <1>2, <1>3, <1>4, <1>5 DEF SessionInv


\* Context, resolvers, a source or its return() run under an active lease, on an id
\* whose messages are in order.
LEMMA OperationIdle ==
    ASSUME SessionInv, NEW o \in Session!Operations, idOf[o] \in orderly, lease[o] # "active"
    PROVE  ~Session!Busy(o)
<1>1. OperationInv(o) /\ HolderInv(o)
  BY DEF SessionInv
<1> QED
  BY <1>1 DEF OperationInv, HolderInv, LiveTasks, Session!Busy

\* The busy operations, as ExecutionLeases sees them.
BusyOperations == [o \in Session!Operations |-> idOf[o] \in orderly /\ Session!Busy(o)]

\* They change where the task or the iterator does.
LEMMA BusyEffect ==
    ASSUME SessionInv, SessionInv', UNCHANGED <<idOf, orderly>>
    PROVE  /\ BusyOperations \in [Session!Operations -> BOOLEAN]
           /\ BusyOperations' \in [Session!Operations -> BOOLEAN]
           /\ \A o \in Session!Operations :
                  /\ lease[o] # "active" => BusyOperations[o] = FALSE
                  /\ lease'[o] # "active" => BusyOperations'[o] = FALSE
                  /\ (idOf[o] \in orderly => task'[o] = task[o] /\ iterator'[o] = iterator[o])
                         => BusyOperations'[o] = BusyOperations[o]
<1>1. \A o \in Session!Operations : Session!Busy(o) \in BOOLEAN /\ Session!Busy(o)' \in BOOLEAN
  BY DEF Session!Busy
<1>2. \A o \in Session!Operations :
          /\ BusyOperations[o] = (idOf[o] \in orderly /\ Session!Busy(o))
          /\ BusyOperations'[o] = (idOf[o] \in orderly /\ Session!Busy(o)')
  BY DEF BusyOperations
<1>3. ASSUME NEW o \in Session!Operations
      PROVE  /\ lease[o] # "active" => BusyOperations[o] = FALSE
             /\ lease'[o] # "active" => BusyOperations'[o] = FALSE
  <2>1. SessionInv /\ idOf[o] \in orderly /\ lease[o] # "active" => ~Session!Busy(o)
    BY OperationIdle
  <2>2. (SessionInv /\ idOf[o] \in orderly /\ lease[o] # "active" => ~Session!Busy(o))'
    BY OperationIdle, PTL
  <2> QED
    BY <1>1, <1>2, <2>1, <2>2
<1>4. ASSUME NEW o \in Session!Operations,
             idOf[o] \in orderly => task'[o] = task[o] /\ iterator'[o] = iterator[o]
      PROVE  BusyOperations'[o] = BusyOperations[o]
  <2>1. idOf[o] \in orderly => Session!Busy(o)' = Session!Busy(o)
    BY <1>4 DEF Session!Busy
  <2> QED
    BY <1>1, <1>2, <2>1
<1>5. /\ BusyOperations \in [Session!Operations -> BOOLEAN]
      /\ BusyOperations' \in [Session!Operations -> BOOLEAN]
  BY <1>1 DEF BusyOperations
<1> QED
  BY <1>3, <1>4, <1>5

\* A step of the session is a step of ExecutionLeases.
LEMMA EffectImplements ==
    ASSUME SessionInv, SessionInv', LeaseEffect, UNCHANGED <<idOf, orderly>>
    PROVE  Session!Leases!Next
<1> DEFINE Ops == Session!Operations
           B  == BusyOperations
           B2 == BusyOperations'
<1>1. /\ B \in [Ops -> BOOLEAN] /\ B2 \in [Ops -> BOOLEAN]
      /\ \A o \in Ops : /\ lease[o] # "active" => B[o] = FALSE
                        /\ lease'[o] # "active" => B2[o] = FALSE
                        /\ (idOf[o] \in orderly => task'[o] = task[o] /\ iterator'[o] = iterator[o])
                               => B2[o] = B[o]
  BY BusyEffect
<1>2. CASE lease' = lease /\ Accepting' = Accepting
  <2>1. B2 \in [Ops -> BOOLEAN] /\ \A o \in Ops : B2[o] # B[o] => lease[o] = "active"
    BY <1>1, <1>2
  <2>2. Session!Leases!Work
    BY <1>2, <2>1 DEF Session!Leases!Work, BusyOperations, Accepting
  <2> QED
    BY <2>2 DEF Session!Leases!Next
<1>3. CASE lease' = lease /\ Accepting' = FALSE /\ UNCHANGED <<task, iterator>>
  <2>1. B2 = B
    BY <1>1, <1>3
  <2>2. Session!Leases!StopAccepting
    BY <1>3, <2>1 DEF Session!Leases!StopAccepting, BusyOperations, Accepting
  <2> QED
    BY <2>2 DEF Session!Leases!Next
<1>4. ASSUME NEW o \in Ops, Accepting, Accepting', lease[o] = "none", OthersRest(o),
             lease' = [lease EXCEPT ![o] = "active"]
      PROVE  Session!Leases!Next
  <2>1. \A q \in Ops \ {o} : B2[q] = B[q]
    BY <1>1, <1>4 DEF OthersRest
  <2>2. B[o] = FALSE
    BY <1>1, <1>4
  <2>3. B2 \in {B, [B EXCEPT ![o] = TRUE]}
    <3>1. CASE B2[o] = TRUE
      <4>1. B2 = [B EXCEPT ![o] = TRUE]
        BY <1>1, <2>1, <3>1
      <4> QED
        BY <4>1
    <3>2. CASE B2[o] = FALSE
      <4>1. B2 = B
        BY <1>1, <2>1, <2>2, <3>2
      <4> QED
        BY <4>1
    <3> QED
      BY <1>1, <3>1, <3>2
  <2>4. Accepting = TRUE /\ Accepting' = TRUE
    BY <1>4 DEF Accepting
  <2>5. Session!Leases!Begin(o)
    BY <1>4, <2>3, <2>4 DEF Session!Leases!Begin, BusyOperations, Accepting
  <2> QED
    BY <2>5 DEF Session!Leases!Next
<1>5. ASSUME NEW o \in Ops, Accepting' = Accepting, lease[o] = "active", OthersRest(o),
             lease' = [lease EXCEPT ![o] = "completed"]
      PROVE  Session!Leases!Next
  <2>1. \A q \in Ops \ {o} : B2[q] = B[q]
    BY <1>1, <1>5 DEF OthersRest
  <2>2. lease'[o] # "active"
    <3>1. o \in DOMAIN lease
      BY <1>5 DEF SessionInv, SessionTyped
    <3> QED
      BY <1>5, <3>1
  <2>3. B2[o] = FALSE
    BY <1>1, <2>2
  <2>4. B2 = [B EXCEPT ![o] = FALSE]
    BY <1>1, <2>1, <2>3
  <2>5. Session!Leases!Complete(o)
    BY <1>5, <2>4 DEF Session!Leases!Complete, BusyOperations, Accepting
  <2> QED
    BY <2>5 DEF Session!Leases!Next
<1> QED
  BY <1>2, <1>3, <1>4, <1>5 DEF LeaseEffect

\* A session starts without leases and code.
LEMMA LeasesInit == Session!Init => Session!Leases!Init
BY DEF Session!Init, Session!Leases!Init, Session!Busy

\* What OperationsImplementLeases says of a state.
LEMMA SessionSafe ==
    ASSUME SessionInv
    PROVE  /\ \A o \in Session!Operations : delivery[o] # "none" /\ lease[o] # "active" => o \in aborted
           /\ phase \in {"hooks", "finishing", "resolved"} => \A o \in Session!Operations : ~Session!Busy(o)
           /\ phase = "resolved" =>
                  \A o \in Session!Operations :
                      idOf[o] \in orderly /\ lease[o] = "active" => Session!Displaced(o)
<1>1. SettledInv /\ SessionTyped /\ \A o \in Session!Operations : OperationInv(o) /\ HolderInv(o)
  BY DEF SessionInv
<1>2. ASSUME NEW o \in Session!Operations, delivery[o] # "none", lease[o] # "active"
      PROVE  o \in aborted
  <2>1. task[o] = "streaming" => lease[o] = "completed"
    BY <1>1, <1>2 DEF OperationInv, SessionTyped
  <2> QED
    BY <1>1, <1>2, <2>1 DEF OperationInv, SessionTyped
<1>3. ASSUME phase \in {"hooks", "finishing", "resolved"}, NEW o \in Session!Operations
      PROVE  ~Session!Busy(o)
  BY <1>1, <1>3 DEF SettledInv, Session!Busy
<1>4. ASSUME phase = "resolved", NEW o \in Session!Operations, idOf[o] \in orderly, lease[o] = "active"
      PROVE  Session!Displaced(o)
  <2>1. operations[idOf[o]] = o \/ Session!Displaced(o)
    BY <1>1, <1>4 DEF HolderInv
  <2>2. operations[idOf[o]] = 0
    BY <1>1, <1>4 DEF SettledInv, SessionTyped
  <2> QED
    BY <2>1, <2>2, OperationNumbers
<1> QED
  BY <1>2, <1>3, <1>4

\* OperationsImplementLeases of a session among the other components: the lease of
\* an operation outlives its context, its resolvers and its source, also when the
\* client uses the id again before they have ended; the resolvers of an event that
\* outlive it have had their signal aborted; it begins only before the hooks of the
\* closed connection, which come after all of them; and a session that has resolved
\* leaves no lease but those of displaced operations.  It holds for any number of
\* operations and ids and for every client: one that goes on with an id it was
\* refused, or has a message overtake an earlier one, spoils that id and no other.
THEOREM SessionsImplementLeases == Spec => Session!OperationsImplementLeases
<1> DEFINE Heard == \A o \in Session!Operations :
                        delivery[o] # "none" /\ lease[o] # "active" => o \in aborted
           Quiet == phase \in {"hooks", "finishing", "resolved"} =>
                        \A o \in Session!Operations : ~Session!Busy(o)
           Left  == phase = "resolved" =>
                        \A o \in Session!Operations :
                            idOf[o] \in orderly /\ lease[o] = "active" => Session!Displaced(o)
<1>1. Init => SessionInv /\ Session!Leases!Init
  BY SessionInit, LeasesInit DEF Init
<1>2. SessionInv /\ [Next]_vars => SessionInv' /\ [Session!Leases!Next]_(Session!Leases!vars)
  <2> SUFFICES ASSUME SessionInv, [Next]_vars
               PROVE  SessionInv' /\ [Session!Leases!Next]_(Session!Leases!vars)
    OBVIOUS
  <2>1. Session!Next \/ UNCHANGED sessionVars
    BY DEF Next, Only, Unless, vars
  <2>2. CASE Session!Next
    <3>1. SessionInv' /\ LeaseEffect
      BY <2>2, SessionStep
    <3>2. UNCHANGED <<idOf, orderly>>
      BY <2>2, SessionIdsFixed
    <3> QED
      BY <3>1, <3>2, EffectImplements
  <2>3. CASE UNCHANGED sessionVars
    <3>1. UNCHANGED <<phase, idOf, orderly, task, iterator, lease>>
      BY <2>3 DEF sessionVars
    <3>2. UNCHANGED Session!Leases!vars
      BY <3>1 DEF Session!Leases!vars, Session!Busy
    <3> QED
      BY <2>3, <3>2, SessionStutter
  <2> QED
    BY <2>1, <2>2, <2>3
<1>3. SessionInv => Heard /\ Quiet /\ Left
  BY SessionSafe
<1>4. Spec => Session!Leases!Spec /\ []Heard /\ []Quiet /\ []Left
  BY <1>1, <1>2, <1>3, PTL DEF Spec, Session!Leases!Spec
<1> QED
  BY <1>4 DEF Session!OperationsImplementLeases


-----------------------------------------------------------------------------
(* The development server.                                                 *)

\* A child belongs to a supervisor that runs or closes, and such a supervisor to a
\* server that listens.
DevInv ==
    /\ child # "none" => supervisor \in {"running", "closing"}
    /\ supervisor \in {"running", "closing"} => server = "listening"
    /\ server = "starting" => supervisor = "none"
    /\ supervisor \in {"none", "running", "closing", "settled"}
    /\ server \in {"starting", "listening", "closed"}

\* There is no child before there is a server.
LEMMA DevInit == Dev!Init => DevInv
BY DEF Dev!Init, DevInv

\* A load that ends starts a child at most under a supervisor that runs.
LEMMA LoadEndKeeps ==
    ASSUME DevInv, Dev!EndReload, server' = server
    PROVE  DevInv'
<1>1. \/ UNCHANGED <<supervisor, child>>
      \/ supervisor = "running" /\ child' = "running" /\ supervisor' = supervisor
  BY DEF Dev!EndReload, Dev!StartChild, Dev!runVars
<1> QED
  BY <1>1 DEF DevInv

\* Every step keeps the child under its supervisor.
LEMMA DevStep ==
    ASSUME DevInv, Dev!Next
    PROVE  DevInv'
<1> USE DEF Dev!runVars, Dev!graphVars
<1>1. CASE Dev!Change \/ Dev!WatchStep \/ Dev!WatcherFails \/ Dev!Debounced \/ Dev!RequestReload
           \/ Dev!ReadFiles
  <2>1. UNCHANGED <<supervisor, child, server>>
    BY <1>1 DEF Dev!Change, Dev!WatchStep, Dev!WatcherReady, Dev!Reported, Dev!WatcherFails,
       Dev!Debounced, Dev!RequestReload, Dev!ReadFiles
  <2> QED
    BY <2>1 DEF DevInv
<1>2. CASE Dev!BuildSucceeds \/ Dev!BuildFails
  <2>1. Dev!EndReload /\ server' = server
    BY <1>2 DEF Dev!BuildSucceeds, Dev!BuildFails
  <2> QED
    BY <2>1, LoadEndKeeps
<1>3. CASE Dev!ListenStep \/ Dev!ScanFails
  BY <1>3 DEF Dev!ListenStep, Dev!Listen, Dev!ListenFails, Dev!ScanFails, DevInv
<1>4. CASE Dev!CloseServer
  BY <1>4 DEF Dev!CloseServer, DevInv
<1>5. CASE Dev!SpawnFails \/ Dev!Close \/ Dev!ForceKill \/ \E ok \in BOOLEAN : Dev!ChildExits(ok)
  <2>1. server' = server
    BY <1>5 DEF Dev!SpawnFails, Dev!Close, Dev!ForceKill, Dev!ChildExits, Dev!RunOnly
  <2>2. \/ child # "none" /\ child' = "none" /\ supervisor' \in {supervisor, "settled"}
        \/ supervisor = "running" /\ child = "none" /\ child' = child /\ supervisor' = "settled"
        \/ supervisor = "running" /\ supervisor' = "closing"
        \/ child # "none" /\ supervisor' = supervisor
    BY <1>5 DEF Dev!SpawnFails, Dev!Close, Dev!ForceKill, Dev!ChildExits
  <2> QED
    BY <2>1, <2>2 DEF DevInv
<1> QED
  BY <1>1, <1>2, <1>3, <1>4, <1>5 DEF Dev!Next, Dev!BuildStep

\* The safety half of DevFollowsSource: no application process outlives the command,
\* whatever load is under way when it ends, which could start one again.
THEOREM NoChildOutlivesTheCommand == Spec => []Dev!NoChildLeft
<1>1. Init => DevInv
  BY DevInit DEF Init
<1>2. DevInv /\ [Next]_vars => DevInv'
  <2>1. [Next]_vars => Dev!Next \/ UNCHANGED devVars
    BY DEF Next, Only, Unless, vars
  <2>2. DevInv /\ UNCHANGED devVars => DevInv'
    BY DEF DevInv, devVars
  <2> QED
    BY <2>1, <2>2, DevStep
<1>3. DevInv => Dev!NoChildLeft
  BY DEF DevInv, Dev!NoChildLeft, Dev!Ending
<1> QED
  BY <1>1, <1>2, <1>3, PTL DEF Spec


-----------------------------------------------------------------------------
(* The GraphQL generator.                                                  *)

\* The generator's sets and files are of the targets.
FilesTyped ==
    /\ step \in {"idle", "refresh", "stage", "moveAway", "publish", "rollback", "restore",
                "clean", "cleanFailed", "dead", "exited"}
    /\ target \in Codegen!Targets
    /\ staged \subseteq Codegen!Targets /\ mutated \subseteq staged /\ previous \subseteq staged
    /\ DOMAIN root = Codegen!Targets /\ root = [t \in Codegen!Targets |-> root[t]]
    /\ DOMAIN backup = Codegen!Targets /\ backup = [t \in Codegen!Targets |-> backup[t]]
    /\ DOMAIN before = Codegen!Targets

\* What a target held before is at its place; in its backup, if there was something;
\* or else the backup is kept.
Same(t)      == root[t] = before[t]
Saved(t)     == before[t] # Codegen!Absent => backup[t] = before[t]
Recovered(t) == Same(t) \/ (t \in preserved /\ Saved(t))

\* Those that existed are known, and what has not been mutated is as it was.
Known(t) ==
    /\ t \in staged => (t \in previous <=> before[t] # Codegen!Absent)
    /\ t \notin mutated => Same(t)

Published   == \A t \in staged : root[t] = made
AllSame     == \A t \in Codegen!Targets : Same(t)
AllInBackup == \A t \in Codegen!Targets : before[t] # Codegen!Absent => before[t] \in {root[t], backup[t]}

\* Publishing goes up through the targets, and the rollback down.
Staging    == mutated = {} /\ \A t \in Codegen!Targets : Known(t)
Publishing ==
    /\ \A t \in Codegen!Targets :
           /\ Known(t)
           /\ t \in mutated => Saved(t) /\ t <= target
           /\ t \in staged /\ t < target => root[t] = made
    /\ IF step = "publish" THEN target \in mutated ELSE target \notin mutated
RollingBack ==
    /\ \A t \in Codegen!Targets :
           /\ Known(t)
           /\ t \in mutated => IF t <= target THEN Saved(t) ELSE Recovered(t)
    /\ step = "restore" => target \in mutated /\ target \in previous

CodegenInv ==
    /\ FilesTyped
    /\ step = "stage" => Staging
    /\ step \in {"moveAway", "publish"} => Publishing
    /\ step \in {"rollback", "restore"} => RollingBack
    /\ step = "cleanFailed" => \A t \in Codegen!Targets : Recovered(t)
    /\ step = "clean" => Published
    /\ step \in {"idle", "refresh", "dead", "exited"} => Published \/ AllInBackup
    /\ step = "idle" => Published \/ AllSame \/ Codegen!Unrecovered


\* At no step is a target lost: all hold the new generation, or what each held
\* before is at its place or in its backup.
LEMMA NothingIsLost == CodegenInv => Published \/ AllInBackup
<1> SUFFICES ASSUME CodegenInv, ~Published PROVE AllInBackup
  OBVIOUS
<1>1. \A t \in Codegen!Targets : Same(t) \/ Saved(t)
  <2>1. CASE step \in {"stage", "moveAway", "publish", "rollback", "restore", "cleanFailed"}
    <3>1. CASE step = "stage"
      BY <3>1 DEF CodegenInv, Staging, Known
    <3>2. CASE step \in {"moveAway", "publish"}
      BY <3>2 DEF CodegenInv, Publishing, Known
    <3>3. CASE step \in {"rollback", "restore"}
      BY <3>3 DEF CodegenInv, RollingBack, Known, Recovered
    <3>4. CASE step = "cleanFailed"
      BY <3>4 DEF CodegenInv, Recovered
    <3> QED
      BY <2>1, <3>1, <3>2, <3>3, <3>4
  <2>2. CASE step \in {"idle", "refresh", "dead", "exited", "clean"}
    <3>1. AllInBackup
      BY <2>2 DEF CodegenInv
    <3> QED
      BY <3>1 DEF AllInBackup, Same, Saved
  <2> QED
    BY <2>1, <2>2 DEF CodegenInv, FilesTyped
<1> QED
  BY <1>1 DEF AllInBackup, Same, Saved

\* The generator starts before its first refresh.
LEMMA CodegenInit == Codegen!Init => CodegenInv
<1> SUFFICES ASSUME Codegen!Init PROVE CodegenInv
  OBVIOUS
<1>1. 1 \in Codegen!Targets
  BY PeripheryAssumption DEF Codegen!Targets
<1>2. FilesTyped
  BY <1>1 DEF Codegen!Init, FilesTyped
<1> QED
  BY <1>2 DEF Codegen!Init, CodegenInv, Published

\* The generator is where it was, or waits, is dead or starts again.
LEMMA WaitingKeeps ==
    ASSUME CodegenInv, UNCHANGED <<target, made, staged, previous, mutated, preserved, root, backup, before>>,
           \/ step' = step /\ outcome' = outcome
           \/ step' \in {"refresh", "dead", "exited"}
    PROVE  CodegenInv'
<1>1. FilesTyped'
  BY DEF CodegenInv, FilesTyped
<1>2. (Published \/ AllInBackup)'
  BY NothingIsLost DEF Published, AllInBackup
<1>3. CASE step' = step /\ outcome' = outcome
  BY <1>1, <1>2, <1>3 DEF CodegenInv, Staging, Publishing, RollingBack, Known, Same, Saved, Recovered,
     Published, AllSame, Codegen!Unrecovered
<1>4. CASE step' \in {"refresh", "dead", "exited"}
  BY <1>1, <1>2, <1>4 DEF CodegenInv
<1> QED
  BY <1>3, <1>4

\* A refresh that is over: generate() has published all, or changed nothing, or says
\* that it could not recover.
LEMMA OverKeeps ==
    ASSUME FilesTyped', NEW result, Codegen!EndRefresh(result), (Published \/ AllInBackup)',
           (Published \/ AllSame)' \/ (preserved' # {} /\ result \in {"unrecovered", "unclean"})
    PROVE  CodegenInv'
<1>1. step' \in {"refresh", "idle"} /\ outcome' = result
  BY DEF Codegen!EndRefresh
<1> QED
  BY <1>1 DEF CodegenInv, Codegen!Unrecovered

\* A new generate() knows of no stage and no backup.
LEMMA PlanKeeps ==
    ASSUME CodegenInv, Codegen!Plan \/ Codegen!PlanFails
    PROVE  CodegenInv'
<1>1. /\ staged' = {} /\ mutated' = {} /\ previous' = {} /\ backup' = [t \in Codegen!Targets |-> Codegen!Absent]
      /\ before' = root /\ root' = root
  BY DEF Codegen!Plan, Codegen!PlanFails, Codegen!NewStages
<1>2. step' \in {"refresh", "idle", "stage"} /\ target' \in Codegen!Targets
  BY PeripheryAssumption DEF Codegen!Plan, Codegen!PlanFails, Codegen!EndRefresh, CodegenInv, FilesTyped,
     Codegen!Targets
<1>3. FilesTyped'
  BY <1>1, <1>2 DEF CodegenInv, FilesTyped
<1>4. Published' /\ Staging'
  BY <1>1 DEF Published, Staging, Known, Same
<1> QED
  BY <1>2, <1>3, <1>4 DEF CodegenInv

\* The next target, or the first one of what follows.
LEMMA NextTargetMoves ==
    ASSUME FilesTyped, NEW following, Codegen!NextTarget(following)
    PROVE  \/ target' = target + 1 /\ target' \in Codegen!Targets /\ step' = step
           \/ target = NumTargets /\ target' = 1 /\ target' \in Codegen!Targets /\ step' = following
BY PeripheryAssumption DEF FilesTyped, Codegen!NextTarget, Codegen!Targets

\* A stage is made beside its target, and touches none.
LEMMA StageKeeps ==
    ASSUME CodegenInv, NEW ok \in BOOLEAN, Codegen!Stage(ok)
    PROVE  CodegenInv'
<1>1. /\ step = "stage" /\ Staging /\ FilesTyped
      /\ UNCHANGED <<made, mutated, preserved, root, backup, before>>
  BY DEF Codegen!Stage, Codegen!GenerateOnly, Codegen!historyVars, CodegenInv
<1>2. \/ staged' = staged /\ previous' = previous
      \/ /\ staged' = staged \union {target}
         /\ previous' = IF root[target] = Codegen!Absent THEN previous ELSE previous \union {target}
  BY DEF Codegen!Stage
<1>3. /\ target' \in Codegen!Targets
      /\ step' \in {"stage", "rollback"} \/ (step' = "moveAway" /\ target' = 1)
  BY <1>1, NextTargetMoves, PeripheryAssumption DEF Codegen!Stage, Codegen!Targets
<1>4. FilesTyped'
  BY <1>1, <1>2, <1>3 DEF FilesTyped
<1>5. Staging'
  <2>1. ASSUME NEW t \in Codegen!Targets PROVE Known(t)'
    <3>1. Known(t) /\ t \notin mutated /\ root'[t] = root[t] /\ before'[t] = before[t]
      BY <1>1 DEF Staging
    <3>2. t # target => (t \in staged' <=> t \in staged) /\ (t \in previous' <=> t \in previous)
      BY <1>2
    <3>3. t = target /\ t \in staged' => (t \in previous' <=> before[t] # Codegen!Absent)
      <4>1. t \in previous => t \in staged
        BY <1>1 DEF FilesTyped
      <4> QED
        BY <1>2, <3>1, <4>1 DEF Known, Same
    <3> QED
      BY <1>1, <3>1, <3>2, <3>3 DEF Known, Same
  <2> QED
    BY <1>1, <2>1 DEF Staging
<1>6. Staging' /\ step' = "moveAway" /\ target' = 1 => Publishing'
  BY PeripheryAssumption DEF Staging, Publishing, Codegen!Targets
<1>7. Staging' /\ step' = "rollback" => RollingBack'
  BY DEF Staging, RollingBack
<1> QED
  BY <1>3, <1>4, <1>5, <1>6, <1>7 DEF CodegenInv

\* A target's output is moved to its backup; if it cannot be, nothing is touched.
LEMMA MoveAwayKeeps ==
    ASSUME CodegenInv, NEW ok \in BOOLEAN, Codegen!MoveAway(ok)
    PROVE  CodegenInv'
<1>1. /\ step = "moveAway" /\ Publishing /\ FilesTyped /\ target \in staged /\ target \notin mutated
      /\ UNCHANGED <<made, staged, previous, preserved, before>>
  BY DEF Codegen!MoveAway, Codegen!GenerateOnly, Codegen!historyVars, CodegenInv, Publishing
<1>2. CASE ok
  <2>1. /\ step' = "publish" /\ target' = target /\ mutated' = mutated \union {target}
        /\ IF target \in previous
           THEN /\ backup' = [backup EXCEPT ![target] = root[target]]
                /\ root' = [root EXCEPT ![target] = Codegen!Absent]
           ELSE UNCHANGED <<root, backup>>
    BY <1>2 DEF Codegen!MoveAway
  <2>2. FilesTyped'
    BY <1>1, <2>1 DEF FilesTyped
  <2>3. ASSUME NEW t \in Codegen!Targets
        PROVE  /\ Known(t)'
               /\ t \in mutated' => Saved(t)' /\ t <= target'
               /\ t \in staged' /\ t < target' => root'[t] = made'
    <3>1. CASE t = target
      <4>1. root[t] = before[t] /\ (t \in previous <=> before[t] # Codegen!Absent)
        BY <1>1, <3>1 DEF Publishing, Known, Same
      <4>2. t \in previous => backup'[t] = root[t]
        BY <1>1, <2>1, <3>1 DEF FilesTyped
      <4>3. t \in mutated' /\ t <= target' /\ ~(t < target')
        BY <2>1, <3>1 DEF Codegen!Targets
      <4> QED
        BY <1>1, <4>1, <4>2, <4>3 DEF Known, Saved
    <3>2. CASE t # target
      <4>1. root'[t] = root[t] /\ backup'[t] = backup[t]
        BY <1>1, <2>1, <3>2 DEF FilesTyped
      <4> QED
        BY <1>1, <2>1, <3>2, <4>1 DEF Publishing, Known, Same, Saved
    <3> QED
      BY <3>1, <3>2
  <2>4. Publishing'
    BY <2>1, <2>3 DEF Publishing
  <2> QED
    BY <2>1, <2>2, <2>4 DEF CodegenInv
<1>3. CASE ~ok
  <2>1. step' = "rollback" /\ target' = NumTargets /\ UNCHANGED <<root, backup, mutated>>
    BY <1>3 DEF Codegen!MoveAway
  <2>2. FilesTyped'
    BY <1>1, <2>1, PeripheryAssumption DEF FilesTyped, Codegen!Targets
  <2>3. RollingBack'
    BY <1>1, <2>1 DEF Publishing, RollingBack, Known, Same, Saved, Codegen!Targets
  <2> QED
    BY <2>1, <2>2, <2>3 DEF CodegenInv
<1> QED
  BY <1>2, <1>3

\* What is behind the last target has all been published.
LEMMA AllPublished ==
    ASSUME FilesTyped, target = NumTargets,
           \A t \in Codegen!Targets : t \in staged /\ t < target => root[t] = made,
           target \in staged => root[target] = made
    PROVE  Published
BY PeripheryAssumption DEF FilesTyped, Published, Codegen!Targets

\* A target without a stage stays as it is.
LEMMA SkipUnchangedKeeps ==
    ASSUME CodegenInv, Codegen!SkipUnchanged
    PROVE  CodegenInv'
<1>1. /\ step = "moveAway" /\ Publishing /\ FilesTyped /\ target \notin staged /\ target \notin mutated
      /\ UNCHANGED <<made, staged, previous, mutated, preserved, root, backup, before>>
      /\ Codegen!NextTarget("clean")
  BY DEF Codegen!SkipUnchanged, Codegen!GenerateOnly, Codegen!NoFiles, Codegen!fileVars,
     Codegen!historyVars, CodegenInv, Publishing
<1>2. CASE target' = target + 1 /\ target' \in Codegen!Targets /\ step' = step
  <2>1. FilesTyped'
    BY <1>1, <1>2 DEF FilesTyped
  <2>2. ASSUME NEW t \in Codegen!Targets
        PROVE  /\ Known(t)'
               /\ t \in mutated' => Saved(t)' /\ t <= target' /\ t # target'
               /\ t \in staged' /\ t < target' => root'[t] = made'
    BY <1>1, <1>2 DEF Publishing, Known, Same, Saved, FilesTyped, Codegen!Targets
  <2>3. Publishing'
    BY <1>1, <1>2, <2>2 DEF Publishing
  <2> QED
    BY <1>1, <1>2, <2>1, <2>3 DEF CodegenInv
<1>3. CASE target = NumTargets /\ target' = 1 /\ target' \in Codegen!Targets /\ step' = "clean"
  <2>1. FilesTyped'
    BY <1>1, <1>3 DEF FilesTyped
  <2>2. Published
    BY <1>1, <1>3, AllPublished DEF Publishing
  <2> QED
    BY <1>1, <1>3, <2>1, <2>2 DEF CodegenInv, Published
<1> QED
  BY <1>1, <1>2, <1>3, NextTargetMoves

\* The new output is in place; or it is not, and the rollback begins.
LEMMA PublishKeeps ==
    ASSUME CodegenInv, NEW ok \in BOOLEAN, Codegen!Publish(ok)
    PROVE  CodegenInv'
<1>1. /\ step = "publish" /\ Publishing /\ FilesTyped /\ target \in mutated
      /\ UNCHANGED <<made, staged, previous, mutated, preserved, backup, before>>
  BY DEF Codegen!Publish, Codegen!GenerateOnly, Codegen!historyVars, CodegenInv, Publishing
<1>2. CASE ok
  <2>1. /\ root' = [root EXCEPT ![target] = made]
        /\ IF target < NumTargets
           THEN target' = target + 1 /\ step' = "moveAway"
           ELSE target' = 1 /\ step' = "clean"
    BY <1>2 DEF Codegen!Publish
  <2>2. FilesTyped'
    <3>1. target' \in Codegen!Targets /\ step' \in {"moveAway", "clean"}
      BY <1>1, <2>1, PeripheryAssumption DEF FilesTyped, Codegen!Targets
    <3>2. DOMAIN root' = Codegen!Targets /\ root' = [t \in Codegen!Targets |-> root'[t]]
      BY <1>1, <2>1 DEF FilesTyped
    <3> QED
      BY <1>1, <3>1, <3>2 DEF FilesTyped
  <2>3. ASSUME NEW t \in Codegen!Targets
        PROVE  /\ Known(t)'
               /\ t \in mutated' => Saved(t)' /\ t <= target
               /\ t \in staged' /\ t <= target => root'[t] = made'
    BY <1>1, <2>1 DEF Publishing, Known, Same, Saved, FilesTyped, Codegen!Targets
  <2>4. target \in 1 .. NumTargets /\ NumTargets \in Nat
    BY <1>1, PeripheryAssumption DEF FilesTyped, Codegen!Targets
  <2>5. CASE target < NumTargets
    <3>1. step' = "moveAway" /\ target' = target + 1
      BY <2>1, <2>5
    <3>2. ASSUME NEW t \in Codegen!Targets
          PROVE  /\ t \in mutated' => t <= target' /\ t # target'
                 /\ t < target' => t <= target
      BY <2>3, <2>4, <3>1 DEF Codegen!Targets
    <3>3. Publishing'
      BY <2>2, <2>3, <3>1, <3>2 DEF Publishing, FilesTyped
    <3> QED
      BY <2>2, <3>1, <3>3 DEF CodegenInv
  <2>6. CASE ~(target < NumTargets)
    <3>1. Published'
      BY <1>1, <2>3, <2>4, <2>6 DEF Published, Codegen!Targets, FilesTyped
    <3> QED
      BY <2>1, <2>2, <2>6, <3>1 DEF CodegenInv
  <2> QED
    BY <2>5, <2>6
<1>3. CASE ~ok
  <2>1. step' = "rollback" /\ target' = NumTargets /\ root' = root
    BY <1>3 DEF Codegen!Publish
  <2>2. FilesTyped'
    BY <1>1, <2>1, PeripheryAssumption DEF FilesTyped, Codegen!Targets
  <2>3. RollingBack'
    BY <1>1, <2>1 DEF Publishing, RollingBack, Known, Same, Saved, Codegen!Targets
  <2> QED
    BY <2>1, <2>2, <2>3 DEF CodegenInv
<1> QED
  BY <1>2, <1>3


\* The rollback leaves a target that is recovered, or its backup kept, and goes on
\* to the one before, until it has seen all of them.
LEMMA UndoneKeeps ==
    ASSUME CodegenInv, step \in {"rollback", "restore"},
           UNCHANGED <<made, staged, previous, mutated, before>>,
           DOMAIN root' = Codegen!Targets, root' = [t \in Codegen!Targets |-> root'[t]],
           DOMAIN backup' = Codegen!Targets, backup' = [t \in Codegen!Targets |-> backup'[t]],
           \A t \in Codegen!Targets :
               IF t = target THEN Recovered(t)' /\ (t \notin mutated => Same(t)')
               ELSE /\ root'[t] = root[t] /\ backup'[t] = backup[t]
                    /\ t \in preserved => t \in preserved',
           IF target > 1 THEN target' = target - 1 /\ step' = "rollback"
           ELSE target' = target /\ step' = "cleanFailed"
    PROVE  CodegenInv'
<1>1. RollingBack /\ FilesTyped
  BY DEF CodegenInv
<1>2. target \in 1 .. NumTargets /\ NumTargets \in Nat
  BY <1>1, PeripheryAssumption DEF FilesTyped, Codegen!Targets
<1>3. FilesTyped'
  <2>1. target' \in Codegen!Targets /\ step' \in {"rollback", "cleanFailed"}
    BY <1>1, <1>2 DEF Codegen!Targets
  <2> QED
    BY <1>1, <2>1 DEF FilesTyped
<1>4. ASSUME NEW t \in Codegen!Targets
      PROVE  /\ Known(t)'
             /\ t < target => Same(t)' = Same(t) /\ Saved(t)' = Saved(t)
             /\ t \in mutated /\ t >= target => Recovered(t)'
  <2>1. CASE t = target
    <3>1. ~(t < target)
      BY <1>2, <2>1
    <3> QED
      BY <1>1, <2>1, <3>1 DEF RollingBack, Known
  <2>2. CASE t # target
    <3>1. root'[t] = root[t] /\ backup'[t] = backup[t] /\ before'[t] = before[t]
          /\ (t \in preserved => t \in preserved')
      BY <2>2
    <3>2. Same(t)' = Same(t) /\ Saved(t)' = Saved(t)
      BY <3>1 DEF Same, Saved
    <3>3. t \in mutated /\ t >= target => Recovered(t)
      BY <1>1, <1>2, <2>2 DEF RollingBack, Codegen!Targets
    <3>4. Recovered(t) => Recovered(t)'
      BY <3>1, <3>2 DEF Recovered
    <3> QED
      BY <1>1, <3>2, <3>3, <3>4 DEF RollingBack, Known
  <2> QED
    BY <2>1, <2>2
<1>5. CASE target > 1
  <2>1. target' = target - 1 /\ step' = "rollback"
    BY <1>5
  <2>2. ASSUME NEW t \in Codegen!Targets, t \in mutated'
        PROVE  IF t <= target' THEN Saved(t)' ELSE Recovered(t)'
    <3>1. t \in Nat /\ (t <= target' <=> t < target) /\ (t < target \/ t >= target)
      BY <1>2, <2>1 DEF Codegen!Targets
    <3>2. t < target => Saved(t)
      BY <1>1, <1>2, <2>2, <3>1 DEF RollingBack
    <3> QED
      BY <1>4, <2>2, <3>1, <3>2
  <2>3. RollingBack'
    BY <1>4, <2>1, <2>2 DEF RollingBack
  <2> QED
    BY <1>3, <2>1, <2>3 DEF CodegenInv
<1>6. CASE ~(target > 1)
  <2>1. step' = "cleanFailed" /\ target = 1
    BY <1>2, <1>6
  <2>2. ASSUME NEW t \in Codegen!Targets PROVE Recovered(t)'
    <3>1. t >= target
      BY <2>1 DEF Codegen!Targets
    <3>2. t \notin mutated' => Same(t)'
      BY <1>4 DEF Known
    <3> QED
      BY <1>4, <3>1, <3>2 DEF Recovered
  <2> QED
    BY <1>3, <2>1, <2>2 DEF CodegenInv
<1> QED
  BY <1>5, <1>6

\* Nothing has been done to a target that is not mutated.
LEMMA SkipUnmutatedKeeps ==
    ASSUME CodegenInv, Codegen!SkipUnmutated
    PROVE  CodegenInv'
<1>1. /\ step = "rollback" /\ target \notin mutated /\ RollingBack /\ FilesTyped
      /\ UNCHANGED <<made, staged, previous, mutated, preserved, root, backup, before>>
  BY DEF Codegen!SkipUnmutated, Codegen!RollbackOnly, Codegen!GenerateOnly, Codegen!historyVars, CodegenInv
<1>2. IF target > 1 THEN target' = target - 1 /\ step' = "rollback"
      ELSE target' = target /\ step' = "cleanFailed"
  BY <1>1 DEF Codegen!SkipUnmutated, Codegen!Undone
<1>3. ASSUME NEW t \in Codegen!Targets, t = target PROVE Same(t)' /\ Recovered(t)'
  BY <1>1, <1>3 DEF RollingBack, Known, Same, Recovered
<1>4. /\ DOMAIN root' = Codegen!Targets /\ root' = [t \in Codegen!Targets |-> root'[t]]
      /\ DOMAIN backup' = Codegen!Targets /\ backup' = [t \in Codegen!Targets |-> backup'[t]]
  BY <1>1 DEF FilesTyped
<1> QED
  BY <1>1, <1>2, <1>3, <1>4, UndoneKeeps

\* The new output is removed, and what was there before is restored next; if it
\* cannot be removed, the backup is kept.
LEMMA RemoveNewKeeps ==
    ASSUME CodegenInv, NEW ok \in BOOLEAN, Codegen!RemoveNew(ok)
    PROVE  CodegenInv'
<1>1. /\ step = "rollback" /\ target \in mutated /\ RollingBack /\ FilesTyped
      /\ UNCHANGED <<made, staged, previous, mutated, backup, before>>
  BY DEF Codegen!RemoveNew, Codegen!RollbackOnly, Codegen!GenerateOnly, Codegen!historyVars, CodegenInv
<1>2. /\ target \in Codegen!Targets /\ target \in staged /\ Saved(target)
      /\ (target \in previous <=> before[target] # Codegen!Absent)
  <2>1. target \in Codegen!Targets /\ target \in staged /\ target <= target
    BY <1>1, PeripheryAssumption DEF FilesTyped, Codegen!Targets
  <2> QED
    BY <1>1, <2>1 DEF RollingBack, Known
<1>3. /\ DOMAIN backup' = Codegen!Targets /\ backup' = [t \in Codegen!Targets |-> backup'[t]]
      /\ DOMAIN root' = Codegen!Targets /\ root' = [t \in Codegen!Targets |-> root'[t]]
      /\ \A t \in Codegen!Targets \ {target} : root'[t] = root[t] /\ backup'[t] = backup[t]
  BY <1>1 DEF FilesTyped, Codegen!RemoveNew
<1>4. \A t \in preserved : t \in preserved'
  BY DEF Codegen!RemoveNew
<1>5. CASE ok /\ target \in previous
  <2>1. step' = "restore" /\ target' = target /\ preserved' = preserved
    BY <1>5 DEF Codegen!RemoveNew
  <2>2. FilesTyped'
    BY <1>1, <1>3, <2>1 DEF FilesTyped
  <2>3. ASSUME NEW t \in Codegen!Targets
        PROVE  /\ Known(t)'
               /\ t \in mutated' => IF t <= target' THEN Saved(t)' ELSE Recovered(t)'
    <3>1. CASE t = target
      <4>1. t <= target' /\ t \in mutated'
        BY <1>1, <1>2, <2>1, <3>1 DEF Codegen!Targets
      <4>2. Saved(t)'
        BY <1>1, <1>2, <3>1 DEF Saved
      <4> QED
        BY <1>1, <1>2, <3>1, <4>1, <4>2 DEF Known
    <3>2. CASE t # target
      <4>1. root'[t] = root[t] /\ backup'[t] = backup[t]
        BY <1>3, <3>2
      <4> QED
        BY <1>1, <2>1, <4>1 DEF RollingBack, Known, Same, Saved, Recovered
    <3> QED
      BY <3>1, <3>2
  <2>4. RollingBack'
    BY <1>1, <1>5, <2>1, <2>3 DEF RollingBack
  <2> QED
    BY <2>1, <2>2, <2>4 DEF CodegenInv
<1>6. CASE ~(ok /\ target \in previous)
  <2>1. IF target > 1 THEN target' = target - 1 /\ step' = "rollback"
        ELSE target' = target /\ step' = "cleanFailed"
    BY <1>1, <1>6 DEF Codegen!RemoveNew, Codegen!Undone
  <2>2. ASSUME NEW t \in Codegen!Targets, t = target PROVE Recovered(t)'
    <3>1. CASE ok
      <4>1. root'[target] = Codegen!Absent /\ before[target] = Codegen!Absent
        BY <1>1, <1>2, <1>6, <3>1 DEF Codegen!RemoveNew, FilesTyped
      <4> QED
        BY <1>1, <2>2, <4>1 DEF Recovered, Same
    <3>2. CASE ~ok
      <4>1. t \in preserved' /\ Saved(t)
        BY <1>2, <2>2, <3>2 DEF Codegen!RemoveNew
      <4> QED
        BY <1>1, <4>1 DEF Recovered, Saved
    <3> QED
      BY <3>1, <3>2
  <2> QED
    BY <1>1, <1>3, <1>4, <2>1, <2>2, UndoneKeeps
<1> QED
  BY <1>5, <1>6


\* What was there before is moved back; if it cannot be, the backup is kept.
LEMMA RestoreKeeps ==
    ASSUME CodegenInv, NEW ok \in BOOLEAN, Codegen!Restore(ok)
    PROVE  CodegenInv'
<1>1. /\ step = "restore" /\ target \in mutated /\ target \in previous /\ RollingBack /\ FilesTyped
      /\ UNCHANGED <<made, staged, previous, mutated, before>>
  BY DEF Codegen!Restore, Codegen!RollbackOnly, Codegen!GenerateOnly, Codegen!historyVars, CodegenInv,
     RollingBack
<1>2. target \in Codegen!Targets /\ backup[target] = before[target]
  <2>1. target \in Codegen!Targets /\ target \in staged /\ target <= target
    BY <1>1, PeripheryAssumption DEF FilesTyped, Codegen!Targets
  <2> QED
    BY <1>1, <2>1 DEF RollingBack, Known, Saved
<1>3. /\ DOMAIN backup' = Codegen!Targets /\ backup' = [t \in Codegen!Targets |-> backup'[t]]
      /\ DOMAIN root' = Codegen!Targets /\ root' = [t \in Codegen!Targets |-> root'[t]]
      /\ \A t \in Codegen!Targets \ {target} : root'[t] = root[t] /\ backup'[t] = backup[t]
  BY <1>1 DEF FilesTyped, Codegen!Restore
<1>4. \A t \in preserved : t \in preserved'
  BY DEF Codegen!Restore
<1>5. IF target > 1 THEN target' = target - 1 /\ step' = "rollback"
      ELSE target' = target /\ step' = "cleanFailed"
  BY DEF Codegen!Restore
<1>6. ASSUME NEW t \in Codegen!Targets, t = target PROVE Recovered(t)'
  <2>1. CASE ok
    <3>1. root'[t] = backup[t]
      BY <1>1, <1>6, <2>1 DEF Codegen!Restore, FilesTyped
    <3> QED
      BY <1>1, <1>2, <1>6, <3>1 DEF Recovered, Same
  <2>2. CASE ~ok
    <3>1. t \in preserved' /\ backup' = backup
      BY <1>6, <2>2 DEF Codegen!Restore
    <3> QED
      BY <1>1, <1>2, <1>6, <3>1 DEF Recovered, Saved
  <2> QED
    BY <2>1, <2>2
<1> QED
  BY <1>1, <1>3, <1>4, <1>5, <1>6, UndoneKeeps

\* The finally removes no backup that is needed.
LEMMA CleanKeeps ==
    ASSUME CodegenInv, NEW left, NEW keptBackups, Codegen!Clean(left, keptBackups)
    PROVE  CodegenInv'
<1> DEFINE result == IF (left \intersect temporary) \union keptBackups # {} THEN "unclean"
                     ELSE IF step = "clean" THEN "resolved"
                     ELSE IF preserved = {} THEN "rejected" ELSE "unrecovered"
<1>1. /\ step \in {"clean", "cleanFailed"} /\ FilesTyped
      /\ UNCHANGED <<target, made, staged, previous, mutated, preserved, root, before>>
      /\ backup' = [t \in Codegen!Targets |->
             IF t \in staged \ (preserved \union keptBackups) THEN Codegen!Absent ELSE backup[t]]
      /\ Codegen!EndRefresh(result)
  BY DEF Codegen!Clean, Codegen!stageVars, Codegen!historyVars, CodegenInv
<1>2. FilesTyped'
  <2>1. step' \in {"refresh", "idle"}
    BY <1>1 DEF Codegen!EndRefresh
  <2>2. DOMAIN backup' = Codegen!Targets /\ backup' = [t \in Codegen!Targets |-> backup'[t]]
    BY <1>1
  <2> QED
    BY <1>1, <2>1, <2>2 DEF FilesTyped
<1>3. CASE step = "clean"
  <2>1. Published'
    BY <1>1, <1>3 DEF CodegenInv, Published
  <2> QED
    BY <1>1, <1>2, <2>1, OverKeeps
<1>4. CASE step = "cleanFailed"
  <2>1. \A t \in Codegen!Targets : Recovered(t)
    BY <1>4 DEF CodegenInv
  <2>2. AllInBackup'
    BY <1>1, <2>1 DEF AllInBackup, Recovered, Same, Saved
  <2>3. AllSame' \/ (preserved' # {} /\ result \in {"unrecovered", "unclean"})
    <3>1. CASE preserved = {}
      BY <1>1, <2>1, <3>1 DEF AllSame, Recovered, Same
    <3>2. CASE preserved # {}
      BY <1>1, <1>4, <3>2
    <3> QED
      BY <3>1, <3>2
  <2> HIDE DEF result
  <2> QED
    BY <1>1, <1>2, <2>2, <2>3, OverKeeps
<1> QED
  BY <1>1, <1>3, <1>4

\* Every step of the generator and its watcher keeps the invariant.
LEMMA CodegenStep ==
    ASSUME CodegenInv, Codegen!Next
    PROVE  CodegenInv'
<1> USE DEF Codegen!stageVars, Codegen!fileVars, Codegen!historyVars, Codegen!watchVars
<1>1. CASE Codegen!Change \/ Codegen!Changed \/ Codegen!Stop
  BY <1>1, WaitingKeeps DEF Codegen!Change, Codegen!Changed, Codegen!Stop
<1>2. CASE Codegen!Refresh
  BY <1>2, WaitingKeeps DEF Codegen!Refresh
<1>3. CASE Codegen!Exit \/ Codegen!Crash \/ Codegen!Restart
  BY <1>3, WaitingKeeps DEF Codegen!Exit, Codegen!Crash, Codegen!Restart
<1>4. CASE Codegen!GenerateStep
  BY <1>4, PlanKeeps, StageKeeps, MoveAwayKeeps, SkipUnchangedKeeps, PublishKeeps, SkipUnmutatedKeeps,
     RemoveNewKeeps, RestoreKeeps, CleanKeeps DEF Codegen!GenerateStep
<1> QED
  BY <1>1, <1>2, <1>3, <1>4 DEF Codegen!Next, Codegen!WatchStep

\* The safety half of GenerationsKept, for any number of targets and versions: until
\* all targets hold the new generation, what each held before is at its place or in
\* its backup, whatever file operation fails and wherever the process is killed; and
\* a generate() that is over has published all, changed nothing or said that it could
\* not recover.
THEOREM GenerationsAreKept == Spec => []Codegen!GenerationsKept
<1>1. Init => CodegenInv
  BY CodegenInit DEF Init
<1>2. CodegenInv /\ [Next]_vars => CodegenInv'
  <2> SUFFICES ASSUME CodegenInv, [Next]_vars PROVE CodegenInv'
    OBVIOUS
  <2>1. Codegen!Next \/ UNCHANGED codegenVars
    BY DEF Next, Only, Unless, vars
  <2>2. CASE UNCHANGED codegenVars
    BY <2>2, WaitingKeeps DEF codegenVars
  <2> QED
    BY <2>1, <2>2, CodegenStep
<1>3. CodegenInv => Codegen!GenerationsKept
  <2> SUFFICES ASSUME CodegenInv PROVE Codegen!GenerationsKept
    OBVIOUS
  <2>1. Published \/ AllInBackup
    BY NothingIsLost
  <2>2. step = "idle" => Published \/ AllSame \/ Codegen!Unrecovered
    BY DEF CodegenInv
  <2> QED
    BY <2>1, <2>2 DEF Codegen!GenerationsKept, Published, AllSame, AllInBackup, Same
<1> QED
  BY <1>1, <1>2, <1>3, PTL DEF Spec


-----------------------------------------------------------------------------
(* The types of all components.                                            *)

\* A graph shows the texts it was built from, or not all of them.
LEMMA GraphTyped ==
    \A texts \in [entry : Dev!EntryTexts, helper : Dev!HelperTexts] :
        /\ Dev!GraphOf(texts) \in [entry : Dev!EntryTexts \union {"none"},
                                   helper : Dev!HelperTexts \union {"none"}]
        /\ Dev!FilesOf(texts) \subseteq Dev!Files
BY DEF Dev!GraphOf, Dev!FilesOf, Dev!Files

\* The end of a load keeps the types of what it assigns.
LEMMA LoadEndTyped ==
    ASSUME Dev!TypeOK, Dev!EndReload
    PROVE  /\ load' \in {"none", "reading"} /\ again' \in BOOLEAN /\ joined' \in BOOLEAN
           /\ supervisor' \in {"none", "running", "closing", "settled"}
           /\ child' \in {"none", "running", "signalled", "killed"} /\ crashedOn' \in {crashedOn, Dev!NoGraph}
BY DEF Dev!TypeOK, Dev!EndReload, Dev!StartChild, Dev!runVars

\* The marks of the development server, and the rest of its variables.
DevMarks ==
    /\ reloadTimer \in BOOLEAN /\ again \in BOOLEAN /\ joined \in BOOLEAN /\ valid \in BOOLEAN
    /\ missed \in BOOLEAN
DevRest ==
    /\ disk \in [entry : Dev!EntryTexts, helper : Dev!HelperTexts]
    /\ changes \in 0 .. MaxChanges /\ requests \in 0 .. MaxRequests
    /\ watcher \in {"none", "scanning", "ready", "closed"}
    /\ events \subseteq Dev!Files /\ watched \subseteq Dev!Files
    /\ load \in {"none", "reading", "building"}
    /\ read \in [entry : Dev!EntryTexts, helper : Dev!HelperTexts]
    /\ snapshot \in [entry : Dev!EntryTexts \union {"none"}, helper : Dev!HelperTexts \union {"none"}]
    /\ crashedOn \in [entry : Dev!EntryTexts \union {"none"}, helper : Dev!HelperTexts \union {"none"}]
    /\ error \in {"none", "build", "watch"}
    /\ supervisor \in {"none", "running", "closing", "settled"}
    /\ child \in {"none", "running", "signalled", "killed"}
    /\ server \in {"starting", "listening", "closed"}

\* They are the types of the development server.
LEMMA DevParts == Dev!TypeOK <=> DevMarks /\ DevRest
BY DEF Dev!TypeOK, DevMarks, DevRest

\* Every step of the development server keeps the marks.
LEMMA DevMarksKept ==
    ASSUME DevMarks, DevRest, Dev!Next
    PROVE  DevMarks'
<1> USE DEF Dev!graphVars, Dev!runVars, DevMarks
<1>1. CASE Dev!Change
  BY <1>1 DEF Dev!Change
<1>2. CASE \E file \in Dev!Files : Dev!Reported(file)
  <2>1. PICK file \in Dev!Files : Dev!Reported(file)
    BY <1>2
  <2>2. UNCHANGED <<again, joined, valid>>
    BY <2>1 DEF Dev!Reported
  <2>3. \/ reloadTimer' = TRUE /\ missed' = missed
        \/ reloadTimer' = reloadTimer /\ missed' = (missed \/ Dev!Raced(file))
    BY <2>1 DEF Dev!Reported
  <2>4. (missed \/ Dev!Raced(file)) \in BOOLEAN
    BY DEF Dev!Raced
  <2> QED
    BY <2>2, <2>3, <2>4
<1>3. CASE Dev!WatcherReady \/ Dev!WatcherFails \/ Dev!ScanFails
  BY <1>3 DEF Dev!WatcherReady, Dev!WatcherFails, Dev!ScanFails
<1>4. CASE Dev!Debounced \/ Dev!RequestReload
  BY <1>4 DEF Dev!Debounced, Dev!RequestReload, Dev!CallReload
<1>5. CASE Dev!ReadFiles
  BY <1>5 DEF Dev!ReadFiles
<1>6. CASE Dev!BuildSucceeds \/ Dev!BuildFails
  <2>1. again' \in BOOLEAN /\ joined' \in BOOLEAN
    BY <1>6, LoadEndTyped, DevParts DEF Dev!BuildSucceeds, Dev!BuildFails
  <2>2. UNCHANGED <<reloadTimer, missed>>
    BY <1>6 DEF Dev!BuildSucceeds, Dev!BuildFails
  <2>3. valid' \in BOOLEAN
    <3>1. Dev!Valid(read) \in BOOLEAN
      BY DEF Dev!Valid
    <3> QED
      BY <1>6, <3>1 DEF Dev!BuildSucceeds, Dev!BuildFails
  <2> QED
    BY <2>1, <2>2, <2>3
<1>7. CASE Dev!ListenStep \/ Dev!CloseServer
  BY <1>7 DEF Dev!ListenStep, Dev!Listen, Dev!ListenFails, Dev!CloseServer
<1>8. CASE Dev!SpawnFails \/ Dev!Close \/ Dev!ForceKill
  BY <1>8 DEF Dev!SpawnFails, Dev!Close, Dev!ForceKill, Dev!RunOnly
<1>9. CASE \E ok \in BOOLEAN : Dev!ChildExits(ok)
  BY <1>9 DEF Dev!ChildExits, Dev!RunOnly
<1> QED
  BY <1>1, <1>2, <1>3, <1>4, <1>5, <1>6, <1>7, <1>8, <1>9 DEF Dev!Next, Dev!WatchStep, Dev!BuildStep

\* It keeps the types of the rest.
LEMMA DevRestKept ==
    ASSUME DevMarks, DevRest, Dev!Next
    PROVE  DevRest'
<1> USE DEF Dev!graphVars, Dev!runVars, DevRest
<1>1. CASE Dev!Change
  <2>1. /\ changes' = changes + 1 /\ changes < MaxChanges
        /\ disk' \in [entry : Dev!EntryTexts, helper : Dev!HelperTexts]
        /\ \E file \in Dev!Files : events' \in {events, events \union {file}}
        /\ UNCHANGED <<requests, watcher, load, read, watched, snapshot, error, supervisor, child, crashedOn,
                      server>>
    BY <1>1 DEF Dev!Change
  <2>2. changes' \in 0 .. MaxChanges /\ events' \subseteq Dev!Files
    BY <2>1, PeripheryAssumption
  <2> QED
    BY <2>1, <2>2
<1>2. CASE \E file \in Dev!Files : Dev!Reported(file)
  BY <1>2 DEF Dev!Reported
<1>3. CASE Dev!WatcherReady \/ Dev!WatcherFails \/ Dev!ScanFails
  BY <1>3 DEF Dev!WatcherReady, Dev!WatcherFails, Dev!ScanFails
<1>4. CASE Dev!Debounced \/ Dev!RequestReload
  BY <1>4, PeripheryAssumption DEF Dev!Debounced, Dev!RequestReload, Dev!CallReload
<1>5. CASE Dev!ReadFiles
  BY <1>5 DEF Dev!ReadFiles
<1>6. CASE Dev!BuildSucceeds
  BY <1>6, LoadEndTyped, GraphTyped, DevParts DEF Dev!BuildSucceeds, Dev!MakeWatcher, Dev!NoGraph
<1>7. CASE Dev!BuildFails
  BY <1>7, LoadEndTyped, DevParts DEF Dev!BuildFails, Dev!MakeWatcher, Dev!NoGraph
<1>8. CASE Dev!ListenStep \/ Dev!CloseServer
  BY <1>8 DEF Dev!ListenStep, Dev!Listen, Dev!ListenFails, Dev!CloseServer
<1>9. CASE Dev!SpawnFails \/ Dev!Close \/ Dev!ForceKill
  BY <1>9 DEF Dev!SpawnFails, Dev!Close, Dev!ForceKill, Dev!RunOnly
<1>10. CASE \E ok \in BOOLEAN : Dev!ChildExits(ok)
  BY <1>10, GraphTyped DEF Dev!ChildExits, Dev!RunOnly, Dev!NoGraph
<1> QED
  BY <1>1, <1>2, <1>3, <1>4, <1>5, <1>6, <1>7, <1>8, <1>9, <1>10 DEF Dev!Next, Dev!WatchStep, Dev!BuildStep

\* The development server keeps its types, and so does whoever leaves it alone.
LEMMA DevTypes ==
    /\ Dev!Init => Dev!TypeOK
    /\ Dev!TypeOK /\ Dev!Next => Dev!TypeOK'
    /\ Dev!TypeOK /\ UNCHANGED devVars => Dev!TypeOK'
<1>1. Dev!Init => Dev!TypeOK
  <2> SUFFICES ASSUME Dev!Init PROVE Dev!TypeOK
    OBVIOUS
  <2>1. DevMarks
    <3>1. Dev!Valid(disk) \in BOOLEAN
      BY DEF Dev!Valid
    <3> QED
      BY <3>1 DEF Dev!Init, DevMarks
  <2>2. DevRest
    BY PeripheryAssumption DEF Dev!Init, DevRest, Dev!NoGraph, Dev!HelperTexts
  <2> QED
    BY <2>1, <2>2, DevParts
<1>2. Dev!TypeOK /\ Dev!Next => Dev!TypeOK'
  <2> SUFFICES ASSUME Dev!TypeOK, Dev!Next PROVE Dev!TypeOK'
    OBVIOUS
  <2>1. DevMarks' /\ DevRest'
    BY DevParts, DevMarksKept, DevRestKept
  <2> QED
    BY <2>1, DevParts, PTL
<1>3. Dev!TypeOK /\ UNCHANGED devVars => Dev!TypeOK'
  BY DEF Dev!TypeOK, devVars
<1> QED
  BY <1>1, <1>2, <1>3


\* Versions are numbered up to the one that marks what is damaged.
LEMMA VersionNumbers ==
    /\ MaxVersions \in Nat /\ 1 \in 0 .. MaxVersions /\ 1 \in Codegen!Versions
    /\ Codegen!Absent \in 0 .. Codegen!Damaged /\ Codegen!Damaged \in 0 .. Codegen!Damaged
    /\ Codegen!Versions \subseteq 0 .. MaxVersions /\ 0 .. MaxVersions \subseteq 0 .. Codegen!Damaged
    /\ 1 \in Codegen!Targets /\ NumTargets \in Codegen!Targets
BY PeripheryAssumption DEF Codegen!Absent, Codegen!Damaged, Codegen!Versions, Codegen!Targets

\* The types of the generator: its marks, what generate() is at, and the files.
CodegenMarks == event \in BOOLEAN /\ refreshTimer \in BOOLEAN /\ queued \in BOOLEAN /\ stopped \in BOOLEAN
CodegenAt ==
    /\ input \in Codegen!Versions /\ made \in 0 .. MaxVersions /\ seen \in 0 .. MaxVersions
    /\ step \in {"idle", "refresh", "stage", "moveAway", "publish", "rollback", "restore",
                 "clean", "cleanFailed", "dead", "exited"}
    /\ target \in Codegen!Targets
    /\ outcome \in {"none", "resolved", "rejected", "unclean", "unrecovered"}
CodegenSets ==
    /\ changed \subseteq Codegen!Targets /\ staged \subseteq Codegen!Targets
    /\ previous \subseteq Codegen!Targets /\ mutated \subseteq Codegen!Targets
    /\ preserved \subseteq Codegen!Targets /\ temporary \subseteq Codegen!Targets
CodegenFiles ==
    /\ root \in [Codegen!Targets -> 0 .. Codegen!Damaged]
    /\ before \in [Codegen!Targets -> 0 .. Codegen!Damaged]
    /\ backup \in [Codegen!Targets -> 0 .. Codegen!Damaged]

LEMMA CodegenParts == Codegen!TypeOK <=> CodegenMarks /\ CodegenAt /\ CodegenSets /\ CodegenFiles
BY DEF Codegen!TypeOK, CodegenMarks, CodegenAt, CodegenSets, CodegenFiles

\* A refresh that ends is asked for again or not.
LEMMA EndRefreshTyped ==
    ASSUME CodegenMarks, NEW result, Codegen!EndRefresh(result)
    PROVE  step' \in {"refresh", "idle"} /\ outcome' = result /\ queued' \in BOOLEAN
BY DEF CodegenMarks, Codegen!EndRefresh

\* The steps of the generator keep its types ...
LEMMA GenerateTyped ==
    ASSUME Codegen!TypeOK, Codegen!GenerateStep
    PROVE  Codegen!TypeOK'
<1> USE VersionNumbers DEF Codegen!historyVars, Codegen!fileVars, Codegen!stageVars, Codegen!watchVars,
        Codegen!GenerateOnly, Codegen!NoFiles, Codegen!RollbackOnly
<1>1. CodegenMarks /\ CodegenAt /\ CodegenSets /\ CodegenFiles
  BY CodegenParts
<1>2. CASE Codegen!Plan
  <2>1. /\ step' \in {"refresh", "idle", "stage"} /\ queued' \in BOOLEAN
        /\ outcome' \in {outcome, "resolved"}
    BY <1>1, <1>2, EndRefreshTyped DEF Codegen!Plan, CodegenMarks
  <2>2. CodegenMarks' /\ CodegenAt'
    BY <1>1, <1>2, <2>1 DEF Codegen!Plan, CodegenMarks, CodegenAt
  <2>3. CodegenSets' /\ CodegenFiles'
    BY <1>1, <1>2 DEF Codegen!Plan, Codegen!NewStages, CodegenSets, CodegenFiles
  <2> QED
    BY <2>2, <2>3, CodegenParts, PTL
<1>3. CASE Codegen!PlanFails
  <2>1. step' \in {"refresh", "idle"} /\ queued' \in BOOLEAN /\ outcome' = "rejected"
    BY <1>1, <1>3, EndRefreshTyped DEF Codegen!PlanFails
  <2>2. CodegenMarks' /\ CodegenAt'
    BY <1>1, <1>3, <2>1 DEF Codegen!PlanFails, CodegenMarks, CodegenAt
  <2>3. CodegenSets' /\ CodegenFiles'
    BY <1>1, <1>3 DEF Codegen!PlanFails, Codegen!NewStages, CodegenSets, CodegenFiles
  <2> QED
    BY <2>2, <2>3, CodegenParts, PTL
<1>4. ASSUME NEW ok \in BOOLEAN, Codegen!Stage(ok) PROVE Codegen!TypeOK'
  <2>1. UNCHANGED <<input, event, refreshTimer, queued, stopped, made, changed, outcome, before, seen,
                    mutated, preserved, root, backup>>
    BY <1>4 DEF Codegen!Stage
  <2>2. step' \in {"stage", "moveAway", "rollback"} /\ target' \in Codegen!Targets
    BY <1>1, <1>4, PeripheryAssumption
       DEF Codegen!Stage, Codegen!NextTarget, CodegenAt, Codegen!Targets
  <2>3. /\ staged' \subseteq Codegen!Targets /\ previous' \subseteq Codegen!Targets
        /\ temporary' \subseteq Codegen!Targets
    BY <1>1, <1>4 DEF Codegen!Stage, CodegenSets, CodegenAt
  <2>4. CodegenMarks' /\ CodegenAt' /\ CodegenSets' /\ CodegenFiles'
    BY <1>1, <2>1, <2>2, <2>3 DEF CodegenMarks, CodegenAt, CodegenSets, CodegenFiles
  <2> QED
    BY <2>4, CodegenParts, PTL
<1>5. ASSUME NEW ok \in BOOLEAN, Codegen!MoveAway(ok) PROVE Codegen!TypeOK'
  <2>1. UNCHANGED <<input, event, refreshTimer, queued, stopped, made, changed, outcome, before, seen,
                    staged, previous, preserved, temporary>>
    BY <1>5 DEF Codegen!MoveAway
  <2>2. /\ step' \in {"publish", "rollback"} /\ target' \in Codegen!Targets
        /\ mutated' \subseteq Codegen!Targets
    BY <1>1, <1>5 DEF Codegen!MoveAway, CodegenAt, CodegenSets
  <2>3. CodegenFiles'
    BY <1>1, <1>5, <2>1 DEF Codegen!MoveAway, CodegenAt, CodegenFiles
  <2>4. CodegenMarks' /\ CodegenAt' /\ CodegenSets'
    BY <1>1, <2>1, <2>2 DEF CodegenMarks, CodegenAt, CodegenSets
  <2> QED
    BY <2>3, <2>4, CodegenParts, PTL
<1>6. CASE Codegen!SkipUnchanged
  <2>1. step' \in {"moveAway", "clean"} /\ target' \in Codegen!Targets
    BY <1>1, <1>6, PeripheryAssumption
       DEF Codegen!SkipUnchanged, Codegen!NextTarget, CodegenAt, Codegen!Targets
  <2>2. CodegenMarks' /\ CodegenAt' /\ CodegenSets' /\ CodegenFiles'
    BY <1>1, <1>6, <2>1 DEF Codegen!SkipUnchanged, CodegenMarks, CodegenAt, CodegenSets, CodegenFiles
  <2> QED
    BY <2>2, CodegenParts, PTL
<1>7. ASSUME NEW ok \in BOOLEAN, Codegen!Publish(ok) PROVE Codegen!TypeOK'
  <2>1. UNCHANGED <<input, event, refreshTimer, queued, stopped, made, changed, outcome, before, seen,
                    staged, previous, mutated, preserved, backup>>
    BY <1>7 DEF Codegen!Publish
  <2>2. /\ step' \in {"moveAway", "clean", "rollback"} /\ target' \in Codegen!Targets
        /\ temporary' \subseteq Codegen!Targets
    <3>1. target \in 1 .. NumTargets /\ NumTargets \in Nat
      BY <1>1, PeripheryAssumption DEF CodegenAt, Codegen!Targets
    <3>2. target' \in {target + 1, 1, NumTargets} /\ (target' = target + 1 => target < NumTargets)
      BY <1>7, <3>1 DEF Codegen!Publish
    <3>3. target' \in Codegen!Targets
      BY <3>1, <3>2 DEF Codegen!Targets
    <3>4. step' \in {"moveAway", "clean", "rollback"} /\ temporary' \subseteq temporary
      BY <1>7 DEF Codegen!Publish
    <3> QED
      BY <1>1, <3>3, <3>4 DEF CodegenSets
  <2>3. root' \in [Codegen!Targets -> 0 .. Codegen!Damaged]
    <3>1. made \in 0 .. Codegen!Damaged
      BY <1>1 DEF CodegenAt
    <3> QED
      BY <1>1, <1>7, <3>1 DEF Codegen!Publish, CodegenFiles
  <2>4. CodegenMarks' /\ CodegenAt' /\ CodegenSets' /\ CodegenFiles'
    BY <1>1, <2>1, <2>2, <2>3 DEF CodegenMarks, CodegenAt, CodegenSets, CodegenFiles
  <2> QED
    BY <2>4, CodegenParts, PTL
<1>8. CASE Codegen!SkipUnmutated
  <2>1. step' \in {"rollback", "cleanFailed"} /\ target' \in Codegen!Targets
    BY <1>1, <1>8, PeripheryAssumption DEF Codegen!SkipUnmutated, Codegen!Undone, CodegenAt, Codegen!Targets
  <2>2. CodegenMarks' /\ CodegenAt' /\ CodegenSets' /\ CodegenFiles'
    BY <1>1, <1>8, <2>1 DEF Codegen!SkipUnmutated, CodegenMarks, CodegenAt, CodegenSets, CodegenFiles
  <2> QED
    BY <2>2, CodegenParts, PTL
<1>9. ASSUME NEW ok \in BOOLEAN, Codegen!RemoveNew(ok) \/ Codegen!Restore(ok) PROVE Codegen!TypeOK'
  <2>1. UNCHANGED <<input, event, refreshTimer, queued, stopped, made, changed, outcome, before, seen,
                    staged, previous, mutated, temporary>>
    BY <1>9 DEF Codegen!RemoveNew, Codegen!Restore
  <2>2. target \in 1 .. NumTargets /\ (target > 1 => target - 1 \in Codegen!Targets)
    BY <1>1, PeripheryAssumption DEF CodegenAt, Codegen!Targets
  <2>3. /\ step' \in {"rollback", "restore", "cleanFailed"} /\ target' \in Codegen!Targets
        /\ preserved' \subseteq Codegen!Targets
    BY <1>1, <1>9, <2>2 DEF Codegen!RemoveNew, Codegen!Restore, Codegen!Undone, CodegenAt, CodegenSets
  <2>4. root' \in [Codegen!Targets -> 0 .. Codegen!Damaged]
        /\ backup' \in [Codegen!Targets -> 0 .. Codegen!Damaged]
    BY <1>1, <1>9 DEF Codegen!RemoveNew, Codegen!Restore, CodegenAt, CodegenFiles
  <2>5. CodegenMarks' /\ CodegenAt' /\ CodegenSets' /\ CodegenFiles'
    BY <1>1, <2>1, <2>3, <2>4 DEF CodegenMarks, CodegenAt, CodegenSets, CodegenFiles
  <2> QED
    BY <2>5, CodegenParts, PTL
<1>10. ASSUME NEW left, NEW keptBackups, Codegen!Clean(left, keptBackups) PROVE Codegen!TypeOK'
  <2>1. UNCHANGED <<input, event, refreshTimer, stopped, target, made, changed, staged, previous, mutated,
                    preserved, root, before, seen>>
    BY <1>10 DEF Codegen!Clean
  <2>2. PICK result \in {"resolved", "rejected", "unclean", "unrecovered"} : Codegen!EndRefresh(result)
    BY <1>10 DEF Codegen!Clean
  <2>3. /\ step' \in {"refresh", "idle"} /\ queued' \in BOOLEAN
        /\ outcome' \in {"resolved", "rejected", "unclean", "unrecovered"}
    BY <1>1, <2>2, EndRefreshTyped
  <2>4. temporary' \subseteq Codegen!Targets /\ backup' \in [Codegen!Targets -> 0 .. Codegen!Damaged]
    BY <1>1, <1>10 DEF Codegen!Clean, CodegenSets, CodegenFiles
  <2>5. CodegenMarks' /\ CodegenAt' /\ CodegenSets' /\ CodegenFiles'
    BY <1>1, <2>1, <2>3, <2>4 DEF CodegenMarks, CodegenAt, CodegenSets, CodegenFiles
  <2> QED
    BY <2>5, CodegenParts, PTL
<1> QED
  BY <1>2, <1>3, <1>4, <1>5, <1>6, <1>7, <1>8, <1>9, <1>10 DEF Codegen!GenerateStep

\* ... and so do those of its watcher, and whoever leaves it alone.
LEMMA CodegenTypes ==
    /\ Codegen!Init => Codegen!TypeOK
    /\ Codegen!TypeOK /\ Codegen!Next => Codegen!TypeOK'
    /\ Codegen!TypeOK /\ UNCHANGED codegenVars => Codegen!TypeOK'
<1> USE VersionNumbers DEF Codegen!historyVars, Codegen!fileVars, Codegen!stageVars, Codegen!watchVars
<1>1. Codegen!Init => Codegen!TypeOK
  <2> SUFFICES ASSUME Codegen!Init PROVE Codegen!TypeOK
    OBVIOUS
  <2>1. CodegenMarks /\ CodegenSets
    BY DEF Codegen!Init, CodegenMarks, CodegenSets
  <2>2. CodegenAt
    BY DEF Codegen!Init, CodegenAt
  <2>3. CodegenFiles
    BY DEF Codegen!Init, CodegenFiles
  <2> QED
    BY <2>1, <2>2, <2>3, CodegenParts
<1>2. ASSUME Codegen!TypeOK, Codegen!Next PROVE Codegen!TypeOK'
  <2>1. CodegenMarks /\ CodegenAt /\ CodegenSets /\ CodegenFiles
    BY <1>2, CodegenParts
  <2>2. CASE Codegen!Change \/ Codegen!Stop \/ Codegen!Crash \/ Codegen!Restart \/ Codegen!WatchStep
    <3>1. /\ UNCHANGED <<target, made, changed, staged, previous, mutated, preserved, outcome, root,
                         temporary, backup, before, seen>>
          /\ input' \in Codegen!Versions
          /\ step' \in {step, "dead", "refresh", "exited"}
      BY <2>1, <2>2 DEF Codegen!Change, Codegen!Stop, Codegen!Crash, Codegen!Restart, Codegen!WatchStep,
         Codegen!Changed, Codegen!Refresh, Codegen!Exit, CodegenAt, Codegen!Versions
    <3>2. event' \in BOOLEAN
      <4>1. Codegen!Alive \in BOOLEAN
        BY DEF Codegen!Alive
      <4> QED
        BY <2>1, <2>2, <4>1 DEF Codegen!Change, Codegen!Stop, Codegen!Crash, Codegen!Restart,
           Codegen!WatchStep, Codegen!Changed, Codegen!Refresh, Codegen!Exit, CodegenMarks
    <3>3. refreshTimer' \in BOOLEAN /\ queued' \in BOOLEAN /\ stopped' \in BOOLEAN
      <4>1. (~stopped) \in BOOLEAN
        BY <2>1 DEF CodegenMarks
      <4> QED
        BY <2>1, <2>2, <4>1 DEF Codegen!Change, Codegen!Stop, Codegen!Crash, Codegen!Restart,
           Codegen!WatchStep, Codegen!Changed, Codegen!Refresh, Codegen!Exit, CodegenMarks
    <3>4. CodegenMarks' /\ CodegenAt' /\ CodegenSets' /\ CodegenFiles'
      BY <2>1, <3>1, <3>2, <3>3 DEF CodegenMarks, CodegenAt, CodegenSets, CodegenFiles
    <3> QED
      BY <3>4, CodegenParts, PTL
  <2> QED
    BY <1>2, <2>2, GenerateTyped DEF Codegen!Next
<1>3. ASSUME Codegen!TypeOK, UNCHANGED codegenVars PROVE Codegen!TypeOK'
  <2>1. CodegenMarks /\ CodegenAt /\ CodegenSets /\ CodegenFiles
    BY <1>3, CodegenParts
  <2>2. CodegenMarks' /\ CodegenAt' /\ CodegenSets' /\ CodegenFiles'
    BY <1>3, <2>1 DEF codegenVars, CodegenMarks, CodegenAt, CodegenSets, CodegenFiles
  <2> QED
    BY <2>2, CodegenParts, PTL
<1> QED
  BY <1>1, <1>2, <1>3


\* The types of the connection of a session, which SessionInv leaves out.
ConnectionTyped ==
    /\ conn \in {"open", "closing", "closed"}
    /\ init \in {"none", "running", "ready", "refused"}

LEMMA ConnectionTypes ==
    /\ Session!Init => ConnectionTyped
    /\ ConnectionTyped /\ (Session!Next \/ UNCHANGED sessionVars) => ConnectionTyped'
<1>1. Session!Init => ConnectionTyped
  BY DEF Session!Init, ConnectionTyped
<1>2. ASSUME ConnectionTyped, Session!Next PROVE ConnectionTyped'
  <2> USE DEF Session!messageVars, Session!sessionVars, Session!TaskOnly
  <2>1. ASSUME NEW o \in Session!Operations, Session!Receive(o), UNCHANGED init PROVE ConnectionTyped'
    BY <1>2, <2>1 DEF Session!Receive, ConnectionTyped
  <2>2. ASSUME NEW o \in Session!Operations,
               Session!TaskStep(o) \/ Session!EventComes(o) \/ Session!StreamEnds(o)
        PROVE  ConnectionTyped'
    <3>1. CASE Session!Dequeue(o)
      BY <2>1, <3>1 DEF Session!Dequeue
    <3>2. CASE ~Session!Dequeue(o)
      BY <1>2, <2>2, <3>2 DEF Session!TaskStep, Session!EventComes, Session!StreamEnds,
         Session!ContextEnds, Session!RunEnds, Session!ResultSent, Session!EventResolved,
         Session!EventSent, Session!Returned, Session!Broken, Session!Ending, Session!Leaving,
         Session!Failing, Session!CloseEnds, ConnectionTyped
    <3> QED
      BY <3>1, <3>2
  <2>3. CASE Session!Subscribe
    <3>1. Session!Receive(sent + 1) \/ UNCHANGED conn
      BY <2>3 DEF Session!Subscribe
    <3> QED
      BY <1>2, <2>3, <3>1 DEF Session!Subscribe, Session!Receive, ConnectionTyped
  <2>4. CASE Session!SessionStep
    BY <1>2, <2>4 DEF Session!SessionStep, Session!InitEnds, Session!InputEnds, Session!TasksSettled,
       Session!HooksEnd, Session!Resolve, Session!FinishRemaining, ConnectionTyped
  <2>5. CASE \/ Session!ConnectionInit \/ Session!Closing \/ Session!Closed
             \/ \E i \in OperationIds : Session!Complete(i)
    BY <1>2, <2>5 DEF Session!ConnectionInit, Session!Closing, Session!Closed, Session!Complete,
       ConnectionTyped
  <2> QED
    BY <1>2, <2>2, <2>3, <2>4, <2>5 DEF Session!Next
<1>3. ConnectionTyped /\ UNCHANGED sessionVars => ConnectionTyped'
  BY DEF sessionVars, ConnectionTyped
<1> QED
  BY <1>1, <1>2, <1>3

\* With them, SessionInv has the types of a session.
LEMMA SessionTypes == SessionInv /\ ConnectionTyped => Session!TypeOK
BY DEF SessionInv, SessionTyped, LiveTasks, PastTasks, ConnectionTyped, Session!TypeOK

\* ScopeInv has the types of a data scope.
LEMMA ScopeTypes == ScopeInv => Scope!TypeOK
<1> SUFFICES ASSUME ScopeInv PROVE Scope!TypeOK
  OBVIOUS
<1>1. /\ \A b \in Scope!Batches : waiting[b] \in Seq(Scope!Loads)
      /\ \A l \in Scope!Loads : flight[l] \in Seq(Scope!Loads)
  BY DEF ScopeInv, QueuesMade, MadeRequests
<1>2. ScopeTyped
  BY DEF ScopeInv
<1> QED
  BY <1>1, <1>2 DEF ScopeTyped, Scope!TypeOK, Scope!NoParent

\* TypeOK, of all six components.
THEOREM PeripheryTypeCorrect == Spec => []TypeOK
<1> DEFINE Typed ==
               /\ part \in Parts /\ Dev!TypeOK /\ Codegen!TypeOK
               /\ SessionInv /\ ConnectionTyped
               /\ ChannelInv /\ ScopeInv /\ TriggerInv
<1>1. Init => Typed
  BY DevTypes, CodegenTypes, SessionInit, ConnectionTypes, ChannelInit, ScopeInit, TriggerInit DEF Init
<1>2. Typed /\ [Next]_vars => Typed'
  <2> SUFFICES ASSUME Typed, [Next]_vars PROVE Typed'
    OBVIOUS
  <2>1. (part \in Parts)'
    BY DEF Next, Only, vars
  <2>2. Dev!TypeOK'
    <3>1. Dev!Next \/ UNCHANGED devVars
      BY DEF Next, Only, Unless, vars
    <3> QED
      BY <3>1, DevTypes
  <2>3. Codegen!TypeOK'
    <3>1. Codegen!Next \/ UNCHANGED codegenVars
      BY DEF Next, Only, Unless, vars
    <3> QED
      BY <3>1, CodegenTypes
  <2>4. SessionInv' /\ ConnectionTyped'
    <3>1. Session!Next \/ UNCHANGED sessionVars
      BY DEF Next, Only, Unless, vars
    <3> QED
      BY <3>1, SessionStep, SessionStutter, ConnectionTypes
  <2>5. ChannelInv'
    BY ChannelOrOther, ChannelStep, ChannelStutter
  <2>6. ScopeInv'
    <3>1. Scope!Next \/ UNCHANGED scopeVars
      BY DEF Next, Only, Unless, vars
    <3> QED
      BY <3>1, ScopeStep, ScopeStutter
  <2>7. TriggerInv'
    BY TriggerOrOther, TriggerStep, TriggerStutter
  <2> QED
    BY <2>1, <2>2, <2>3, <2>4, <2>5, <2>6, <2>7
<1>3. Typed => TypeOK
  BY ScopeTypes, SessionTypes DEF TypeOK, ChannelInv, TriggerInv
<1> QED
  BY <1>1, <1>2, <1>3, PTL DEF Spec

=============================================================================
