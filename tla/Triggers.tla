-------------------------------- MODULE Triggers --------------------------------
(***************************************************************************)
(* One trigger of the Tasks extension (tasks/extension.ts) between its     *)
(* start and its stop(): a cron schedule, a fixed delay, or the consumer of*)
(* a BullMQ queue (bullmq/src/index.ts).                                   *)
(*                                                                         *)
(* BullMQ is external: a worker hands a job to its processor while it is   *)
(* open, at most as many at a time as its concurrency, and close() ends    *)
(* when those jobs have.                                                   *)
(***************************************************************************)
EXTENDS Naturals

CONSTANTS
    MaxMinutes,   \* bound: minutes of the clock
    MaxFirings,   \* bound: in a minute, firings of a delay or jobs of a queue
    Concurrency   \* of the queue's worker

Kinds == {"cronSkip", "cronAllow", "delayed", "immediate", "queue"}
Crons == {"cronSkip", "cronAllow"}

VARIABLES
    kind,         \* of the trigger
    matching,     \* the minutes that match its expression
    minute,       \* the clock
    lastMinute,   \* the minute that was looked at last
    armed,        \* the interval of a cron, the timer of a delay, the worker of a queue
    loop,         \* of a delay: sleeping, woken, running or ended
    validating,   \* jobs of a queue whose payload is being validated
    runs,         \* runs of its task that have not settled
    firings,      \* runs it has begun, per minute
    stop          \* stop(): none, called or resolved

vars == <<kind, matching, minute, lastMinute, armed, loop, validating, runs, firings,
          stop>>

Minutes == 1 .. MaxMinutes

Init ==
    /\ kind \in Kinds
    /\ matching \in IF kind \in Crons THEN SUBSET Minutes ELSE {{}}
    /\ minute = 1 /\ lastMinute = 0
    /\ armed = FALSE /\ loop = "unstarted"
    /\ validating = 0 /\ runs = 0 /\ firings = [m \in Minutes |-> 0]
    /\ stop = "none"

Begun == runs' = runs + 1 /\ firings' = [firings EXCEPT ![minute] = @ + 1]

-----------------------------------------------------------------------------
(* Cron                                                                    *)

\* tick(): a minute is looked at once, also when its run is skipped.
TickOnce ==
    IF minute \in matching /\ lastMinute # minute
    THEN /\ lastMinute' = minute
         /\ IF kind = "cronSkip" /\ runs > 0 THEN UNCHANGED <<runs, firings>> ELSE Begun
    ELSE UNCHANGED <<lastMinute, runs, firings>>

StartCron ==
    /\ kind \in Crons /\ loop = "unstarted" /\ loop' = "none"
    /\ armed' = TRUE
    /\ TickOnce
    /\ UNCHANGED <<kind, matching, validating, minute, stop>>

\* The interval fires every second, but for a busy event loop; TickOnce changes
\* nothing at most of them.
Tick ==
    /\ kind \in Crons /\ armed
    /\ TickOnce
    /\ UNCHANGED <<kind, matching, validating, minute, armed, loop, stop>>

ClockTicks ==
    /\ minute < MaxMinutes /\ minute' = minute + 1
    /\ UNCHANGED <<kind, matching, validating, lastMinute, armed, loop, runs, firings,
                   stop>>

CronRunEnds ==
    /\ kind \in Crons /\ runs > 0
    /\ runs' = runs - 1
    /\ UNCHANGED <<kind, matching, validating, minute, lastMinute, armed, loop, firings,
                   stop>>

-----------------------------------------------------------------------------
(* Fixed delay                                                             *)

Delays == {"delayed", "immediate"}

StartDelay ==
    /\ kind \in Delays /\ loop = "unstarted"
    /\ IF kind = "immediate"
       THEN loop' = "running" /\ Begun /\ UNCHANGED armed
       ELSE loop' = "sleeping" /\ armed' = TRUE /\ UNCHANGED <<runs, firings>>
    /\ UNCHANGED <<kind, matching, validating, minute, lastMinute, stop>>

\* The timer resolves the sleep; the loop goes on in a later microtask.
TimerFires ==
    /\ kind \in Delays /\ armed /\ loop = "sleeping"
    /\ firings[minute] < MaxFirings
    /\ armed' = FALSE /\ loop' = "woken"
    /\ UNCHANGED <<kind, matching, validating, minute, lastMinute, runs, firings, stop>>

\* Fault: the loop does not look at stopped after its sleep.
WakeUnchecked ==
    /\ loop = "woken"
    /\ loop' = "running" /\ Begun
    /\ UNCHANGED <<kind, matching, validating, minute, lastMinute, armed, stop>>

Wake ==
    /\ loop = "woken"
    /\ IF stop # "none"
       THEN loop' = "ended" /\ UNCHANGED <<runs, firings>>
       ELSE loop' = "running" /\ Begun
    /\ UNCHANGED <<kind, matching, validating, minute, lastMinute, armed, stop>>

DelayRunEnds ==
    /\ loop = "running"
    /\ runs' = runs - 1
    /\ IF stop # "none" THEN loop' = "ended" /\ UNCHANGED armed
       ELSE loop' = "sleeping" /\ armed' = TRUE
    /\ UNCHANGED <<kind, matching, validating, minute, lastMinute, firings, stop>>

-----------------------------------------------------------------------------
(* Queue                                                                   *)

\* start() of the driver, which has waited until the worker is ready.
StartQueue ==
    /\ kind = "queue" /\ loop = "unstarted" /\ loop' = "none"
    /\ armed' = TRUE
    /\ UNCHANGED <<kind, matching, validating, minute, lastMinute, runs, firings, stop>>

\* The worker hands a job over, and consume() validates its payload.
Job ==
    /\ kind = "queue" /\ armed /\ validating + runs < Concurrency
    /\ firings[minute] < MaxFirings
    /\ validating' = validating + 1
    /\ UNCHANGED <<kind, matching, minute, lastMinute, armed, loop, runs, firings, stop>>

\* The payload is valid: the task is run, also when stop() has been called meanwhile.
JobValidated ==
    /\ validating > 0 /\ validating' = validating - 1
    /\ Begun
    /\ UNCHANGED <<kind, matching, minute, lastMinute, armed, loop, stop>>

\* It is not, or the extension refuses the run because it is draining.
JobRefused ==
    /\ validating > 0 /\ validating' = validating - 1
    /\ UNCHANGED <<kind, matching, minute, lastMinute, armed, loop, runs, firings, stop>>

JobEnds ==
    /\ kind = "queue" /\ runs > 0
    /\ runs' = runs - 1
    /\ UNCHANGED <<kind, matching, validating, minute, lastMinute, armed, loop, firings,
                   stop>>

-----------------------------------------------------------------------------
(* stop()                                                                  *)

\* A sleep is released, an interval cleared, a worker closed.
StopCalled ==
    /\ loop # "unstarted" /\ stop = "none" /\ stop' = "called"
    /\ armed' = FALSE
    /\ loop' = IF loop = "sleeping" THEN "woken" ELSE loop
    /\ UNCHANGED <<kind, matching, validating, minute, lastMinute, runs, firings>>

\* The active runs have settled, the loop has ended or the worker is closed, which
\* waits for the jobs it has handed over.
StopResolves ==
    /\ stop = "called" /\ stop' = "resolved"
    /\ IF kind \in Delays THEN loop = "ended" ELSE validating + runs = 0
    /\ UNCHANGED <<kind, matching, validating, minute, lastMinute, armed, loop, runs,
                   firings>>

-----------------------------------------------------------------------------
RunEnds == CronRunEnds \/ DelayRunEnds \/ JobEnds
ValidationEnds == JobValidated \/ JobRefused

Next ==
    \/ StartCron \/ StartDelay \/ StartQueue
    \/ Tick \/ ClockTicks \/ TimerFires \/ Wake \/ Job
    \/ ValidationEnds \/ RunEnds \/ StopCalled \/ StopResolves

Spec == Init /\ [][Next]_vars

\* Validations and runs settle, and the event loop goes on.
FairSpec ==
    /\ Spec
    /\ WF_vars(ValidationEnds) /\ WF_vars(RunEnds) /\ WF_vars(Wake) /\ WF_vars(StopResolves)

-----------------------------------------------------------------------------
(* Properties                                                              *)

TypeOK ==
    /\ kind \in Kinds /\ matching \subseteq Minutes
    /\ minute \in Minutes /\ lastMinute \in 0 .. MaxMinutes
    /\ armed \in BOOLEAN
    /\ loop \in {"unstarted", "none", "sleeping", "woken", "running", "ended"}
    /\ validating \in Nat /\ runs \in Nat /\ firings \in [Minutes -> Nat]
    /\ stop \in {"none", "called", "resolved"}

\* The jobs of a queue that its worker has handed over.
InHand == validating + runs

\* What is stopping takes no work on.
BeginsNothing ==
    stop # "none" => IF kind = "queue" THEN InHand' <= InHand ELSE firings' = firings

\* After stop() has been called no run begins, but of a job that was handed over
\* before; and when it has resolved none is left and nothing could begin one; only a
\* cron that allows it, and a queue within its concurrency, overlap their runs; a cron
\* fires once in a minute that matches, and in no other.
StoppedTriggersAreQuiet ==
    /\ [][BeginsNothing]_vars
    /\ [](stop = "resolved" => InHand = 0 /\ ~armed /\ loop \in {"none", "ended"})
    /\ [](kind \notin {"cronAllow", "queue"} => InHand <= 1)
    /\ [](kind = "queue" => InHand <= Concurrency)
    /\ [](kind \in Crons => \A m \in Minutes : firings[m] <= IF m \in matching THEN 1 ELSE 0)

\* stop() resolves.
TriggersStop == []<>(stop # "called")

=============================================================================
