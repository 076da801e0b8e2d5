---------------------------- MODULE GraphqlCodegen ----------------------------
(***************************************************************************)
(* `loutre graphql generate --watch` (cli/graphql-cli.ts, graphql-codegen.ts):*)
(* generate() stages every target's new generation beside it, publishes    *)
(* them one after the other by renaming, and rolls all of them back when   *)
(* one cannot be published; the watcher starts it again when the input     *)
(* changes, also while it runs.                                            *)
(*                                                                         *)
(* A generation is the version of the input it was made from.  Every file  *)
(* operation may fail, and the process may be killed between any two; the  *)
(* next one finds the file system as it was left.  The set of inputs and   *)
(* their directories is fixed, and one process writes the outputs at a     *)
(* time.                                                                   *)
(***************************************************************************)
EXTENDS Naturals, FiniteSets

CONSTANTS
    NumTargets,   \* targets, in the order generate() takes them
    MaxVersions   \* bound: versions of the input

Targets  == 1 .. NumTargets
Versions == 1 .. MaxVersions
Absent   == 0
Damaged  == MaxVersions + 1   \* a directory whose removal failed half-way

VARIABLES
    input,       \* the version on disk of the SDL, the operations and the config
    event,       \* a change the watcher has not reported
    refreshTimer, \* the 50 ms timer is armed
    queued,      \* a refresh() was asked for while one runs
    stopped,     \* SIGINT or SIGTERM
    step,        \* where refresh() and its generate() are
    target,      \* the target the step is at
    made,        \* the version the generation under way was made from
    changed,     \* the targets it has to write
    staged,      \* those with a stage
    previous,    \* those that existed when they were staged
    mutated,     \* those whose root may have been replaced
    preserved,   \* those whose backup is kept
    outcome,     \* of the last generate()
    root,        \* the generation at each target's output path
    temporary,   \* the targets with a temporary output of this generate()
    backup,      \* what is in the backup this generate() made of each target
    before,      \* root, when the publication began (history)
    seen         \* the version the last generation was made from (history)

watchVars   == <<input, event, refreshTimer, queued, stopped>>
stageVars   == <<made, changed, staged, previous, mutated, preserved>>
fileVars    == <<root, temporary, backup>>
historyVars == <<before, seen>>
vars == <<watchVars, step, target, stageVars, outcome, fileVars, historyVars>>

Init ==
    /\ input = 1 /\ event = FALSE /\ refreshTimer = FALSE /\ queued = FALSE /\ stopped = FALSE
    /\ step = "refresh" /\ target = 1
    /\ made = 0 /\ changed = {} /\ staged = {} /\ previous = {} /\ mutated = {} /\ preserved = {}
    /\ outcome = "none"
    /\ root = [t \in Targets |-> Absent] /\ temporary = {}
    /\ backup = root
    /\ before = root /\ seen = 0

Alive   == step \notin {"dead", "exited"}
Running == step \notin {"idle", "dead", "exited"}

-----------------------------------------------------------------------------
(* watchGeneration()                                                       *)

Change ==
    /\ input < MaxVersions
    /\ input' = input + 1
    /\ event' = Alive
    /\ UNCHANGED <<refreshTimer, queued, stopped, step, target, stageVars, outcome,
                   fileVars, historyVars>>

\* The watcher's 'all': the timer is armed again.
Changed ==
    /\ Alive /\ event
    /\ event' = FALSE
    /\ refreshTimer' = ~stopped
    /\ UNCHANGED <<input, queued, stopped, step, target, stageVars, outcome, fileVars,
                   historyVars>>

\* The timer fires: refresh(), which only notes the wish while another one runs.
Refresh ==
    /\ Alive /\ refreshTimer
    /\ refreshTimer' = FALSE
    /\ IF Running
       THEN queued' = TRUE /\ UNCHANGED step
       ELSE step' = "refresh" /\ UNCHANGED queued
    /\ UNCHANGED <<input, event, stopped, target, stageVars, outcome, fileVars,
                   historyVars>>

Stop ==
    /\ Alive /\ ~stopped
    /\ stopped' = TRUE /\ refreshTimer' = FALSE
    /\ UNCHANGED <<input, event, queued, step, target, stageVars, outcome, fileVars,
                   historyVars>>

\* Nothing is left to do: the process ends by itself.
Exit ==
    /\ stopped /\ step = "idle"
    /\ step' = "exited"
    /\ UNCHANGED <<watchVars, target, stageVars, outcome, fileVars, historyVars>>

\* The process is killed, or the machine stops.
Crash ==
    /\ Running
    /\ step' = "dead"
    /\ event' = FALSE /\ refreshTimer' = FALSE /\ queued' = FALSE
    /\ UNCHANGED <<input, stopped, target, stageVars, outcome, fileVars, historyVars>>

\* Somebody runs the command again; it generates before it waits.
Restart ==
    /\ ~Alive
    /\ stopped' = FALSE
    /\ step' = "refresh"
    /\ UNCHANGED <<input, event, refreshTimer, queued, target, stageVars, outcome,
                   fileVars, historyVars>>

\* refresh() is over, and starts again if that was asked for.
EndRefresh(result) ==
    /\ outcome' = result
    /\ step' = IF queued /\ ~stopped THEN "refresh" ELSE "idle"
    /\ queued' = (queued /\ stopped)

-----------------------------------------------------------------------------
(* generate()                                                              *)

NoFiles == UNCHANGED fileVars

\* What an earlier generate() has left has names of its own, and is nobody's.
NewStages ==
    /\ staged' = {} /\ previous' = {} /\ mutated' = {} /\ preserved' = {}
    /\ temporary' = {} /\ backup' = [t \in Targets |-> Absent]
    /\ before' = root /\ UNCHANGED root

\* The input is read, and the new contents are compared with the files there are.
Plan ==
    /\ step = "refresh"
    /\ made' = input /\ seen' = input
    /\ \E differing \in SUBSET Targets :
           /\ \A t \in Targets : root[t] \in {Absent, Damaged} => t \in differing
           /\ changed' = differing
           /\ IF differing = {}
              THEN EndRefresh("resolved")
              ELSE step' = "stage" /\ UNCHANGED <<outcome, queued>>
    /\ target' = 1
    /\ NewStages /\ UNCHANGED <<input, event, refreshTimer, stopped>>

\* The input is invalid, or an output is not the generator's: nothing is touched.
PlanFails ==
    /\ step = "refresh"
    /\ seen' = input
    /\ EndRefresh("rejected")
    /\ NewStages /\ UNCHANGED <<input, event, refreshTimer, stopped, target, made,
                                changed>>

\* Fault: one target too many.
NextTargetTooFar(following) ==
    IF target <= NumTargets
    THEN target' = target + 1 /\ UNCHANGED step
    ELSE target' = 1 /\ step' = following

NextTarget(following) ==
    IF target < NumTargets
    THEN target' = target + 1 /\ UNCHANGED step
    ELSE target' = 1 /\ step' = following

GenerateOnly == UNCHANGED <<watchVars, made, changed, outcome, historyVars>>

\* mkdir and writeFile of the temporary output.
Stage(ok) ==
    /\ step = "stage"
    /\ IF target \in changed
       THEN /\ staged' = staged \union {target}
            /\ previous' = IF root[target] = Absent THEN previous ELSE previous \union {target}
            /\ temporary' = temporary \union {target}
            /\ IF ok THEN NextTarget("moveAway") ELSE step' = "rollback" /\ target' = NumTargets
       ELSE ok /\ NextTarget("moveAway") /\ UNCHANGED <<staged, previous, temporary>>
    /\ UNCHANGED <<mutated, preserved, root, backup>> /\ GenerateOnly

\* rename(root, backup) of a target that existed; from here on it is mutated.
MoveAway(ok) ==
    /\ step = "moveAway" /\ target \in staged
    /\ ok \/ target \in previous
    /\ IF ok
       THEN /\ IF target \in previous
               THEN /\ backup' = [backup EXCEPT ![target] = root[target]]
                    /\ root' = [root EXCEPT ![target] = Absent]
               ELSE UNCHANGED <<root, backup>>
            /\ mutated' = mutated \union {target}
            /\ step' = "publish" /\ UNCHANGED target
       ELSE step' = "rollback" /\ target' = NumTargets /\ UNCHANGED <<root, backup, mutated>>
    /\ UNCHANGED <<staged, previous, preserved, temporary>> /\ GenerateOnly

SkipUnchanged ==
    /\ step = "moveAway" /\ target \notin staged
    /\ NextTarget("clean")
    /\ NoFiles /\ UNCHANGED <<staged, previous, mutated, preserved>> /\ GenerateOnly

\* rename(temporary, root)
Publish(ok) ==
    /\ step = "publish"
    /\ IF ok
       THEN /\ root' = [root EXCEPT ![target] = made]
            /\ temporary' = temporary \ {target}
            /\ IF target < NumTargets
               THEN target' = target + 1 /\ step' = "moveAway"
               ELSE target' = 1 /\ step' = "clean"
       ELSE step' = "rollback" /\ target' = NumTargets /\ UNCHANGED <<root, temporary>>
    /\ UNCHANGED <<staged, previous, mutated, preserved, backup>> /\ GenerateOnly

\* The catch, from the last target to the first: rm(root), rename(backup, root).
Undone ==
    IF target > 1 THEN target' = target - 1 /\ UNCHANGED step
    ELSE UNCHANGED target /\ step' = "cleanFailed"

RollbackOnly == UNCHANGED <<staged, previous, mutated, temporary>> /\ GenerateOnly

SkipUnmutated ==
    /\ step = "rollback" /\ target \notin mutated
    /\ Undone
    /\ UNCHANGED <<preserved, root, backup>> /\ RollbackOnly

RemoveNew(ok) ==
    /\ step = "rollback" /\ target \in mutated
    /\ IF ok
       THEN /\ root' = [root EXCEPT ![target] = Absent]
            /\ IF target \in previous THEN step' = "restore" /\ UNCHANGED target ELSE Undone
            /\ UNCHANGED preserved
       ELSE /\ preserved' = preserved \union {target}
            /\ \E left \in {root[target], Damaged} :
                   root' = IF root[target] = Absent THEN root ELSE [root EXCEPT ![target] = left]
            /\ Undone
    /\ UNCHANGED backup /\ RollbackOnly

\* Fault: a backup that could not be moved back is not kept.
RestoreForgotten(ok) ==
    /\ step = "restore"
    /\ IF ok
       THEN /\ root' = [root EXCEPT ![target] = backup[target]]
            /\ backup' = [backup EXCEPT ![target] = Absent]
       ELSE UNCHANGED <<root, backup>>
    /\ IF target > 1 THEN target' = target - 1 /\ step' = "rollback"
       ELSE UNCHANGED target /\ step' = "cleanFailed"
    /\ UNCHANGED preserved
    /\ RollbackOnly

Restore(ok) ==
    /\ step = "restore"
    /\ IF ok
       THEN /\ root' = [root EXCEPT ![target] = backup[target]]
            /\ backup' = [backup EXCEPT ![target] = Absent]
            /\ UNCHANGED preserved
       ELSE /\ preserved' = preserved \union {target}
            /\ UNCHANGED <<root, backup>>
    /\ IF target > 1 THEN target' = target - 1 /\ step' = "rollback"
       ELSE UNCHANGED target /\ step' = "cleanFailed"
    /\ RollbackOnly

\* The finally: temporaries and the backups not preserved, in any order, each of
\* which may fail; generate() rejects if it did, or if it came through the catch, with
\* the error of the cleanup in the place of the one that names the preserved backups.
Clean(left, keptBackups) ==
    /\ step \in {"clean", "cleanFailed"}
    /\ left \subseteq staged /\ keptBackups \subseteq staged
    /\ temporary' = temporary \ (staged \ left)
    /\ backup' = [t \in Targets |->
           IF t \in staged \ (preserved \union keptBackups) THEN Absent ELSE backup[t]]
    /\ EndRefresh(IF (left \intersect temporary) \union keptBackups # {} THEN "unclean"
                  ELSE IF step = "clean" THEN "resolved"
                  ELSE IF preserved = {} THEN "rejected" ELSE "unrecovered")
    /\ UNCHANGED <<input, event, refreshTimer, stopped, target, stageVars, root,
                   historyVars>>

-----------------------------------------------------------------------------
GenerateStep ==
    \/ Plan \/ PlanFails \/ SkipUnchanged \/ SkipUnmutated
    \/ \E ok \in BOOLEAN : Stage(ok) \/ MoveAway(ok) \/ Publish(ok) \/ RemoveNew(ok) \/ Restore(ok)
    \/ \E left, keptBackups \in SUBSET Targets : Clean(left, keptBackups)

WatchStep == Changed \/ Refresh \/ Exit

Next == Change \/ Stop \/ Crash \/ Restart \/ WatchStep \/ GenerateStep

Spec == Init /\ [][Next]_vars

\* The process goes on.
CodegenFairness == WF_vars(GenerateStep) /\ WF_vars(WatchStep)

FairSpec == Spec /\ CodegenFairness

-----------------------------------------------------------------------------
(* Properties                                                              *)

TypeOK ==
    /\ input \in Versions /\ made \in 0 .. MaxVersions /\ seen \in 0 .. MaxVersions
    /\ event \in BOOLEAN /\ refreshTimer \in BOOLEAN /\ queued \in BOOLEAN /\ stopped \in BOOLEAN
    /\ step \in {"idle", "refresh", "stage", "moveAway", "publish", "rollback", "restore",
                 "clean", "cleanFailed", "dead", "exited"}
    /\ target \in Targets
    /\ \A s \in {changed, staged, previous, mutated, preserved, temporary} : s \subseteq Targets
    /\ outcome \in {"none", "resolved", "rejected", "unclean", "unrecovered"}
    /\ root \in [Targets -> 0 .. Damaged]
    /\ before \in [Targets -> 0 .. Damaged]
    /\ backup \in [Targets -> 0 .. Damaged]

\* generate() has rejected after it could not restore a target: its error names the
\* backup, unless the cleanup failed as well.
Unrecovered == preserved # {} /\ outcome \in {"unrecovered", "unclean"}

\* All targets move to the new generation, or all stay at the one before, or generate()
\* says that it failed; whatever file operation fails, and wherever the process is
\* killed, what a target held before is at its place or in a backup until all targets
\* hold the new one.
GenerationsKept ==
    LET published == \A t \in staged : root[t] = made
        restored  == \A t \in Targets : root[t] = before[t]
        inBackup  == \A t \in Targets : before[t] # Absent => before[t] \in {root[t], backup[t]}
    IN  /\ published \/ inBackup
        /\ step = "idle" => published \/ restored \/ Unrecovered

\* A generation has read the input as it is.
Generated == Alive /\ ~stopped => seen = input

=============================================================================
