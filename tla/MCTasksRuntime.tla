---------------------------- MODULE MCTasksRuntime ----------------------------
(***************************************************************************)
(* Two triggers, so that one may be running when the other fails; two      *)
(* starts, the second after or during the first's stop.                    *)
(***************************************************************************)
EXTENDS TasksRuntime

MCNumTriggers == 2
MCMaxStarts   == 2

=============================================================================
