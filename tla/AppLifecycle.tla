---------------------------- MODULE AppLifecycle ----------------------------
(***************************************************************************)
(* What the kernel promises to everything that uses an application,        *)
(* whatever happens inside (docs/adr/loutre_execution_extension_contract_  *)
(* architecture.md, section 11): work is admitted only while the           *)
(* application is open, a closing application never opens again, and its   *)
(* resources are released only after the last piece of work has ended.     *)
(* An attempt to close that fails before that point is a stuttering step:  *)
(* nothing observable happened, and closing can be attempted again.        *)
(***************************************************************************)
CONSTANT Leases

VARIABLES
    phase,  \* created, starting, open, closing, releasing or closed
    work    \* the executions under way

vars == <<phase, work>>

Init == phase = "created" /\ work = {}

Move(from, to) == phase = from /\ phase' = to /\ UNCHANGED work

Admit(l) ==
    /\ phase = "open"
    /\ l \notin work
    /\ work' = work \union {l}
    /\ UNCHANGED phase

Finish(l) ==
    /\ l \in work
    /\ work' = work \ {l}
    /\ UNCHANGED phase

Release ==
    /\ work = {}
    /\ Move("closing", "releasing")

Next ==
    \/ Move("created", "starting")
    \/ Move("created", "closed")
    \/ Move("starting", "open")
    \/ Move("starting", "releasing")
    \/ Move("open", "closing")
    \/ Release
    \/ Move("releasing", "closed")
    \/ \E l \in Leases : Admit(l) \/ Finish(l)

Spec == Init /\ [][Next]_vars

=============================================================================
