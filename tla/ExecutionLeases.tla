--------------------------- MODULE ExecutionLeases ---------------------------
(***************************************************************************)
(* What every execution extension promises to the kernel about the leases  *)
(* it holds (docs/adr/loutre_execution_extension_contract_architecture.md, *)
(* section 10): a lease is begun only while the extension accepts work, is *)
(* completed once, and not before the application code it stands for, a    *)
(* streamed body or a connection too, has ended; and a drain() resolves    *)
(* only when the extension accepts nothing and holds no lease.             *)
(***************************************************************************)
CONSTANT Executions

VARIABLES
    accepting,  \* the extension lets executions in
    lease,      \* per execution: none, active or completed
    busy,       \* its application code is, or may still be called
    drained     \* the extension's drain() has resolved

vars == <<accepting, lease, busy, drained>>

Init ==
    /\ accepting = TRUE
    /\ lease = [e \in Executions |-> "none"]
    /\ busy = [e \in Executions |-> FALSE]
    /\ drained = FALSE

\* The first of the application code may start in the same step.
Begin(e) ==
    /\ accepting /\ lease[e] = "none"
    /\ lease' = [lease EXCEPT ![e] = "active"]
    /\ busy' \in {busy, [busy EXCEPT ![e] = TRUE]}
    /\ UNCHANGED <<accepting, drained>>

\* Application code starts or ends, on behalf of executions that are active.
Work ==
    /\ busy' \in [Executions -> BOOLEAN]
    /\ \A e \in Executions : busy'[e] # busy[e] => lease[e] = "active"
    /\ UNCHANGED <<accepting, lease, drained>>

\* The last of the application code may end in the same step.
Complete(e) ==
    /\ lease[e] = "active"
    /\ lease' = [lease EXCEPT ![e] = "completed"]
    /\ busy' = [busy EXCEPT ![e] = FALSE]
    /\ UNCHANGED <<accepting, drained>>

\* An execution that ends in the step it begins in.
Pass(e) ==
    /\ accepting /\ lease[e] = "none"
    /\ lease' = [lease EXCEPT ![e] = "completed"]
    /\ UNCHANGED <<accepting, busy, drained>>

StopAccepting ==
    /\ accepting' = FALSE
    /\ UNCHANGED <<lease, busy, drained>>

Drained ==
    /\ ~accepting
    /\ \A e \in Executions : lease[e] # "active"
    /\ drained' = TRUE
    /\ UNCHANGED <<accepting, lease, busy>>

Next ==
    \/ \E e \in Executions : Begin(e) \/ Complete(e) \/ Pass(e)
    \/ Work \/ StopAccepting \/ Drained

Spec == Init /\ [][Next]_vars

-----------------------------------------------------------------------------
TypeOK ==
    /\ accepting \in BOOLEAN
    /\ lease \in [Executions -> {"none", "active", "completed"}]
    /\ busy \in [Executions -> BOOLEAN]
    /\ drained \in BOOLEAN

\* Application code runs only under an active lease, and a drain that has
\* resolved has ended all of it for good.
Safe ==
    /\ \A e \in Executions : busy[e] => lease[e] = "active"
    /\ drained => ~accepting /\ \A e \in Executions : lease[e] # "active"

=============================================================================
