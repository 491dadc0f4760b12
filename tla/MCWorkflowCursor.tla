-------------------------- MODULE MCWorkflowCursor --------------------------
(* Every graph over four steps for TLC. *)
EXTENDS WorkflowCursor, TLC

Steps == {"a", "b", "c", "j"}

\* Every graph over Steps with entry a, cyclic ones included.
Graphs ==
    {f \in [Steps -> SUBSET Steps] : \A s \in Steps : s \notin f[s]}

\* b is of any kind that changes how the workflow goes on; j is the join.
Kinds ==
    {[s \in Steps |-> IF s = "b" THEN k ELSE IF s = "j" THEN "join" ELSE "agent"] :
        k \in {"agent", "approval_wait", "reconcile"}}

FourStepGraphs ==
    {[entry |-> "a", kind |-> k, next |-> f, skills |-> {}] : k \in Kinds, f \in Graphs}
=============================================================================
