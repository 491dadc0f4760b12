--------------------------- MODULE WorkflowGraph ---------------------------
(***************************************************************************)
(* The pure graph part of workbench/workflows.py: what a valid definition   *)
(* is, and how the durable cursor moves when one of its steps finishes.     *)
(*                                                                         *)
(* A definition is a record [entry, kind, next, skills]: its entry step,    *)
(* the kind and the explicit successors of every step, and the skills the   *)
(* entry step selects.  The cursor, a tuple without repetition in the code, *)
(* is the set of its steps: nothing depends on their order.                 *)
(***************************************************************************)

StepsOf(d) == DOMAIN d.kind

\* _can_reach: the target is in every successor-closed set that holds start.
CanReach(d, start, target) ==
    \A C \in SUBSET StepsOf(d) :
        (start \in C /\ \A x \in C : d.next[x] \subseteq C) => target \in C

\* validate_definition: known entry and successors, no self-loop, no cycle.
ValidDefinition(d) ==
    /\ d.entry \in StepsOf(d)
    /\ DOMAIN d.next = StepsOf(d)
    /\ \A s \in StepsOf(d) : d.next[s] \subseteq StepsOf(d)
    /\ \A s \in StepsOf(d) : \A n \in d.next[s] : ~CanReach(d, n, s)

\* Mutant: a join does not wait.
MutantNoBarrier(d, cursor, done) == (cursor \ {done}) \cup d.next[done]

\* advance_cursor: the finished step leaves, its successors enter, and a join
\* that a branch still in the cursor can reach is left for that branch.
AdvanceCursor(d, cursor, done) ==
    LET remaining == cursor \ {done}
        Deferred(s) == /\ d.kind[s] = "join"
                       /\ \E active \in remaining : CanReach(d, active, s)
    IN  remaining \cup {s \in d.next[done] : ~Deferred(s)}

\* The status complete_workflow_step and finalize_run_command derive from the
\* cursor a successful step leaves.
CursorStatus(d, cursor) ==
    LET kinds == {d.kind[s] : s \in cursor}
    IN  IF cursor = {} THEN "completed"
        ELSE IF "approval_wait" \in kinds THEN "waiting_approval"
        ELSE IF "reconcile" \in kinds THEN "reconciliation"
        ELSE "running"

=============================================================================
