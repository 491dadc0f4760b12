--------------------------- MODULE WorkflowCursor ---------------------------
(***************************************************************************)
(* One started workflow and its durable cursor: which branches of a graph   *)
(* are runnable after which steps finished (workbench/workflows.py, driven  *)
(* by complete_workflow_step of workbench/store.py).                        *)
(*                                                                         *)
(* Definitions are drawn from every graph that validate_definition accepts, *)
(* and the steps of the cursor finish in any order with any outcome.        *)
(***************************************************************************)
EXTENDS Integers, FiniteSets, WorkflowGraph

CONSTANTS
    Candidate     \* the definitions an operator may submit, valid or not

VARIABLES
    definition,   \* the pinned definition of the workflow
    status,       \* workflow.status, from "running" on
    cursor,       \* workflow.cursor
    finished      \* history: the steps that finished successfully

vars == <<definition, status, cursor, finished>>

Runnable == {"running", "waiting_approval"}
Closed   == {"completed", "reconciliation", "cancelled"}

TypeOK ==
    /\ ValidDefinition(definition)
    /\ status \in Runnable \cup Closed
    /\ cursor \subseteq StepsOf(definition)
    /\ finished \subseteq StepsOf(definition)

\* create_session validates the definition, start_workflow_run puts its entry
\* step in the cursor.
Init ==
    /\ definition \in {d \in Candidate : ValidDefinition(d)}
    /\ status = "running"
    /\ cursor = {definition.entry}
    /\ finished = {}

\* complete_workflow_step with outcome succeeded
FinishStep(step) ==
    LET next == AdvanceCursor(definition, cursor, step) IN
    /\ status \in Runnable
    /\ step \in cursor
    /\ status' = CursorStatus(definition, next)
    /\ cursor' = next
    /\ finished' = finished \cup {step}
    /\ UNCHANGED definition

\* complete_workflow_step with outcome failed or cancelled
AbortWorkflow(outcome) ==
    /\ status \in Runnable
    /\ cursor # {}
    /\ status' = IF outcome = "failed" THEN "reconciliation" ELSE "cancelled"
    /\ cursor' = {}
    /\ UNCHANGED <<definition, finished>>

Next ==
    \/ \E step \in cursor : FinishStep(step)
    \/ \E outcome \in {"failed", "cancelled"} : AbortWorkflow(outcome)

Spec == Init /\ [][Next]_vars

\* Whoever drives the workflow goes on finishing the steps the cursor offers.
FairSpec == Spec /\ WF_vars(\E step \in cursor : FinishStep(step))

-----------------------------------------------------------------------------
\* A step that has a join and another branch to that join as direct successors.
Shortcut(d) ==
    \E s \in StepsOf(d) : \E j, x \in d.next[s] :
        x # j /\ d.kind[j] = "join" /\ CanReach(d, x, j)

\* No join is runnable while another branch of the cursor can still reach it.
JoinBarrier ==
    \A j \in cursor : definition.kind[j] = "join" =>
        \A x \in cursor \ {j} : ~CanReach(definition, x, j)

\* The docstring of advance_cursor (workbench/workflows.py): "A join becomes
\* runnable only after no other unfinished cursor branch can still reach it".
JoinWaitsForEveryBranch == JoinBarrier

\* In a graph without shortcuts the barrier holds at every step and a join runs
\* once, however its branches interleave.
JoinRunsOnceAfterItsBranches ==
    ~Shortcut(definition) =>
        /\ JoinBarrier
        /\ \A j \in cursor : definition.kind[j] = "join" => j \notin finished

\* No branch is dropped when siblings merge: every successor of a finished step
\* has run, may run now, or is still ahead of a branch that may run.
NoBranchDropped ==
    status \in Runnable \cup {"completed"} =>
        \A s \in finished : \A n \in definition.next[s] :
            n \in finished \/ \E x \in cursor : CanReach(definition, x, n)

\* A workflow reads completed only when every step its entry leads to has run.
CompletedRanEverything ==
    status = "completed" =>
        \A n \in StepsOf(definition) :
            CanReach(definition, definition.entry, n) => n \in finished

\* Nothing is skipped: no branch is lost, and a completed workflow ran it all.
NothingIsSkipped == NoBranchDropped /\ CompletedRanEverything

\* A definition the validator accepts always comes to an end.
WorkflowCloses == <>(status \in Closed)

\* However its branches interleave, the cursor follows the graph: joins wait and run
\* once, and nothing is skipped.
GraphIsFollowed == JoinRunsOnceAfterItsBranches /\ NothingIsSkipped
=============================================================================
