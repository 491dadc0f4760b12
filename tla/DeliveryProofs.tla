--------------------------- MODULE DeliveryProofs ---------------------------
(***************************************************************************)
(* Proofs about Delivery, for every set of sessions, runs, approvals,       *)
(* bridges and worktrees and every valid workflow definition.              *)
(***************************************************************************)
EXTENDS Delivery, TLAPS

-----------------------------------------------------------------------------
(* The workflow graph *)

\* Every step of a submitted definition is a member of Step, and the successors
\* of a step stay inside the definition.
LEMMA DefinitionSteps ==
    ASSUME NEW d \in Definition
    PROVE  /\ StepsOf(d) \subseteq Step
           /\ d.entry \in Step
           /\ \A s \in StepsOf(d) : d.next[s] \subseteq Step
<1>1. StepsOf(d) \subseteq Step
  BY DEF Step
<1>2. ValidDefinition(d)
  BY DefinitionsValid
<1>3. d.entry \in StepsOf(d) /\ \A s \in StepsOf(d) : d.next[s] \subseteq StepsOf(d)
  BY <1>2 DEF ValidDefinition
<1>4. QED
  BY <1>1, <1>3

\* advance_cursor never leaves the definition's steps.
LEMMA AdvanceStaysInside ==
    ASSUME NEW d \in Definition, NEW cursor \in SUBSET StepsOf(d), NEW done \in cursor
    PROVE  AdvanceCursor(d, cursor, done) \in SUBSET StepsOf(d)
<1>1. ValidDefinition(d)
  BY DefinitionsValid
<1>2. d.next[done] \subseteq StepsOf(d)
  BY <1>1 DEF ValidDefinition
<1>3. QED
  BY <1>2 DEF AdvanceCursor

\* The status derived from a cursor is one a workflow may have.
LEMMA CursorStatusType ==
    ASSUME NEW d, NEW cursor
    PROVE  CursorStatus(d, cursor) \in WorkflowStatus \ {"none", "draft"}
BY DEF CursorStatus, WorkflowStatus

\* The entry step belongs to its definition.
LEMMA EntryIsAStep ==
    ASSUME NEW d \in Definition
    PROVE  d.entry \in StepsOf(d) /\ StepsOf(d) \subseteq Step
<1>1. ValidDefinition(d)
  BY DefinitionsValid
<1>2. QED
  BY <1>1, DefinitionSteps DEF ValidDefinition

-----------------------------------------------------------------------------
(* What the helpers return *)

LEMMA EnqueuedType ==
    ASSUME CommandTyped, NEW c \in CommandId, NEW b \in Bridge
    PROVE  Enqueued(c, b) \in [CommandId -> CommandRecord]
BY DEF CommandTyped, CommandRecord, Enqueued

LEMMA DequeuedType ==
    ASSUME CommandTyped, NEW c \in CommandId
    PROVE  Dequeued(c) \in [CommandId -> CommandRecord]
<1>1. NoCommand \in CommandRecord
  BY DEF NoCommand, CommandRecord
<1>2. ASSUME NEW d \in CommandId
      PROVE  [command[d] EXCEPT !.ahead = @ \ {c}] \in CommandRecord
  BY DEF CommandTyped, CommandRecord
<1>3. QED
  BY <1>1, <1>2 DEF Dequeued

LEMMA ReleasedType ==
    ASSUME LeaseTyped, NEW s \in Session
    PROVE  Released(s) \in [Worktree -> LeaseRecord]
BY ConstantsOK DEF LeaseTyped, LeaseRecord, Released

\* Reconciling a session leaves a typed lease table and typed workflows.
LEMMA ReconcileSessionType ==
    ASSUME LeaseTyped, WorkflowTyped, NEW r \in Run, ReconcileSession(r),
           r \in Session => workflow[r].status \notin {"none", "draft"}
    PROVE  LeaseTyped' /\ WorkflowTyped'
<1>1. LeaseTyped'
  BY ReleasedType DEF ReconcileSession, LeaseTyped
<1>2. WorkflowTyped'
  <2>1. CASE UNCHANGED workflow
    BY <2>1 DEF WorkflowTyped
  <2>2. CASE workflow' = [workflow EXCEPT ![r].status = "reconciliation", ![r].cursor = {}]
             /\ r \in Session /\ workflow[r].status \notin WorkflowClosed
    <3>1. [workflow[r] EXCEPT !.status = "reconciliation", !.cursor = {}] \in WorkflowRecord
      BY <2>2 DEF WorkflowTyped, WorkflowRecord, WorkflowStatus
    <3>2. workflow'[r].cursor = {} /\ workflow'[r].definition = workflow[r].definition
          /\ workflow'[r].status = "reconciliation"
      BY <2>2 DEF WorkflowTyped, WorkflowRecord
    <3>3. workflow' \in [Session -> WorkflowRecord]
      BY <2>2, <3>1 DEF WorkflowTyped
    <3>4. \A s \in Session \ {r} : workflow'[s] = workflow[s]
      BY <2>2 DEF WorkflowTyped
    <3>5. QED
      BY <2>2, <3>2, <3>3, <3>4 DEF WorkflowTyped
  <2>3. QED
    BY <2>1, <2>2 DEF ReconcileSession
<1>3. QED
  BY <1>1, <1>2

LEMMA FinishRunStepType ==
    ASSUME WorkflowTyped, NEW s \in Session, FinishRunStep(s)
    PROVE  WorkflowTyped'
<1> DEFINE d == workflow[s].definition
           next == AdvanceCursor(d, workflow[s].cursor, d.entry)
<1>1. CASE UNCHANGED workflow
  BY <1>1 DEF WorkflowTyped
<1>2. CASE /\ workflow[s].status \in {"running", "waiting_approval"}
           /\ d.entry \in workflow[s].cursor
           /\ workflow' = [workflow EXCEPT ![s].status = CursorStatus(d, next),
                                           ![s].cursor = next]
  <2>1. d \in Definition /\ workflow[s].cursor \in SUBSET StepsOf(d)
    BY <1>2 DEF WorkflowTyped
  <2>2. next \in SUBSET StepsOf(d) /\ StepsOf(d) \subseteq Step
    BY <1>2, <2>1, AdvanceStaysInside, EntryIsAStep
  <2>3. CursorStatus(d, next) \in WorkflowStatus \ {"none", "draft"}
    BY CursorStatusType
  <2> HIDE DEF next
  <2>4. QED
    BY <1>2, <2>1, <2>2, <2>3 DEF WorkflowTyped, WorkflowRecord
<1>3. QED
  BY <1>1, <1>2 DEF FinishRunStep

-----------------------------------------------------------------------------
(* TypeOK is inductive *)

LEMMA TypeStep ==
    ASSUME TypeOK, RunAndWorkflowAgree, [Next]_vars
    PROVE  TypeOK'
<1> USE ConstantsOK DEF TypeOK
<1>1. ASSUME NEW b \in Bridge, RegisterBridge(b)
      PROVE  TypeOK'
  <2>1. WorkflowTyped' /\ RunTyped' /\ LeaseTyped' /\ ApprovalTyped' /\ CommandTyped' /\ HandlerTyped'
    BY <1>1 DEF RegisterBridge, WorkflowTyped, RunTyped, LeaseTyped, ApprovalTyped, CommandTyped, HandlerTyped
  <2>2. BridgesTyped'
    BY <1>1 DEF RegisterBridge, BridgesTyped
  <2>3. QED
    BY <2>1, <2>2
<1>2. ASSUME NEW s \in Session, NEW d \in Definition, CreateSession(s, d)
      PROVE  TypeOK'
  <2>1. BridgesTyped' /\ RunTyped' /\ LeaseTyped' /\ ApprovalTyped' /\ CommandTyped' /\ HandlerTyped'
    BY <1>2 DEF CreateSession, BridgesTyped, RunTyped, LeaseTyped, ApprovalTyped, CommandTyped, HandlerTyped
  <2>2. WorkflowTyped'
    BY <1>2 DEF CreateSession, WorkflowTyped, WorkflowRecord, WorkflowStatus
  <2>3. QED
    BY <2>1, <2>2
<1>3. ASSUME NEW s \in Session, NEW d \in Definition, NEW v \in 1..MaxVersion, ReviseWorkflow(s, d, v)
      PROVE  TypeOK'
  <2>1. BridgesTyped' /\ RunTyped' /\ LeaseTyped' /\ ApprovalTyped' /\ CommandTyped' /\ HandlerTyped'
    BY <1>3 DEF ReviseWorkflow, BridgesTyped, RunTyped, LeaseTyped, ApprovalTyped, CommandTyped, HandlerTyped
  <2>2. WorkflowTyped'
    BY <1>3 DEF ReviseWorkflow, WorkflowTyped, WorkflowRecord, WorkflowStatus
  <2>3. QED
    BY <2>1, <2>2
<1>4. ASSUME NEW s \in Session, StartWorkflowRun(s)
      PROVE  TypeOK'
  <2>1. BridgesTyped' /\ ApprovalTyped' /\ HandlerTyped'
    BY <1>4 DEF StartWorkflowRun, BridgesTyped, ApprovalTyped, HandlerTyped
  <2>2. WorkflowTyped'
    <3>1. workflow[s].definition \in Definition
      BY <1>4 DEF StartWorkflowRun, WorkflowTyped
    <3>2. {workflow[s].definition.entry} \in SUBSET StepsOf(workflow[s].definition)
          /\ StepsOf(workflow[s].definition) \subseteq Step
      BY <3>1, EntryIsAStep
    <3> DEFINE new == [workflow[s] EXCEPT !.status = "running",
                                          !.cursor = {workflow[s].definition.entry}]
    <3>3. new \in WorkflowRecord /\ new.status = "running"
          /\ new.definition = workflow[s].definition
          /\ new.cursor = {workflow[s].definition.entry}
      BY <1>4, <3>1, <3>2 DEF WorkflowTyped, WorkflowRecord, WorkflowStatus
    <3>4. workflow' = [workflow EXCEPT ![s] = new]
      BY <1>4 DEF StartWorkflowRun, WorkflowTyped
    <3> HIDE DEF new
    <3>5. QED
      BY <3>1, <3>2, <3>3, <3>4 DEF WorkflowTyped
  <2>3. RunTyped'
    BY <1>4 DEF StartWorkflowRun, NextEpoch, LeaseOf, RunTyped, RunRecord, RunStatus,
                LeaseTyped, LeaseRecord, Run
  <2>4. LeaseTyped'
    BY <1>4 DEF StartWorkflowRun, NextEpoch, LeaseOf, LeaseTyped, LeaseRecord
  <2>5. CommandTyped'
    <3>1. owner \in Bridge /\ s \in CommandId
      BY <1>4 DEF StartWorkflowRun, BridgesTyped, CommandId, Run
    <3>2. QED
      BY <1>4, <3>1, EnqueuedType DEF StartWorkflowRun, CommandTyped
  <2>6. QED
    BY <2>1, <2>2, <2>3, <2>4, <2>5
<1>5. ASSUME NEW r \in SimpleRun, CreateSimpleRun(r)
      PROVE  TypeOK'
  <2>1. BridgesTyped' /\ WorkflowTyped' /\ LeaseTyped' /\ ApprovalTyped' /\ CommandTyped'
    BY <1>5 DEF CreateSimpleRun, BridgesTyped, WorkflowTyped, LeaseTyped, ApprovalTyped, CommandTyped
  <2>2. RunTyped'
    BY <1>5 DEF CreateSimpleRun, RunTyped, RunRecord, RunStatus, Run, RunTransition
  <2>3. HandlerTyped'
    BY <1>5 DEF CreateSimpleRun, HandlerTyped, BridgesTyped
  <2>4. QED
    BY <2>1, <2>2, <2>3
<1>6. ASSUME NEW r \in SimpleRun, EnqueueSimpleRun(r)
      PROVE  TypeOK'
  <2>1. BridgesTyped' /\ WorkflowTyped' /\ RunTyped' /\ LeaseTyped' /\ ApprovalTyped'
    BY <1>6 DEF EnqueueSimpleRun, BridgesTyped, WorkflowTyped, RunTyped, LeaseTyped, ApprovalTyped
  <2>2. CommandTyped'
    <3>1. handler[r] \in Bridge /\ r \in CommandId
      BY <1>6 DEF EnqueueSimpleRun, HandlerTyped, CommandId, Run
    <3>2. QED
      BY <1>6, <3>1, EnqueuedType DEF EnqueueSimpleRun, CommandTyped
  <2>3. HandlerTyped'
    BY <1>6 DEF EnqueueSimpleRun, HandlerTyped, Run
  <2>4. QED
    BY <2>1, <2>2, <2>3
<1>7. ASSUME NEW a \in Approval, NEW s \in Session, NEW action \in Action, NEW b \in Bridge, CreateApproval(a, s, action, b)
      PROVE  TypeOK'
  <2>1. BridgesTyped' /\ WorkflowTyped' /\ RunTyped' /\ LeaseTyped' /\ CommandTyped' /\ HandlerTyped'
    BY <1>7 DEF CreateApproval, BridgesTyped, WorkflowTyped, RunTyped, LeaseTyped, CommandTyped, HandlerTyped
  <2>2. ApprovalTyped'
    <3>1. run[s].epoch \in Nat
      BY DEF RunTyped, RunRecord, Run
    <3>2. QED
      BY <1>7, <3>1 DEF CreateApproval, ApprovalTyped, ApprovalRecord, ApprovalStatus
  <2>3. QED
    BY <2>1, <2>2
<1>8. ASSUME NEW a \in Approval, Approve(a)
      PROVE  TypeOK'
  <2>1. BridgesTyped' /\ WorkflowTyped' /\ RunTyped' /\ LeaseTyped' /\ CommandTyped'
    BY <1>8 DEF Approve, BridgesTyped, WorkflowTyped, RunTyped, LeaseTyped, CommandTyped
  <2>2. ApprovalTyped'
    BY <1>8 DEF Approve, ApprovalTyped, ApprovalRecord, ApprovalStatus
  <2>3. HandlerTyped'
    BY <1>8 DEF Approve, HandlerTyped, ApprovalTyped
  <2>4. QED
    BY <2>1, <2>2, <2>3
<1>9. ASSUME NEW a \in Approval, EnqueueApproved(a)
      PROVE  TypeOK'
  <2>1. BridgesTyped' /\ WorkflowTyped' /\ RunTyped' /\ LeaseTyped' /\ ApprovalTyped'
    BY <1>9 DEF EnqueueApproved, BridgesTyped, WorkflowTyped, RunTyped, LeaseTyped, ApprovalTyped
  <2>2. CommandTyped'
    <3>1. handler[a] \in Bridge /\ a \in CommandId
      BY <1>9 DEF EnqueueApproved, HandlerTyped, CommandId, Run
    <3>2. QED
      BY <1>9, <3>1, EnqueuedType DEF EnqueueApproved, CommandTyped
  <2>3. HandlerTyped'
    BY <1>9 DEF EnqueueApproved, HandlerTyped, Run
  <2>4. QED
    BY <2>1, <2>2, <2>3
<1>10. ASSUME NEW p \in Probe, EnqueueSkillProbe(p)
      PROVE  TypeOK'
  <2>1. BridgesTyped' /\ WorkflowTyped' /\ RunTyped' /\ LeaseTyped' /\ ApprovalTyped' /\ HandlerTyped'
    BY <1>10 DEF EnqueueSkillProbe, BridgesTyped, WorkflowTyped, RunTyped, LeaseTyped, ApprovalTyped, HandlerTyped
  <2>2. CommandTyped'
    <3>1. owner \in Bridge /\ p \in CommandId
      BY <1>10 DEF EnqueueSkillProbe, BridgesTyped, CommandId, Run
    <3>2. QED
      BY <1>10, <3>1, EnqueuedType DEF EnqueueSkillProbe, CommandTyped
  <2>3. QED
    BY <2>1, <2>2
<1>11. ASSUME NEW b \in Bridge, NEW K \in SUBSET Skill, PublishSkills(b, K)
      PROVE  TypeOK'
  <2>1. WorkflowTyped' /\ RunTyped' /\ LeaseTyped' /\ ApprovalTyped' /\ CommandTyped' /\ HandlerTyped'
    BY <1>11 DEF PublishSkills, WorkflowTyped, RunTyped, LeaseTyped, ApprovalTyped, CommandTyped, HandlerTyped
  <2>2. BridgesTyped'
    BY <1>11 DEF PublishSkills, BridgesTyped
  <2>3. QED
    BY <2>1, <2>2
<1>12. ASSUME NEW b \in Bridge, NEW c \in CommandId, NextCommand(b, c)
      PROVE  TypeOK'
  <2>1. BridgesTyped' /\ WorkflowTyped' /\ RunTyped' /\ LeaseTyped' /\ ApprovalTyped' /\ HandlerTyped'
    BY <1>12 DEF NextCommand, BridgesTyped, WorkflowTyped, RunTyped, LeaseTyped, ApprovalTyped, HandlerTyped
  <2>2. CommandTyped'
    <3>1. [command[c] EXCEPT !.leased = TRUE] \in CommandRecord
      <4>1. command[c] \in CommandRecord
        BY DEF CommandTyped
      <4>2. QED
        BY <4>1 DEF CommandRecord
    <3>2. command' = [command EXCEPT ![c] = [command[c] EXCEPT !.leased = TRUE]]
      BY <1>12 DEF NextCommand, CommandTyped
    <3>3. QED
      BY <3>1, <3>2 DEF CommandTyped
  <2>3. QED
    BY <2>1, <2>2
<1>13. ASSUME NEW b \in Bridge, NEW c \in CommandId, AcknowledgeCommand(b, c)
      PROVE  TypeOK'
  <2>1. BridgesTyped' /\ WorkflowTyped' /\ RunTyped' /\ LeaseTyped' /\ ApprovalTyped' /\ HandlerTyped'
    BY <1>13 DEF AcknowledgeCommand, BridgesTyped, WorkflowTyped, RunTyped, LeaseTyped, ApprovalTyped, HandlerTyped
  <2>2. CommandTyped'
    BY <1>13, DequeuedType DEF AcknowledgeCommand, CommandTyped, CommandRecord, CommandId, Run
  <2>3. QED
    BY <2>1, <2>2
<1>14. ASSUME NEW b \in Bridge, NEW s \in Session, RenewRunLease(b, s)
      PROVE  TypeOK'
  <2>1. BridgesTyped' /\ WorkflowTyped' /\ RunTyped' /\ ApprovalTyped' /\ CommandTyped' /\ HandlerTyped'
    BY <1>14 DEF RenewRunLease, BridgesTyped, WorkflowTyped, RunTyped, ApprovalTyped, CommandTyped, HandlerTyped
  <2>2. LeaseTyped'
    BY <1>14 DEF RenewRunLease, LeaseTyped, LeaseRecord
  <2>3. QED
    BY <2>1, <2>2
<1>15. ASSUME NEW b \in Bridge, NEW s \in Session, ReleaseRunLease(b, s)
      PROVE  TypeOK'
  <2>1. BridgesTyped' /\ WorkflowTyped' /\ RunTyped' /\ ApprovalTyped' /\ CommandTyped' /\ HandlerTyped'
    BY <1>15 DEF ReleaseRunLease, BridgesTyped, WorkflowTyped, RunTyped, ApprovalTyped, CommandTyped, HandlerTyped
  <2>2. LeaseTyped'
    BY <1>15, ReleasedType DEF ReleaseRunLease, LeaseTyped, LeaseRecord
  <2>3. QED
    BY <2>1, <2>2
<1>16. ASSUME NEW b \in Bridge, NEW r \in Run, NEW status \in RunStatus, UpdateRunStatus(b, r, status)
      PROVE  TypeOK'
  <2>1. BridgesTyped' /\ ApprovalTyped' /\ CommandTyped' /\ HandlerTyped'
    BY <1>16 DEF UpdateRunStatus, BridgesTyped, ApprovalTyped, CommandTyped, HandlerTyped
  <2>2. RunTyped'
    BY <1>16 DEF UpdateRunStatus, RunTyped, RunRecord, RunStatus, Run, RunTransition
  <2>3. LeaseTyped'
    <3>1. r \in Session => workflow[r].status \notin {"none", "draft"}
      BY <1>16 DEF UpdateRunStatus, RunTransition, RunAndWorkflowAgree, Started
    <3>2. QED
      BY <1>16, <3>1, ReconcileSessionType DEF UpdateRunStatus, LeaseTyped
  <2>4. WorkflowTyped'
    <3>1. r \in Session => workflow[r].status \notin {"none", "draft"}
      BY <1>16 DEF UpdateRunStatus, RunTransition, RunAndWorkflowAgree, Started
    <3>2. QED
      BY <1>16, <3>1, ReconcileSessionType DEF UpdateRunStatus, WorkflowTyped
  <2>5. QED
    BY <2>1, <2>2, <2>3, <2>4
<1>17. ASSUME NEW b \in Bridge, NEW r \in Run, NEW status \in RunStatus, FinalizeRunCommand(b, r, status)
      PROVE  TypeOK'
  <2>1. BridgesTyped' /\ ApprovalTyped' /\ HandlerTyped'
    BY <1>17 DEF FinalizeRunCommand, BridgesTyped, ApprovalTyped, HandlerTyped
  <2>2. RunTyped'
    BY <1>17 DEF FinalizeRunCommand, RunTyped, RunRecord, RunStatus, Run, RunTransition
  <2>3. LeaseTyped'
    <3>1. r \in Session => workflow[r].status \notin {"none", "draft"}
      BY <1>17 DEF FinalizeRunCommand, RunTransition, RunAndWorkflowAgree, Started
    <3>2. QED
      BY <1>17, <3>1, ReconcileSessionType DEF FinalizeRunCommand, LeaseTyped
  <2>4. WorkflowTyped'
    <3>1. r \in Session => workflow[r].status \notin {"none", "draft"}
      BY <1>17 DEF FinalizeRunCommand, RunTransition, RunAndWorkflowAgree, Started
    <3>2. QED
      BY <1>17, <3>1, ReconcileSessionType, FinishRunStepType
         DEF FinalizeRunCommand, WorkflowTyped
  <2>5. CommandTyped'
    BY <1>17, DequeuedType DEF FinalizeRunCommand, CommandTyped, CommandRecord, CommandId, Run
  <2>6. QED
    BY <2>1, <2>2, <2>3, <2>4, <2>5
<1>18. ASSUME NEW b \in Bridge, NEW s \in Session, NEW step \in workflow[s].cursor, NEW outcome \in {"succeeded", "failed", "cancelled"}, CompleteWorkflowStep(b, s, step, outcome)
      PROVE  TypeOK'
  <2>1. BridgesTyped' /\ RunTyped' /\ LeaseTyped' /\ ApprovalTyped' /\ CommandTyped' /\ HandlerTyped'
    BY <1>18 DEF CompleteWorkflowStep, BridgesTyped, RunTyped, LeaseTyped, ApprovalTyped, CommandTyped, HandlerTyped
  <2>2. WorkflowTyped'
    <3> DEFINE wd   == workflow[s].definition
               next == AdvanceCursor(wd, workflow[s].cursor, step)
    <3>1. wd \in Definition /\ workflow[s].cursor \in SUBSET StepsOf(wd)
      BY <1>18 DEF CompleteWorkflowStep, WorkflowTyped
    <3>2. next \in SUBSET StepsOf(wd) /\ StepsOf(wd) \subseteq Step
      BY <1>18, <3>1, AdvanceStaysInside, EntryIsAStep
    <3>3. CursorStatus(wd, next) \in WorkflowStatus \ {"none", "draft"}
      BY CursorStatusType
    <3>4. PICK st \in WorkflowStatus \ {"none", "draft"}, cur \in {next, {}} :
             workflow' = [workflow EXCEPT ![s].status = st, ![s].cursor = cur]
      BY <1>18, <3>3 DEF CompleteWorkflowStep, WorkflowStatus
    <3> HIDE DEF next
    <3>5. QED
      BY <3>1, <3>2, <3>4 DEF WorkflowTyped, WorkflowRecord
  <2>3. QED
    BY <2>1, <2>2
<1>19. ASSUME NEW b \in Bridge, NEW a \in Approval, ConsumeApprovalForRun(b, a)
      PROVE  TypeOK'
  <2>1. BridgesTyped' /\ WorkflowTyped' /\ RunTyped' /\ CommandTyped' /\ HandlerTyped'
    BY <1>19 DEF ConsumeApprovalForRun, BridgesTyped, WorkflowTyped, RunTyped, CommandTyped, HandlerTyped
  <2>2. ApprovalTyped'
    BY <1>19 DEF ConsumeApprovalForRun, ApprovalTyped, ApprovalRecord, ApprovalStatus
  <2>3. LeaseTyped'
    BY <1>19 DEF ConsumeApprovalForRun, LeaseTyped, LeaseRecord
  <2>4. QED
    BY <2>1, <2>2, <2>3
<1>20. ASSUME NEW b \in Bridge, NEW a \in Approval, CompleteApprovedMerge(b, a)
      PROVE  TypeOK'
  <2>1. BridgesTyped' /\ ApprovalTyped' /\ HandlerTyped'
    BY <1>20 DEF CompleteApprovedMerge, BridgesTyped, ApprovalTyped, HandlerTyped
  <2>2. RunTyped'
    BY <1>20 DEF CompleteApprovedMerge, RunTyped, RunRecord, RunStatus, Run, RunTransition
  <2>3. LeaseTyped'
    <3>1. approval[a].session \in Session
      BY <1>20 DEF CompleteApprovedMerge, ApprovalTyped
    <3>2. QED
      BY <1>20, <3>1, ReleasedType DEF CompleteApprovedMerge, LeaseTyped
  <2>4. WorkflowTyped'
    <3> DEFINE s == approval[a].session
    <3>1. s \in Session /\ workflow[s].status \notin {"none", "draft"}
      BY <1>20 DEF CompleteApprovedMerge, BindingHolds, ApprovalTyped, RunAndWorkflowAgree, Started
    <3>2. QED
      BY <1>20, <3>1 DEF CompleteApprovedMerge, WorkflowTyped, WorkflowRecord, WorkflowStatus
  <2>5. CommandTyped'
    BY <1>20, DequeuedType DEF CompleteApprovedMerge, CommandTyped, CommandRecord, CommandId, Run
  <2>6. QED
    BY <2>1, <2>2, <2>3, <2>4, <2>5
<1>21. ASSUME NEW w \in Worktree, LeaseTick(w)
      PROVE  TypeOK'
  <2>1. BridgesTyped' /\ WorkflowTyped' /\ RunTyped' /\ ApprovalTyped' /\ CommandTyped' /\ HandlerTyped'
    BY <1>21 DEF LeaseTick, BridgesTyped, WorkflowTyped, RunTyped, ApprovalTyped, CommandTyped, HandlerTyped
  <2>2. LeaseTyped'
    BY <1>21 DEF LeaseTick, LeaseTyped, LeaseRecord
  <2>3. QED
    BY <2>1, <2>2
<1>22. ASSUME NEW a \in Approval, ApprovalExpires(a)
      PROVE  TypeOK'
  <2>1. BridgesTyped' /\ WorkflowTyped' /\ RunTyped' /\ LeaseTyped' /\ CommandTyped' /\ HandlerTyped'
    BY <1>22 DEF ApprovalExpires, BridgesTyped, WorkflowTyped, RunTyped, LeaseTyped, CommandTyped, HandlerTyped
  <2>2. ApprovalTyped'
    BY <1>22 DEF ApprovalExpires, ApprovalTyped, ApprovalRecord, ApprovalStatus
  <2>3. QED
    BY <2>1, <2>2
<1>23. ASSUME NEW c \in CommandId, CommandLeaseExpires(c)
      PROVE  TypeOK'
  <2>1. BridgesTyped' /\ WorkflowTyped' /\ RunTyped' /\ LeaseTyped' /\ ApprovalTyped' /\ HandlerTyped'
    BY <1>23 DEF CommandLeaseExpires, BridgesTyped, WorkflowTyped, RunTyped, LeaseTyped, ApprovalTyped, HandlerTyped
  <2>2. CommandTyped'
    <3>1. [command[c] EXCEPT !.leased = FALSE] \in CommandRecord
      <4>1. command[c] \in CommandRecord
        BY DEF CommandTyped
      <4>2. QED
        BY <4>1 DEF CommandRecord
    <3>2. command' = [command EXCEPT ![c] = [command[c] EXCEPT !.leased = FALSE]]
      BY <1>23 DEF CommandLeaseExpires, CommandTyped
    <3>3. QED
      BY <3>1, <3>2 DEF CommandTyped
  <2>3. QED
    BY <2>1, <2>2
<1>24. CASE HubCrash
  <2>1. BridgesTyped' /\ WorkflowTyped' /\ RunTyped' /\ LeaseTyped' /\ ApprovalTyped' /\ CommandTyped'
    BY <1>24 DEF HubCrash, BridgesTyped, WorkflowTyped, RunTyped, LeaseTyped, ApprovalTyped, CommandTyped
  <2>2. HandlerTyped'
    BY <1>24 DEF HubCrash, HandlerTyped, Run
  <2>3. QED
    BY <2>1, <2>2
<1>25. CASE UNCHANGED vars
  BY <1>25 DEF vars, BridgesTyped, WorkflowTyped, RunTyped, LeaseTyped, ApprovalTyped, CommandTyped, HandlerTyped
<1>26. QED
  BY <1>1, <1>2, <1>3, <1>4, <1>5, <1>6, <1>7, <1>8, <1>9, <1>10, <1>11, <1>12, <1>13, <1>14, <1>15, <1>16, <1>17, <1>18, <1>19, <1>20, <1>21, <1>22, <1>23, <1>24, <1>25
     DEF Next, Operators, BridgeCalls, Clock

-----------------------------------------------------------------------------
(* The run and the workflow of a session move together *)

LEMMA AgreeStep ==
    ASSUME TypeOK, RunAndWorkflowAgree, [Next]_vars
    PROVE  RunAndWorkflowAgree'
<1> USE DEF RunAndWorkflowAgree, Started
<1>0. /\ workflow \in [Session -> WorkflowRecord]
      /\ run \in [Run -> RunRecord]
      /\ Session \subseteq Run
  BY DEF TypeOK, WorkflowTyped, RunTyped, Run
<1>1. CASE UNCHANGED <<run, workflow>>
  BY <1>1
<1>2. ASSUME NEW s \in Session, NEW d \in Definition, CreateSession(s, d)
      PROVE  RunAndWorkflowAgree'
  BY <1>0, <1>2 DEF CreateSession, WorkflowClosed
<1>3. ASSUME NEW s \in Session, NEW d \in Definition, NEW v \in 1..MaxVersion,
             ReviseWorkflow(s, d, v)
      PROVE  RunAndWorkflowAgree'
  BY <1>0, <1>3 DEF ReviseWorkflow, WorkflowRecord
<1>4. ASSUME NEW s \in Session, StartWorkflowRun(s)
      PROVE  RunAndWorkflowAgree'
  <2>1. run'[s].status = "queued" /\ workflow'[s].status = "running"
    BY <1>0, <1>4 DEF StartWorkflowRun, WorkflowRecord
  <2>2. \A t \in Session \ {s} : run'[t] = run[t] /\ workflow'[t] = workflow[t]
    BY <1>0, <1>4 DEF StartWorkflowRun
  <2>3. QED
    BY <2>1, <2>2
<1>5. ASSUME NEW r \in SimpleRun, CreateSimpleRun(r)
      PROVE  RunAndWorkflowAgree'
  <2>1. \A t \in Session : run'[t] = run[t]
    BY <1>0, <1>5, IdsDisjoint DEF CreateSimpleRun
  <2>2. QED
    BY <2>1, <1>5 DEF CreateSimpleRun
<1>6. ASSUME NEW r \in Run, ReconcileSession(r), run[r].status # "none",
             run' = [run EXCEPT ![r].status = "reconciliation"]
      PROVE  RunAndWorkflowAgree'
  <2>1. \A t \in Session \ {r} : run'[t] = run[t] /\ workflow'[t] = workflow[t]
    BY <1>0, <1>6 DEF ReconcileSession
  <2>2. ASSUME r \in Session
        PROVE  workflow'[r].status \in WorkflowClosed /\ run'[r].status = "reconciliation"
    BY <1>0, <1>6, <2>2 DEF ReconcileSession, WorkflowClosed, RunRecord, WorkflowRecord
  <2>3. QED
    BY <1>6, <2>1, <2>2 DEF WorkflowClosed
<1>7. ASSUME NEW b \in Bridge, NEW r \in Run, NEW status \in RunStatus,
             UpdateRunStatus(b, r, status)
      PROVE  RunAndWorkflowAgree'
  <2>1. run[r].status # "none" /\ status \notin {"none", "completed"}
    BY <1>7 DEF UpdateRunStatus, RunTransition
  <2>2. CASE status = "reconciliation"
    BY <1>6, <1>7, <2>1, <2>2 DEF UpdateRunStatus
  <2>3. CASE status # "reconciliation"
    <3>1. run'[r].status = status /\ \A t \in Session \ {r} : run'[t] = run[t]
      BY <1>0, <1>7, <2>3 DEF UpdateRunStatus, RunRecord
    <3>2. QED
      BY <1>7, <2>1, <2>3, <3>1 DEF UpdateRunStatus
  <2>4. QED
    BY <2>2, <2>3
<1>8. ASSUME NEW b \in Bridge, NEW r \in Run, NEW status \in RunStatus,
             FinalizeRunCommand(b, r, status)
      PROVE  RunAndWorkflowAgree'
  <2>1. run[r].status # "none"
    BY <1>8 DEF FinalizeRunCommand, RunTransition
  <2>2. CASE status = "reconciliation"
    BY <1>6, <1>8, <2>1, <2>2 DEF FinalizeRunCommand
  <2>3. CASE status = "evidenced"
    <3>1. run'[r].status = status /\ \A t \in Session \ {r} : run'[t] = run[t]
      BY <1>0, <1>8, <2>3 DEF FinalizeRunCommand, RunRecord
    <3>2. \A t \in Session \ {r} : workflow'[t] = workflow[t]
      BY <1>0, <1>8, <2>3 DEF FinalizeRunCommand, FinishRunStep
    <3>3. r \in Session => workflow'[r].status \notin {"none", "draft"}
      <4>1. HAVE r \in Session
      <4>2. CASE UNCHANGED workflow
        BY <2>1, <4>1, <4>2
      <4>3. CASE ~UNCHANGED workflow
        <5> DEFINE wd   == workflow[r].definition
                   next == AdvanceCursor(wd, workflow[r].cursor, wd.entry)
        <5>1. workflow' = [workflow EXCEPT ![r].status = CursorStatus(wd, next),
                                           ![r].cursor = next]
          BY <1>8, <2>3, <4>1, <4>3 DEF FinalizeRunCommand, FinishRunStep
        <5>2. workflow'[r].status = CursorStatus(wd, next)
          BY <1>0, <4>1, <5>1 DEF WorkflowRecord
        <5>3. QED
          BY <5>2, CursorStatusType
      <4>4. QED
        BY <4>2, <4>3
    <3>4. QED
      BY <2>1, <2>3, <3>1, <3>2, <3>3
  <2>4. QED
    BY <1>8, <2>2, <2>3 DEF FinalizeRunCommand
<1>9. ASSUME NEW b \in Bridge, NEW s \in Session, NEW step \in workflow[s].cursor,
             NEW outcome \in {"succeeded", "failed", "cancelled"},
             CompleteWorkflowStep(b, s, step, outcome)
      PROVE  RunAndWorkflowAgree'
  <2>1. /\ workflow[s].status \notin {"none", "draft"} \cup WorkflowClosed
        /\ run' = run
    BY <1>9 DEF CompleteWorkflowStep, WorkflowClosed
  <2>2. \A t \in Session \ {s} : workflow'[t] = workflow[t]
    BY <1>0, <1>9 DEF CompleteWorkflowStep
  <2>3. workflow'[s].status \notin {"none", "draft"}
    BY <1>0, <1>9, CursorStatusType DEF CompleteWorkflowStep, WorkflowRecord
  <2>4. QED
    BY <2>1, <2>2, <2>3
<1>10. ASSUME NEW b \in Bridge, NEW a \in Approval, CompleteApprovedMerge(b, a)
       PROVE  RunAndWorkflowAgree'
  <2> DEFINE s == approval[a].session
  <2>1. s \in Session /\ run[s].status = "evidenced"
    BY <1>10 DEF CompleteApprovedMerge, BindingHolds, TypeOK, ApprovalTyped
  <2>2. run'[s].status = "completed" /\ workflow'[s].status \in WorkflowClosed
    BY <1>0, <1>10, <2>1 DEF CompleteApprovedMerge, RunRecord, WorkflowRecord, WorkflowClosed
  <2>3. \A t \in Session \ {s} : run'[t] = run[t] /\ workflow'[t] = workflow[t]
    BY <1>0, <1>10, <2>1 DEF CompleteApprovedMerge
  <2>4. QED
    BY <2>1, <2>2, <2>3 DEF WorkflowClosed
<1>11. QED
  <2>1. CASE UNCHANGED vars
    BY <1>1, <2>1 DEF vars
  <2>2. CASE Next
    BY <1>1, <1>2, <1>3, <1>4, <1>5, <1>7, <1>8, <1>9, <1>10, <2>2
       DEF Next, Operators, BridgeCalls, Clock, RegisterBridge, EnqueueSimpleRun,
           CreateApproval, Approve, EnqueueApproved, EnqueueSkillProbe, PublishSkills,
           NextCommand, AcknowledgeCommand, RenewRunLease, ReleaseRunLease,
           ConsumeApprovalForRun, LeaseTick, ApprovalExpires, CommandLeaseExpires, HubCrash
  <2>3. QED
    BY <2>1, <2>2

-----------------------------------------------------------------------------
(* Type correctness *)

LEMMA InitTyped == Init => TypeOK /\ RunAndWorkflowAgree
<1> SUFFICES ASSUME Init PROVE TypeOK /\ RunAndWorkflowAgree
  OBVIOUS
<1>1. BridgesTyped /\ RunTyped /\ LeaseTyped /\ HandlerTyped
  BY DEF Init, BridgesTyped, RunTyped, RunRecord, RunStatus, LeaseTyped, LeaseRecord,
         HandlerTyped
<1>2. NoWorkflow \in WorkflowRecord /\ NoApproval \in ApprovalRecord /\ NoCommand \in CommandRecord
  BY DEF NoWorkflow, WorkflowRecord, WorkflowStatus, NoApproval, ApprovalRecord,
         ApprovalStatus, Action, NoCommand, CommandRecord
<1>3. WorkflowTyped
  BY <1>2 DEF Init, WorkflowTyped, NoWorkflow
<1>4. ApprovalTyped /\ CommandTyped
  BY <1>2 DEF Init, ApprovalTyped, CommandTyped, NoApproval
<1>5. RunAndWorkflowAgree
  BY DEF Init, RunAndWorkflowAgree, Started, NoWorkflow, Run
<1>6. QED
  BY <1>1, <1>3, <1>4, <1>5 DEF TypeOK

\* Neither half is inductive alone: a reconciliation closes the workflow of its
\* run, which is typed only because a run exists only once its workflow does.
THEOREM TypeCorrect == Spec => [](TypeOK /\ RunAndWorkflowAgree)
<1>1. TypeOK /\ RunAndWorkflowAgree /\ [Next]_vars => (TypeOK /\ RunAndWorkflowAgree)'
  BY TypeStep, AgreeStep
<1>2. QED
  BY InitTyped, <1>1, PTL DEF Spec

\* Whatever is called in whatever order, a session has a run exactly when its workflow
\* left the draft, and a run that is settled closed it (start_workflow_run,
\* finalize_run_command, complete_approved_merge).
THEOREM RunAndWorkflowStayAgreed == Spec => []RunAndWorkflowAgree
<1>1. TypeOK /\ RunAndWorkflowAgree => RunAndWorkflowAgree
  OBVIOUS
<1>2. QED
  BY <1>1, TypeCorrect, PTL

-----------------------------------------------------------------------------
(* The worktree fence *)

\* Only a start moves a lease to another holder or epoch and only a start fences
\* a run; no other step gives time to a lease that has none left.
LEMMA FenceFrame ==
    ASSUME TypeOK, RunAndWorkflowAgree, [Next]_vars,
           \A s \in Session : ~StartWorkflowRun(s)
    PROVE  /\ \A w \in Worktree : /\ lease'[w].holder = lease[w].holder
                                  /\ lease'[w].epoch = lease[w].epoch
                                  /\ lease'[w].ticks > 0 => lease[w].ticks > 0
           /\ \A t \in Session : /\ run'[t].epoch = run[t].epoch
                                 /\ Started(t) <=> Started(t)'
<1> DEFINE LeaseFrame == \A w \in Worktree : /\ lease'[w].holder = lease[w].holder
                                             /\ lease'[w].epoch = lease[w].epoch
                                             /\ lease'[w].ticks > 0 => lease[w].ticks > 0
           RunFrame   == \A t \in Session : /\ run'[t].epoch = run[t].epoch
                                            /\ Started(t) <=> Started(t)'
<1> USE DEF Started
<1>0. /\ lease \in [Worktree -> LeaseRecord]
      /\ run \in [Run -> RunRecord]
      /\ Session \subseteq Run
      /\ \A s \in Session : WorktreeOf[s] \in Worktree
  BY ConstantsOK DEF TypeOK, LeaseTyped, RunTyped, Run
<1> SUFFICES LeaseFrame /\ RunFrame
  OBVIOUS
<1> HIDE DEF LeaseFrame, RunFrame
<1>1. UNCHANGED lease => LeaseFrame
  BY DEF LeaseFrame
<1>2. ASSUME NEW s \in Session, lease' = Released(s)
      PROVE  LeaseFrame
  BY <1>0, <1>2 DEF Released, LeaseRecord, LeaseFrame
<1>3. ASSUME NEW s \in Session, Fenced(s),
             lease' = [lease EXCEPT ![WorktreeOf[s]].ticks = LeaseTicks]
      PROVE  LeaseFrame
  BY <1>0, <1>3 DEF Fenced, LeaseOf, LeaseRecord, LeaseFrame
<1>4. ASSUME NEW w \in Worktree, LeaseTick(w)
      PROVE  LeaseFrame
  BY <1>0, <1>4 DEF LeaseTick, LeaseRecord, LeaseFrame
<1>5. UNCHANGED run => RunFrame
  BY DEF RunFrame
<1>6. ASSUME NEW r \in Run, NEW x \in RunStatus \ {"none"}, run[r].status # "none" \/ r \notin Session,
             run' = [run EXCEPT ![r].status = x]
      PROVE  RunFrame
  BY <1>0, <1>6 DEF RunRecord, RunFrame
<1>7. CASE UNCHANGED vars
  BY <1>1, <1>5, <1>7 DEF vars, LeaseFrame, RunFrame
<1>8. ASSUME NEW b \in Bridge, NEW r \in Run, NEW status \in RunStatus,
             UpdateRunStatus(b, r, status) \/ FinalizeRunCommand(b, r, status)
      PROVE  LeaseFrame /\ RunFrame
  <2>1. /\ run' = [run EXCEPT ![r].status = status]
        /\ run[r].status # "none" /\ status # "none"
    BY <1>8 DEF UpdateRunStatus, FinalizeRunCommand, RunTransition
  <2>2. UNCHANGED lease \/ (r \in Session /\ lease' = Released(r))
    BY <1>8 DEF UpdateRunStatus, FinalizeRunCommand, ReconcileSession
  <2>3. QED
    BY <1>1, <1>2, <1>6, <2>1, <2>2
<1>9. ASSUME NEW b \in Bridge, NEW a \in Approval,
             ConsumeApprovalForRun(b, a) \/ CompleteApprovedMerge(b, a)
      PROVE  LeaseFrame /\ RunFrame
  <2>1. approval[a].session \in Session /\ Fenced(approval[a].session)
        /\ run[approval[a].session].status = "evidenced"
    BY <1>9 DEF ConsumeApprovalForRun, CompleteApprovedMerge, BindingHolds, TypeOK, ApprovalTyped
  <2>2. CASE ConsumeApprovalForRun(b, a)
    BY <1>3, <1>5, <2>1, <2>2 DEF ConsumeApprovalForRun
  <2>3. CASE CompleteApprovedMerge(b, a)
    BY <1>0, <1>2, <1>6, <2>1, <2>3 DEF CompleteApprovedMerge, RunStatus
  <2>4. QED
    BY <1>9, <2>2, <2>3
<1>10. ASSUME NEW r \in SimpleRun, CreateSimpleRun(r)
       PROVE  LeaseFrame /\ RunFrame
  BY <1>1, <1>6, <1>10, IdsDisjoint DEF CreateSimpleRun, Run, RunStatus
<1>11. ASSUME NEW b \in Bridge, NEW s \in Session, RenewRunLease(b, s) \/ ReleaseRunLease(b, s)
       PROVE  LeaseFrame /\ RunFrame
  BY <1>2, <1>3, <1>5, <1>11 DEF RenewRunLease, ReleaseRunLease
<1>12. ASSUME NEW w \in Worktree, LeaseTick(w)
       PROVE  LeaseFrame /\ RunFrame
  BY <1>4, <1>5, <1>12 DEF LeaseTick
<1>13. CASE UNCHANGED <<run, lease>>
  BY <1>1, <1>5, <1>13
<1>14. CASE Next
  BY <1>8, <1>9, <1>10, <1>11, <1>12, <1>13, <1>14
     DEF Next, Operators, BridgeCalls, Clock, RegisterBridge, CreateSession, ReviseWorkflow,
         EnqueueSimpleRun, CreateApproval, Approve, EnqueueApproved, EnqueueSkillProbe,
         PublishSkills, NextCommand, AcknowledgeCommand, CompleteWorkflowStep,
         ApprovalExpires, CommandLeaseExpires, HubCrash
<1>15. QED
  BY <1>7, <1>14

LEMMA EpochsStep ==
    ASSUME TypeOK, RunAndWorkflowAgree, EpochsDistinct, [Next]_vars
    PROVE  EpochsDistinct'
<1>0. /\ lease \in [Worktree -> LeaseRecord]
      /\ run \in [Run -> RunRecord]
      /\ Session \subseteq Run
      /\ \A s \in Session : WorktreeOf[s] \in Worktree
  BY ConstantsOK DEF TypeOK, LeaseTyped, RunTyped, Run
<1>1. CASE \A s \in Session : ~StartWorkflowRun(s)
  BY <1>0, <1>1, FenceFrame DEF EpochsDistinct, LeaseOf
<1>2. ASSUME NEW s \in Session, StartWorkflowRun(s)
      PROVE  EpochsDistinct'
  <2>1. /\ run'[s].epoch = LeaseOf(s).epoch + 1
        /\ lease'[WorktreeOf[s]].epoch = LeaseOf(s).epoch + 1
        /\ \A w \in Worktree \ {WorktreeOf[s]} : lease'[w] = lease[w]
        /\ \A t \in Session \ {s} : run'[t] = run[t]
    BY <1>0, <1>2 DEF StartWorkflowRun, NextEpoch, LeaseOf, LeaseRecord, RunRecord
  <2>2. \A t \in Session : run[t].epoch \in Nat /\ LeaseOf(t).epoch \in Nat
    BY <1>0 DEF RunRecord, LeaseRecord, LeaseOf
  <2>3. \A t \in Session : run[t].epoch <= LeaseOf(t).epoch
    BY DEF EpochsDistinct
  <2>4. \A t \in Session \ {s} : WorktreeOf[t] = WorktreeOf[s] => run'[t].epoch < run'[s].epoch
    BY <2>1, <2>2, <2>3 DEF LeaseOf
  <2>5. \A t \in Session : run'[t].epoch <= LeaseOf(t)'.epoch
    BY <1>0, <2>1, <2>2, <2>3 DEF LeaseOf
  <2>6. \A t \in Session : run'[t].epoch \in Nat
    BY <2>1, <2>2
  <2>7. \A t, u \in Session \ {s} : (Started(t) <=> Started(t)') /\ run'[t].epoch = run[t].epoch
    BY <2>1 DEF Started
  <2>8. ASSUME NEW t \in Session, NEW u \in Session, t # u, WorktreeOf[t] = WorktreeOf[u],
               Started(t)', Started(u)'
        PROVE  run'[t].epoch # run'[u].epoch
    BY <2>4, <2>6, <2>7, <2>8 DEF EpochsDistinct
  <2>9. QED
    BY <2>5, <2>8 DEF EpochsDistinct
<1>3. QED
  BY <1>1, <1>2

\* Fencing tokens are unique for any number of sessions and restarts of the race
\* for a worktree: the start reads the row it bumps in the same transaction.
THEOREM FencingTokensUnique == Spec => []EpochsDistinct
<1>1. Init => EpochsDistinct
  BY ConstantsOK DEF Init, EpochsDistinct, Started, LeaseOf, Run
<1>2. TypeOK /\ RunAndWorkflowAgree /\ EpochsDistinct /\ [Next]_vars => EpochsDistinct'
  BY EpochsStep
<1>3. QED
  BY <1>1, <1>2, TypeCorrect, PTL DEF Spec

\* No single step gives a lost fence back: neither a call that works on the lease
\* nor the start of another session, which takes the row away.
LEMMA LostFenceStep ==
    ASSUME TypeOK, RunAndWorkflowAgree, [Next]_vars, NEW s \in Session,
           Started(s), ~Fenced(s)
    PROVE  ~Fenced(s)'
<1>0. /\ lease \in [Worktree -> LeaseRecord]
      /\ run \in [Run -> RunRecord]
      /\ Session \subseteq Run
      /\ \A t \in Session : WorktreeOf[t] \in Worktree
  BY ConstantsOK DEF TypeOK, LeaseTyped, RunTyped, Run
<1>1. CASE \A t \in Session : ~StartWorkflowRun(t)
  BY <1>0, <1>1, FenceFrame DEF Fenced, OwnsLease, LeaseOf
<1>2. ASSUME NEW t \in Session, StartWorkflowRun(t)
      PROVE  ~Fenced(s)'
  <2>1. s # t
    BY <1>2 DEF StartWorkflowRun, RunAndWorkflowAgree
  <2>2. CASE WorktreeOf[s] = WorktreeOf[t]
    <3>1. lease'[WorktreeOf[s]].holder = t
      BY <1>0, <1>2, <2>2 DEF StartWorkflowRun
    <3>2. QED
      BY <2>1, <3>1 DEF Fenced, OwnsLease, LeaseOf
  <2>3. CASE WorktreeOf[s] # WorktreeOf[t]
    <3>1. lease'[WorktreeOf[s]] = lease[WorktreeOf[s]] /\ run'[s] = run[s]
      BY <1>0, <1>2, <2>1, <2>3 DEF StartWorkflowRun
    <3>2. QED
      BY <3>1 DEF Fenced, OwnsLease, LeaseOf
  <2>4. QED
    BY <2>2, <2>3
<1>3. QED
  BY <1>1, <1>2

\* A fence that was lost stays lost: a late heartbeat, a late consumption or a
\* start by another session never brings it back.
THEOREM LostFenceStaysLost == Spec => FenceNeverReopens
<1>1. TypeOK /\ RunAndWorkflowAgree /\ [Next]_vars =>
         [\A s \in Session : Started(s) /\ ~Fenced(s) => ~Fenced(s)']_vars
  BY LostFenceStep
<1>2. QED
  BY <1>1, TypeCorrect, PTL DEF Spec, FenceNeverReopens
=============================================================================
