------------------------------ MODULE Delivery ------------------------------
(***************************************************************************)
(* The delivery kernel of the hub: sessions with their workflow, fenced     *)
(* worktree leases, runs, approvals and the delivery-leased bridge command  *)
(* queue (workbench/store.py, behind the endpoints of workbench/api.py).    *)
(*                                                                         *)
(* Every action is one committed store transaction, called by any owner,    *)
(* operator or registered bridge in any order: nothing is assumed here of   *)
(* what a bridge does (BridgeLoop adds that).  The endpoints that make two  *)
(* transactions (POST /api/runs, POST /api/approvals/../approve) are two    *)
(* actions with a hub crash possible between them.                         *)
(*                                                                         *)
(* Through the API a session has one workflow, and a workflow starts once,  *)
(* so a session names its workflow, its run and that run's command; an      *)
(* approval names the command that delivers it.                             *)
(***************************************************************************)
EXTENDS Integers, FiniteSets, WorkflowGraph

CONSTANTS
    Session,      \* sessions, each with its workflow and its run
    SimpleRun,    \* runs POST /api/runs creates without a session
    Approval,     \* approval ids
    Probe,        \* skill_probe commands
    Bridge,       \* bridges the owner may register for the project
    Worktree,     \* named worktrees
    Skill,        \* skill ids
    Definition,   \* workflow definitions the operators submit
    WorktreeOf,   \* the worktree each session is created for
    LeaseTicks,   \* lifetime of a worktree lease, in clock ticks
    MaxVersion,   \* bound on workflow revisions
    NoBridge, NoSession, NoDefinition

Run       == Session \cup SimpleRun
CommandId == Run \cup Approval \cup Probe
Step      == UNION {StepsOf(d) : d \in Definition}
Action    == {"commit_pr", "merge_and_accept"}

ASSUME IdsDisjoint ==
    /\ Session \cap SimpleRun = {}
    /\ Run \cap Approval = {}
    /\ Run \cap Probe = {}
    /\ Approval \cap Probe = {}

ASSUME ConstantsOK ==
    /\ WorktreeOf \in [Session -> Worktree]
    /\ LeaseTicks \in Nat \ {0}
    /\ MaxVersion \in Nat \ {0}
    /\ NoBridge \notin Bridge /\ NoSession \notin Session
    /\ NoDefinition \notin Definition

ASSUME DefinitionsValid == \A d \in Definition : ValidDefinition(d)

VARIABLES
    registered,   \* bridges that hold a token
    owner,        \* project.bridge_id
    published,    \* published[b]: skills bridge b last published
    workflow,     \* workflow[s]: status, cursor, definition, version
    run,          \* run[r]: status and the lease epoch it was fenced with
    lease,        \* lease[w]: holder, epoch, ticks left
    approval,     \* approval[a]: status, action, session, epoch, bridge, live
    command,      \* command[c]: the queue it waits in, its delivery lease, and
                  \* the commands created before it in that queue
    handler       \* second half of a two-transaction endpoint still to do

vars == <<registered, owner, published, workflow, run, lease, approval,
          command, handler>>

WorkflowStatus == {"none", "draft", "running", "waiting_approval", "completed",
                   "reconciliation", "cancelled"}
WorkflowClosed == {"completed", "reconciliation", "cancelled"}
RunStatus      == {"none", "queued", "running", "evidenced", "completed",
                   "reconciliation"}
ApprovalStatus == {"none", "pending", "approved", "consumed"}

\* _RUN_STATUS_TRANSITIONS: where update_run_status and the finalizer may go.
RunTransition ==
    {<<"queued", "running">>, <<"queued", "reconciliation">>,
     <<"running", "evidenced">>, <<"running", "reconciliation">>,
     <<"evidenced", "reconciliation">>}

NoWorkflow == [status |-> "none", cursor |-> {}, definition |-> NoDefinition,
               version |-> 0]
NoApproval == [status |-> "none", action |-> "commit_pr", session |-> NoSession,
               epoch |-> 0, bridge |-> NoBridge, live |-> FALSE]
NoCommand  == [bridge |-> NoBridge, leased |-> FALSE, ahead |-> {}]

WorkflowRecord == [status : WorkflowStatus, cursor : SUBSET Step,
                   definition : Definition \cup {NoDefinition}, version : Nat]
RunRecord      == [status : RunStatus, epoch : Nat]
LeaseRecord    == [holder : Session \cup {NoSession}, epoch : Nat, ticks : Nat]
ApprovalRecord == [status : ApprovalStatus, action : Action,
                   session : Session \cup {NoSession}, epoch : Nat,
                   bridge : Bridge \cup {NoBridge}, live : BOOLEAN]
CommandRecord  == [bridge : Bridge \cup {NoBridge}, leased : BOOLEAN,
                   ahead : SUBSET CommandId]

BridgesTyped ==
    /\ registered \in SUBSET Bridge
    /\ owner \in Bridge \cup {NoBridge}
    /\ published \in [Bridge -> SUBSET Skill]

\* A created workflow has a definition, and its cursor stays inside it.
WorkflowTyped ==
    /\ workflow \in [Session -> WorkflowRecord]
    /\ \A s \in Session :
          /\ workflow[s].status # "none" =>
                /\ workflow[s].definition \in Definition
                /\ workflow[s].cursor \subseteq StepsOf(workflow[s].definition)
          /\ workflow[s].status = "draft" => workflow[s].cursor = {}

RunTyped   == run \in [Run -> RunRecord]
LeaseTyped == lease \in [Worktree -> LeaseRecord]

\* A requested approval is bound to a session and scoped to a bridge.
ApprovalTyped ==
    /\ approval \in [Approval -> ApprovalRecord]
    /\ \A a \in Approval : approval[a].status # "none" =>
          approval[a].session \in Session /\ approval[a].bridge \in Bridge

CommandTyped == command \in [CommandId -> CommandRecord]
HandlerTyped == handler \in [SimpleRun \cup Approval -> Bridge \cup {NoBridge}]

TypeOK ==
    /\ BridgesTyped
    /\ WorkflowTyped
    /\ RunTyped
    /\ LeaseTyped
    /\ ApprovalTyped
    /\ CommandTyped
    /\ HandlerTyped

-----------------------------------------------------------------------------
(* The worktree lease fence *)

LeaseOf(s) == lease[WorktreeOf[s]]

\* The lease row is this session's, at the run's epoch.
OwnsLease(s) == LeaseOf(s).holder = s /\ LeaseOf(s).epoch = run[s].epoch

\* validate_run_lease, for a session run: owned and unexpired.
Fenced(s) == OwnsLease(s) /\ LeaseOf(s).ticks > 0

\* Mutant: the release is forgotten.
MutantReleased(s) == lease

\* expires_at = now, of exactly the epoch the run was fenced with.
Released(s) ==
    IF OwnsLease(s) THEN [lease EXCEPT ![WorktreeOf[s]].ticks = 0] ELSE lease

-----------------------------------------------------------------------------
(* The bridge command queue *)

Queued(c) == command[c].bridge # NoBridge

Enqueued(c, b) ==
    [command EXCEPT ![c] = [bridge |-> b, leased |-> FALSE,
                            ahead  |-> {d \in CommandId : command[d].bridge = b}]]

Dequeued(c) ==
    [d \in CommandId |-> IF d = c THEN NoCommand
                         ELSE [command[d] EXCEPT !.ahead = @ \ {c}]]

-----------------------------------------------------------------------------
Init ==
    /\ registered = {}
    /\ owner = NoBridge
    /\ published = [b \in Bridge |-> {}]
    /\ workflow = [s \in Session |-> NoWorkflow]
    /\ run = [r \in Run |-> [status |-> "none", epoch |-> 0]]
    /\ lease = [w \in Worktree |-> [holder |-> NoSession, epoch |-> 0, ticks |-> 0]]
    /\ approval = [a \in Approval |-> NoApproval]
    /\ command = [c \in CommandId |-> NoCommand]
    /\ handler = [h \in SimpleRun \cup Approval |-> NoBridge]

-----------------------------------------------------------------------------
(* Owner and operator endpoints *)

\* register_bridge: the new bridge replaces the project's bridge; the queue and
\* the runs of the old one stay where they are.
RegisterBridge(b) ==
    /\ b \notin registered
    /\ registered' = registered \cup {b}
    /\ owner' = b
    /\ UNCHANGED <<published, workflow, run, lease, approval, command, handler>>

\* create_session, with its draft workflow
CreateSession(s, d) ==
    /\ workflow[s].status = "none"
    /\ workflow' = [workflow EXCEPT ![s] =
          [status |-> "draft", cursor |-> {}, definition |-> d, version |-> 1]]
    /\ UNCHANGED <<registered, owner, published, run, lease, approval, command,
                   handler>>

\* Mutant: only the version is compared, a started workflow may be revised.
MutantReviseWorkflow(s, d, expected) ==
    /\ workflow[s].version = expected /\ expected \in 1..(MaxVersion - 1)
    /\ workflow' = [workflow EXCEPT ![s].definition = d, ![s].version = expected + 1]
    /\ UNCHANGED <<registered, owner, published, run, lease, approval, command,
                   handler>>

\* revise_workflow: a compare-and-swap on the version the editor loaded.
ReviseWorkflow(s, d, expected) ==
    /\ workflow[s].status = "draft"
    /\ workflow[s].version = expected
    /\ expected < MaxVersion
    /\ workflow' = [workflow EXCEPT ![s].definition = d, ![s].version = expected + 1]
    /\ UNCHANGED <<registered, owner, published, run, lease, approval, command,
                   handler>>

\* The epoch a new fence gets: one more than the lease row's, expired or not.
\* Mutant: an expired row is treated as if it were absent.
MutantNextEpoch(s) == IF LeaseOf(s).ticks = 0 THEN 1 ELSE LeaseOf(s).epoch + 1
NextEpoch(s) == LeaseOf(s).epoch + 1

\* start_workflow_run: fence the worktree, start the draft, create the run and
\* queue its command in one transaction.
StartWorkflowRun(s) ==
    LET d     == workflow[s].definition
        epoch == NextEpoch(s)
    IN
    /\ workflow[s].status = "draft"
    /\ owner # NoBridge
    /\ d.kind[d.entry] = "agent"
    /\ d.skills \subseteq published[owner]
    /\ run[s].status \notin {"queued", "running"}
    /\ ~(LeaseOf(s).ticks > 0 /\ LeaseOf(s).holder # s)
    /\ lease' = [lease EXCEPT ![WorktreeOf[s]] =
          [holder |-> s, epoch |-> epoch, ticks |-> LeaseTicks]]
    /\ run' = [run EXCEPT ![s] = [status |-> "queued", epoch |-> epoch]]
    /\ workflow' = [workflow EXCEPT ![s].status = "running", ![s].cursor = {d.entry}]
    /\ command' = Enqueued(s, owner)
    /\ UNCHANGED <<registered, owner, published, approval, handler>>

\* POST /api/runs, first half: create_run without a session takes no lease.
CreateSimpleRun(r) ==
    /\ owner # NoBridge
    /\ run[r].status = "none"
    /\ run' = [run EXCEPT ![r].status = "queued"]
    /\ handler' = [handler EXCEPT ![r] = owner]
    /\ UNCHANGED <<registered, owner, published, workflow, lease, approval, command>>

\* POST /api/runs, second half: enqueue_run for the bridge read before.
EnqueueSimpleRun(r) ==
    /\ handler[r] # NoBridge
    /\ command' = Enqueued(r, handler[r])
    /\ handler' = [handler EXCEPT ![r] = NoBridge]
    /\ UNCHANGED <<registered, owner, published, workflow, run, lease, approval>>

\* Mutant: the request already queues the action for the bridge.
MutantCreateApproval(a, s, action, b) ==
    /\ approval[a].status = "none" /\ owner = b
    /\ Fenced(s) /\ run[s].status = "evidenced"
    /\ approval' = [approval EXCEPT ![a] =
          [status |-> "pending", action |-> action, session |-> s,
           epoch |-> run[s].epoch, bridge |-> b, live |-> TRUE]]
    /\ command' = Enqueued(a, b)
    /\ UNCHANGED <<registered, owner, published, workflow, run, lease, handler>>

\* create_approval: binds the evidenced run, its worktree lease and its epoch.
\* validate_run_lease and the insert are two transactions, but nothing reads the
\* row in between, so they commute with every other step.
CreateApproval(a, s, action, b) ==
    /\ approval[a].status = "none"
    /\ owner = b
    /\ Fenced(s)
    /\ run[s].status = "evidenced"
    /\ approval' = [approval EXCEPT ![a] =
          [status |-> "pending", action |-> action, session |-> s,
           epoch |-> run[s].epoch, bridge |-> b, live |-> TRUE]]
    /\ UNCHANGED <<registered, owner, published, workflow, run, lease, command,
                   handler>>

\* POST approve, first half: store.approve.
Approve(a) ==
    /\ approval[a].status = "pending"
    /\ approval[a].live
    /\ approval' = [approval EXCEPT ![a].status = "approved"]
    /\ handler' = [handler EXCEPT ![a] = approval[a].bridge]
    /\ UNCHANGED <<registered, owner, published, workflow, run, lease, command>>

\* POST approve, second half: enqueue_command.
EnqueueApproved(a) ==
    /\ handler[a] # NoBridge
    /\ command' = Enqueued(a, handler[a])
    /\ handler' = [handler EXCEPT ![a] = NoBridge]
    /\ UNCHANGED <<registered, owner, published, workflow, run, lease, approval>>

\* enqueue_skill_probe
EnqueueSkillProbe(p) ==
    /\ owner # NoBridge
    /\ published[owner] # {}
    /\ ~Queued(p)
    /\ command' = Enqueued(p, owner)
    /\ UNCHANGED <<registered, owner, published, workflow, run, lease, approval,
                   handler>>

-----------------------------------------------------------------------------
(* Bridge endpoints: b is the authenticated bridge *)

\* replace_bridge_skills
PublishSkills(b, K) ==
    /\ b \in registered
    /\ published' = [published EXCEPT ![b] = K]
    /\ UNCHANGED <<registered, owner, workflow, run, lease, approval, command,
                   handler>>

\* next_command: the oldest command of the queue whose delivery lease is free.
NextCommand(b, c) ==
    /\ b \in registered
    /\ command[c].bridge = b
    /\ ~command[c].leased
    /\ \A d \in command[c].ahead : command[d].leased
    /\ command' = [command EXCEPT ![c].leased = TRUE]
    /\ UNCHANGED <<registered, owner, published, workflow, run, lease, approval,
                   handler>>

\* Mutant: any command may be acknowledged.
MutantAcknowledgeCommand(b, c) ==
    /\ command[c].bridge = b
    /\ command' = Dequeued(c)
    /\ UNCHANGED <<registered, owner, published, workflow, run, lease, approval,
                   handler>>

\* acknowledge_command: run commands leave only through their finalizer.
AcknowledgeCommand(b, c) ==
    /\ b \in registered
    /\ command[c].bridge = b
    /\ c \notin Run
    /\ command' = Dequeued(c)
    /\ UNCHANGED <<registered, owner, published, workflow, run, lease, approval,
                   handler>>

\* Mutant: an expired lease is renewed.
MutantRenewRunLease(b, s) ==
    /\ owner = b /\ run[s].status # "none" /\ OwnsLease(s)
    /\ lease' = [lease EXCEPT ![WorktreeOf[s]].ticks = LeaseTicks]
    /\ UNCHANGED <<registered, owner, published, workflow, run, approval, command,
                   handler>>

\* renew_run_lease: extends exactly the live lease of the run's epoch.
RenewRunLease(b, s) ==
    /\ owner = b
    /\ Fenced(s)
    /\ lease' = [lease EXCEPT ![WorktreeOf[s]].ticks = LeaseTicks]
    /\ UNCHANGED <<registered, owner, published, workflow, run, approval, command,
                   handler>>

\* release_run_lease
ReleaseRunLease(b, s) ==
    /\ owner = b
    /\ run[s].status # "none"
    /\ lease' = Released(s)
    /\ UNCHANGED <<registered, owner, published, workflow, run, approval, command,
                   handler>>

\* Mutant: the workflow is left as it is.
MutantReconcileSession(r) ==
    /\ lease' = IF r \in Session THEN Released(r) ELSE lease
    /\ UNCHANGED workflow

\* The reconciliation side of update_run_status and finalize_run_command.
ReconcileSession(r) ==
    IF r \in Session
    THEN /\ lease' = Released(r)
         /\ workflow' = IF workflow[r].status \in WorkflowClosed THEN workflow
                        ELSE [workflow EXCEPT ![r].status = "reconciliation",
                                              ![r].cursor = {}]
    ELSE UNCHANGED <<lease, workflow>>

\* update_run_status (the same status again changes nothing)
UpdateRunStatus(b, r, status) ==
    /\ owner = b
    /\ <<run[r].status, status>> \in RunTransition
    /\ run' = [run EXCEPT ![r].status = status]
    /\ IF status = "reconciliation" THEN ReconcileSession(r)
                                    ELSE UNCHANGED <<lease, workflow>>
    /\ UNCHANGED <<registered, owner, published, approval, command, handler>>

\* The workflow part of finalizing as evidenced: the run's step, if it is still
\* in the cursor, is finished; the call fails if the workflow may not advance.
FinishRunStep(s) ==
    LET wf   == workflow[s]
        step == wf.definition.entry
        next == AdvanceCursor(wf.definition, wf.cursor, step)
    IN  IF step \in wf.cursor
        THEN /\ wf.status \in {"running", "waiting_approval"}
             /\ workflow' = [workflow EXCEPT
                   ![s].status = CursorStatus(wf.definition, next), ![s].cursor = next]
        ELSE UNCHANGED workflow

\* finalize_run_command: terminal run status, workflow, lease and the ack of
\* exactly this run's command in one transaction.
FinalizeRunCommand(b, r, status) ==
    /\ b \in registered
    /\ command[r].bridge = b
    /\ owner = b
    /\ status \in {"evidenced", "reconciliation"}
    /\ run[r].status = status \/ <<run[r].status, status>> \in RunTransition
    /\ run' = [run EXCEPT ![r].status = status]
    /\ IF status = "reconciliation" THEN ReconcileSession(r)
       ELSE /\ IF r \in Session THEN FinishRunStep(r) ELSE UNCHANGED workflow
            /\ UNCHANGED lease
    /\ command' = Dequeued(r)
    /\ UNCHANGED <<registered, owner, published, approval, handler>>

\* complete_workflow_step, through the bridge's workflow endpoint.
CompleteWorkflowStep(b, s, step, outcome) ==
    LET wf   == workflow[s]
        next == AdvanceCursor(wf.definition, wf.cursor, step)
    IN
    /\ owner = b
    /\ wf.status \in {"running", "waiting_approval"}
    /\ step \in wf.cursor
    /\ workflow' = [workflow EXCEPT
          ![s].status = IF outcome = "failed" THEN "reconciliation"
                        ELSE IF outcome = "cancelled" THEN "cancelled"
                        ELSE CursorStatus(wf.definition, next),
          ![s].cursor = IF outcome = "succeeded" THEN next ELSE {}]
    /\ UNCHANGED <<registered, owner, published, run, lease, approval, command,
                   handler>>

\* Mutant: the run is checked, the lease is not.
MutantBindingHolds(a) ==
    LET s == approval[a].session
    IN  /\ owner = approval[a].bridge
        /\ run[s].status = "evidenced"
        /\ run[s].epoch = approval[a].epoch

\* The binding both approval transactions re-validate: the run is still
\* evidenced, still this bridge's, and its session still holds the exact lease.
BindingHolds(a) ==
    LET s == approval[a].session
    IN  /\ owner = approval[a].bridge
        /\ run[s].status = "evidenced"
        /\ run[s].epoch = approval[a].epoch
        /\ Fenced(s)

\* consume_approval_for_run: one-time grant and lease renewal together.
ConsumeApprovalForRun(b, a) ==
    /\ approval[a].bridge = b
    /\ approval[a].status = "approved"
    /\ approval[a].live
    /\ BindingHolds(a)
    /\ approval' = [approval EXCEPT ![a].status = "consumed"]
    /\ lease' = [lease EXCEPT ![WorktreeOf[approval[a].session]].ticks = LeaseTicks]
    /\ UNCHANGED <<registered, owner, published, workflow, run, command, handler>>

\* Mutant: the merge command is not acknowledged with the completion.
MutantCompleteApprovedMerge(b, a) ==
    LET s == approval[a].session IN
    /\ approval[a].bridge = b /\ approval[a].status = "consumed"
    /\ approval[a].action = "merge_and_accept"
    /\ BindingHolds(a)
    /\ run' = [run EXCEPT ![s].status = "completed"]
    /\ lease' = Released(s)
    /\ UNCHANGED <<registered, owner, published, workflow, approval, command, handler>>

\* complete_approved_merge: completion, lease release and command ack together.
CompleteApprovedMerge(b, a) ==
    LET s == approval[a].session IN
    /\ approval[a].bridge = b
    /\ approval[a].action = "merge_and_accept"
    /\ approval[a].status = "consumed"
    /\ BindingHolds(a)
    /\ command[a].bridge = b
    /\ run' = [run EXCEPT ![s].status = "completed"]
    /\ lease' = Released(s)
    /\ workflow' = IF workflow[s].status \in WorkflowClosed THEN workflow
                   ELSE [workflow EXCEPT ![s].status = "completed", ![s].cursor = {}]
    /\ command' = Dequeued(a)
    /\ UNCHANGED <<registered, owner, published, approval, handler>>

-----------------------------------------------------------------------------
(* Time and failure *)

\* Mutant: an expired lease goes on counting down.
MutantLeaseTick(w) ==
    /\ lease' = [lease EXCEPT ![w].ticks = @ - 1]
    /\ UNCHANGED <<registered, owner, published, workflow, run, approval, command,
                   handler>>

\* Time passes for a worktree lease; at zero ticks it has expired.
LeaseTick(w) ==
    /\ lease[w].ticks > 0
    /\ lease' = [lease EXCEPT ![w].ticks = @ - 1]
    /\ UNCHANGED <<registered, owner, published, workflow, run, approval, command,
                   handler>>

ApprovalExpires(a) ==
    /\ approval[a].live
    /\ approval' = [approval EXCEPT ![a].live = FALSE]
    /\ UNCHANGED <<registered, owner, published, workflow, run, lease, command,
                   handler>>

\* The five-minute delivery lease of a fetched command runs out.
CommandLeaseExpires(c) ==
    /\ command[c].leased
    /\ command' = [command EXCEPT ![c].leased = FALSE]
    /\ UNCHANGED <<registered, owner, published, workflow, run, lease, approval,
                   handler>>

\* The hub process dies: the second half of every open handler is lost.
HubCrash ==
    /\ handler' = [h \in SimpleRun \cup Approval |-> NoBridge]
    /\ UNCHANGED <<registered, owner, published, workflow, run, lease, approval,
                   command>>

-----------------------------------------------------------------------------
Operators ==
    \/ \E b \in Bridge : RegisterBridge(b)
    \/ \E s \in Session, d \in Definition : CreateSession(s, d)
    \/ \E s \in Session, d \in Definition, v \in 1..MaxVersion : ReviseWorkflow(s, d, v)
    \/ \E s \in Session : StartWorkflowRun(s)
    \/ \E r \in SimpleRun : CreateSimpleRun(r) \/ EnqueueSimpleRun(r)
    \/ \E a \in Approval, s \in Session, action \in Action, b \in Bridge :
          CreateApproval(a, s, action, b)
    \/ \E a \in Approval : Approve(a) \/ EnqueueApproved(a)
    \/ \E p \in Probe : EnqueueSkillProbe(p)

BridgeCalls ==
    \E b \in Bridge :
        \/ \E K \in SUBSET Skill : PublishSkills(b, K)
        \/ \E c \in CommandId : NextCommand(b, c) \/ AcknowledgeCommand(b, c)
        \/ \E s \in Session : RenewRunLease(b, s) \/ ReleaseRunLease(b, s)
        \/ \E r \in Run, status \in RunStatus : UpdateRunStatus(b, r, status)
        \/ \E r \in Run, status \in RunStatus : FinalizeRunCommand(b, r, status)
        \/ \E s \in Session : \E step \in workflow[s].cursor :
              \E outcome \in {"succeeded", "failed", "cancelled"} :
                 CompleteWorkflowStep(b, s, step, outcome)
        \/ \E a \in Approval : ConsumeApprovalForRun(b, a) \/ CompleteApprovedMerge(b, a)

Clock ==
    \/ \E w \in Worktree : LeaseTick(w)
    \/ \E a \in Approval : ApprovalExpires(a)
    \/ \E c \in CommandId : CommandLeaseExpires(c)

Next == Operators \/ BridgeCalls \/ Clock \/ HubCrash

Spec == Init /\ [][Next]_vars

-----------------------------------------------------------------------------
(* Safety *)

Started(s) == run[s].status # "none"

\* Fencing tokens are unique: two runs that ever fenced the same worktree have
\* different epochs, and the lease row carries the highest one.  (A stale
\* command is told from the current one by its epoch alone.)
EpochsDistinct ==
    \A s, t \in Session :
        /\ run[s].epoch <= LeaseOf(s).epoch
        /\ (s # t /\ WorktreeOf[s] = WorktreeOf[t] /\ Started(s) /\ Started(t))
              => run[s].epoch # run[t].epoch

\* A run that settled, in completion or in reconciliation, can no longer pass the
\* lease preflight: its worktree is free for the next session.
SettledRunHoldsNoFence ==
    \A s \in Session : run[s].status \in {"completed", "reconciliation"} => ~Fenced(s)

\* A completed run spent a merge grant that was bound to its own epoch, and the
\* command of that grant is gone: a completed merge is never delivered again.
CompletedRunSettledItsMerge ==
    \A s \in Session : run[s].status = "completed" =>
        \E a \in Approval :
            /\ approval[a].session = s /\ approval[a].epoch = run[s].epoch
            /\ approval[a].action = "merge_and_accept"
            /\ approval[a].status = "consumed"
            /\ ~Queued(a)

\* A started session run is not stranded: until it is evidenced or settled its
\* command waits in some bridge queue.
ActiveRunHasCommand ==
    \A s \in Session : run[s].status \in {"queued", "running"} => Queued(s)

\* The workflow and the run of a session tell the same story: there is a run
\* exactly when the workflow left its draft, and a settled run closed it.
RunAndWorkflowAgree ==
    \A s \in Session :
        /\ Started(s) <=> workflow[s].status \notin {"none", "draft"}
        /\ run[s].status \in {"completed", "reconciliation"}
              => workflow[s].status \in WorkflowClosed

\* A bridge is never offered a GitHub action no approver granted.
QueuedActionIsGranted ==
    \A a \in Approval : Queued(a) => approval[a].status \in {"approved", "consumed"}

-----------------------------------------------------------------------------
(* Action properties *)

\* Once a run has lost its fence (expiry, release, or another session taking the
\* worktree), no later call gives it back: a late heartbeat cannot revive it.
FenceNeverReopens ==
    [][\A s \in Session : Started(s) /\ ~Fenced(s) => ~Fenced(s)']_vars

\* A grant is never consumed once a later session has fenced the worktree of the
\* run it is bound to.
GrantConsumedUnderItsFence ==
    [][\A a \in Approval :
          approval[a].status # "consumed" /\ approval'[a].status = "consumed" =>
            \A t \in Session \ {approval[a].session} :
               WorktreeOf[t] = WorktreeOf[approval[a].session] /\ Started(t)
                 => run[t].epoch < approval[a].epoch]_vars

\* A started workflow is pinned to the version it started with, and a closed one
\* never takes another status.
WorkflowPinned ==
    [][\A s \in Session :
          /\ workflow[s].status \notin {"none", "draft"} =>
                /\ workflow'[s].definition = workflow[s].definition
                /\ workflow'[s].version = workflow[s].version
          /\ workflow[s].status \in WorkflowClosed =>
                workflow'[s].status = workflow[s].status]_vars

\* docs/CONTRACTS.md:102: "reconciliation is never represented as completed
\* delivery".  Read on the session's workflow, which is what the browser lists.
ReconciliationNotShownCompleted ==
    \A s \in Session :
        run[s].status = "reconciliation" => workflow[s].status # "completed"
=============================================================================
