------------------------- MODULE DeliveryGrantProofs -------------------------
(***************************************************************************)
(* Proofs about Delivery, second part: the command queue, the one-time      *)
(* grants and the settlement of a run, from the type invariant and the      *)
(* fence of DeliveryProofs.                                                *)
(***************************************************************************)
EXTENDS DeliveryProofs

-----------------------------------------------------------------------------
(* Settled runs *)

\* Releasing closes the fence of the run whose lease it releases.
LEMMA ReleaseClosesFence ==
    ASSUME TypeOK, NEW s \in Session, lease' = Released(s), run'[s].epoch = run[s].epoch
    PROVE  ~Fenced(s)'
<1>0. lease \in [Worktree -> LeaseRecord] /\ WorktreeOf[s] \in Worktree
  BY ConstantsOK DEF TypeOK, LeaseTyped
<1>1. CASE OwnsLease(s)
  <2>1. lease'[WorktreeOf[s]].ticks = 0
    BY <1>0, <1>1 DEF Released, LeaseRecord
  <2>2. QED
    BY <2>1 DEF Fenced, LeaseOf
<1>2. CASE ~OwnsLease(s)
  BY <1>2 DEF Released, Fenced, OwnsLease, LeaseOf
<1>3. QED
  BY <1>1, <1>2

\* The step that settles a session's run releases its lease.
LEMMA SettlingReleases ==
    ASSUME TypeOK, [Next]_vars, NEW s \in Session,
           run[s].status \notin {"completed", "reconciliation"},
           run'[s].status \in {"completed", "reconciliation"}
    PROVE  lease' = Released(s) /\ run'[s].epoch = run[s].epoch
<1>0. /\ run \in [Run -> RunRecord]
      /\ s \in Run
  BY DEF TypeOK, RunTyped, Run
<1> DEFINE Goal == lease' = Released(s) /\ run'[s].epoch = run[s].epoch
<1> SUFFICES Goal
  OBVIOUS
<1>1. run' # run
  OBVIOUS
<1> HIDE DEF Goal
<1>2. ASSUME NEW t \in Session, StartWorkflowRun(t)
      PROVE  Goal
  BY <1>0, <1>2 DEF StartWorkflowRun, RunRecord
<1>3. ASSUME NEW r \in SimpleRun, CreateSimpleRun(r)
      PROVE  Goal
  BY <1>0, <1>3 DEF CreateSimpleRun, RunRecord, Run
<1>4. ASSUME NEW b \in Bridge, NEW r \in Run, NEW status \in RunStatus,
             UpdateRunStatus(b, r, status) \/ FinalizeRunCommand(b, r, status)
      PROVE  Goal
  <2>1. run' = [run EXCEPT ![r].status = status]
    BY <1>4 DEF UpdateRunStatus, FinalizeRunCommand
  <2>2. /\ r = s /\ status \in {"completed", "reconciliation"}
        /\ run'[s].epoch = run[s].epoch
    BY <1>0, <2>1 DEF RunRecord
  <2>3. status = "reconciliation"
    BY <1>4, <2>2 DEF UpdateRunStatus, FinalizeRunCommand, RunTransition
  <2>4. lease' = Released(s)
    BY <1>4, <2>2, <2>3 DEF UpdateRunStatus, FinalizeRunCommand, ReconcileSession
  <2>5. QED
    BY <2>2, <2>4 DEF Goal
<1>5. ASSUME NEW b \in Bridge, NEW a \in Approval, CompleteApprovedMerge(b, a)
      PROVE  Goal
  <2>1. run' = [run EXCEPT ![approval[a].session].status = "completed"]
        /\ lease' = Released(approval[a].session)
    BY <1>5 DEF CompleteApprovedMerge
  <2>2. approval[a].session = s /\ run'[s].epoch = run[s].epoch
    BY <1>0, <2>1 DEF RunRecord
  <2>3. QED
    BY <2>1, <2>2 DEF Goal
<1>6. CASE Next
  BY <1>1, <1>2, <1>3, <1>4, <1>5, <1>6
     DEF Next, Operators, BridgeCalls, Clock, RegisterBridge, CreateSession, ReviseWorkflow,
         EnqueueSimpleRun, CreateApproval, Approve, EnqueueApproved, EnqueueSkillProbe,
         PublishSkills, NextCommand, AcknowledgeCommand, RenewRunLease, ReleaseRunLease,
         CompleteWorkflowStep, ConsumeApprovalForRun, LeaseTick, ApprovalExpires,
         CommandLeaseExpires, HubCrash
<1>7. QED
  BY <1>1, <1>6 DEF vars

LEMMA SettledStep ==
    ASSUME TypeOK, RunAndWorkflowAgree, SettledRunHoldsNoFence, [Next]_vars
    PROVE  SettledRunHoldsNoFence'
<1> SUFFICES ASSUME NEW s \in Session, run'[s].status \in {"completed", "reconciliation"}
             PROVE  ~Fenced(s)'
  BY DEF SettledRunHoldsNoFence
<1>1. CASE run[s].status \in {"completed", "reconciliation"}
  BY <1>1, LostFenceStep DEF SettledRunHoldsNoFence, Started
<1>2. CASE run[s].status \notin {"completed", "reconciliation"}
  BY <1>2, SettlingReleases, ReleaseClosesFence
<1>3. QED
  BY <1>1, <1>2

\* A completed or reconciled run never passes the lease preflight again: the step
\* that settles it releases its lease, and a lost fence stays lost.
THEOREM SettledRunsAreUnfenced == Spec => []SettledRunHoldsNoFence
<1>1. Init => SettledRunHoldsNoFence
  BY DEF Init, SettledRunHoldsNoFence, Run
<1>2. TypeOK /\ RunAndWorkflowAgree /\ SettledRunHoldsNoFence /\ [Next]_vars
         => SettledRunHoldsNoFence'
  BY SettledStep
<1>3. QED
  BY <1>1, <1>2, TypeCorrect, PTL DEF Spec

-----------------------------------------------------------------------------
(* The grant and its fence *)

\* The transaction that consumes a grant holds the lease of the grant's epoch, and
\* no other call consumes one.
LEMMA ConsumedUnderFence ==
    ASSUME TypeOK, [Next]_vars, NEW a \in Approval,
           approval[a].status # "consumed", approval'[a].status = "consumed"
    PROVE  /\ approval[a].session \in Session
           /\ BindingHolds(a)
<1>0. approval \in [Approval -> ApprovalRecord]
  BY DEF TypeOK, ApprovalTyped
<1> DEFINE Goal == approval[a].session \in Session /\ BindingHolds(a)
<1> SUFFICES Goal
  OBVIOUS
<1>1. approval' # approval
  OBVIOUS
<1> HIDE DEF Goal
<1>2. ASSUME NEW x \in Approval, NEW s \in Session, NEW action \in Action, NEW b \in Bridge,
             CreateApproval(x, s, action, b)
      PROVE  Goal
  BY <1>0, <1>2 DEF CreateApproval
<1>3. ASSUME NEW x \in Approval, Approve(x) \/ ApprovalExpires(x)
      PROVE  Goal
  BY <1>0, <1>3 DEF Approve, ApprovalExpires, ApprovalRecord
<1>4. ASSUME NEW b \in Bridge, NEW x \in Approval, ConsumeApprovalForRun(b, x)
      PROVE  Goal
  <2>1. x = a
    BY <1>0, <1>4 DEF ConsumeApprovalForRun
  <2>2. QED
    BY <1>4, <2>1 DEF ConsumeApprovalForRun, TypeOK, ApprovalTyped, Goal
<1>5. CASE Next
  BY <1>1, <1>2, <1>3, <1>4, <1>5
     DEF Next, Operators, BridgeCalls, Clock, RegisterBridge, CreateSession, ReviseWorkflow,
         StartWorkflowRun, CreateSimpleRun, EnqueueSimpleRun, EnqueueApproved,
         EnqueueSkillProbe, PublishSkills, NextCommand, AcknowledgeCommand, RenewRunLease,
         ReleaseRunLease, UpdateRunStatus, FinalizeRunCommand, CompleteWorkflowStep,
         CompleteApprovedMerge, LeaseTick, CommandLeaseExpires, HubCrash
<1>6. QED
  BY <1>1, <1>5 DEF vars

\* A grant is consumed only while its run is the last one that fenced the
\* worktree: an approval that a later session overtook authorizes nothing.
THEOREM GrantsConsumedInTheirEpoch == Spec => GrantConsumedUnderItsFence
<1>1. ASSUME TypeOK, EpochsDistinct, [Next]_vars, NEW a \in Approval,
             approval[a].status # "consumed", approval'[a].status = "consumed",
             NEW t \in Session \ {approval[a].session},
             WorktreeOf[t] = WorktreeOf[approval[a].session], Started(t)
      PROVE  run[t].epoch < approval[a].epoch
  <2> DEFINE s == approval[a].session
  <2>1. s \in Session /\ BindingHolds(a)
    BY <1>1, ConsumedUnderFence
  <2>2. run[s].epoch = approval[a].epoch /\ LeaseOf(t).epoch = approval[a].epoch /\ Started(s)
    BY <1>1, <2>1 DEF BindingHolds, Fenced, OwnsLease, LeaseOf, Started
  <2>3. run[t].epoch <= LeaseOf(t).epoch /\ run[t].epoch # run[s].epoch
    BY <1>1, <2>1, <2>2 DEF EpochsDistinct
  <2>4. run[t].epoch \in Nat /\ LeaseOf(t).epoch \in Nat
    BY <1>1, ConstantsOK DEF TypeOK, RunTyped, RunRecord, LeaseTyped, LeaseRecord, LeaseOf, Run
  <2>5. QED
    BY <2>2, <2>3, <2>4
<1>2. TypeOK /\ EpochsDistinct /\ [Next]_vars =>
        [\A a \in Approval :
            approval[a].status # "consumed" /\ approval'[a].status = "consumed" =>
              \A t \in Session \ {approval[a].session} :
                 WorktreeOf[t] = WorktreeOf[approval[a].session] /\ Started(t)
                   => run[t].epoch < approval[a].epoch]_vars
  BY <1>1
<1>3. QED
  BY <1>2, TypeCorrect, FencingTokensUnique, PTL DEF Spec, GrantConsumedUnderItsFence

-----------------------------------------------------------------------------
(* The command queue *)

LEMMA EnqueuedQueued ==
    ASSUME TypeOK, NEW c \in CommandId, NEW d \in CommandId, NEW b \in Bridge,
           command' = Enqueued(c, b)
    PROVE  Queued(d)' <=> (d = c \/ Queued(d))
BY ConstantsOK DEF TypeOK, CommandTyped, Enqueued, Queued

LEMMA DequeuedQueued ==
    ASSUME TypeOK, NEW c \in CommandId, NEW d \in CommandId, command' = Dequeued(c)
    PROVE  Queued(d)' <=> (d # c /\ Queued(d))
<1>1. command[d] \in CommandRecord
  BY DEF TypeOK, CommandTyped
<1>2. CASE d = c
  BY <1>2 DEF Dequeued, Queued, NoCommand
<1>3. CASE d # c
  <2>1. command'[d].bridge = command[d].bridge
    BY <1>1, <1>3 DEF Dequeued, CommandRecord
  <2>2. QED
    BY <1>3, <2>1 DEF Queued
<1>4. QED
  BY <1>2, <1>3

LEMMA LeasedQueued ==
    ASSUME TypeOK, NEW c \in CommandId, NEW d \in CommandId, NEW x \in BOOLEAN,
           command' = [command EXCEPT ![c].leased = x]
    PROVE  Queued(d)' <=> Queued(d)
BY DEF TypeOK, CommandTyped, CommandRecord, Queued

\* What a step may do to the queue: a session's command enters it with the start
\* of the run, an action's with the second half of the approve endpoint; a run
\* command leaves it only with its finalizer, an action's with an acknowledgement
\* or with the completed merge.
LEMMA QueueStep ==
    ASSUME TypeOK, [Next]_vars
    PROVE  /\ \A s \in Session :
                 /\ StartWorkflowRun(s) => Queued(s)'
                 /\ Queued(s) /\ ~Queued(s)' => \E b \in Bridge, status \in RunStatus :
                                                    FinalizeRunCommand(b, s, status)
           /\ \A a \in Approval : ~Queued(a) /\ Queued(a)' => EnqueueApproved(a)
<1> DEFINE Leaves(s) == \E b \in Bridge, status \in RunStatus : FinalizeRunCommand(b, s, status)
           Sessions == \A s \in Session : /\ StartWorkflowRun(s) => Queued(s)'
                                          /\ Queued(s) /\ ~Queued(s)' => Leaves(s)
           Actions  == \A a \in Approval : ~Queued(a) /\ Queued(a)' => EnqueueApproved(a)
<1> SUFFICES Sessions /\ Actions
  OBVIOUS
<1>0. /\ Session \subseteq CommandId /\ SimpleRun \subseteq CommandId
      /\ Approval \subseteq CommandId /\ Probe \subseteq CommandId /\ Run \subseteq CommandId
      /\ owner # NoBridge => owner \in Bridge
      /\ \A h \in SimpleRun \cup Approval : handler[h] # NoBridge => handler[h] \in Bridge
  BY DEF CommandId, Run, TypeOK, BridgesTyped, HandlerTyped
<1>1. \A s \in Session : StartWorkflowRun(s) => Queued(s)'
  BY <1>0, EnqueuedQueued DEF StartWorkflowRun
<1>2. ASSUME NEW c \in CommandId \ Approval, NEW b \in Bridge, command' = Enqueued(c, b)
      PROVE  Sessions /\ Actions
  BY <1>0, <1>1, <1>2, EnqueuedQueued
<1>3. ASSUME NEW c \in CommandId \ Session, command' = Dequeued(c)
      PROVE  Sessions /\ Actions
  BY <1>0, <1>1, <1>3, DequeuedQueued
<1>4. ASSUME NEW c \in CommandId, NEW x \in BOOLEAN, command' = [command EXCEPT ![c].leased = x]
      PROVE  Sessions /\ Actions
  BY <1>0, <1>1, <1>4, LeasedQueued
<1>5. CASE UNCHANGED command
  BY <1>0, <1>1, <1>5 DEF Queued
<1>6. ASSUME NEW a \in Approval, EnqueueApproved(a)
      PROVE  Sessions /\ Actions
  <2>1. command' = Enqueued(a, handler[a]) /\ handler[a] \in Bridge
    BY <1>0, <1>6 DEF EnqueueApproved
  <2>2. \A d \in CommandId : Queued(d)' <=> (d = a \/ Queued(d))
    BY <1>0, <2>1, EnqueuedQueued
  <2>3. QED
    BY <1>0, <1>1, <1>6, <2>2
<1>7. ASSUME NEW b \in Bridge, NEW r \in Run, NEW status \in RunStatus,
             FinalizeRunCommand(b, r, status)
      PROVE  Sessions /\ Actions
  <2>1. \A d \in CommandId : Queued(d)' <=> (d # r /\ Queued(d))
    BY <1>0, <1>7, DequeuedQueued DEF FinalizeRunCommand
  <2>2. QED
    BY <1>0, <1>1, <1>7, <2>1
<1>8. ASSUME NEW b \in Bridge, NEW a \in Approval, CompleteApprovedMerge(b, a)
      PROVE  Sessions /\ Actions
  BY <1>0, <1>3, <1>8, IdsDisjoint DEF CompleteApprovedMerge, Run
<1>9. ASSUME NEW b \in Bridge, NEW c \in CommandId, AcknowledgeCommand(b, c)
      PROVE  Sessions /\ Actions
  BY <1>3, <1>9 DEF AcknowledgeCommand, Run
<1>10. ASSUME NEW s \in Session, StartWorkflowRun(s)
       PROVE  Sessions /\ Actions
  BY <1>0, <1>2, <1>10, IdsDisjoint DEF StartWorkflowRun, Run
<1>11. ASSUME NEW r \in SimpleRun, EnqueueSimpleRun(r)
       PROVE  Sessions /\ Actions
  BY <1>0, <1>2, <1>11, IdsDisjoint DEF EnqueueSimpleRun, Run
<1>12. ASSUME NEW p \in Probe, EnqueueSkillProbe(p)
       PROVE  Sessions /\ Actions
  BY <1>0, <1>2, <1>12, IdsDisjoint DEF EnqueueSkillProbe
<1>13. ASSUME NEW b \in Bridge, NEW c \in CommandId, NextCommand(b, c)
       PROVE  Sessions /\ Actions
  BY <1>4, <1>13 DEF NextCommand
<1>14. ASSUME NEW c \in CommandId, CommandLeaseExpires(c)
       PROVE  Sessions /\ Actions
  BY <1>4, <1>14 DEF CommandLeaseExpires
<1> HIDE DEF Sessions, Actions
<1>15. CASE Operators
  BY <1>5, <1>6, <1>10, <1>11, <1>12, <1>15
     DEF Operators, RegisterBridge, CreateSession, ReviseWorkflow, CreateSimpleRun,
         CreateApproval, Approve
<1>16. CASE BridgeCalls
  BY <1>5, <1>7, <1>8, <1>9, <1>13, <1>16
     DEF BridgeCalls, PublishSkills, RenewRunLease, ReleaseRunLease, UpdateRunStatus,
         CompleteWorkflowStep, ConsumeApprovalForRun
<1>17. CASE Clock \/ HubCrash
  BY <1>5, <1>14, <1>17 DEF Clock, LeaseTick, ApprovalExpires, HubCrash
<1>18. QED
  BY <1>5, <1>15, <1>16, <1>17 DEF Next, vars

\* Only a start puts a session's run among the active ones, and the finalizer that
\* takes its command away leaves it settled or evidenced.
LEMMA ActiveStep ==
    ASSUME TypeOK, ActiveRunHasCommand, [Next]_vars
    PROVE  ActiveRunHasCommand'
<1> SUFFICES ASSUME NEW s \in Session, run'[s].status \in {"queued", "running"}
             PROVE  Queued(s)'
  BY DEF ActiveRunHasCommand
<1>0. run \in [Run -> RunRecord] /\ s \in Run
  BY DEF TypeOK, RunTyped, Run
<1> DEFINE Active == run[s].status \in {"queued", "running"}
<1>1. Active => Queued(s)'
  <2>1. SUFFICES ASSUME Queued(s), ~Queued(s)'
                 PROVE  FALSE
    BY DEF ActiveRunHasCommand
  <2>2. PICK b \in Bridge, status \in RunStatus : FinalizeRunCommand(b, s, status)
    BY <2>1, QueueStep
  <2>3. run'[s].status \in {"evidenced", "reconciliation"}
    BY <1>0, <2>2 DEF FinalizeRunCommand, RunRecord
  <2>4. QED
    BY <2>3
<1>2. Active \/ StartWorkflowRun(s)
  <2> DEFINE Goal == Active \/ StartWorkflowRun(s)
  <2> SUFFICES Goal
    OBVIOUS
  <2>1. UNCHANGED run => Goal
    OBVIOUS
  <2>2. ASSUME NEW t \in Session, StartWorkflowRun(t)
        PROVE  Goal
    BY <1>0, <2>2 DEF StartWorkflowRun
  <2>3. ASSUME NEW r \in SimpleRun, CreateSimpleRun(r)
        PROVE  Goal
    BY <1>0, <2>3, IdsDisjoint DEF CreateSimpleRun
  <2>4. ASSUME NEW b \in Bridge, NEW r \in Run, NEW status \in RunStatus,
               UpdateRunStatus(b, r, status)
        PROVE  Goal
    BY <1>0, <2>4 DEF UpdateRunStatus, RunTransition, RunRecord
  <2>5. ASSUME NEW b \in Bridge, NEW r \in Run, NEW status \in RunStatus,
               FinalizeRunCommand(b, r, status)
        PROVE  Goal
    BY <1>0, <2>5 DEF FinalizeRunCommand, RunRecord
  <2>6. ASSUME NEW b \in Bridge, NEW a \in Approval, CompleteApprovedMerge(b, a)
        PROVE  Goal
    BY <1>0, <2>6 DEF CompleteApprovedMerge, RunRecord
  <2> HIDE DEF Goal
  <2>7. CASE Next
    BY <2>1, <2>2, <2>3, <2>4, <2>5, <2>6, <2>7
       DEF Next, Operators, BridgeCalls, Clock, RegisterBridge, CreateSession,
           ReviseWorkflow, EnqueueSimpleRun, CreateApproval, Approve, EnqueueApproved,
           EnqueueSkillProbe, PublishSkills, NextCommand, AcknowledgeCommand,
           RenewRunLease, ReleaseRunLease, CompleteWorkflowStep, ConsumeApprovalForRun,
           LeaseTick, ApprovalExpires, CommandLeaseExpires, HubCrash
  <2>8. QED
    BY <2>1, <2>7 DEF vars
<1>3. QED
  BY <1>1, <1>2, QueueStep

\* A started session run is never stranded: its command stays queued until its own
\* finalizer settles it, whatever is acknowledged, re-leased or crashes meanwhile.
THEOREM ActiveRunsAreQueued == Spec => []ActiveRunHasCommand
<1>1. Init => ActiveRunHasCommand
  BY DEF Init, ActiveRunHasCommand, Run
<1>2. TypeOK /\ ActiveRunHasCommand /\ [Next]_vars => ActiveRunHasCommand'
  BY ActiveStep
<1>3. QED
  BY <1>1, <1>2, TypeCorrect, PTL DEF Spec

-----------------------------------------------------------------------------
(* A grant comes before its command, and is spent once *)

Granted(a) == approval[a].status \in {"approved", "consumed"}

\* The strengthening that carries both grant properties: only a granted approval
\* is queued or about to be, and never both.
GrantBeforeDelivery ==
    \A a \in Approval : /\ Queued(a) => Granted(a) /\ handler[a] = NoBridge
                        /\ handler[a] # NoBridge => Granted(a)

\* What a step may do to one approval: its binding is fixed once requested, a
\* grant is never taken back, and only approving opens its second half.
LEMMA ApprovalStep ==
    ASSUME TypeOK, [Next]_vars, NEW a \in Approval
    PROVE  /\ Granted(a) => /\ Granted(a)'
                            /\ approval'[a].session = approval[a].session
                            /\ approval'[a].epoch = approval[a].epoch
                            /\ approval'[a].action = approval[a].action
           /\ approval[a].status = "consumed" => approval'[a].status = "consumed"
           /\ handler'[a] # NoBridge => handler[a] # NoBridge
                                        \/ (approval[a].status = "pending" /\ Granted(a)')
<1> DEFINE Kept == /\ Granted(a) => /\ Granted(a)'
                                    /\ approval'[a].session = approval[a].session
                                    /\ approval'[a].epoch = approval[a].epoch
                                    /\ approval'[a].action = approval[a].action
                   /\ approval[a].status = "consumed" => approval'[a].status = "consumed"
           Opened == handler'[a] # NoBridge => handler[a] # NoBridge
                                        \/ (approval[a].status = "pending" /\ Granted(a)')
<1> SUFFICES Kept /\ Opened
  OBVIOUS
<1> USE DEF Granted
<1>0. /\ approval \in [Approval -> ApprovalRecord]
      /\ handler \in [SimpleRun \cup Approval -> Bridge \cup {NoBridge}]
  BY DEF TypeOK, ApprovalTyped, HandlerTyped
<1>1. UNCHANGED approval => Kept
  OBVIOUS
<1>2. UNCHANGED handler => Opened
  OBVIOUS
<1>3. ASSUME NEW x \in Approval, NEW s \in Session, NEW action \in Action, NEW b \in Bridge,
             CreateApproval(x, s, action, b)
      PROVE  Kept /\ Opened
  BY <1>0, <1>3 DEF CreateApproval
<1>4. ASSUME NEW x \in Approval, Approve(x)
      PROVE  Kept /\ Opened
  BY <1>0, <1>4 DEF Approve, ApprovalRecord
<1>5. ASSUME NEW x \in Approval, ApprovalExpires(x)
      PROVE  Kept /\ Opened
  BY <1>0, <1>5 DEF ApprovalExpires, ApprovalRecord
<1>6. ASSUME NEW b \in Bridge, NEW x \in Approval, ConsumeApprovalForRun(b, x)
      PROVE  Kept /\ Opened
  BY <1>0, <1>6 DEF ConsumeApprovalForRun, ApprovalRecord
<1>7. ASSUME NEW x \in SimpleRun, CreateSimpleRun(x)
      PROVE  Kept /\ Opened
  <2>1. x # a
    BY IdsDisjoint DEF Run
  <2>2. QED
    BY <1>0, <1>7, <2>1 DEF CreateSimpleRun
<1>8. ASSUME NEW x \in SimpleRun, EnqueueSimpleRun(x)
      PROVE  Kept /\ Opened
  BY <1>0, <1>8 DEF EnqueueSimpleRun
<1>9. ASSUME NEW x \in Approval, EnqueueApproved(x)
      PROVE  Kept /\ Opened
  BY <1>0, <1>9 DEF EnqueueApproved
<1>10. CASE HubCrash
  BY <1>0, <1>10 DEF HubCrash
<1> HIDE DEF Kept, Opened
<1>11. CASE Operators
  BY <1>1, <1>2, <1>3, <1>4, <1>7, <1>8, <1>9, <1>11
     DEF Operators, RegisterBridge, CreateSession, ReviseWorkflow, StartWorkflowRun,
         EnqueueSkillProbe
<1>12. CASE BridgeCalls
  BY <1>1, <1>2, <1>6, <1>12
     DEF BridgeCalls, PublishSkills, NextCommand, AcknowledgeCommand, RenewRunLease,
         ReleaseRunLease, UpdateRunStatus, FinalizeRunCommand, CompleteWorkflowStep,
         CompleteApprovedMerge
<1>13. CASE Clock
  BY <1>1, <1>2, <1>5, <1>13 DEF Clock, LeaseTick, CommandLeaseExpires
<1>14. QED
  BY <1>1, <1>2, <1>10, <1>11, <1>12, <1>13 DEF Next, vars

LEMMA GrantStep ==
    ASSUME TypeOK, GrantBeforeDelivery, [Next]_vars
    PROVE  GrantBeforeDelivery'
<1> SUFFICES ASSUME NEW a \in Approval
             PROVE  /\ Queued(a)' => Granted(a)' /\ handler'[a] = NoBridge
                    /\ handler'[a] # NoBridge => Granted(a)'
  BY DEF GrantBeforeDelivery
<1>1. (handler[a] # NoBridge \/ Queued(a)) => Granted(a)'
  BY ApprovalStep DEF GrantBeforeDelivery
<1>2. handler'[a] # NoBridge => Granted(a)'
  BY <1>1, ApprovalStep
<1>3. ASSUME Queued(a)'
      PROVE  Granted(a)' /\ handler'[a] = NoBridge
  <2>1. CASE Queued(a)
    <3>1. Granted(a) /\ handler[a] = NoBridge
      BY <2>1 DEF GrantBeforeDelivery
    <3>2. QED
      BY <1>1, <2>1, <3>1, ApprovalStep DEF Granted
  <2>2. CASE EnqueueApproved(a)
    <3>1. handler'[a] = NoBridge /\ handler[a] # NoBridge
      BY <2>2 DEF EnqueueApproved, TypeOK, HandlerTyped
    <3>2. QED
      BY <1>1, <3>1
  <2>3. QED
    BY <1>3, <2>1, <2>2, QueueStep
<1>4. QED
  BY <1>2, <1>3

\* A bridge is never offered an action nobody granted, even when the hub dies
\* between the two transactions of the approve endpoint.
THEOREM QueuedActionsAreGranted == Spec => []QueuedActionIsGranted
<1>1. Init => GrantBeforeDelivery
  BY DEF Init, GrantBeforeDelivery, Queued, NoCommand, CommandId
<1>2. TypeOK /\ GrantBeforeDelivery /\ [Next]_vars => GrantBeforeDelivery'
  BY GrantStep
<1>3. GrantBeforeDelivery => QueuedActionIsGranted
  BY DEF GrantBeforeDelivery, QueuedActionIsGranted, Granted
<1>4. QED
  BY <1>1, <1>2, <1>3, TypeCorrect, PTL DEF Spec

\* A spent merge grant: bound to the run's epoch, consumed, and with nothing left
\* that could queue it again.
SpentMerge(a, s) ==
    /\ approval[a].session = s /\ approval[a].epoch = run[s].epoch
    /\ approval[a].action = "merge_and_accept"
    /\ approval[a].status = "consumed"
    /\ ~Queued(a)
    /\ handler[a] = NoBridge

CompletedMergeIsSpent ==
    \A s \in Session : run[s].status = "completed" => \E a \in Approval : SpentMerge(a, s)

\* A spent merge stays spent as long as its run keeps its epoch.
LEMMA SpentStays ==
    ASSUME TypeOK, [Next]_vars, NEW a \in Approval, NEW s \in Session,
           SpentMerge(a, s), run'[s].epoch = run[s].epoch
    PROVE  SpentMerge(a, s)'
<1>1. Granted(a) /\ approval[a].status # "pending"
  BY DEF SpentMerge, Granted
<1>2. /\ approval'[a].session = s /\ approval'[a].epoch = run'[s].epoch
      /\ approval'[a].action = "merge_and_accept" /\ approval'[a].status = "consumed"
      /\ handler'[a] = NoBridge
  BY <1>1, ApprovalStep DEF SpentMerge
<1>3. ~Queued(a)'
  BY QueueStep DEF SpentMerge, EnqueueApproved
<1>4. QED
  BY <1>2, <1>3 DEF SpentMerge

\* A run is completed by the transaction that spends its merge grant.
LEMMA CompletingSpends ==
    ASSUME TypeOK, GrantBeforeDelivery, [Next]_vars, NEW s \in Session,
           run[s].status # "completed", run'[s].status = "completed"
    PROVE  \E a \in Approval : SpentMerge(a, s)'
<1>0. /\ run \in [Run -> RunRecord]
      /\ s \in Run
  BY DEF TypeOK, RunTyped, Run
<1> DEFINE Merged == \E b \in Bridge, a \in Approval :
                        CompleteApprovedMerge(b, a) /\ approval[a].session = s
<1>1. Merged
  <2>1. run' # run
    OBVIOUS
  <2>2. ASSUME NEW t \in Session, StartWorkflowRun(t)
        PROVE  Merged
    BY <1>0, <2>2 DEF StartWorkflowRun
  <2>3. ASSUME NEW r \in SimpleRun, CreateSimpleRun(r)
        PROVE  Merged
    BY <1>0, <2>3 DEF CreateSimpleRun, RunRecord
  <2>4. ASSUME NEW b \in Bridge, NEW r \in Run, NEW status \in RunStatus,
               UpdateRunStatus(b, r, status) \/ FinalizeRunCommand(b, r, status)
        PROVE  Merged
    BY <1>0, <2>4 DEF UpdateRunStatus, FinalizeRunCommand, RunTransition, RunRecord
  <2>5. ASSUME NEW b \in Bridge, NEW a \in Approval, CompleteApprovedMerge(b, a)
        PROVE  Merged
    BY <1>0, <2>5 DEF CompleteApprovedMerge
  <2> HIDE DEF Merged
  <2>6. CASE Next
    BY <2>1, <2>2, <2>3, <2>4, <2>5, <2>6
       DEF Next, Operators, BridgeCalls, Clock, RegisterBridge, CreateSession,
           ReviseWorkflow, EnqueueSimpleRun, CreateApproval, Approve, EnqueueApproved,
           EnqueueSkillProbe, PublishSkills, NextCommand, AcknowledgeCommand,
           RenewRunLease, ReleaseRunLease, CompleteWorkflowStep, ConsumeApprovalForRun,
           LeaseTick, ApprovalExpires, CommandLeaseExpires, HubCrash
  <2>7. QED
    BY <2>1, <2>6 DEF vars
<1>2. PICK b \in Bridge, a \in Approval :
         CompleteApprovedMerge(b, a) /\ approval[a].session = s
  BY <1>1
<1>3. /\ approval' = approval /\ handler' = handler
      /\ run'[s].epoch = run[s].epoch /\ run[s].epoch = approval[a].epoch
      /\ approval[a].action = "merge_and_accept" /\ approval[a].status = "consumed"
  BY <1>0, <1>2 DEF CompleteApprovedMerge, BindingHolds, RunRecord
<1>4. handler[a] = NoBridge
  <2>1. Queued(a)
    BY <1>2, ConstantsOK DEF CompleteApprovedMerge, Queued
  <2>2. QED
    BY <2>1 DEF GrantBeforeDelivery
<1>5. ~Queued(a)'
  BY <1>2, DequeuedQueued DEF CompleteApprovedMerge, CommandId
<1>6. SpentMerge(a, s)'
  BY <1>2, <1>3, <1>4, <1>5 DEF SpentMerge
<1>7. QED
  BY <1>6

LEMMA SpentStep ==
    ASSUME TypeOK, RunAndWorkflowAgree, GrantBeforeDelivery, CompletedMergeIsSpent,
           [Next]_vars
    PROVE  CompletedMergeIsSpent'
<1> SUFFICES ASSUME NEW s \in Session, run'[s].status = "completed"
             PROVE  \E a \in Approval : SpentMerge(a, s)'
  BY DEF CompletedMergeIsSpent
<1>1. CASE run[s].status = "completed"
  <2>1. PICK a \in Approval : SpentMerge(a, s)
    BY <1>1 DEF CompletedMergeIsSpent
  <2>2. ~StartWorkflowRun(s)
    BY <1>1 DEF StartWorkflowRun, RunAndWorkflowAgree, Started
  <2>3. run'[s].epoch = run[s].epoch
    <3>1. CASE \A t \in Session : ~StartWorkflowRun(t)
      BY <3>1, FenceFrame
    <3>2. ASSUME NEW t \in Session, StartWorkflowRun(t)
          PROVE  run'[s].epoch = run[s].epoch
      BY <2>2, <3>2 DEF StartWorkflowRun, TypeOK, RunTyped, Run
    <3>3. QED
      BY <3>1, <3>2
  <2>4. QED
    BY <2>1, <2>3, SpentStays
<1>2. CASE run[s].status # "completed"
  BY <1>2, CompletingSpends
<1>3. QED
  BY <1>1, <1>2

\* A completed run spent a merge grant of its own epoch, and that merge can never
\* be delivered to a bridge again.
THEOREM CompletedMergesAreSpent == Spec => []CompletedRunSettledItsMerge
<1>1. Init => GrantBeforeDelivery /\ CompletedMergeIsSpent
  BY DEF Init, GrantBeforeDelivery, CompletedMergeIsSpent, Queued, NoCommand, CommandId, Run
<1>2. TypeOK /\ RunAndWorkflowAgree /\ GrantBeforeDelivery /\ CompletedMergeIsSpent
        /\ [Next]_vars => (GrantBeforeDelivery /\ CompletedMergeIsSpent)'
  BY GrantStep, SpentStep
<1>3. CompletedMergeIsSpent => CompletedRunSettledItsMerge
  BY DEF CompletedMergeIsSpent, CompletedRunSettledItsMerge, SpentMerge
<1>4. QED
  BY <1>1, <1>2, <1>3, TypeCorrect, PTL DEF Spec

-----------------------------------------------------------------------------
(* The workflow of a started session *)

\* Pinned for one session and one step.
Pinned(s) ==
    /\ workflow[s].status \notin {"none", "draft"} =>
          /\ workflow'[s].definition = workflow[s].definition
          /\ workflow'[s].version = workflow[s].version
    /\ workflow[s].status \in WorkflowClosed => workflow'[s].status = workflow[s].status

LEMMA PinnedStep ==
    ASSUME TypeOK, [Next]_vars, NEW s \in Session
    PROVE  Pinned(s)
<1>0. workflow \in [Session -> WorkflowRecord]
  BY DEF TypeOK, WorkflowTyped
<1>1. UNCHANGED workflow => Pinned(s)
  BY DEF Pinned
<1>2. ASSUME NEW t \in Session, NEW status, NEW cursor, workflow[t].status \notin WorkflowClosed,
             workflow' = [workflow EXCEPT ![t].status = status, ![t].cursor = cursor]
      PROVE  Pinned(s)
  BY <1>0, <1>2 DEF WorkflowRecord, Pinned
<1>3. ASSUME NEW t \in Session, NEW d \in Definition, CreateSession(t, d)
      PROVE  Pinned(s)
  BY <1>0, <1>3 DEF CreateSession, Pinned, WorkflowClosed
<1>4. ASSUME NEW t \in Session, NEW d \in Definition, NEW v \in 1..MaxVersion,
             ReviseWorkflow(t, d, v)
      PROVE  Pinned(s)
  BY <1>0, <1>4 DEF ReviseWorkflow, Pinned, WorkflowClosed
<1>5. ASSUME NEW t \in Session, StartWorkflowRun(t)
      PROVE  Pinned(s)
  BY <1>2, <1>5 DEF StartWorkflowRun, WorkflowClosed
<1>6. ASSUME NEW b \in Bridge, NEW r \in Run, NEW status \in RunStatus,
             UpdateRunStatus(b, r, status) \/ FinalizeRunCommand(b, r, status)
      PROVE  Pinned(s)
  <2>1. CASE ReconcileSession(r)
    BY <1>1, <1>2, <2>1 DEF ReconcileSession
  <2>2. CASE r \in Session /\ FinishRunStep(r)
    BY <1>1, <1>2, <2>2 DEF FinishRunStep, WorkflowClosed
  <2>3. QED
    BY <1>1, <1>6, <2>1, <2>2 DEF UpdateRunStatus, FinalizeRunCommand
<1>7. ASSUME NEW b \in Bridge, NEW t \in Session, NEW step \in workflow[t].cursor,
             NEW outcome \in {"succeeded", "failed", "cancelled"},
             CompleteWorkflowStep(b, t, step, outcome)
      PROVE  Pinned(s)
  BY <1>2, <1>7 DEF CompleteWorkflowStep, WorkflowClosed
<1>8. ASSUME NEW b \in Bridge, NEW a \in Approval, CompleteApprovedMerge(b, a)
      PROVE  Pinned(s)
  <2>1. approval[a].session \in Session
    BY <1>8 DEF CompleteApprovedMerge, TypeOK, ApprovalTyped
  <2>2. QED
    BY <1>1, <1>2, <1>8, <2>1 DEF CompleteApprovedMerge
<1>9. CASE Next
  BY <1>1, <1>3, <1>4, <1>5, <1>6, <1>7, <1>8, <1>9
     DEF Next, Operators, BridgeCalls, Clock, RegisterBridge, CreateSimpleRun,
         EnqueueSimpleRun, CreateApproval, Approve, EnqueueApproved, EnqueueSkillProbe,
         PublishSkills, NextCommand, AcknowledgeCommand, RenewRunLease, ReleaseRunLease,
         ConsumeApprovalForRun, LeaseTick, ApprovalExpires, CommandLeaseExpires, HubCrash
<1>10. QED
  BY <1>1, <1>9 DEF vars

\* Once started, a workflow runs the definition it was started with, and a closed
\* one is never reopened, by any call of any bridge or operator.
THEOREM StartedWorkflowsArePinned == Spec => WorkflowPinned
<1>1. TypeOK /\ [Next]_vars =>
        [\A s \in Session :
           /\ workflow[s].status \notin {"none", "draft"} =>
                 /\ workflow'[s].definition = workflow[s].definition
                 /\ workflow'[s].version = workflow[s].version
           /\ workflow[s].status \in WorkflowClosed =>
                 workflow'[s].status = workflow[s].status]_vars
  BY PinnedStep DEF Pinned
<1>2. QED
  BY <1>1, TypeCorrect, PTL DEF Spec, WorkflowPinned
=============================================================================
