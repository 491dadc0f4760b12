-------------------------- MODULE BridgeLoopProofs --------------------------
(***************************************************************************)
(* Proofs about BridgeLoop: the daemons only ever take steps of Delivery,   *)
(* so every theorem about the hub holds with them; and what GitHub and      *)
(* State have seen agrees with what the hub shows.                         *)
(***************************************************************************)
EXTENDS BridgeLoop, DeliveryGrantProofs

-----------------------------------------------------------------------------
(* What a daemon works on *)

\* The hub's invariant, which every step of Delivery preserves.
HubInv == TypeOK /\ RunAndWorkflowAgree /\ GrantBeforeDelivery

\* A daemon handles only granted actions, and its heartbeat renews the lease of a
\* session's run.
DaemonBound ==
    \A b \in Bridge :
        /\ daemon[b].pc \in ActionSteps => Granted(Cmd(b))
        /\ daemon[b].beat # "off" => Cmd(b) \in Session \cup Approval

LEMMA HubStep ==
    ASSUME HubInv, [Next]_vars
    PROVE  HubInv'
BY TypeStep, AgreeStep, GrantStep DEF HubInv

\* The run a heartbeat renews is a session's run.
LEMMA LeasedRunIsASession ==
    ASSUME HubInv, BridgeTypeOK, DaemonBound, NEW b \in Bridge, daemon[b].beat # "off"
    PROVE  LeasedRun(b) \in Session
<1>1. CASE Cmd(b) \in Approval
  <2>1. Granted(Cmd(b))
    <3>1. daemon[b].pc \in ActionSteps
      BY <1>1, IdsDisjoint DEF BridgeTypeOK, DaemonRecord, Cmd
    <3>2. QED
      BY <3>1 DEF DaemonBound
  <2>2. QED
    BY <1>1, <2>1 DEF HubInv, TypeOK, ApprovalTyped, Granted, LeasedRun
<1>2. CASE Cmd(b) \notin Approval
  BY <1>2 DEF DaemonBound, LeasedRun
<1>3. QED
  BY <1>1, <1>2

-----------------------------------------------------------------------------
(* The daemons implement Delivery *)

\* Every step of a daemon is a step of the hub or leaves the hub alone.
LEMMA StepIsHubStep ==
    ASSUME HubInv, BridgeTypeOK, DaemonBound, [BridgeNext]_allVars
    PROVE  [Next]_vars
<1> DEFINE Calls(b) ==
             \/ UNCHANGED vars
             \/ \E c \in CommandId : NextCommand(b, c) \/ AcknowledgeCommand(b, c)
             \/ \E s \in Session : RenewRunLease(b, s)
             \/ \E r \in Run, status \in RunStatus :
                   UpdateRunStatus(b, r, status) \/ FinalizeRunCommand(b, r, status)
             \/ \E a \in Approval : ConsumeApprovalForRun(b, a) \/ CompleteApprovedMerge(b, a)
             \/ \E K \in SUBSET Skill : PublishSkills(b, K)
<1>0. /\ {"running", "evidenced", "reconciliation"} \subseteq RunStatus
      /\ Run \subseteq CommandId /\ Approval \subseteq CommandId /\ Probe \subseteq CommandId
  BY DEF RunStatus, CommandId
<1>1. ASSUME NEW b \in Bridge, PollOnce(b) \/ PublishAtPoll(b) \/ Heartbeat(b) \/ Crash(b)
      PROVE  Calls(b)
  <2>1. /\ daemon[b].pc \in RunSteps => Cmd(b) \in Run
        /\ daemon[b].pc \in ActionSteps => /\ Cmd(b) \in Approval
                                           /\ approval[Cmd(b)].session \in Session
    BY DEF BridgeTypeOK, DaemonBound, Granted, HubInv, TypeOK, ApprovalTyped, Cmd
  <2>2. CASE Poll(b)
    BY <2>2 DEF Poll
  <2>3. CASE AnswerProbe(b)
    <3>1. Cmd(b) \in CommandId
      BY <1>0, <2>3 DEF BridgeTypeOK, AnswerProbe, At, Cmd
    <3>2. QED
      BY <2>3, <3>1 DEF AnswerProbe, Undelivered
  <2>4. CASE ValidateLease(b) \/ RunCodex(b) \/ Verify(b) \/ SubmitEvidence(b)
             \/ BindWorktree(b) \/ PerformEffect(b) \/ Crash(b)
    BY <2>4 DEF ValidateLease, RunCodex, Verify, SubmitEvidence, BindWorktree, PerformEffect,
                Crash, Undelivered, Rejected
  <2>5. CASE StartRun(b)
    BY <1>0, <2>1, <2>5 DEF StartRun, At, RunSteps, Undelivered, Rejected
  <2>6. CASE FinalizeEvidenced(b) \/ ReconcileRun(b)
    BY <1>0, <2>1, <2>6 DEF FinalizeEvidenced, ReconcileRun, At, RunSteps, Undelivered, Rejected
  <2>7. CASE ConsumeGrant(b)
    BY <2>1, <2>7 DEF ConsumeGrant, At, ActionSteps, Undelivered, Rejected
  <2>8. CASE SettleAction(b)
    BY <1>0, <2>1, <2>8 DEF SettleAction, At, ActionSteps, Undelivered, Rejected
  <2>9. CASE ReconcileAction(b)
    BY <1>0, <2>1, <2>9 DEF ReconcileAction, At, ActionSteps, Undelivered, Rejected, Run
  <2>10. CASE AcknowledgeAction(b)
    BY <1>0, <2>1, <2>10 DEF AcknowledgeAction, At, ActionSteps, Undelivered
  <2>11. CASE PublishAtPoll(b)
    BY <2>11 DEF PublishAtPoll
  <2>12. CASE Heartbeat(b)
    <3>1. LeasedRun(b) \in Session
      BY <2>12, LeasedRunIsASession DEF Heartbeat, Renew, RenewalFails, HeartbeatDies, Heartbeats
    <3>2. QED
      BY <2>12, <3>1 DEF Heartbeat, Renew, RenewalFails, HeartbeatDies, Undelivered, Rejected
  <2>13. QED
    BY <1>1, <2>2, <2>3, <2>4, <2>5, <2>6, <2>7, <2>8, <2>9, <2>10, <2>11, <2>12 DEF PollOnce
<1>2. ASSUME NEW b \in Bridge, Calls(b)
      PROVE  [Next]_vars
  BY <1>2 DEF Next, BridgeCalls
<1>3. ASSUME NEW c \in CommandId, DeliveryLeaseExpires(c)
      PROVE  [Next]_vars
  BY <1>3 DEF DeliveryLeaseExpires, Next, Clock
<1>4. CASE HubNext
  BY <1>4 DEF HubNext, Next, Clock
<1> HIDE DEF Calls
<1>5. QED
  BY <1>1, <1>2, <1>3, <1>4 DEF BridgeNext, allVars

-----------------------------------------------------------------------------
(* The daemons' own type invariant *)

\* BridgeTypeOK and DaemonBound say this of the record of each daemon.
BoundRecord(d) ==
    /\ d.pc \in RunSteps => d.cmd \in Run
    /\ d.pc \in ActionSteps => d.cmd \in Approval /\ Granted(d.cmd)
    /\ d.pc = "probe" => d.cmd \in Probe
    /\ d.beat # "off" => d.pc \notin {"idle", "probe"} /\ d.cmd \in Session \cup Approval

\* A daemon that takes a new position within the same command stays bound, and so
\* does one that returns.
LEMMA MoveBound ==
    ASSUME BridgeTypeOK, DaemonBound, NEW b \in Bridge,
           \/ Return(b)
           \/ \E pc \in RunSteps : daemon[b].pc \in RunSteps /\ Goto(b, pc)
           \/ \E pc \in ActionSteps : daemon[b].pc \in ActionSteps /\ Goto(b, pc)
    PROVE  \E d \in DaemonRecord : BoundRecord(d) /\ daemon' = [daemon EXCEPT ![b] = d]
<1>0. daemon[b] \in DaemonRecord /\ BoundRecord(daemon[b])
  BY DEF BridgeTypeOK, DaemonBound, BoundRecord, Cmd
<1>1. CASE Return(b)
  <2>1. IdleDaemon \in DaemonRecord /\ BoundRecord(IdleDaemon)
    BY DEF IdleDaemon, DaemonRecord, BoundRecord, Beat, RunSteps, ActionSteps
  <2>2. QED
    BY <1>1, <2>1 DEF Return
<1>2. ASSUME NEW pc, Goto(b, pc),
             \/ pc \in RunSteps /\ daemon[b].pc \in RunSteps
             \/ pc \in ActionSteps /\ daemon[b].pc \in ActionSteps
      PROVE  \E d \in DaemonRecord : BoundRecord(d) /\ daemon' = [daemon EXCEPT ![b] = d]
  <2> DEFINE d == [daemon[b] EXCEPT !.pc = pc]
  <2>1. d \in DaemonRecord
    BY <1>0, <1>2 DEF DaemonRecord
  <2>2. d.pc = pc /\ d.cmd = daemon[b].cmd /\ d.beat = daemon[b].beat
    BY <1>0 DEF DaemonRecord
  <2>3. pc \notin {"idle", "probe"} /\ ~(pc \in RunSteps /\ pc \in ActionSteps)
        /\ ~(daemon[b].pc \in RunSteps /\ daemon[b].pc \in ActionSteps)
    BY <1>2 DEF RunSteps, ActionSteps
  <2>4. daemon' = [daemon EXCEPT ![b] = d]
    BY <1>2 DEF Goto, BridgeTypeOK
  <2> HIDE DEF d
  <2>5. BoundRecord(d)
    BY <1>0, <1>2, <2>2, <2>3 DEF BoundRecord
  <2>6. QED
    BY <2>1, <2>4, <2>5
<1>3. QED
  BY <1>1, <1>2

\* The steps that also change the command or the heartbeat.
LEMMA NewPositionBound ==
    ASSUME HubInv, BridgeTypeOK, DaemonBound, NEW b \in Bridge,
           PollOnce(b) \/ PublishAtPoll(b) \/ Heartbeat(b) \/ Crash(b)
    PROVE  \/ UNCHANGED daemon
           \/ \E d \in DaemonRecord : BoundRecord(d) /\ daemon' = [daemon EXCEPT ![b] = d]
<1> DEFINE New == \E d \in DaemonRecord : BoundRecord(d) /\ daemon' = [daemon EXCEPT ![b] = d]
<1>0. daemon[b] \in DaemonRecord /\ BoundRecord(daemon[b])
  BY DEF BridgeTypeOK, DaemonBound, BoundRecord, Cmd
<1>1. CASE Poll(b)
  <2>1. PICK c \in CommandId : NextCommand(b, c)
           /\ daemon' = [daemon EXCEPT ![b] = [pc |-> EntryPoint(c), cmd |-> c, beat |-> "off"]]
    BY <1>1 DEF Poll
  <2> DEFINE d == [pc |-> EntryPoint(c), cmd |-> c, beat |-> "off"]
  <2>2. d \in DaemonRecord
    BY DEF DaemonRecord, EntryPoint, RunSteps, ActionSteps, Beat
  <2>3. c \in Approval => Granted(c)
    BY <2>1, ConstantsOK DEF NextCommand, HubInv, GrantBeforeDelivery, Queued
  <2>4. BoundRecord(d)
    BY <2>3, IdsDisjoint DEF BoundRecord, EntryPoint, RunSteps, ActionSteps, CommandId, Run
  <2>5. QED
    BY <2>1, <2>2, <2>4
<1>2. CASE \/ AnswerProbe(b) \/ FinalizeEvidenced(b) \/ ReconcileRun(b) \/ AcknowledgeAction(b)
           \/ Crash(b)
  BY <1>2, MoveBound DEF AnswerProbe, FinalizeEvidenced, ReconcileRun, AcknowledgeAction, Crash
<1>3. CASE ValidateLease(b) \/ RunCodex(b) \/ Verify(b) \/ SubmitEvidence(b)
  BY <1>3, MoveBound DEF ValidateLease, RunCodex, Verify, SubmitEvidence, At, RunSteps
<1>4. CASE BindWorktree(b) \/ PerformEffect(b) \/ SettleAction(b) \/ ReconcileAction(b)
  BY <1>4, MoveBound DEF BindWorktree, PerformEffect, SettleAction, ReconcileAction, At, ActionSteps
<1>5. ASSUME NEW pc, NEW beat \in Beat,
             \/ pc = "codex" /\ At(b, "start") /\ (beat # "off" => Cmd(b) \in Session)
             \/ pc = "effect" /\ At(b, "consume") /\ Granted(Cmd(b))
             \/ pc = daemon[b].pc /\ Heartbeats(b),
             daemon' = [daemon EXCEPT ![b].pc = pc, ![b].beat = beat]
      PROVE  New
  <2> DEFINE d == [daemon[b] EXCEPT !.pc = pc, !.beat = beat]
  <2>1. d.pc = pc /\ d.cmd = daemon[b].cmd /\ d.beat = beat
    BY <1>0 DEF DaemonRecord
  <2>2. d \in DaemonRecord
    BY <1>0, <1>5 DEF DaemonRecord, RunSteps, ActionSteps
  <2>3. BoundRecord(d)
    BY <1>0, <1>5, <2>1, IdsDisjoint DEF BoundRecord, RunSteps, ActionSteps, At, Cmd, Heartbeats
  <2>4. daemon' = [daemon EXCEPT ![b] = d]
    BY <1>5 DEF BridgeTypeOK
  <2>5. QED
    BY <2>2, <2>3, <2>4
<1>6. CASE StartRun(b)
  <2>1. CASE daemon' = [daemon EXCEPT
                ![b].pc = "codex", ![b].beat = IF Cmd(b) \in Session THEN "beating" ELSE "off"]
    BY <1>5, <1>6, <2>1 DEF StartRun, Beat
  <2>2. QED
    BY <1>6, <2>1, MoveBound DEF StartRun, At, RunSteps
<1>7. CASE ConsumeGrant(b)
  <2>1. CASE daemon' = [daemon EXCEPT ![b].pc = "effect", ![b].beat = "beating"]
    BY <1>0, <1>5, <1>7, <2>1 DEF ConsumeGrant, Beat, At, BoundRecord, ActionSteps, Cmd
  <2>2. QED
    BY <1>7, <2>1, MoveBound DEF ConsumeGrant, At, ActionSteps
<1>8. CASE RenewalFails(b) \/ HeartbeatDies(b)
  <2>1. PICK beat \in Beat : daemon' = [daemon EXCEPT ![b].beat = beat]
    BY <1>8 DEF RenewalFails, HeartbeatDies, Beat
  <2>2. daemon' = [daemon EXCEPT ![b].pc = daemon[b].pc, ![b].beat = beat]
    BY <1>0, <2>1 DEF BridgeTypeOK, DaemonRecord
  <2>3. QED
    BY <1>5, <1>8, <2>2 DEF RenewalFails, HeartbeatDies
<1>9. QED
  BY <1>1, <1>2, <1>3, <1>4, <1>6, <1>7, <1>8
     DEF PollOnce, Heartbeat, Renew, PublishAtPoll, bridgeVars

LEMMA BridgeTypedStep ==
    ASSUME HubInv, BridgeTypeOK, DaemonBound, [BridgeNext]_allVars
    PROVE  BridgeTypeOK' /\ DaemonBound'
<1> DEFINE OneMoves == \E b \in Bridge, d \in DaemonRecord :
                          BoundRecord(d) /\ daemon' = [daemon EXCEPT ![b] = d]
           Counted  == /\ submitted' \subseteq Run
                       /\ effects' \in [Approval -> Nat]
                       /\ faults' \in 0..MaxFaults
<1>1. \A a \in Approval : Granted(a) => Granted(a)'
  BY StepIsHubStep, ApprovalStep DEF HubInv
<1>2. UNCHANGED daemon \/ OneMoves
  BY NewPositionBound DEF BridgeNext, DeliveryLeaseExpires, allVars, bridgeVars
<1>3. Counted
  <2>1. UNCHANGED <<submitted, effects, faults>> => Counted
    BY DEF BridgeTypeOK
  <2>2. faults < MaxFaults /\ faults' = faults + 1 /\ UNCHANGED <<submitted, effects>> => Counted
    BY MaxFaultsOK DEF BridgeTypeOK
  <2>3. ASSUME NEW b \in Bridge, SubmitEvidence(b) PROVE Counted
    BY <2>3 DEF SubmitEvidence, BridgeTypeOK, At, Cmd, RunSteps
  <2>4. ASSUME NEW b \in Bridge, PerformEffect(b) PROVE Counted
    BY <2>4 DEF PerformEffect, BridgeTypeOK, At, Cmd, ActionSteps
  <2> HIDE DEF Counted
  <2>5. ASSUME NEW b \in Bridge, PollOnce(b) PROVE Counted
    BY <2>1, <2>2, <2>3, <2>4, <2>5
       DEF PollOnce, Poll, AnswerProbe, ValidateLease, StartRun, RunCodex, Verify,
           FinalizeEvidenced, ReconcileRun, BindWorktree, ConsumeGrant, SettleAction,
           ReconcileAction, AcknowledgeAction, Local, Rejected, Undelivered, FailsAfterCommit
  <2>6. ASSUME NEW b \in Bridge, PublishAtPoll(b) \/ Heartbeat(b) \/ Crash(b) PROVE Counted
    BY <2>1, <2>2, <2>6
       DEF PublishAtPoll, Heartbeat, Renew, RenewalFails, HeartbeatDies, Crash, bridgeVars,
           Local, Rejected, Undelivered, FailsAfterCommit
  <2>7. QED
    BY <2>1, <2>5, <2>6 DEF BridgeNext, DeliveryLeaseExpires, allVars, bridgeVars
<1>4. daemon' \in [Bridge -> DaemonRecord]
  BY <1>2 DEF BridgeTypeOK
<1>5. ASSUME NEW b \in Bridge
      PROVE  /\ daemon'[b].pc \in RunSteps => daemon'[b].cmd \in Run
             /\ daemon'[b].pc \in ActionSteps => daemon'[b].cmd \in Approval
                                                /\ Granted(Cmd(b))'
             /\ daemon'[b].pc = "probe" => daemon'[b].cmd \in Probe
             /\ daemon'[b].beat # "off" => /\ daemon'[b].pc \notin {"idle", "probe"}
                                           /\ daemon'[b].cmd \in Session \cup Approval
  <2>1. BoundRecord(daemon[b])
    BY DEF BridgeTypeOK, DaemonBound, BoundRecord, Cmd
  <2>2. BoundRecord(daemon'[b])
    BY <1>2, <2>1 DEF BridgeTypeOK
  <2>3. QED
    BY <1>1, <2>2 DEF BoundRecord, Granted, Cmd
<1>6. QED
  <2>1. BridgeTypeOK'
    BY <1>3, <1>4, <1>5 DEF BridgeTypeOK
  <2>2. DaemonBound'
    BY <1>5 DEF DaemonBound, Cmd
  <2>3. QED
    BY <2>1, <2>2

-----------------------------------------------------------------------------
(* The implementation theorem *)

LEMMA BridgeInitTyped == BridgeInit => HubInv /\ BridgeTypeOK /\ DaemonBound
<1> SUFFICES ASSUME BridgeInit PROVE HubInv /\ BridgeTypeOK /\ DaemonBound
  OBVIOUS
<1>1. HubInv
  <2>1. GrantBeforeDelivery
    BY DEF BridgeInit, Init, GrantBeforeDelivery, Queued, NoCommand, CommandId
  <2>2. QED
    BY <2>1, InitTyped DEF BridgeInit, HubInv
<1>2. IdleDaemon \in DaemonRecord /\ BoundRecord(IdleDaemon)
  BY DEF IdleDaemon, DaemonRecord, BoundRecord, Beat, RunSteps, ActionSteps
<1>3. QED
  BY <1>1, <1>2, MaxFaultsOK DEF BridgeInit, BridgeTypeOK, DaemonBound, BoundRecord, Cmd

\* Whatever the daemons do, with any number of bridges, crashes and lost answers,
\* the hub sees a behaviour of Delivery.
THEOREM BridgeImplementsDelivery == BridgeSpec => Spec
<1>1. BridgeInit => Init
  BY DEF BridgeInit
<1>2. HubInv /\ BridgeTypeOK /\ DaemonBound /\ [BridgeNext]_allVars
        => [Next]_vars /\ (HubInv /\ BridgeTypeOK /\ DaemonBound)'
  BY StepIsHubStep, HubStep, BridgeTypedStep
<1>3. QED
  BY <1>1, <1>2, BridgeInitTyped, PTL DEF BridgeSpec, Spec

\* The daemons are typed: a bridge works on a command of the kind its position is
\* for, and a heartbeat runs only while a command is in hand.
THEOREM BridgeTypeCorrect == BridgeSpec => []BridgeTypeOK
<1>1. HubInv /\ BridgeTypeOK /\ DaemonBound /\ [BridgeNext]_allVars
        => (HubInv /\ BridgeTypeOK /\ DaemonBound)'
  BY StepIsHubStep, HubStep, BridgeTypedStep
<1>2. QED
  BY <1>1, BridgeInitTyped, PTL DEF BridgeSpec

-----------------------------------------------------------------------------
(* What GitHub and State have seen *)

\* The strengthening: where a daemon is says what has happened.  While it has an
\* action in hand the command is still in its queue (so no other daemon has it); about
\* to act, the grant is consumed and GitHub has not seen the action; about to settle,
\* GitHub has; about to acknowledge a refusal, the run is reconciled; about to
\* finalize, State has the evidence.
ActionInHand == {"bind", "consume", "effect", "settle"}

PositionInv ==
    \A b \in Bridge :
        /\ daemon[b].pc \in ActionInHand => command[Cmd(b)].bridge = b
        /\ At(b, "effect") => approval[Cmd(b)].status = "consumed" /\ effects[Cmd(b)] = 0
        /\ At(b, "settle") => effects[Cmd(b)] > 0
        /\ At(b, "ack") => run[approval[Cmd(b)].session].status = "reconciliation"
        /\ At(b, "finalize") => Cmd(b) \in submitted

\* Which invariants every step may rely on.
DaemonInv == HubInv /\ BridgeTypeOK /\ DaemonBound

LEMMA DaemonInvStep ==
    ASSUME DaemonInv, [BridgeNext]_allVars
    PROVE  DaemonInv' /\ [Next]_vars
BY StepIsHubStep, HubStep, BridgeTypedStep DEF DaemonInv

\* An action's command leaves its bridge only in two steps of the daemon that has
\* it in hand.
LEMMA CommandLeaves ==
    ASSUME DaemonInv, [BridgeNext]_allVars, NEW a \in Approval, Queued(a)
    PROVE  \/ command'[a].bridge = command[a].bridge
           \/ LET b == command[a].bridge
              IN  b \in Bridge /\ Cmd(b) = a /\ (SettleAction(b) \/ AcknowledgeAction(b))
<1> DEFINE Kept   == command'[a].bridge = command[a].bridge
           Leaves == LET b == command[a].bridge
                     IN b \in Bridge /\ Cmd(b) = a /\ (SettleAction(b) \/ AcknowledgeAction(b))
<1> SUFFICES Kept \/ Leaves
  OBVIOUS
<1>0. /\ command \in [CommandId -> CommandRecord]
      /\ a \in CommandId /\ Run \subseteq CommandId
      /\ handler[a] = NoBridge
  BY DEF DaemonInv, HubInv, TypeOK, CommandTyped, CommandId, GrantBeforeDelivery
<1>1. UNCHANGED command => Kept
  OBVIOUS
<1>2. ASSUME NEW c \in CommandId \ {a}, NEW b, command' = Enqueued(c, b)
      PROVE  Kept
  BY <1>0, <1>2 DEF Enqueued
<1>3. ASSUME NEW c \in CommandId \ {a}, command' = Dequeued(c)
      PROVE  Kept
  <2>1. command'[a] = [command[a] EXCEPT !.ahead = @ \ {c}]
    BY <1>0, <1>3 DEF Dequeued
  <2>2. QED
    BY <1>0, <2>1 DEF CommandRecord
<1>4. ASSUME NEW c \in CommandId, NEW x \in BOOLEAN, command' = [command EXCEPT ![c].leased = x]
      PROVE  Kept
  BY <1>0, <1>4 DEF CommandRecord
<1> HIDE DEF Kept, Leaves
<1>5. CASE HubNext
  <2>1. ASSUME NEW s \in Session, StartWorkflowRun(s) PROVE Kept
    BY <1>2, <2>1, IdsDisjoint DEF StartWorkflowRun, CommandId, Run
  <2>2. ASSUME NEW r \in SimpleRun, EnqueueSimpleRun(r) PROVE Kept
    BY <1>2, <2>2, IdsDisjoint DEF EnqueueSimpleRun, CommandId, Run
  <2>3. ASSUME NEW x \in Approval, EnqueueApproved(x) PROVE Kept
    BY <1>0, <1>2, <2>3 DEF EnqueueApproved, CommandId
  <2>4. ASSUME NEW p \in Probe, EnqueueSkillProbe(p) PROVE Kept
    BY <1>2, <2>4, IdsDisjoint DEF EnqueueSkillProbe, CommandId
  <2>5. QED
    BY <1>1, <1>5, <2>1, <2>2, <2>3, <2>4
       DEF HubNext, Operators, HubCrash, LeaseTick, ApprovalExpires, RegisterBridge,
           CreateSession, ReviseWorkflow, CreateSimpleRun, CreateApproval, Approve
<1>6. ASSUME NEW c \in CommandId, DeliveryLeaseExpires(c)
      PROVE  Kept
  BY <1>4, <1>6 DEF DeliveryLeaseExpires, CommandLeaseExpires
<1>7. ASSUME NEW b \in Bridge, PollOnce(b)
      PROVE  Kept \/ Leaves
  <2>1. /\ daemon[b].pc \in RunSteps => Cmd(b) \in Run
        /\ daemon[b].pc \in ActionSteps => Cmd(b) \in Approval
        /\ daemon[b].pc = "probe" => Cmd(b) \in Probe
    BY DEF DaemonInv, BridgeTypeOK, Cmd
  <2>2. CASE Poll(b)
    BY <1>4, <2>2 DEF Poll, NextCommand
  <2>3. CASE AnswerProbe(b)
    BY <1>1, <1>3, <2>1, <2>3, IdsDisjoint
       DEF AnswerProbe, At, AcknowledgeCommand, Undelivered, vars, CommandId
  <2>4. CASE FinalizeEvidenced(b) \/ ReconcileRun(b)
    BY <1>1, <1>3, <2>1, <2>4, IdsDisjoint
       DEF FinalizeEvidenced, ReconcileRun, At, RunSteps, FinalizeRunCommand, Undelivered,
           Rejected, vars, CommandId
  <2>5. CASE AcknowledgeAction(b) \/ SettleAction(b)
    <3>1. Cmd(b) \in CommandId
      BY <2>1, <2>5 DEF AcknowledgeAction, SettleAction, At, ActionSteps, CommandId
    <3>2. \/ UNCHANGED command
          \/ command' = Dequeued(Cmd(b)) /\ command[Cmd(b)].bridge = b
      BY <2>5 DEF AcknowledgeAction, SettleAction, AcknowledgeCommand, CompleteApprovedMerge,
                  Undelivered, Rejected, vars
    <3>3. CASE Cmd(b) = a
      BY <1>1, <2>5, <3>2, <3>3 DEF Leaves
    <3>4. CASE Cmd(b) # a
      BY <1>1, <1>3, <3>1, <3>2, <3>4
    <3>5. QED
      BY <3>3, <3>4
  <2>6. CASE \/ ValidateLease(b) \/ StartRun(b) \/ RunCodex(b) \/ Verify(b)
             \/ SubmitEvidence(b) \/ BindWorktree(b) \/ ConsumeGrant(b) \/ PerformEffect(b)
             \/ ReconcileAction(b)
    BY <1>1, <2>6
       DEF ValidateLease, StartRun, RunCodex, Verify, SubmitEvidence, BindWorktree,
           ConsumeGrant, PerformEffect, ReconcileAction, UpdateRunStatus,
           ConsumeApprovalForRun, Undelivered, Rejected, vars
  <2>7. QED
    BY <1>7, <2>2, <2>3, <2>4, <2>5, <2>6 DEF PollOnce
<1>8. ASSUME NEW b \in Bridge, PublishAtPoll(b) \/ Heartbeat(b) \/ Crash(b)
      PROVE  Kept
  BY <1>1, <1>8
     DEF PublishAtPoll, PublishSkills, Heartbeat, Renew, RenewalFails, HeartbeatDies, Crash,
         RenewRunLease, Undelivered, Rejected, vars
<1>9. QED
  BY <1>1, <1>5, <1>6, <1>7, <1>8 DEF BridgeNext, allVars, vars

\* How the status of a session's run moves: evidenced by a daemon that finalizes,
\* completed by one that settles a merge; a settled run moves no more.
LEMMA RunStatusMoves ==
    ASSUME DaemonInv, [BridgeNext]_allVars, NEW s \in Session,
           run'[s].status # run[s].status
    PROVE  /\ run[s].status \notin {"completed", "reconciliation"}
           /\ \/ run'[s].status \notin {"evidenced", "completed"}
              \/ /\ run'[s].status = "evidenced"
                 /\ \E b \in Bridge : FinalizeEvidenced(b) /\ Cmd(b) = s
              \/ /\ run'[s].status = "completed" /\ run[s].status = "evidenced"
                 /\ \E b \in Bridge : /\ SettleAction(b) /\ CompleteApprovedMerge(b, Cmd(b))
                                      /\ approval[Cmd(b)].session = s
<1> DEFINE Moves == /\ run[s].status \notin {"completed", "reconciliation"}
                    /\ \/ run'[s].status \notin {"evidenced", "completed"}
                       \/ /\ run'[s].status = "evidenced"
                          /\ \E b \in Bridge : FinalizeEvidenced(b) /\ Cmd(b) = s
                       \/ /\ run'[s].status = "completed" /\ run[s].status = "evidenced"
                          /\ \E b \in Bridge : /\ SettleAction(b)
                                               /\ CompleteApprovedMerge(b, Cmd(b))
                                               /\ approval[Cmd(b)].session = s
<1> SUFFICES Moves
  OBVIOUS
<1>0. /\ run \in [Run -> RunRecord] /\ s \in Run
      /\ run' # run
  BY DEF DaemonInv, HubInv, TypeOK, RunTyped, Run
<1>1. ASSUME NEW b \in Bridge, NEW r \in Run, NEW status \in {"running", "reconciliation"},
             UpdateRunStatus(b, r, status) \/ FinalizeRunCommand(b, r, status)
      PROVE  Moves
  BY <1>0, <1>1 DEF UpdateRunStatus, FinalizeRunCommand, RunTransition, RunRecord
<1>2. CASE HubNext
  <2>1. ASSUME NEW t \in Session, StartWorkflowRun(t) PROVE Moves
    <3>1. run[t].status = "none"
      BY <2>1 DEF StartWorkflowRun, DaemonInv, HubInv, RunAndWorkflowAgree, Started
    <3>2. QED
      BY <1>0, <2>1, <3>1 DEF StartWorkflowRun
  <2>2. ASSUME NEW r \in SimpleRun, CreateSimpleRun(r) PROVE Moves
    BY <1>0, <2>2, IdsDisjoint DEF CreateSimpleRun
  <2> HIDE DEF Moves
  <2>3. QED
    BY <1>0, <1>2, <2>1, <2>2
       DEF HubNext, Operators, HubCrash, LeaseTick, ApprovalExpires, RegisterBridge,
           CreateSession, ReviseWorkflow, CreateApproval, Approve, EnqueueSimpleRun,
           EnqueueApproved, EnqueueSkillProbe
<1>3. ASSUME NEW b \in Bridge, PollOnce(b)
      PROVE  Moves
  <2>1. /\ daemon[b].pc \in RunSteps => Cmd(b) \in Run
        /\ daemon[b].pc \in ActionSteps => Cmd(b) \in Approval
                                         /\ approval[Cmd(b)].session \in Session
    BY DEF DaemonInv, HubInv, TypeOK, ApprovalTyped, BridgeTypeOK, DaemonBound, Granted, Cmd
  <2>2. CASE FinalizeEvidenced(b)
    <3>1. FinalizeRunCommand(b, Cmd(b), "evidenced") /\ Cmd(b) \in Run
      BY <1>0, <2>1, <2>2 DEF FinalizeEvidenced, At, RunSteps, Undelivered, Rejected, vars
    <3>2. Cmd(b) = s /\ run'[s].status = "evidenced"
      BY <1>0, <3>1 DEF FinalizeRunCommand, RunRecord
    <3>3. QED
      BY <2>2, <3>1, <3>2 DEF FinalizeRunCommand, RunTransition
  <2>3. CASE SettleAction(b)
    <3>1. CompleteApprovedMerge(b, Cmd(b)) /\ approval[Cmd(b)].session \in Run
      BY <1>0, <2>1, <2>3
         DEF SettleAction, At, ActionSteps, AcknowledgeCommand, Undelivered, Rejected, vars, Run
    <3>2. approval[Cmd(b)].session = s /\ run'[s].status = "completed"
          /\ run[s].status = "evidenced"
      BY <1>0, <3>1 DEF CompleteApprovedMerge, BindingHolds, RunRecord
    <3>3. QED
      BY <2>3, <3>1, <3>2
  <2> HIDE DEF Moves
  <2>4. CASE ReconcileRun(b)
    BY <1>0, <1>1, <2>1, <2>4 DEF ReconcileRun, At, RunSteps, Undelivered, Rejected, vars
  <2>5. CASE StartRun(b)
    BY <1>0, <1>1, <2>1, <2>5 DEF StartRun, At, RunSteps, Undelivered, Rejected, vars
  <2>6. CASE ReconcileAction(b)
    BY <1>0, <1>1, <2>1, <2>6
       DEF ReconcileAction, At, ActionSteps, Undelivered, Rejected, vars, Run
  <2>7. CASE \/ Poll(b) \/ AnswerProbe(b) \/ ValidateLease(b) \/ RunCodex(b) \/ Verify(b)
             \/ SubmitEvidence(b) \/ BindWorktree(b) \/ ConsumeGrant(b) \/ PerformEffect(b)
             \/ AcknowledgeAction(b)
    BY <1>0, <2>7
       DEF Poll, NextCommand, AnswerProbe, AcknowledgeCommand, ValidateLease, RunCodex,
           Verify, SubmitEvidence, BindWorktree, ConsumeGrant, ConsumeApprovalForRun,
           PerformEffect, AcknowledgeAction, Undelivered, Rejected, vars
  <2>8. QED
    BY <1>3, <2>2, <2>3, <2>4, <2>5, <2>6, <2>7 DEF PollOnce
<1> HIDE DEF Moves
<1>4. ASSUME NEW b \in Bridge, PublishAtPoll(b) \/ Heartbeat(b) \/ Crash(b)
      PROVE  Moves
  BY <1>0, <1>4
     DEF PublishAtPoll, PublishSkills, Heartbeat, Renew, RenewalFails, HeartbeatDies, Crash,
         RenewRunLease, Undelivered, Rejected, vars
<1>5. ASSUME NEW c \in CommandId, DeliveryLeaseExpires(c)
      PROVE  Moves
  BY <1>0, <1>5 DEF DeliveryLeaseExpires, CommandLeaseExpires
<1>6. QED
  BY <1>0, <1>2, <1>3, <1>4, <1>5 DEF BridgeNext, allVars, vars

\* GitHub sees an action only from the daemon that performs it, once per step.
LEMMA EffectsMove ==
    ASSUME DaemonInv, [BridgeNext]_allVars, NEW a \in Approval
    PROVE  \/ effects'[a] = effects[a]
           \/ /\ effects'[a] = effects[a] + 1
              /\ \E b \in Bridge : PerformEffect(b) /\ Cmd(b) = a
<1>0. effects \in [Approval -> Nat]
  BY DEF DaemonInv, BridgeTypeOK
<1>1. ASSUME NEW b \in Bridge, PerformEffect(b), UNCHANGED effects \/ Cmd(b) # a
      PROVE  effects'[a] = effects[a]
  BY <1>0, <1>1 DEF PerformEffect
<1>2. ASSUME NEW b \in Bridge, PerformEffect(b), ~UNCHANGED effects, Cmd(b) = a
      PROVE  effects'[a] = effects[a] + 1
  BY <1>0, <1>2 DEF PerformEffect
<1>3. UNCHANGED effects \/ \E b \in Bridge : PerformEffect(b)
  <2>1. ASSUME NEW b \in Bridge, PollOnce(b), ~PerformEffect(b)
        PROVE  UNCHANGED effects
    BY <2>1
       DEF PollOnce, Poll, AnswerProbe, ValidateLease, StartRun, RunCodex, Verify,
           SubmitEvidence, FinalizeEvidenced, ReconcileRun, BindWorktree, ConsumeGrant,
           SettleAction, ReconcileAction, AcknowledgeAction, Local, Rejected, Undelivered,
           FailsAfterCommit
  <2>2. ASSUME NEW b \in Bridge, PublishAtPoll(b) \/ Heartbeat(b) \/ Crash(b)
        PROVE  UNCHANGED effects
    BY <2>2
       DEF PublishAtPoll, Heartbeat, Renew, RenewalFails, HeartbeatDies, Crash, bridgeVars,
           Rejected, Local, Undelivered, FailsAfterCommit
  <2>3. QED
    BY <2>1, <2>2 DEF BridgeNext, DeliveryLeaseExpires, allVars, bridgeVars
<1>4. QED
  BY <1>1, <1>2, <1>3

\* What State accepted stays accepted.
LEMMA SubmittedGrows ==
    ASSUME [BridgeNext]_allVars
    PROVE  submitted \subseteq submitted'
<1>1. ASSUME NEW b \in Bridge, PollOnce(b)
      PROVE  submitted \subseteq submitted'
  BY <1>1
     DEF PollOnce, Poll, AnswerProbe, ValidateLease, StartRun, RunCodex, Verify,
         SubmitEvidence, FinalizeEvidenced, ReconcileRun, BindWorktree, ConsumeGrant,
         PerformEffect, SettleAction, ReconcileAction, AcknowledgeAction, Local, Rejected,
         Undelivered, FailsAfterCommit
<1>2. ASSUME NEW b \in Bridge, PublishAtPoll(b) \/ Heartbeat(b) \/ Crash(b)
      PROVE  submitted \subseteq submitted'
  BY <1>2
     DEF PublishAtPoll, Heartbeat, Renew, RenewalFails, HeartbeatDies, Crash, bridgeVars,
         Rejected, Local, Undelivered, FailsAfterCommit
<1>3. QED
  BY <1>1, <1>2 DEF BridgeNext, DeliveryLeaseExpires, allVars, bridgeVars

\* PositionInv for one daemon.
Position(b) ==
    /\ daemon[b].pc \in ActionInHand => command[Cmd(b)].bridge = b
    /\ At(b, "effect") => approval[Cmd(b)].status = "consumed" /\ effects[Cmd(b)] = 0
    /\ At(b, "settle") => effects[Cmd(b)] > 0
    /\ At(b, "ack") => run[approval[Cmd(b)].session].status = "reconciliation"
    /\ At(b, "finalize") => Cmd(b) \in submitted

\* A daemon that stays where it is: nobody else can invalidate its position.
LEMMA PositionKept ==
    ASSUME DaemonInv, PositionInv, [BridgeNext]_allVars, NEW x \in Bridge,
           daemon'[x].pc = daemon[x].pc, daemon'[x].cmd = daemon[x].cmd
    PROVE  Position(x)'
<1> DEFINE c == Cmd(x)
<1>0. /\ Position(x)
      /\ daemon[x].pc \in ActionSteps => /\ c \in Approval /\ Granted(c)
                                       /\ approval[c].session \in Session
      /\ [Next]_vars /\ TypeOK
      /\ ActionInHand \subseteq ActionSteps
  BY DaemonInvStep
     DEF PositionInv, Position, DaemonInv, HubInv, BridgeTypeOK, DaemonBound, TypeOK,
         ApprovalTyped, Granted, Cmd, ActionInHand, ActionSteps
<1>1. daemon[x].pc \in ActionInHand => command'[c].bridge = x
  <2>1. SUFFICES ASSUME daemon[x].pc \in ActionInHand PROVE command'[c].bridge = x
    OBVIOUS
  <2>2. command[c].bridge = x /\ Queued(c) /\ c \in Approval
    BY <1>0, <2>1, ConstantsOK DEF Position, Queued
  <2>3. ~SettleAction(x) /\ ~AcknowledgeAction(x)
    <3>1. daemon[x] \in DaemonRecord /\ daemon \in [Bridge -> DaemonRecord]
      BY DEF DaemonInv, BridgeTypeOK
    <3>2. \A pc : Goto(x, pc) => daemon'[x].pc = pc
      BY <3>1 DEF Goto, DaemonRecord
    <3>3. Return(x) => daemon'[x].pc = "idle"
      BY <3>1 DEF Return, IdleDaemon
    <3>4. QED
      BY <2>1, <3>2, <3>3 DEF SettleAction, AcknowledgeAction, At, ActionInHand
  <2>4. QED
    BY <2>2, <2>3, CommandLeaves
<1>2. At(x, "effect") => approval'[c].status = "consumed" /\ effects'[c] = 0
  <2>1. SUFFICES ASSUME At(x, "effect")
                 PROVE  approval'[c].status = "consumed" /\ effects'[c] = 0
    OBVIOUS
  <2>2. c \in Approval /\ approval[c].status = "consumed" /\ effects[c] = 0
        /\ command[c].bridge = x
    BY <1>0, <2>1 DEF Position, At, ActionSteps, ActionInHand
  <2>3. ASSUME NEW b \in Bridge, PerformEffect(b), Cmd(b) = c
        PROVE  FALSE
    <3>1. command[Cmd(b)].bridge = b
      BY <2>3 DEF PositionInv, PerformEffect, At, ActionInHand
    <3>2. PerformEffect(x)
      BY <2>2, <2>3, <3>1
    <3>3. daemon'[x].pc # "effect"
      BY <3>2 DEF PerformEffect, Goto, DaemonInv, BridgeTypeOK, DaemonRecord
    <3>4. QED
      BY <2>1, <3>3 DEF At
  <2>4. QED
    BY <1>0, <2>2, <2>3, EffectsMove, ApprovalStep
<1>3. At(x, "settle") => effects'[c] > 0
  <2>1. At(x, "settle") => effects[c] > 0 /\ c \in Approval
    BY <1>0 DEF Position, At, ActionSteps
  <2>2. effects \in [Approval -> Nat]
    BY DEF DaemonInv, BridgeTypeOK
  <2>3. QED
    BY <2>1, <2>2, EffectsMove
<1>4. At(x, "ack") => run'[approval'[c].session].status = "reconciliation"
  <2>1. SUFFICES ASSUME At(x, "ack")
                 PROVE  run'[approval'[c].session].status = "reconciliation"
    OBVIOUS
  <2>2. c \in Approval /\ Granted(c) /\ approval[c].session \in Session
        /\ run[approval[c].session].status = "reconciliation"
    BY <1>0, <2>1 DEF Position, At, ActionSteps
  <2>3. approval'[c].session = approval[c].session
    BY <1>0, <2>2, ApprovalStep
  <2>4. QED
    BY <2>2, <2>3, RunStatusMoves
<1>5. At(x, "finalize") => c \in submitted'
  BY <1>0, SubmittedGrows DEF Position
<1>6. QED
  BY <1>1, <1>2, <1>3, <1>4, <1>5 DEF Position, At, Cmd

\* A daemon that takes a step of poll_once arrives where the facts hold.
LEMMA PositionReached ==
    ASSUME DaemonInv, PositionInv, EffectWasGranted, [BridgeNext]_allVars,
           NEW b \in Bridge, PollOnce(b)
    PROVE  Position(b)'
<1> DEFINE c == Cmd(b)
<1>0. /\ daemon \in [Bridge -> DaemonRecord] /\ daemon[b] \in DaemonRecord
      /\ Position(b)
      /\ daemon[b].pc \in ActionSteps => c \in Approval /\ approval[c].session \in Session
      /\ effects \in [Approval -> Nat] /\ approval \in [Approval -> ApprovalRecord]
      /\ command \in [CommandId -> CommandRecord]
      /\ run \in [Run -> RunRecord]
  BY DEF PositionInv, Position, DaemonInv, HubInv, BridgeTypeOK, DaemonBound, TypeOK,
         ApprovalTyped, CommandTyped, RunTyped, Granted, Cmd
<1>1. ASSUME NEW pc, Goto(b, pc)
      PROVE  daemon'[b].pc = pc /\ daemon'[b].cmd = c
  BY <1>0, <1>1 DEF Goto, DaemonRecord, Cmd
<1>2. Return(b) => Position(b)'
  BY <1>0 DEF Return, IdleDaemon, Position, At, ActionInHand
<1>3. ASSUME NEW pc \in {"start", "fail", "codex", "verify", "submit", "refuse"},
             daemon'[b].pc = pc
      PROVE  Position(b)'
  BY <1>3 DEF Position, At, ActionInHand
<1>4. CASE Poll(b)
  <2>1. PICK x \in CommandId : NextCommand(b, x)
           /\ daemon' = [daemon EXCEPT ![b] = [pc |-> EntryPoint(x), cmd |-> x, beat |-> "off"]]
    BY <1>4 DEF Poll
  <2>2. daemon'[b].pc = EntryPoint(x) /\ daemon'[b].cmd = x
    BY <1>0, <2>1
  <2>3. EntryPoint(x) \in {"lease", "start", "probe", "bind"}
    BY DEF EntryPoint
  <2>4. command'[x].bridge = b
    BY <1>0, <2>1 DEF NextCommand, CommandRecord
  <2>5. QED
    BY <2>2, <2>3, <2>4 DEF Position, At, Cmd, ActionInHand
<1>5. CASE \/ AnswerProbe(b) \/ FinalizeEvidenced(b) \/ ReconcileRun(b) \/ AcknowledgeAction(b)
  BY <1>2, <1>5 DEF AnswerProbe, FinalizeEvidenced, ReconcileRun, AcknowledgeAction
<1>6. CASE \/ ValidateLease(b) \/ RunCodex(b) \/ Verify(b) \/ SettleAction(b)
  BY <1>1, <1>2, <1>3, <1>6 DEF ValidateLease, RunCodex, Verify, SettleAction
<1>7. CASE StartRun(b)
  <2>1. daemon'[b].pc \in {"codex", "fail"}
    BY <1>0, <1>1, <1>7 DEF StartRun, DaemonRecord
  <2>2. QED
    BY <1>3, <2>1
<1>8. CASE SubmitEvidence(b)
  <2>1. CASE Goto(b, "fail")
    BY <1>1, <1>3, <2>1
  <2>2. CASE Goto(b, "finalize") /\ c \in submitted'
    <3>1. daemon'[b].pc = "finalize" /\ daemon'[b].cmd = c
      BY <1>1, <2>2
    <3>2. QED
      BY <2>2, <3>1 DEF Position, At, Cmd, ActionInHand
  <2>3. QED
    BY <1>8, <2>1, <2>2 DEF SubmitEvidence
<1>9. CASE BindWorktree(b)
  <2>1. CASE Goto(b, "consume") /\ UNCHANGED vars
    <3>1. daemon'[b].pc = "consume" /\ daemon'[b].cmd = c
      BY <1>1, <2>1
    <3>2. command[c].bridge = b
      BY <1>0, <1>9 DEF BindWorktree, Position, At, ActionInHand
    <3>3. QED
      BY <2>1, <3>1, <3>2 DEF Position, At, Cmd, ActionInHand, vars
  <2>2. QED
    BY <1>2, <1>9, <2>1 DEF BindWorktree, Rejected
<1>10. CASE ConsumeGrant(b)
  <2>1. CASE Goto(b, "refuse")
    BY <1>1, <1>3, <2>1
  <2>2. CASE /\ ConsumeApprovalForRun(b, c) /\ Local
             /\ daemon' = [daemon EXCEPT ![b].pc = "effect", ![b].beat = "beating"]
    <3>1. daemon'[b].pc = "effect" /\ daemon'[b].cmd = c
      BY <1>0, <2>2 DEF DaemonRecord, Cmd
    <3>2. c \in Approval /\ command[c].bridge = b
      BY <1>0, <1>10 DEF ConsumeGrant, Position, At, ActionInHand, ActionSteps
    <3>3. command' = command /\ approval'[c].status = "consumed"
      BY <1>0, <2>2, <3>2 DEF ConsumeApprovalForRun, ApprovalRecord
    <3>4. effects'[c] = 0
      <4>1. approval[c].status # "consumed"
        BY <2>2 DEF ConsumeApprovalForRun
      <4>2. effects[c] \in Nat /\ ~(effects[c] > 0)
        BY <1>0, <3>2, <4>1 DEF EffectWasGranted
      <4>3. QED
        BY <2>2, <4>2 DEF Local
    <3>5. QED
      BY <3>1, <3>2, <3>3, <3>4 DEF Position, At, Cmd, ActionInHand
  <2>3. QED
    BY <1>10, <2>1, <2>2 DEF ConsumeGrant
<1>11. CASE PerformEffect(b)
  <2>1. CASE Goto(b, "refuse")
    BY <1>1, <1>3, <2>1
  <2>2. CASE Goto(b, "settle") /\ effects' = [effects EXCEPT ![c] = @ + 1] /\ UNCHANGED vars
    <3>1. daemon'[b].pc = "settle" /\ daemon'[b].cmd = c
      BY <1>1, <2>2
    <3>2. c \in Approval /\ command[c].bridge = b
      BY <1>0, <1>11 DEF PerformEffect, Position, At, ActionInHand, ActionSteps
    <3>3. effects'[c] > 0
      BY <1>0, <2>2, <3>2
    <3>4. QED
      BY <2>2, <3>1, <3>2, <3>3 DEF Position, At, Cmd, ActionInHand, vars
  <2>3. QED
    BY <1>11, <2>1, <2>2 DEF PerformEffect
<1>12. CASE ReconcileAction(b)
  <2> DEFINE s == approval[c].session
  <2>1. CASE /\ Goto(b, "ack") /\ UNCHANGED approval
             /\ run'[s].status = "reconciliation"
    <3>1. daemon'[b].pc = "ack" /\ daemon'[b].cmd = c
      BY <1>1, <2>1
    <3>2. QED
      BY <2>1, <3>1 DEF Position, At, Cmd, ActionInHand
  <2>2. UpdateRunStatus(b, s, "reconciliation")
          => run'[s].status = "reconciliation" /\ UNCHANGED approval
    BY <1>0, <1>12 DEF UpdateRunStatus, RunRecord, ReconcileAction, At, ActionSteps, Run
  <2>3. QED
    BY <1>2, <1>12, <2>1, <2>2 DEF ReconcileAction, Rejected, vars
<1>13. QED
  BY <1>4, <1>5, <1>6, <1>7, <1>8, <1>9, <1>10, <1>11, <1>12 DEF PollOnce

LEMMA PositionStep ==
    ASSUME DaemonInv, PositionInv, EffectWasGranted, [BridgeNext]_allVars
    PROVE  PositionInv'
<1> SUFFICES ASSUME NEW x \in Bridge PROVE Position(x)'
  BY DEF PositionInv, Position
<1>0. daemon \in [Bridge -> DaemonRecord] /\ daemon[x] \in DaemonRecord
  BY DEF DaemonInv, BridgeTypeOK
<1> DEFINE Stays == daemon'[x].pc = daemon[x].pc /\ daemon'[x].cmd = daemon[x].cmd
<1>1. Stays => Position(x)'
  BY PositionKept
<1>2. CASE PollOnce(x)
  BY <1>2, PositionReached
<1>3. CASE Heartbeat(x) \/ PublishAtPoll(x)
  <2>1. Stays
    BY <1>0, <1>3
       DEF Heartbeat, Renew, RenewalFails, HeartbeatDies, PublishAtPoll, bridgeVars, DaemonRecord
  <2>2. QED
    BY <1>1, <2>1
<1>4. CASE Crash(x)
  <2>1. daemon'[x].pc = "idle"
    BY <1>0, <1>4 DEF Crash, Return, IdleDaemon
  <2>2. QED
    BY <2>1 DEF Position, At, ActionInHand
<1>5. ASSUME NEW b \in Bridge \ {x}, PollOnce(b) \/ PublishAtPoll(b) \/ Heartbeat(b) \/ Crash(b)
      PROVE  Position(x)'
  <2>1. UNCHANGED daemon \/ \E d \in DaemonRecord : daemon' = [daemon EXCEPT ![b] = d]
    BY <1>5, NewPositionBound DEF DaemonInv
  <2>2. QED
    BY <1>0, <1>1, <2>1
<1>6. UNCHANGED bridgeVars => Position(x)'
  BY <1>1 DEF bridgeVars
<1>7. QED
  BY <1>2, <1>3, <1>4, <1>5, <1>6 DEF BridgeNext, DeliveryLeaseExpires, allVars

\* A GitHub effect belongs to a consumed grant, whose binding no longer changes.
LEMMA EffectStep ==
    ASSUME DaemonInv, PositionInv, EffectAtMostOncePerGrant, EffectWasGranted,
           [BridgeNext]_allVars
    PROVE  EffectAtMostOncePerGrant' /\ EffectWasGranted'
<1> SUFFICES ASSUME NEW a \in Approval
             PROVE  /\ effects'[a] <= 1
                    /\ effects'[a] > 0 => approval'[a].status = "consumed"
  BY DEF EffectAtMostOncePerGrant, EffectWasGranted
<1>0. [Next]_vars /\ TypeOK /\ effects[a] \in Nat
  BY DaemonInvStep DEF DaemonInv, HubInv, BridgeTypeOK
<1>1. CASE effects'[a] = effects[a]
  BY <1>0, <1>1, ApprovalStep DEF EffectAtMostOncePerGrant, EffectWasGranted
<1>2. ASSUME NEW b \in Bridge, PerformEffect(b), Cmd(b) = a, effects'[a] = effects[a] + 1
      PROVE  effects'[a] <= 1 /\ approval'[a].status = "consumed"
  <2>1. effects[a] = 0 /\ approval[a].status = "consumed" /\ UNCHANGED approval
    BY <1>2 DEF PositionInv, PerformEffect, vars
  <2>2. QED
    BY <1>2, <2>1
<1>3. QED
  BY <1>1, <1>2, EffectsMove

LEMMA CompletedMergedStep ==
    ASSUME DaemonInv, PositionInv, EffectWasGranted, CompletedRunWasMerged,
           [BridgeNext]_allVars
    PROVE  CompletedRunWasMerged'
<1> SUFFICES ASSUME NEW s \in Session, run'[s].status = "completed"
             PROVE  \E a \in Approval : /\ approval'[a].session = s
                                        /\ approval'[a].action = "merge_and_accept"
                                        /\ effects'[a] > 0
  BY DEF CompletedRunWasMerged
<1>0. /\ [Next]_vars /\ TypeOK
      /\ effects \in [Approval -> Nat]
  BY DaemonInvStep DEF DaemonInv, HubInv, BridgeTypeOK
<1>1. PICK a \in Approval : /\ approval[a].session = s
                            /\ approval[a].action = "merge_and_accept"
                            /\ effects[a] > 0
  <2>1. CASE run[s].status = "completed"
    BY <2>1 DEF CompletedRunWasMerged
  <2>2. CASE run[s].status # "completed"
    <3>1. PICK b \in Bridge : /\ SettleAction(b) /\ CompleteApprovedMerge(b, Cmd(b))
                              /\ approval[Cmd(b)].session = s
      BY <2>2, RunStatusMoves
    <3>2. Cmd(b) \in Approval
      BY <3>1 DEF SettleAction, At, ActionSteps, DaemonInv, BridgeTypeOK, Cmd
    <3>3. effects[Cmd(b)] > 0 /\ approval[Cmd(b)].action = "merge_and_accept"
      BY <3>1 DEF PositionInv, SettleAction, CompleteApprovedMerge
    <3>4. QED
      BY <3>1, <3>2, <3>3
  <2>3. QED
    BY <2>1, <2>2
<1>2. Granted(a)
  BY <1>1 DEF EffectWasGranted, Granted
<1>3. approval'[a].session = s /\ approval'[a].action = "merge_and_accept"
  BY <1>0, <1>1, <1>2, ApprovalStep
<1>4. effects'[a] > 0
  BY <1>0, <1>1, EffectsMove
<1>5. QED
  BY <1>3, <1>4

LEMMA EvidencedStep ==
    ASSUME DaemonInv, PositionInv, EvidencedRunWasSubmitted, [BridgeNext]_allVars
    PROVE  EvidencedRunWasSubmitted'
<1> SUFFICES ASSUME NEW s \in Session, run'[s].status \in {"evidenced", "completed"}
             PROVE  s \in submitted'
  BY DEF EvidencedRunWasSubmitted
<1>1. CASE run[s].status \in {"evidenced", "completed"}
  BY <1>1, SubmittedGrows DEF EvidencedRunWasSubmitted
<1>2. CASE run[s].status \notin {"evidenced", "completed"}
  <2>1. PICK b \in Bridge : FinalizeEvidenced(b) /\ Cmd(b) = s
    BY <1>2, RunStatusMoves
  <2>2. s \in submitted
    BY <2>1 DEF FinalizeEvidenced, PositionInv
  <2>3. QED
    BY <2>2, SubmittedGrows
<1>3. QED
  BY <1>1, <1>2

LEMMA AccountedStep ==
    ASSUME DaemonInv, PositionInv, EffectWasGranted, MergeIsAccountedFor,
           [BridgeNext]_allVars
    PROVE  MergeIsAccountedFor'
<1> SUFFICES ASSUME NEW a \in Approval, effects'[a] > 0,
                    approval'[a].action = "merge_and_accept", ~Queued(a)'
             PROVE  run'[approval'[a].session].status \in {"completed", "reconciliation"}
  BY DEF MergeIsAccountedFor
<1> DEFINE s == approval[a].session
<1>0. /\ [Next]_vars /\ TypeOK
      /\ effects[a] \in Nat
      /\ run \in [Run -> RunRecord]
  BY DaemonInvStep DEF DaemonInv, HubInv, BridgeTypeOK, TypeOK, RunTyped
<1>1. effects[a] > 0
  <2>1. SUFFICES ASSUME effects[a] = 0 PROVE FALSE
    BY <1>0
  <2>2. PICK b \in Bridge : PerformEffect(b) /\ Cmd(b) = a
    BY <2>1, EffectsMove
  <2>3. command[a].bridge = b /\ UNCHANGED command
    BY <2>2 DEF PositionInv, PerformEffect, At, ActionInHand, vars
  <2>4. QED
    BY <2>3, ConstantsOK DEF Queued
<1>2. /\ s \in Session /\ approval'[a].session = s
      /\ approval[a].action = "merge_and_accept"
  <2>1. Granted(a)
    BY <1>1 DEF EffectWasGranted, Granted
  <2>2. QED
    BY <1>0, <2>1, ApprovalStep DEF TypeOK, ApprovalTyped, Granted
<1>3. CASE ~Queued(a)
  BY <1>1, <1>2, <1>3, RunStatusMoves DEF MergeIsAccountedFor
<1>4. CASE Queued(a)
  <2> DEFINE b == command[a].bridge
  <2>1. b \in Bridge /\ Cmd(b) = a /\ (SettleAction(b) \/ AcknowledgeAction(b))
    BY <1>4, CommandLeaves DEF Queued
  <2>2. CASE AcknowledgeAction(b)
    <3>1. run[s].status = "reconciliation"
      BY <2>1, <2>2 DEF AcknowledgeAction, PositionInv
    <3>2. QED
      BY <1>2, <3>1, RunStatusMoves
  <2>3. CASE SettleAction(b)
    <3>1. CompleteApprovedMerge(b, a)
      BY <1>2, <1>4, <2>1, <2>3 DEF SettleAction, Undelivered, Rejected, vars, Queued
    <3>2. run'[s].status = "completed"
      BY <1>0, <1>2, <3>1 DEF CompleteApprovedMerge, RunRecord, Run
    <3>3. QED
      BY <1>2, <3>2
  <2>4. QED
    BY <2>1, <2>2, <2>3
<1>5. QED
  BY <1>3, <1>4

-----------------------------------------------------------------------------
(* The theorems about GitHub and State *)

BridgeInv ==
    /\ DaemonInv
    /\ PositionInv
    /\ EffectAtMostOncePerGrant
    /\ EffectWasGranted
    /\ CompletedRunWasMerged
    /\ EvidencedRunWasSubmitted
    /\ MergeIsAccountedFor

LEMMA BridgeInvariant == BridgeSpec => []BridgeInv
<1>1. BridgeInit => BridgeInv
  <2>1. BridgeInit => DaemonInv
    BY BridgeInitTyped DEF DaemonInv
  <2>2. BridgeInit => PositionInv
    BY DEF BridgeInit, PositionInv, IdleDaemon, At, ActionInHand
  <2>3. BridgeInit => /\ EffectAtMostOncePerGrant /\ EffectWasGranted
                      /\ CompletedRunWasMerged /\ EvidencedRunWasSubmitted
                      /\ MergeIsAccountedFor
    BY DEF BridgeInit, Init, EffectAtMostOncePerGrant, EffectWasGranted,
           CompletedRunWasMerged, EvidencedRunWasSubmitted, MergeIsAccountedFor, Run
  <2>4. QED
    BY <2>1, <2>2, <2>3 DEF BridgeInv
<1>2. BridgeInv /\ [BridgeNext]_allVars => BridgeInv'
  BY DaemonInvStep, PositionStep, EffectStep, CompletedMergedStep, EvidencedStep,
     AccountedStep DEF BridgeInv
<1>3. QED
  BY <1>1, <1>2, PTL DEF BridgeSpec

\* However often a command is redelivered, and wherever daemons crash or requests
\* fail, GitHub sees each granted action at most once, and only under its grant.
THEOREM EffectsOnceAndGranted == BridgeSpec => []EffectsGrantedOnce
<1>1. BridgeInv => EffectsGrantedOnce
  BY DEF BridgeInv, EffectsGrantedOnce
<1>2. QED
  BY <1>1, BridgeInvariant, PTL

\* The states a run is shown in are earned: evidenced means State accepted the
\* evidence, completed means GitHub merged under a grant of the run.
THEOREM ShownStatesAreEarned == BridgeSpec => []ShownStatesEarned
<1>1. BridgeInv => ShownStatesEarned
  BY DEF BridgeInv, ShownStatesEarned
<1>2. QED
  BY <1>1, BridgeInvariant, PTL

\* No merge is lost track of: until the run is settled its command stays queued.
THEOREM MergesAreAccountedFor == BridgeSpec => []MergeIsAccountedFor
<1>1. BridgeInv => MergeIsAccountedFor
  BY DEF BridgeInv
<1>2. QED
  BY <1>1, BridgeInvariant, PTL
=============================================================================
