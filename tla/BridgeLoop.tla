----------------------------- MODULE BridgeLoop -----------------------------
(***************************************************************************)
(* The local bridge daemon (Bridge.poll_once and main of                    *)
(* workbench/bridge.py) driving the hub of Delivery: it fetches a command,  *)
(* runs Codex or an approved GitHub action in the leased worktree, and      *)
(* settles the command, while a heartbeat thread renews the lease.          *)
(*                                                                         *)
(* Every request to the hub is a step of its own.  It commits, commits and  *)
(* is answered with an error, is refused by the hub (the Delivery action is *)
(* not enabled), or is not delivered.                                       *)
(* A lost answer is the committed request followed by Crash: urlopen's read *)
(* errors are no BridgeError, so main does not survive them.                *)
(* The bridge calls of Delivery happen only where the daemon makes them.    *)
(***************************************************************************)
EXTENDS Delivery

CONSTANT MaxFaults   \* bound on crashes and undelivered requests

ASSUME MaxFaultsOK == MaxFaults \in Nat

VARIABLES
    daemon,      \* daemon[b]: where poll_once is, its command, its heartbeat
    submitted,   \* external: runs whose evidence State has accepted
    effects,     \* external: effects[a] is how often GitHub saw action a done
    faults       \* crashes and undelivered requests so far

bridgeVars == <<daemon, submitted, effects, faults>>
allVars    == <<vars, bridgeVars>>

RunSteps    == {"lease", "start", "codex", "verify", "submit", "finalize", "fail"}
ActionSteps == {"bind", "consume", "effect", "settle", "refuse", "ack"}
Beat        == {"off", "beating", "failed", "dead"}
NoCommandId == NoBridge

DaemonRecord == [pc   : {"idle", "probe"} \cup RunSteps \cup ActionSteps,
                 cmd  : CommandId \cup {NoCommandId},
                 beat : Beat]

IdleDaemon == [pc |-> "idle", cmd |-> NoCommandId, beat |-> "off"]

BridgeTypeOK ==
    /\ daemon \in [Bridge -> DaemonRecord]
    /\ submitted \subseteq Run
    /\ effects \in [Approval -> Nat]
    /\ faults \in 0..MaxFaults
    /\ \A b \in Bridge :
          /\ daemon[b].pc \in RunSteps => daemon[b].cmd \in Run
          /\ daemon[b].pc \in ActionSteps => daemon[b].cmd \in Approval
          /\ daemon[b].pc = "probe" => daemon[b].cmd \in Probe
          /\ daemon[b].beat # "off" => daemon[b].pc \notin {"idle", "probe"}

BridgeInit ==
    /\ Init
    /\ daemon = [b \in Bridge |-> IdleDaemon]
    /\ submitted = {}
    /\ effects = [a \in Approval |-> 0]
    /\ faults = 0

-----------------------------------------------------------------------------
At(b, pc) == daemon[b].pc = pc
Cmd(b)    == daemon[b].cmd

Goto(b, pc) == daemon' = [daemon EXCEPT ![b].pc = pc]

\* Mutant: poll_once returns and leaves its heartbeat thread running.
MutantReturn(b) == Goto(b, "idle")

\* poll_once returns or raises; its finally clauses stop the heartbeat.
Return(b) == daemon' = [daemon EXCEPT ![b] = IdleDaemon]

\* What a step that touches neither GitHub nor State leaves alone.
Local == UNCHANGED <<submitted, effects, faults>>

\* A request that does not reach the hub: a BridgeError and no effect there.
Undelivered ==
    /\ faults < MaxFaults
    /\ faults' = faults + 1
    /\ UNCHANGED <<vars, submitted, effects>>

\* The hub commits, then fails to append its event or audit row and answers 500:
\* a BridgeError although the request took effect.
FailsAfterCommit ==
    /\ faults < MaxFaults
    /\ faults' = faults + 1
    /\ UNCHANGED <<submitted, effects>>

\* A request the hub answers with an error.
Rejected == Local /\ UNCHANGED vars

\* require_live_lease and require_action_lease: no renewal error was recorded.
LeaseNotReportedLost(b) == daemon[b].beat # "failed"

-----------------------------------------------------------------------------
(* poll_once: fetch *)

EntryPoint(c) ==
    IF c \in Session THEN "lease"
    ELSE IF c \in Run THEN "start"
    ELSE IF c \in Probe THEN "probe"
    ELSE "bind"

PublishAtPoll(b) ==
    /\ At(b, "idle")
    /\ \E K \in SUBSET Skill \ {published[b]} : PublishSkills(b, K)
    /\ UNCHANGED bridgeVars

Poll(b) ==
    /\ At(b, "idle")
    /\ \E c \in CommandId :
          /\ NextCommand(b, c)
          /\ daemon' = [daemon EXCEPT
                ![b] = [pc |-> EntryPoint(c), cmd |-> c, beat |-> "off"]]
    /\ Local

\* skill_probe: whatever the digests say, the evidence is projected and the
\* command acknowledged.
AnswerProbe(b) ==
    /\ At(b, "probe")
    /\ Return(b)
    /\ \/ AcknowledgeCommand(b, Cmd(b)) /\ Local
       \/ Undelivered

-----------------------------------------------------------------------------
(* poll_once: run_codex *)

\* hub.validate_run_lease
ValidateLease(b) ==
    /\ At(b, "lease")
    /\ \/ owner = b /\ Fenced(Cmd(b)) /\ Goto(b, "start") /\ Rejected
       \/ ~(owner = b /\ Fenced(Cmd(b))) /\ Goto(b, "fail") /\ Rejected
       \/ Goto(b, "fail") /\ Undelivered

\* hub.run_status(running), which a redelivered command repeats, and the start
\* of the heartbeat thread
StartRun(b) ==
    LET r == Cmd(b) IN
    /\ At(b, "start")
    /\ \/ /\ \/ UpdateRunStatus(b, r, "running")
             \/ owner = b /\ run[r].status = "running" /\ UNCHANGED vars
          /\ daemon' = [daemon EXCEPT
                ![b].pc = "codex", ![b].beat = IF r \in Session THEN "beating" ELSE "off"]
          /\ Local
       \/ /\ owner # b \/ run[r].status \notin {"queued", "running"}
          /\ Goto(b, "fail") /\ Rejected
       \/ UpdateRunStatus(b, r, "running") /\ Goto(b, "fail") /\ FailsAfterCommit
       \/ Goto(b, "fail") /\ Undelivered

\* State claim, work packet, skills and Codex; then require_live_lease
RunCodex(b) ==
    /\ At(b, "codex")
    /\ \/ LeaseNotReportedLost(b) /\ Goto(b, "verify")
       \/ Goto(b, "fail")
    /\ Rejected

\* independent verification; then require_live_lease
Verify(b) ==
    /\ At(b, "verify")
    /\ \/ LeaseNotReportedLost(b) /\ Goto(b, "submit")
       \/ Goto(b, "fail")
    /\ Rejected

\* State submission; then require_live_lease and the evidence projection
SubmitEvidence(b) ==
    /\ At(b, "submit")
    /\ \/ /\ submitted' = submitted \cup {Cmd(b)}
          /\ \/ LeaseNotReportedLost(b) /\ Goto(b, "finalize")
             \/ Goto(b, "fail")
       \/ UNCHANGED submitted /\ Goto(b, "fail")
    /\ UNCHANGED <<vars, effects, faults>>

\* hub.finalize_run(evidenced), in the else clause: an error leaves poll_once.
FinalizeEvidenced(b) ==
    /\ At(b, "finalize")
    /\ Return(b)
    /\ \/ FinalizeRunCommand(b, Cmd(b), "evidenced") /\ Local
       \/ Undelivered
       \/ owner # b /\ Rejected

\* Mutant: the failed run is reported, its command is not finalized.
MutantReconcileRun(b) ==
    /\ At(b, "fail") /\ Return(b)
    /\ UpdateRunStatus(b, Cmd(b), "reconciliation") /\ Local

\* The except clauses: failure evidence and hub.finalize_run(reconciliation)
ReconcileRun(b) ==
    /\ At(b, "fail")
    /\ Return(b)
    /\ \/ FinalizeRunCommand(b, Cmd(b), "reconciliation") /\ Local
       \/ Undelivered
       \/ owner # b /\ Rejected

-----------------------------------------------------------------------------
(* The heartbeat thread, for the run of the command *)

Heartbeats(b) == daemon[b].beat = "beating"

LeasedRun(b) == IF Cmd(b) \in Approval THEN approval[Cmd(b)].session ELSE Cmd(b)

Renew(b) ==
    /\ Heartbeats(b)
    /\ RenewRunLease(b, LeasedRun(b))
    /\ UNCHANGED bridgeVars

\* A BridgeError: the renewal was refused or not delivered.
RenewalFails(b) ==
    /\ Heartbeats(b)
    /\ daemon' = [daemon EXCEPT ![b].beat = "failed"]
    /\ \/ ~(owner = b /\ Fenced(LeasedRun(b))) /\ Rejected
       \/ RenewRunLease(b, LeasedRun(b)) /\ FailsAfterCommit
       \/ Undelivered

\* Any other exception (the answer times out or the connection drops while it
\* is read) ends the thread without a trace in lease_errors.
HeartbeatDies(b) ==
    /\ Heartbeats(b)
    /\ faults < MaxFaults
    /\ faults' = faults + 1
    /\ daemon' = [daemon EXCEPT ![b].beat = "dead"]
    /\ RenewRunLease(b, LeasedRun(b)) \/ UNCHANGED vars
    /\ UNCHANGED <<submitted, effects>>

-----------------------------------------------------------------------------
(* poll_once: an approved GitHub action *)

\* Mutant: a valid binding is enough, the grant is not consumed first.
MutantBindWorktree(b) ==
    /\ At(b, "bind")
    /\ \/ BindingHolds(Cmd(b)) /\ Goto(b, "effect") /\ Rejected
       \/ Return(b) /\ Rejected

\* _approved_action_worktree, before the try: an error leaves poll_once at once.
BindWorktree(b) ==
    LET s     == approval[Cmd(b)].session
        bound == owner = b /\ Fenced(s) /\ run[s].epoch = approval[Cmd(b)].epoch
    IN
    /\ At(b, "bind")
    /\ \/ bound /\ Goto(b, "consume") /\ Rejected
       \/ ~bound /\ Return(b) /\ Rejected
       \/ Return(b) /\ Undelivered

\* diff check and hub.consume_approval_for_run; the action's heartbeat starts
ConsumeGrant(b) ==
    /\ At(b, "consume")
    /\ \/ /\ ConsumeApprovalForRun(b, Cmd(b))
          /\ daemon' = [daemon EXCEPT ![b].pc = "effect", ![b].beat = "beating"]
          /\ Local
       \/ Goto(b, "refuse") /\ Rejected
       \/ ConsumeApprovalForRun(b, Cmd(b)) /\ Goto(b, "refuse") /\ FailsAfterCommit
       \/ Goto(b, "refuse") /\ Undelivered

\* Mutant: a failing command is not noticed.
MutantPerformEffect(b) ==
    /\ At(b, "effect") /\ Goto(b, "settle") /\ Rejected

\* runner.commit_pr or runner.merge_and_accept, then require_action_lease; a
\* later command of the sequence may fail after GitHub saw the effect.
PerformEffect(b) ==
    /\ At(b, "effect")
    /\ \/ /\ effects' = [effects EXCEPT ![Cmd(b)] = @ + 1]
          /\ \/ LeaseNotReportedLost(b) /\ Goto(b, "settle")
             \/ Goto(b, "refuse")
       \/ UNCHANGED effects /\ Goto(b, "refuse")
    /\ UNCHANGED <<vars, submitted, faults>>

\* A pull request is acknowledged outside the try; a merge is completed, and
\* acknowledged with that, inside it.
SettleAction(b) ==
    LET a == Cmd(b) IN
    /\ At(b, "settle")
    /\ \/ /\ approval[a].action = "commit_pr" /\ Return(b)
          /\ (AcknowledgeCommand(b, a) /\ Local) \/ Undelivered
       \/ /\ approval[a].action = "merge_and_accept"
          /\ \/ CompleteApprovedMerge(b, a) /\ Return(b) /\ Local
             \/ ~BindingHolds(a) /\ Goto(b, "refuse") /\ Rejected
             \/ CompleteApprovedMerge(b, a) /\ Goto(b, "refuse") /\ FailsAfterCommit
             \/ Goto(b, "refuse") /\ Undelivered

\* Mutant: the command is acknowledged before its run is reconciled.
MutantReconcileAction(b) ==
    /\ At(b, "refuse")
    /\ \/ AcknowledgeCommand(b, Cmd(b)) /\ Goto(b, "ack") /\ Local
       \/ Return(b) /\ Undelivered

\* The except clause: failure evidence and hub.run_status(reconciliation) ...
ReconcileAction(b) ==
    LET s == approval[Cmd(b)].session IN
    /\ At(b, "refuse")
    /\ \/ UpdateRunStatus(b, s, "reconciliation") /\ Goto(b, "ack") /\ Local
       \/ /\ owner = b /\ run[s].status = "reconciliation"
          /\ Goto(b, "ack") /\ Rejected
       \/ /\ owner # b \/ run[s].status = "completed"
          /\ Return(b) /\ Rejected
       \/ UpdateRunStatus(b, s, "reconciliation") /\ Return(b) /\ FailsAfterCommit
       \/ Return(b) /\ Undelivered

\* ... then the acknowledgement
AcknowledgeAction(b) ==
    /\ At(b, "ack")
    /\ Return(b)
    /\ \/ AcknowledgeCommand(b, Cmd(b)) /\ Local
       \/ Undelivered

-----------------------------------------------------------------------------
\* The process dies (killed, or by an exception main does not catch) and is
\* started again: nothing of poll_once survives.
Crash(b) ==
    /\ ~At(b, "idle")
    /\ faults < MaxFaults
    /\ faults' = faults + 1
    /\ Return(b)
    /\ UNCHANGED <<vars, submitted, effects>>

PollOnce(b) ==
    \/ Poll(b) \/ AnswerProbe(b)
    \/ ValidateLease(b) \/ StartRun(b) \/ RunCodex(b) \/ Verify(b)
    \/ SubmitEvidence(b) \/ FinalizeEvidenced(b) \/ ReconcileRun(b)
    \/ BindWorktree(b) \/ ConsumeGrant(b) \/ PerformEffect(b) \/ SettleAction(b)
    \/ ReconcileAction(b) \/ AcknowledgeAction(b)

Heartbeat(b) == Renew(b) \/ RenewalFails(b) \/ HeartbeatDies(b)

\* The delivery lease lasts five minutes and an idle daemon polls every three
\* seconds, so a lease outlives the passes that look at the rest of the queue.  It
\* may run out while a command keeps the daemon busy.
DeliveryLeaseExpires(c) ==
    /\ CommandLeaseExpires(c)
    /\ \A b \in Bridge : command[c].bridge = b =>
          /\ ~At(b, "bind")
          /\ At(b, "idle") =>
                \A d \in CommandId : command[d].bridge = b => command[d].leased
    /\ UNCHANGED bridgeVars

HubNext ==
    \/ Operators \/ HubCrash
    \/ \E w \in Worktree : LeaseTick(w)
    \/ \E a \in Approval : ApprovalExpires(a)

BridgeNext ==
    \/ HubNext /\ UNCHANGED bridgeVars
    \/ \E c \in CommandId : DeliveryLeaseExpires(c)
    \/ \E b \in Bridge : PollOnce(b) \/ PublishAtPoll(b) \/ Heartbeat(b) \/ Crash(b)

BridgeSpec == BridgeInit /\ [][BridgeNext]_allVars

\* The poll loop runs on.  The delivery lease of a fetched command runs out as real
\* time passes, which the guard above delays but cannot prevent: strong fairness.
FairBridgeSpec ==
    /\ BridgeSpec
    /\ \A b \in Bridge : WF_allVars(PollOnce(b))
    /\ \A c \in CommandId : SF_allVars(DeliveryLeaseExpires(c))

-----------------------------------------------------------------------------
(* Safety *)

\* Crashes, redeliveries and lost answers never make a bridge repeat a GitHub
\* action: one grant, one effect.
EffectAtMostOncePerGrant == \A a \in Approval : effects[a] <= 1

\* GitHub sees an action only under a grant that was consumed for it.
EffectWasGranted ==
    \A a \in Approval : effects[a] > 0 => approval[a].status = "consumed"

\* A run is never shown completed unless GitHub merged it under one of its grants.
CompletedRunWasMerged ==
    \A s \in Session : run[s].status = "completed" =>
        \E a \in Approval : /\ approval[a].session = s
                            /\ approval[a].action = "merge_and_accept"
                            /\ effects[a] > 0

\* A run is never shown evidenced or completed without accepted evidence.
EvidencedRunWasSubmitted ==
    \A s \in Session : run[s].status \in {"evidenced", "completed"} => s \in submitted

\* GitHub sees each action once at most, and only what a consumed grant allows, however
\* often commands are redelivered and daemons die (bridge.py:1439-1479).
EffectsGrantedOnce == EffectAtMostOncePerGrant /\ EffectWasGranted

\* What the hub shows of a run was earned outside it: evidence State accepted, and a
\* merge GitHub made under a grant of that run (bridge.py:1346-1410, 1459-1478).
ShownStatesEarned == CompletedRunWasMerged /\ EvidencedRunWasSubmitted

\* A merge GitHub has seen is never forgotten: its command stays in the queue
\* until the run is completed or handed to a human.
MergeIsAccountedFor ==
    \A a \in Approval :
        (effects[a] > 0 /\ approval[a].action = "merge_and_accept" /\ ~Queued(a))
            => run[approval[a].session].status \in {"completed", "reconciliation"}

\* Every run command is settled in the end: evidenced or reconciled, and gone.
RunCommandSettles == \A r \in Run : Queued(r) ~> ~Queued(r)

\* docs/CONTRACTS.md:148: "Any changed diff/head, stale worktree binding,
\* mismatched task, expired/replayed grant, or action failure fails closed into
\* reconciliation": the command of a stale action leaves the queue.
ApprovedActionSettles == \A a \in Approval : Queued(a) ~> ~Queued(a)

\* docs/CONTRACTS.md:119: "A renewal failure stops the delivery from submitting
\* evidence and moves it to reconciliation".  A daemon whose heartbeat has ended in
\* an error and whose lease has run out does not go on to submit.
RenewalFailureStopsEvidence ==
    [][\A b \in Bridge :
          (/\ At(b, "verify")
           /\ daemon[b].beat \in {"failed", "dead"}
           /\ ~Fenced(Cmd(b))) => daemon'[b].pc # "submit"]_allVars
=============================================================================
