----------------------------- MODULE MCDelivery -----------------------------
(* Small instances of Delivery for TLC. *)
EXTENDS Delivery, TLC

CONSTANT w1

\* The default template of api.py: agent -> approval_wait -> reconcile.
DefaultTemplate ==
    [entry  |-> "implement",
     kind   |-> [implement |-> "agent", review |-> "approval_wait",
                 reconcile |-> "reconcile"],
     next   |-> [implement |-> {"review"}, review |-> {"reconcile"}, reconcile |-> {}],
     skills |-> {}]

\* A single agent step that selects a skill.
AgentOnly ==
    [entry |-> "implement", kind |-> [implement |-> "agent"],
     next |-> [implement |-> {}], skills |-> Skill]

DefaultOnly    == {DefaultTemplate}
SingleStepOnly == {AgentOnly}
BothTemplates  == {DefaultTemplate, AgentOnly}

\* Every session is created for the one worktree, so they compete for it.
OneWorktree == [s \in Session |-> w1]

\* Bound of the fence: two sessions of one bridge and one template compete for the
\* worktree, with an approval.
FenceInstance ==
    /\ Cardinality(registered) <= 1 /\ \A b \in Bridge : published[b] = {}
    /\ \A r \in SimpleRun : run[r].status = "none"
    /\ \A s \in Session : workflow[s].version <= 1 /\ workflow[s].definition # AgentOnly

\* Bound of the queue: one session beside runs without one, skills, two templates, and
\* a project that moves to another bridge.
QueueInstance ==
    /\ \A a \in Approval : approval[a].status = "none"
    /\ \E s \in Session : \A t \in Session \ {s} : workflow[t].status = "none"

Instances == FenceInstance \/ QueueInstance

SessionSymmetry == Permutations(Session) \cup Permutations(Bridge)
=============================================================================
