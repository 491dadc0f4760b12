---------------------------- MODULE MCBridgeLoop ----------------------------
(* Small instances of BridgeLoop for TLC. *)
EXTENDS BridgeLoop, TLC

CONSTANT w1

\* The default template of api.py: agent -> approval_wait -> reconcile.
DefaultTemplate ==
    [entry  |-> "implement",
     kind   |-> [implement |-> "agent", review |-> "approval_wait",
                 reconcile |-> "reconcile"],
     next   |-> [implement |-> {"review"}, review |-> {"reconcile"}, reconcile |-> {}],
     skills |-> {}]

DefaultOnly == {DefaultTemplate}
OneWorktree == [s \in Session |-> w1]
=============================================================================
