----------------------------- MODULE MCRecords -----------------------------
(***************************************************************************)
(* Records for TLC: catalogs, operations, tabs and graphs, and the bounds  *)
(* that keep each scene small.                                             *)
(***************************************************************************)
EXTENDS Records, MCWorkflowCursor

CONSTANTS k1, k2, r1, e1, e2, g1, g2, s1, s2, p1, q1, q2, v0, v1, t1, t2

\* A read, and two calls with effects whose inputs differ under one grant.
MCRequest == {r1, e1, e2}
MCEffectful == {e1, e2}
MCGrantOf == [r \in MCEffectful |-> g1]
MCSubjectOf == (e1 :> s1) @@ (e2 :> s2)
MCGrant == {g1, g2}

\* Set and reset of the policy, a set of a preference the tabs write too, and one the
\* store refuses an actor; forms name the hub or another provider, which declared one.
MCOperation(c, kind, v, n) == [cell |-> c, kind |-> kind, value |-> v, version |-> n]
MCOp == {MCOperation(p1, "set", v1, 1), MCOperation(p1, "reset", NoValue, 2),
         MCOperation(q1, "set", v1, 1), MCOperation(q2, "set", v1, 1)}
MCRefused == {MCOperation(q2, "set", v1, 1)}
MCDeclared == {[provider |-> "serving", cell |-> p1, kind |-> "set"]}

\* The cells: a policy, and two preferences of the actor.
MCCell == {p1, q1, q2}
MCOpen == {q1, q2}
MCTab == {t1, t2}
MCValue == {v0, v1}
MCKey == MCRequest \cup MCOp
MCSubject == {s1, s2} \cup MCOp

\* A catalog before and after a review that narrows a tool, a tampered one, one with an
\* id twice, one whose effect is not gated; profiles of both revisions, and one over its
\* limit.
MCTool(id, effectful, gated, inputs, options) ==
    [id |-> id, effectful |-> effectful, preview |-> gated, approval |-> gated,
     inputs |-> inputs, options |-> options, default |-> CHOOSE o \in options : TRUE]
MCEntry(id, digest, tools, refs) ==
    [id |-> id, digest |-> digest, intact |-> TRUE, tools |-> tools, refs |-> refs]
Look == MCTool("look", FALSE, FALSE, {"i1"}, {"o1", "o2"})
Act == MCTool("act", TRUE, TRUE, {"i1", "i2"}, {"o1", "o2"})
AlphaOld == MCEntry("alpha", "d1", {Look, Act}, {"ref1"})
AlphaNew == MCEntry("alpha", "d2", {Look, MCTool("act", TRUE, TRUE, {"i2"}, {"o2"})}, {"ref1"})
Beta == MCEntry("beta", "d3", {Look}, {"ref2"})
Ungated == MCEntry("beta", "d4", {MCTool("act", TRUE, FALSE, {"i1"}, {"o1"})}, {})
MCCatalogDoc(plugins, intact) == [plugins |-> plugins, intact |-> intact]
MCCatalog == {MCCatalogDoc({AlphaOld, Beta}, TRUE), MCCatalogDoc({AlphaNew, Beta}, TRUE),
              MCCatalogDoc({AlphaNew}, FALSE), MCCatalogDoc({AlphaOld, AlphaNew}, TRUE),
              MCCatalogDoc({Ungated}, TRUE)}
MCEnabled(id, digest, tools) == [id |-> id, digest |-> digest, tools |-> tools]
MCProfileDoc(plugins, limit) == [plugins |-> plugins, intact |-> TRUE, limit |-> limit]
MCProfile == {MCProfileDoc({MCEnabled("alpha", "d1", {"look", "act"}), MCEnabled("beta", "d3", {"look"})}, 3),
              MCProfileDoc({MCEnabled("alpha", "d2", {"act"})}, 1),
              MCProfileDoc({MCEnabled("alpha", "d1", {"look", "act"})}, 1)}

MCRequestDoc(kind, digest, tool, inputs, approval) ==
    [kind |-> kind, id |-> "alpha", digest |-> digest, target |-> digest, tool |-> tool,
     inputs |-> inputs, preview |-> kind # "tool_call", approval |-> approval, intact |-> TRUE]
Signed(r) == [r EXCEPT !.approval = [action |-> r.kind, payload |-> Payload(r)]]

\* Installs of both revisions, one with the approval of the other, one without a
\* preview, one altered, and an upgrade, which the install path refuses.
MCInstall(digest) == MCRequestDoc("install", digest, "none", "none", NoApproval)
MCInstallRequest ==
    {Signed(MCInstall("d1")), Signed(MCInstall("d2")),
     [MCInstall("d2") EXCEPT !.approval = Signed(MCInstall("d1")).approval],
     [Signed(MCInstall("d1")) EXCEPT !.preview = FALSE],
     [Signed(MCInstall("d1")) EXCEPT !.intact = FALSE],
     Signed(MCRequestDoc("upgrade", "d1", "none", "none", NoApproval))}

\* Calls of both tools at both revisions, with and without their approvals, an effect
\* with the approval of other inputs, and a read that carries one.
MCCall(digest, tool, inputs) == MCRequestDoc("tool_call", digest, tool, inputs, NoApproval)
MCCallRequest ==
    LET calls == {MCCall("d1", "act", "i1"), MCCall("d1", "act", "i2"), MCCall("d2", "act", "i1"),
                  MCCall("d2", "act", "i2"), MCCall("d1", "look", "i1")}
    IN calls \cup {Signed(r) : r \in calls} \cup
       {[MCCall("d1", "act", "i2") EXCEPT !.approval = Signed(MCCall("d1", "act", "i1")).approval]}

\* Settings read under four catalogs: a number and a reference under the policy, the
\* other way round, a project's number over a personal one, and an unsound one.
MCSettings(a, b, ca, cb) ==
    [scope |-> (p1 :> "policy") @@ (q1 :> "project") @@ (q2 :> "personal"),
     rank |-> ("policy" :> 0) @@ ("deployment" :> 1) @@ ("project" :> 2) @@ ("personal" :> 3),
     type |-> (p1 :> "int") @@ (q1 :> a) @@ (q2 :> b),
     ceiling |-> (p1 :> NoCell) @@ (q1 :> ca) @@ (q2 :> cb)]
MCSettingsCatalog == {MCSettings("int", "ref", p1, NoCell), MCSettings("ref", "int", NoCell, p1),
                      MCSettings("int", "int", NoCell, q1), MCSettings("int", "int", q2, p1)}

\* Off stage the cursor stays on one definition and the plugins on one set of documents.
SomeDefinition == CHOOSE d \in Candidate : ValidDefinition(d)
SomeDocuments == CHOOSE d \in Documents : TRUE
OffStage ==
    /\ scene \notin {"installs", "calls", "options"} => deployed = SomeDocuments
    /\ scene # "cursor" => definition = SomeDefinition

\* Bound of the policy scene: one tab, which writes one preference once or twice.
PolicyBound ==
    scene = "policy" => seen'[t2] = seen[t2] /\ pref'[q2] = pref[q2] /\ history'[q1].edits <= 2

BoundedInit == RecordsInit /\ OffStage
BoundedNext == RecordsNext /\ PolicyBound

BoundedSpec == BoundedInit /\ [][BoundedNext]_recordsVars

\* A call that can go on does, a tool runner and the lock it holds come back; whoever
\* drives a workflow goes on finishing the steps its cursor offers.
RecordsFairSpec ==
    /\ BoundedSpec
    /\ \A c \in Call : WF_recordsVars(InTools(CallStep(c)))
    /\ WF_recordsVars(InCursor(\E step \in cursor : FinishStep(step)))

\* What is started comes to an end: a tool call and the lock it holds, even if it is
\* abandoned, and a driven workflow on every definition the validator accepts.
StartedWorkEnds == DispatchesReturn /\ (scene = "cursor" => WorkflowCloses)
============================================================================
