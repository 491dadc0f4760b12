----------------------------- MODULE MCDisplays -----------------------------
(***************************************************************************)
(* The scenes of Displays on small documents: what each part may be handed, *)
(* and the bounds of each scene.  A part that is not on stage starts in one *)
(* of its initial states.                                                   *)
(***************************************************************************)
EXTENDS Displays

CONSTANTS k1, k2, m1, d1, d2, d3, f1, f2, prd1, prd2, x1, y1

----------------------------------------------------------------------------
\* Pins: d1 and d2 are revisions of one operation, d3 is another one behind a gate.
MCDescriptor == {d1, d2, d3}
MCVersionOf == (d1 :> "read") @@ (d2 :> "read") @@ (d3 :> "write")
MCProviderOf == [d \in MCDescriptor |-> "state"]
MCSourceProvider == [s \in {f1, f2} |-> "state"]
MCDocument == {{d1, d3}, {d2, d3}}
MCNameOf == (k1 :> "skill") @@ (k2 :> "skill") @@ (m1 :> "model")
MCProfileDoc == {[ops |-> {d1, d3}, reviews |-> {k1, m1}], [ops |-> {d2}, reviews |-> {}]}
MCWorkflowDoc == {[ops |-> {d1}, reviews |-> {k1, m1}], [ops |-> {d2}, reviews |-> {}]}

\* Bound: two commands, the second one of the gated operation under a grant.
SentBound ==
    \/ Cardinality(sent') <= 1
    \/ Cardinality(sent') = 2 /\ \A c \in sent' : c.op = d3 /\ c.valid /\ c.grant # NoGrant

----------------------------------------------------------------------------
\* Playground: one route at two digests, declared well or badly.
Control(name, default, owned) ==
    [name |-> name, allowed |-> {"low", "high"}, default |-> default, owned |-> owned]
RouteAt(digest, controls) ==
    [id |-> "route", digest |-> digest, profile |-> "profile", controls |-> controls]
Temperature == Control("temperature", "low", FALSE)
Depth == Control("depth", "low", TRUE)
MCRouteSettings ==
    {<<RouteAt("1", <<Temperature, Depth>>)>>, <<RouteAt("2", <<Temperature>>)>>,
     <<RouteAt("1", <<Temperature>>), RouteAt("2", <<Temperature>>)>>,
     <<RouteAt("1", <<Temperature, Temperature>>)>>}

Submitted == [name : {"temperature", "depth"}, value : {"low", "other"},
              origin : {Unstated, "declared", "policy_override"}]
MCSubmission == {<<>>} \cup {<<x>> : x \in Submitted} \cup {<<x, y>> : x, y \in Submitted}

RoutePin(digest) == [id |-> "route", digest |-> digest, profile |-> "profile"]
ToolRef == [kind |-> "tool", id |-> "tool", digest |-> "1"]
Preset(id, digest, others, intact) ==
    [id |-> id, route |-> RoutePin(digest), others |-> others, repair |-> "ready",
     drifted |-> {}, intact |-> intact]
MCPresetDoc == {Preset("p", "1", {}, TRUE), Preset("p", "2", {ToolRef}, TRUE),
                Preset("q", "1", {}, FALSE), Preset("q", "2", {}, TRUE)}

Template(id, digest, names) == [id |-> id, digest |-> digest, names |-> names, intact |-> TRUE]
MCTemplateDoc == {Template("t", "1", <<"a">>), Template("t", "2", <<"a">>),
                  Template("u", "1", <<"a", "a">>)}

Digests(digest, withTools) ==
    [k \in {"route", "profile"} \cup (IF withTools THEN {"tool"} ELSE {}) |->
        {[id |-> IF k = "tool" THEN "tool" ELSE "route",
          digest |-> CASE k = "route" -> digest [] k = "profile" -> "profile" [] k = "tool" -> "1"]}]
MCRegistry == {Digests("1", FALSE), Digests("2", TRUE)}

----------------------------------------------------------------------------
\* Display records: PRDs that advance, flip a status, disappear, share a feature; one
\* snapshot of another project and one whose task has lost its PRD.
MCPrd == {prd1, prd2}
MCTask == {x1, y1}
MCPrdOf == (x1 :> prd1) @@ (y1 :> prd2)
MCFeatureOf == [t \in MCTask |-> "feature"]
MCNeeds == (x1 :> {}) @@ (y1 :> {})
Snap(project, r1At, r2At, tasks, mark) ==
    [project |-> project, rev |-> (prd1 :> r1At) @@ (prd2 :> r2At), tasks |-> tasks, mark |-> mark]
MCStateSnapshot ==
    {Snap("ours", 1, 0, {x1}, 0), Snap("ours", 1, 0, {x1}, 1), Snap("ours", 2, 1, {x1, y1}, 0),
     Snap("ours", 0, 1, {y1}, 0), Snap("ours", 2, 0, {x1}, 0),
     Snap("theirs", 1, 0, {x1}, 0), Snap("ours", 1, 0, {x1, y1}, 0)}
\* Bounds of the seed scene: three of the snapshots, and a loader starts into empty records.
SeedBound ==
    /\ workspace' \in {Snap("ours", 1, 0, {x1}, 0),
                       Snap("ours", 2, 1, {x1, y1}, 0), Snap("theirs", 1, 0, {x1}, 0)}
    /\ loading = {} /\ loading' # {} => \A t \in Task : references[t] = NoRow
\* Bound of the display scene: run rows and bindings, which no verdict reads, without verdicts.
DisplayBound == runRows' \cup bindings' # {} => verdicts' = [t \in Task |-> NoRow]
Row(label) == [run |-> "run", task |-> x1, rev |-> 1, label |-> label]
MCRunRow == {Row(<<x1, 1>>), Row(<<x1, 2>>),
             [Row(<<x1, 1>>) EXCEPT !.rev = 2, !.label = <<x1, 2>>]}
MCBinding == {[approval |-> "approval", task |-> x1, label |-> <<x1, n>>] : n \in {1, 2}}

ReadOp(id, version, gated) ==
    [id |-> id, version |-> version, effect |-> "read", adapter |-> "state_cli", gated |-> gated]
PlainManifest(version) ==
    [intact |-> TRUE,
     ops |-> {ReadOp("snapshot", version, FALSE), ReadOp("content", version, FALSE)}]
MCManifest == {PlainManifest("1.0"), PlainManifest("1.1"),
               [PlainManifest("1.0") EXCEPT !.ops = {ReadOp("snapshot", "1.0", FALSE),
                                                     ReadOp("content", "1.0", TRUE)}]}

----------------------------------------------------------------------------
\* Transfers: the browser posts turns that are complete, or stream and keep no content.
MCPost == {[status |-> "complete", bare |-> FALSE], [status |-> "streaming", bare |-> TRUE]}

\* Bounds of the transfer scene: a source stands still once it was exported, the artifact
\* is edited once, an import is the last thing that happens, and the hub stops in one.
TransferBound ==
    /\ \A c \in Original : conv'[c] \notin {"archived", "erased"}
    /\ artifact # << >> =>
          /\ artifact' = artifact \/ (~edited /\ edited')
          /\ \A c \in Original : conv'[c] = conv[c] /\ OwnTurns(c)' = OwnTurns(c)
    /\ (\E c \in Copies : conv[c] # "absent") => (importing # {} /\ artifact' = artifact)
    /\ importing = {} =>
          (\A t \in DOMAIN turns : turns'[t].status = turns[t].status \/ turns'[t].purged)

----------------------------------------------------------------------------
\* Off stage a part keeps one initial state: which one does not matter.
SomeSources == CHOOSE served \in [Source -> Document] : TRUE
SomeProfile == CHOOSE doc \in ProfileDoc : TRUE
SomeSnapshot == CHOOSE s \in StateSnapshot : TRUE
SomeManifest == CHOOSE m \in Manifest : TRUE
OffStage ==
    /\ scene # "pins" => source = SomeSources /\ profile = SomeProfile
    /\ workspace = SomeSnapshot /\ described = SomeManifest

SceneBounds ==
    /\ scene = "pins" => SentBound
    /\ scene = "display" => DisplayBound
    /\ scene = "seed" => SeedBound
    /\ scene = "transfers" => TransferBound

BoundedInit == DisplaysInit /\ OffStage
BoundedNext == DisplaysNext /\ SceneBounds

BoundedSpec == BoundedInit /\ [][BoundedNext]_sceneVars
============================================================================
