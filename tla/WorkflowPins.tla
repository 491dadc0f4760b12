---------------------------- MODULE WorkflowPins ----------------------------
(***************************************************************************)
(* The chain of pins from reviewed catalogs to a typed operation: provider *)
(* catalogs are loaded (provider_catalogs.py), a capability profile is     *)
(* pinned against them (capability_profiles.py), a workflow is compiled    *)
(* into a snapshot and checked for drift (workflow_snapshot.py), the run's *)
(* context is captured before its dispatch (run_context_store.py), the hub *)
(* resolves a proposed operation (workflows.py) and the bridge re-derives  *)
(* everything before the effect (bridge.py preflight_operation_command,    *)
(* contracts.py validate_bridge_command_snapshot).  The repository ships   *)
(* these parts tested and not yet wired together: the dispatch callable is *)
(* opaque here, and may send any operation under the context it is given.  *)
(* A digest is modelled by the content it digests.                         *)
(***************************************************************************)
EXTENDS FiniteSets, Naturals

CONSTANTS Descriptor,     \* an operation descriptor at one digest
          VersionOf,      \* the (id, contract version) a descriptor is a revision of
          ProviderOf,     \* the provider that publishes it
          Gated,          \* the descriptors whose gate requires a human approval
          Source,         \* the configured catalog sources
          SourceProvider, \* the provider each is reviewed for
          Document,       \* catalogs, as sets of descriptors, a source may serve
          Broken, Absent, \* a source that cannot be trusted; one that is not configured
          Review,         \* skill digests, model profiles and approval actions
          NameOf,         \* what a review is the digest of
          Skill,          \* the reviews that are skills
          Configured,     \* the reviews the operator's settings allow
          ProfileDoc,     \* the profile documents the operator may write
          WorkflowDoc,    \* the workflows that may be compiled
          PinnedRun, ApprovalGrant, NoGrant, Nothing,
          MaxEpoch        \* bound: how often the worktree is leased again

ASSUME PinsAssumption ==
    /\ Gated \subseteq Descriptor /\ Skill \subseteq Review /\ Configured \subseteq Review
    /\ Document \subseteq SUBSET Descriptor
    /\ \A d \in Descriptor : \E s \in Source : SourceProvider[s] = ProviderOf[d]
    /\ NoGrant \notin ApprovalGrant /\ MaxEpoch \in Nat

VARIABLES source,       \* what each catalog source serves now
          published,    \* the registry's cached catalogs, by provider
          profile,      \* the operator's profile document now
          adopted,      \* the digest the owner acknowledged for each skill
          pinned,       \* the profile the validator pinned last
          snapshot,     \* the compiled snapshot of each run
          context,      \* the stored run contexts
          dispatching,  \* the runs between their capture and their dispatch
          sent,         \* the commands the hub has sent
          epoch,        \* the epoch of the live lease of the worktree
          checked,      \* the command whose preflight passed up to its approval
          spent, effects

pinVars == <<source, published, profile, adopted, pinned, snapshot,
             context, dispatching, sent, epoch, checked, spent, effects>>
authorityVars == <<source, profile, adopted, epoch>>
hubVars == <<published, pinned, snapshot, context, dispatching, sent>>
bridgeVars == <<checked, spent, effects>>

Provider == {SourceProvider[s] : s \in Source}
Catalogs == [Provider -> Document \cup {Absent}]
Snapshot == [workflow : WorkflowDoc, catalogs : Catalogs, profile : ProfileDoc]
Command == [run : PinnedRun, op : Descriptor, pins : Snapshot, valid : BOOLEAN,
            epoch : 0..MaxEpoch, grant : ApprovalGrant \cup {NoGrant}]

PinsTypeOK ==
    /\ source \in [Source -> Document \cup {Broken, Absent}]
    /\ published \in Catalogs \cup {Nothing}
    /\ profile \in ProfileDoc /\ pinned \in ProfileDoc \cup {Nothing}
    /\ adopted \subseteq Skill
    /\ snapshot \in [PinnedRun -> Snapshot \cup {Nothing}]
    /\ context \in [PinnedRun -> Snapshot \cup {Nothing}]
    /\ dispatching \subseteq PinnedRun
    /\ sent \subseteq Command /\ checked \subseteq sent /\ effects \subseteq sent
    /\ epoch \in 0..MaxEpoch /\ spent \subseteq ApprovalGrant

PinsInit ==
    /\ source \in [Source -> Document] /\ profile \in ProfileDoc
    /\ adopted = {} /\ published = Nothing /\ pinned = Nothing
    /\ snapshot = [r \in PinnedRun |-> Nothing] /\ context = snapshot
    /\ dispatching = {} /\ sent = {} /\ checked = {} /\ spent = {} /\ effects = {}
    /\ epoch = 0

----------------------------------------------------------------------------
\* No two elements of S are revisions of one thing.
OneRevision(S, revisionOf) ==
    \A a, b \in S : revisionOf[a] = revisionOf[b] => a = b

\* A catalog of its provider's own descriptors, each operation version once.
ValidCatalog(p, catalog) ==
    /\ catalog # Broken
    /\ \A d \in catalog : ProviderOf[d] = p
    /\ OneRevision(catalog, VersionOf)

SourcesOf(p) == {s \in Source : SourceProvider[s] = p /\ source[s] # Absent}

\* Every configured source is valid, and two that claim one provider agree.
SourcesAgree ==
    \A p \in Provider : \A s, t \in SourcesOf(p) :
        ValidCatalog(p, source[s]) /\ source[s] = source[t]

LoadedCatalog(p) ==
    IF SourcesOf(p) = {} THEN Absent ELSE source[CHOOSE s \in SourcesOf(p) : TRUE]

Holds(catalogs, d) ==
    catalogs[ProviderOf[d]] # Absent /\ d \in catalogs[ProviderOf[d]]

\* published: the first load that succeeds is kept, a load that fails leaves nothing.
RegistryLoads ==
    /\ published = Nothing /\ SourcesAgree
    /\ published' = [p \in Provider |-> LoadedCatalog(p)]
    /\ UNCHANGED <<authorityVars, pinned, snapshot, context, dispatching, sent, bridgeVars>>

\* assert_skills_acknowledged: each skill at the very digest the owner reviewed.
SkillsAdopted(reviews) == reviews \cap Skill \subseteq adopted

\* _pin_operations: each version at one digest, which its catalog publishes.
OperationsPinned(doc) ==
    OneRevision(doc.ops, VersionOf) /\ \A d \in doc.ops : Holds(published, d)

\* _pin_skills, _pin_model_profiles, _pin_approval_actions: as the settings allow them.
SkillsPinned(skills) == OneRevision(skills, NameOf) /\ skills \subseteq Configured
NamesPinned(names) == names \subseteq Configured

ProfileTrusted(doc) ==
    /\ OperationsPinned(doc)
    /\ SkillsPinned(doc.reviews \cap Skill) /\ NamesPinned(doc.reviews \ Skill)
    /\ SkillsAdopted(doc.reviews)

ProfilePinned ==
    /\ published # Nothing /\ ProfileTrusted(profile)
    /\ pinned' = profile
    /\ UNCHANGED <<authorityVars, published, snapshot, context, dispatching, sent, bridgeVars>>

\* The selection covers exactly what the steps reference, so it is the workflow's own.
OperationsSelected(w) == w.ops \subseteq pinned.ops /\ \A d \in w.ops : Holds(published, d)
SkillsSelected(skills) == OneRevision(skills, NameOf) /\ skills \subseteq pinned.reviews
NamesSelected(names) == names \subseteq pinned.reviews

MayCompile(w) ==
    /\ OperationsSelected(w)
    /\ SkillsSelected(w.reviews \cap Skill) /\ NamesSelected(w.reviews \ Skill)

Compile(r, w) ==
    /\ published # Nothing /\ pinned # Nothing /\ MayCompile(w)
    /\ snapshot' = [snapshot EXCEPT ![r] =
                       [workflow |-> w, catalogs |-> published, profile |-> pinned]]
    /\ UNCHANGED <<authorityVars, published, pinned, context, dispatching, sent, bridgeVars>>

----------------------------------------------------------------------------
\* What preflight_snapshot reports as drift.
CatalogDrift(s, catalogs) ==
    {p \in Provider : s.catalogs[p] # Absent /\ catalogs[p] # s.catalogs[p]}
OperationDrift(s, catalogs) == {d \in s.workflow.ops : ~Holds(catalogs, d)}
ProfileDrift(s, prof) ==
    IF prof = s.profile THEN {} ELSE {s.profile} \cup (s.workflow.reviews \ prof.reviews)

PreflightPasses(s, catalogs, prof) ==
    /\ CatalogDrift(s, catalogs) = {}
    /\ OperationDrift(s, catalogs) = {}
    /\ ProfileDrift(s, prof) = {}

\* resolve_operation: in the catalog, in the run's snapshot, with inputs of its schema.
HubResolves(s, d, valid) == Holds(published, d) /\ d \in s.workflow.ops /\ valid

----------------------------------------------------------------------------
\* Mutant: a later context replaces the stored one.
MutantMayCapture(r) == snapshot[r] # Nothing

\* dispatch_with_run_context: a first or an identical context is stored, another is
\* refused, and only then is the dispatch called with the stored one.
MayCapture(r) == snapshot[r] # Nothing /\ context[r] \in {Nothing, snapshot[r]}

CaptureContext(r) ==
    /\ r \notin dispatching /\ MayCapture(r)
    /\ context' = [context EXCEPT ![r] = snapshot[r]]
    /\ dispatching' = dispatching \cup {r}
    /\ UNCHANGED <<authorityVars, published, pinned, snapshot, sent, bridgeVars>>

DispatchRun(r) ==
    /\ r \in dispatching /\ dispatching' = dispatching \ {r}
    /\ \E d \in Descriptor, valid \in BOOLEAN, g \in ApprovalGrant \cup {NoGrant} :
           sent' = sent \cup {[run |-> r, op |-> d, pins |-> context[r], valid |-> valid,
                               epoch |-> epoch, grant |-> g]}
    /\ UNCHANGED <<authorityVars, published, pinned, snapshot, context, bridgeVars>>

\* The caches and the compiled snapshots are in memory; the run contexts are rows.
PinsRestart ==
    /\ published' = Nothing /\ pinned' = Nothing /\ dispatching' = {}
    /\ snapshot' = [r \in PinnedRun |-> Nothing]
    /\ UNCHANGED <<authorityVars, context, sent, bridgeVars>>

----------------------------------------------------------------------------
\* What the bridge re-derives from its own catalogs and profile.
BridgeAccepts(pins, d, valid, catalogs, prof) ==
    /\ catalogs[ProviderOf[d]] # Absent
    /\ pins.catalogs[ProviderOf[d]] = catalogs[ProviderOf[d]]
    /\ pins.profile = prof
    /\ Holds(catalogs, d)
    /\ d \in prof.ops
    /\ valid

\* The reference validator of the contract: the pin of the provider exists first.
CommandSnapshotValid(pins, d, valid, catalogs, prof) ==
    /\ pins.profile = prof
    /\ pins.catalogs[ProviderOf[d]] # Absent
    /\ catalogs[ProviderOf[d]] = pins.catalogs[ProviderOf[d]]
    /\ Holds(catalogs, d) /\ valid
    /\ d \in prof.ops

LocalCatalogs ==
    [p \in Provider |->
        IF \E s \in SourcesOf(p) : ~ValidCatalog(p, source[s]) THEN Absent ELSE LoadedCatalog(p)]

\* A lease that is gone or expired is a lease another epoch will replace.
LeaseLive(c) == c.epoch = epoch

\* preflight_operation_command, up to the consumption of the approval.
BridgeChecks(c) ==
    /\ checked = {} /\ LeaseLive(c)
    /\ BridgeAccepts(c.pins, c.op, c.valid, LocalCatalogs, profile)
    /\ c.op \in Gated => c.grant # NoGrant
    /\ checked' = {c}
    /\ UNCHANGED <<authorityVars, hubVars, spent, effects>>

MayConsume(c) == c.op \in Gated => c.grant \notin spent

\* The hub consumes the grant once, and the effect follows.
BridgeInvokes(c) ==
    /\ checked = {c} /\ MayConsume(c)
    /\ spent' = IF c.op \in Gated THEN spent \cup {c.grant} ELSE spent
    /\ effects' = effects \cup {c} /\ checked' = {}
    /\ UNCHANGED <<authorityVars, hubVars>>

\* The grant is gone, or the bridge stops.
BridgeStops ==
    /\ checked # {} /\ checked' = {}
    /\ UNCHANGED <<authorityVars, hubVars, spent, effects>>

----------------------------------------------------------------------------
\* Catalogs, the profile document, the adoption ledger and the lease change.
SourceServes(s) ==
    /\ source[s] # Absent
    /\ \E served \in Document \cup {Broken} : source' = [source EXCEPT ![s] = served]
    /\ UNCHANGED <<profile, adopted, epoch, hubVars, bridgeVars>>

\* The sources of a registry are fixed: another set of them is another process.
SourcesReconfigured ==
    /\ \E s \in Source : source' = [source EXCEPT ![s] = Absent]
    /\ published' = Nothing
    /\ UNCHANGED <<profile, adopted, epoch, pinned, snapshot, context,
                   dispatching, sent, bridgeVars>>

ProfileWritten ==
    /\ \E doc \in ProfileDoc : profile' = doc
    /\ UNCHANGED <<source, adopted, epoch, hubVars, bridgeVars>>

\* acknowledge: one digest per skill, a later one replaces it.
SkillAcknowledged(k) ==
    /\ adopted' = {a \in adopted : NameOf[a] # NameOf[k]} \cup {k}
    /\ UNCHANGED <<source, profile, epoch, hubVars, bridgeVars>>

LeaseMoves ==
    /\ epoch < MaxEpoch /\ epoch' = epoch + 1
    /\ UNCHANGED <<source, profile, adopted, hubVars, bridgeVars>>

AuthorityMoves ==
    \/ \E s \in Source : SourceServes(s)
    \/ SourcesReconfigured \/ ProfileWritten \/ LeaseMoves
    \/ \E k \in Skill : SkillAcknowledged(k)

PinsNext ==
    \/ AuthorityMoves
    \/ RegistryLoads \/ ProfilePinned \/ PinsRestart \/ BridgeStops
    \/ \E r \in PinnedRun :
           CaptureContext(r) \/ DispatchRun(r) \/ \E w \in WorkflowDoc : Compile(r, w)
    \/ \E c \in sent : BridgeChecks(c) \/ BridgeInvokes(c)

PinsSpec == PinsInit /\ [][PinsNext]_pinVars

----------------------------------------------------------------------------
\* Whatever the dispatch sends and however often a run is compiled and captured again,
\* an effect ran under the context its run was first captured with, on an operation
\* that context's profile allows at the digest its catalogs pin.
EffectsKeepTheirPins ==
    \A c \in effects :
        /\ \A other \in sent : other.run = c.run => other.pins = c.pins
        /\ context[c.run] = c.pins
        /\ c.op \in c.pins.profile.ops /\ Holds(c.pins.catalogs, c.op)

\* The three validators agree on every snapshot, for the catalogs and profile of the
\* hub: what passes the drift check and resolves there is accepted by the bridge, and
\* the bridge accepts exactly what the contract's reference validator does.
PinValidatorsAgree ==
    published # Nothing /\ pinned # Nothing =>
        \A r \in PinnedRun : snapshot[r] # Nothing =>
            \A d \in Descriptor, valid \in BOOLEAN :
                /\ PreflightPasses(snapshot[r], published, pinned)
                       /\ HubResolves(snapshot[r], d, valid)
                       => BridgeAccepts(snapshot[r], d, valid, published, pinned)
                /\ BridgeAccepts(snapshot[r], d, valid, published, pinned)
                       = CommandSnapshotValid(snapshot[r], d, valid, published, pinned)
============================================================================
