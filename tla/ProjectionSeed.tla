--------------------------- MODULE ProjectionSeed ---------------------------
(***************************************************************************)
(* The reads of State that feed the display records: the manifest whose    *)
(* read operations are pinned (state_manifest.py), the snapshot and the    *)
(* PRD contents read through the pins (state_snapshot_adapter.py,          *)
(* prd_content_adapter.py), and the seed directory they are written to and *)
(* loaded from (projection_seed.py).  State moves between any two reads,   *)
(* the generator may fail or stop between any two writes.                  *)
(***************************************************************************)
EXTENDS DeliveryProjection

CONSTANTS ReadOperation, \* the two read operations a generator needs
          SnapshotRead,  \* the one that reads the snapshot
          Manifest,      \* what describe may answer: [intact, ops], ops a set of
                         \* [id, version, effect, adapter, gated]
          Compatible,    \* the contract versions of the supported major
          Missing, Damaged, NoSeed

\* A path tells the files of the contents from those of the references.
ASSUME SeedAssumption ==
    /\ SnapshotRead \in ReadOperation
    /\ Prd \cap Task = {}
    /\ \A s \in StateSnapshot : s.tasks \subseteq Task

VARIABLES workspace,  \* the state of the workspace in State
          described,  \* what State's describe answers now
          generator,  \* [stage, pins, snap, fetched, left, written]
          files,      \* the record files of the output directory, by path
          manifest,   \* the snapshot its seed manifest names, or NoSeed or Damaged
          overwrote,  \* history: a generator wrote where a manifest already was
          loading     \* the records a loader has validated and not yet captured

seedDirectory == <<files, manifest, overwrote>>
seedVars == <<workspace, described, generator, seedDirectory, loading>>

Path == Prd \cup Task
EntriesOf(s) == Present(s) \cup s.tasks

\* The record file of a path: a content at its revision, or derive_task_reference.
Record(path, s) ==
    IF path \in Prd THEN [path |-> path, rev |-> s.rev[path], snap |-> NoRow]
    ELSE [path |-> path, rev |-> ReferenceTo(path, s).rev, snap |-> s]

IdleGenerator == [stage |-> "idle", pins |-> NoRow, snap |-> NoRow,
         fetched |-> {}, left |-> {}, written |-> {}]

----------------------------------------------------------------------------
\* _pin_operation: declared exactly once, a plain read through the CLI adapter.
Candidates(m, id) == {op \in m.ops : op.id = id}

OperationPinned(m, id) ==
    /\ Cardinality(Candidates(m, id)) = 1
    /\ \A op \in Candidates(m, id) :
           op.effect = "read" /\ op.version \in Compatible /\ op.adapter = "state_cli" /\ ~op.gated

\* pin_state_read_operations: the catalog's digests first.
ManifestPinned(m) == m.intact /\ \A id \in ReadOperation : OperationPinned(m, id)

PinnedVersion(m, id) == (CHOOSE op \in Candidates(m, id) : TRUE).version

\* pinned(): every generator discovers the manifest once; a failure pins nothing.
PinReads ==
    /\ generator.stage = "idle" /\ ManifestPinned(described)
    /\ generator' = [IdleGenerator EXCEPT !.stage = "pinned", !.pins = described]
    /\ UNCHANGED <<workspace, described, seedDirectory, loading, projectionVars>>

\* validate_snapshot_payload: read under the pinned contract version, and valid.
SnapshotAccepted(pins, now, s) ==
    /\ \A op \in Candidates(now, SnapshotRead) : op.version = PinnedVersion(pins, SnapshotRead)
    /\ SnapshotValid(s)

ReadSnapshot ==
    /\ generator.stage = "pinned"
    /\ SnapshotAccepted(generator.pins, described, workspace)
    /\ workspace.project = ActingProject
    /\ generator' = [generator EXCEPT !.stage = "contents", !.snap = workspace]
    /\ UNCHANGED <<workspace, described, seedDirectory, loading, projectionVars>>

\* Mutant: the expected revision is not passed to the adapter.
MutantContentAccepted(s, p, revision) == revision > 0 /\ s.rev[p] > 0

\* fetch(prd_id, expected_revision): another revision than the snapshot's is refused.
ContentAccepted(s, p, revision) == revision = s.rev[p]

Unread == Present(generator.snap) \ {r.path : r \in generator.fetched}

ReadContent(p) ==
    /\ generator.stage = "contents" /\ p \in Unread
    /\ ContentAccepted(generator.snap, p, workspace.rev[p])
    /\ generator' = [generator EXCEPT !.fetched =
                         @ \cup {[path |-> p, rev |-> workspace.rev[p], snap |-> NoRow]}]
    /\ UNCHANGED <<workspace, described, seedDirectory, loading, projectionVars>>

\* Any read that is refused ends the generator before it has written anything.
ReadRefused ==
    /\ \/ generator.stage = "pinned"
          /\ ~(SnapshotAccepted(generator.pins, described, workspace)
               /\ workspace.project = ActingProject)
       \/ generator.stage = "contents"
          /\ \E p \in Unread : ~ContentAccepted(generator.snap, p, workspace.rev[p])
    /\ generator' = IdleGenerator
    /\ UNCHANGED <<workspace, described, seedDirectory, loading, projectionVars>>

\* Everything is validated: the files are written, the manifest last.
BeginWrite ==
    /\ generator.stage = "contents" /\ Unread = {}
    /\ generator' = [generator EXCEPT !.stage = "writing", !.left = EntriesOf(generator.snap)]
    /\ overwrote' = (overwrote \/ manifest # NoSeed)
    /\ UNCHANGED <<workspace, described, files, manifest, loading, projectionVars>>

\* The contents are written before the references.
NextFiles == IF generator.left \cap Prd # {} THEN generator.left \cap Prd ELSE generator.left

Prepared == generator.fetched \cup {Record(t, generator.snap) : t \in generator.snap.tasks}

WriteFile(f) ==
    /\ generator.stage = "writing" /\ f \in NextFiles
    /\ \E r \in Prepared : r.path = f /\ files' = [files EXCEPT ![f] = r]
    /\ generator' = [generator EXCEPT !.left = @ \ {f}, !.written = @ \cup {f}]
    /\ UNCHANGED <<workspace, described, manifest, overwrote, loading, projectionVars>>

ReadyForManifest == generator.left = {}

WriteManifest ==
    /\ generator.stage = "writing" /\ ReadyForManifest
    /\ manifest' = generator.snap
    /\ generator' = IdleGenerator
    /\ UNCHANGED <<workspace, described, files, overwrote, loading, projectionVars>>

\* What a write that stops in the middle leaves of its target.
Interrupted(f) ==
    \/ f \in Path /\ \E now \in {files[f], Damaged} :
           files' = [files EXCEPT ![f] = now] /\ UNCHANGED manifest
    \/ f \notin Path /\ manifest' \in {manifest, Damaged} /\ UNCHANGED files

NextTargets == IF generator.left = {} THEN {NoSeed} ELSE NextFiles

\* The process stops in the middle of a write.
GeneratorCrashes ==
    /\ generator.stage = "writing" /\ \E f \in NextTargets : Interrupted(f)
    /\ generator' = IdleGenerator
    /\ UNCHANGED <<workspace, described, overwrote, loading, projectionVars>>

\* An OSError in the middle of a write: the files written before it are removed.
WriteFails ==
    /\ generator.stage = "writing"
    /\ \E f \in NextTargets, now \in {"kept", "damaged"} :
           /\ files' = [x \in Path |-> IF x \in generator.written THEN Missing
                                       ELSE IF x = f /\ now = "damaged" THEN Damaged ELSE files[x]]
           /\ manifest' = IF f \notin Path /\ now = "damaged" THEN Damaged ELSE manifest
    /\ generator' = IdleGenerator
    /\ UNCHANGED <<workspace, described, overwrote, loading, projectionVars>>

----------------------------------------------------------------------------
\* load_seed_dir reads and validates every record the manifest lists ...
Loadable ==
    /\ manifest \notin {NoSeed, Damaged}
    /\ \A e \in EntriesOf(manifest) : files[e] \notin {Missing, Damaged}

LoadSeed ==
    /\ loading = {} /\ Loadable
    /\ loading' = {files[e] : e \in EntriesOf(manifest)}
    /\ UNCHANGED <<workspace, described, generator, seedDirectory, projectionVars>>

\* ... and then captures them one by one, the contents first.
CaptureLoaded(r) ==
    /\ r \in loading
    /\ \/ r.path \in Prd /\ CaptureContent(r.path, r.rev)
       \/ /\ r.path \in Task /\ ~\E other \in loading : other.path \in Prd
          /\ CaptureReference(r.path, [rev |-> r.rev, snap |-> r.snap])
    /\ loading' = loading \ {r}
    /\ UNCHANGED <<workspace, described, generator, seedDirectory>>

----------------------------------------------------------------------------
\* State's own moves: a PRD that stays does not lose revisions.
Follows(s, t) == \A p \in Present(s) \cap Present(t) : t.rev[p] >= s.rev[p]

StateMoves ==
    /\ \E s \in StateSnapshot : Follows(workspace, s) /\ workspace' = s
    /\ UNCHANGED <<described, generator, seedDirectory, loading, projectionVars>>

DescribeChanges ==
    /\ \E m \in Manifest : described' = m
    /\ UNCHANGED <<workspace, generator, seedDirectory, loading, projectionVars>>

GeneratorNext ==
    \/ PinReads \/ ReadSnapshot \/ ReadRefused \/ BeginWrite
    \/ \E p \in Prd : ReadContent(p)
    \/ \E f \in Path : WriteFile(f)
    \/ WriteManifest \/ GeneratorCrashes \/ WriteFails

SeedNext ==
    \/ StateMoves \/ DescribeChanges \/ GeneratorNext
    \/ LoadSeed \/ \E r \in loading : CaptureLoaded(r)

SeedInit ==
    /\ workspace \in StateSnapshot /\ described \in Manifest
    /\ generator = IdleGenerator
    /\ files = [f \in Path |-> Missing] /\ manifest = NoSeed
    /\ overwrote = FALSE /\ loading = {}

SeedSpec == SeedInit /\ ProjectionInit /\ [][SeedNext]_<<seedVars, projectionVars>>

SeedTypeOK ==
    /\ workspace \in StateSnapshot /\ described \in Manifest
    /\ generator.stage \in {"idle", "pinned", "contents", "writing"}
    /\ generator.left \cup generator.written \subseteq Path
    /\ manifest \in StateSnapshot \cup {NoSeed, Damaged}

----------------------------------------------------------------------------
\* Every record of a loadable seed is the one of the snapshot its manifest names.
SeedOfOneSnapshot ==
    Loadable => \A e \in EntriesOf(manifest) : files[e] = Record(e, manifest)

\* A seed written into a fresh directory is loadable only whole and of one snapshot, with
\* contents of exactly that snapshot's revisions, wherever a generator failed or stopped
\* and however State moved between its reads.
FreshSeedIsWhole == ~overwrote => SeedOfOneSnapshot

\* _write_seed_tree (projection_seed.py:273-277): "The manifest is written last, so a
\* partially written tree (crash mid-write) is not loadable".
StoppedGeneratorLeavesWholeSeeds == generator.stage = "idle" => SeedOfOneSnapshot
============================================================================
