------------------------- MODULE DeliveryProjection -------------------------
(***************************************************************************)
(* The hub's display records of one project: PRD contents, task references *)
(* and delivery verdicts bound to the snapshot they were derived from, the *)
(* pinned run rows and approval bindings (delivery_projection.py), and the *)
(* project-context projections with their latest pointer                   *)
(* (project_context.py, project_context_store.py).  Every call of a store  *)
(* is atomic under its lock.  Who fetched a snapshot is not the store's     *)
(* business: any of them may arrive at any time, in any order.             *)
(* A digest is modelled by the content it digests.                         *)
(***************************************************************************)
EXTENDS FiniteSetsExt, Naturals

CONSTANTS Prd, Task,
          PrdOf,         \* the PRD a task belongs to
          FeatureOf,     \* the feature a task names
          Needs,         \* the tasks it depends on
          StateSnapshot, \* what State may publish: [project, rev, tasks, mark], where
                         \* rev[p] = 0 when p is absent and mark tells statuses apart
          ActingProject,
          RunRow,        \* run rows: [run, task, rev, label]
          Binding,       \* approval bindings: [approval, task, label]
          NoRow

\* The snapshot schema gives a PRD an integer revision of at least 1; 0 stands for no PRD.
ASSUME RevisionAssumption == \A s \in StateSnapshot : s.rev \in [Prd -> Nat]

VARIABLES content,     \* the revision of the stored content of each PRD
          references,  \* the stored reference of each task: [rev, snap]
          verdicts,    \* the stored verdict of each task, with its binding
          runRows, bindings,
          projections, latest

displayVars == <<content, references, verdicts, runRows, bindings>>
contextVars == <<projections, latest>>
projectionVars == <<displayVars, contextVars>>

Present(s) == {p \in Prd : s.rev[p] > 0}

\* validate_state_snapshot: the tasks and what they need are in the snapshot.
SnapshotValid(s) ==
    \A t \in s.tasks :
        /\ PrdOf[t] \in Present(s)
        /\ Needs[t] \subseteq s.tasks \ {t}

ValidSnapshots == {s \in StateSnapshot : SnapshotValid(s)}

----------------------------------------------------------------------------
\* from_snapshot: a feature belongs to one PRD.
Projectable(s) ==
    /\ SnapshotValid(s)
    /\ \A t, u \in s.tasks : FeatureOf[t] = FeatureOf[u] => PrdOf[t] = PrdOf[u]

\* The highest revision a projection reflects, 0 when it reflects nothing.
SourceRevision(s) == Max({s.rev[p] : p \in Prd})

\* publish: a digest already held is answered from the store; a new one becomes the
\* latest unless its revision is lower.
Publishable(s) ==
    /\ Projectable(s) /\ s.project = ActingProject /\ SourceRevision(s) >= 1

\* Mutant: every new digest becomes the latest.
MutantSupersedes(s) == s # NoRow

Supersedes(s) == latest # NoRow => SourceRevision(s) >= SourceRevision(latest)

Publish(s) ==
    /\ Publishable(s) /\ s \notin projections /\ Supersedes(s)
    /\ projections' = projections \cup {s} /\ latest' = s
    /\ UNCHANGED displayVars

----------------------------------------------------------------------------
\* The reference projection_seed derives for a task of a snapshot.
ReferenceTo(t, s) == [rev |-> s.rev[PrdOf[t]], snap |-> s]

ASSUME ReferenceAssumption == \A t \in Task, s \in StateSnapshot : ReferenceTo(t, s) # NoRow

\* capture_prd_content, capture_task_reference: the last write wins.
CaptureContent(p, revision) ==
    /\ content' = [content EXCEPT ![p] = revision]
    /\ UNCHANGED <<references, verdicts, runRows, bindings, contextVars>>

CaptureReference(t, reference) ==
    /\ references' = [references EXCEPT ![t] = reference]
    /\ UNCHANGED <<content, verdicts, runRows, bindings, contextVars>>

VerdictClass == {"blocked", "stale", "eligible"}

DerivedState(classes) ==
    IF "blocked" \in classes THEN "blocked"
    ELSE IF "stale" \in classes THEN "stale" ELSE "eligible"

\* validate_delivery_eligibility: the state and the flag are derived from the reasons.
VerdictValid(classes, state, eligible) ==
    /\ classes # {} /\ state = DerivedState(classes)
    /\ eligible <=> state = "eligible"

\* Mutant: the revision the verdict pins is not compared.
MutantVerdictFits(t, s) == references[t] # NoRow /\ s # NoRow

\* The verdict a caller computed on snapshot s is bound to the current reference's
\* digest, once its revision is that of the reference.
VerdictFits(t, s) == references[t] # NoRow /\ s.rev[PrdOf[t]] = references[t].rev

CaptureEligibility(t, s) ==
    /\ t \in s.tasks /\ VerdictFits(t, s)
    /\ \E classes \in SUBSET VerdictClass, state \in VerdictClass, eligible \in BOOLEAN :
           /\ VerdictValid(classes, state, eligible)
           /\ verdicts' = [verdicts EXCEPT ![t] =
                  [on |-> s, state |-> state, bound |-> references[t].snap]]
    /\ UNCHANGED <<content, references, runRows, bindings, contextVars>>

\* get_eligibility: the stored verdict, or a derived stale one.
ServedState(t) ==
    IF references[t] # NoRow /\ references[t].snap # verdicts[t].bound THEN "stale"
    ELSE verdicts[t].state

\* eligibility_for_start, with the digest the intent pins.
StartAllowed(t, pinnedSnap) ==
    /\ verdicts[t] # NoRow
    /\ references[t] # NoRow /\ references[t].snap = verdicts[t].bound
    /\ pinnedSnap = references[t].snap
    /\ verdicts[t].state = "eligible"

----------------------------------------------------------------------------
\* RunDisplayRow and ApprovalBinding check their label against the reference.
RunRowValid(row) == row.rev >= 1 /\ row.label = <<row.task, row.rev>>
BindingValid(b) == b.label[2] >= 0

\* capture_run_row, capture_approval_binding: the first one is frozen.
CaptureRunRow(row) ==
    /\ RunRowValid(row)
    /\ \A other \in runRows : other.run # row.run
    /\ runRows' = runRows \cup {row}
    /\ UNCHANGED <<content, references, verdicts, bindings, contextVars>>

CaptureBinding(b) ==
    /\ BindingValid(b)
    /\ \A other \in bindings : other.approval # b.approval
    /\ bindings' = bindings \cup {b}
    /\ UNCHANGED <<content, references, verdicts, runRows, contextVars>>

----------------------------------------------------------------------------
ContextNext == \E s \in StateSnapshot : Publish(s)

DisplayNext ==
    \/ \E s \in ValidSnapshots, t \in Task :
           \/ t \in s.tasks /\ CaptureReference(t, ReferenceTo(t, s))
           \/ CaptureEligibility(t, s)
    \/ \E row \in RunRow : CaptureRunRow(row)
    \/ \E b \in Binding : CaptureBinding(b)

ProjectionInit ==
    /\ content = [p \in Prd |-> NoRow]
    /\ references = [t \in Task |-> NoRow] /\ verdicts = references
    /\ runRows = {} /\ bindings = {} /\ projections = {} /\ latest = NoRow

ProjectionSpec == ProjectionInit /\ [][ContextNext \/ DisplayNext]_projectionVars

----------------------------------------------------------------------------
ProjectionTypeOK ==
    /\ content \in [Prd -> Nat \cup {NoRow}]
    /\ \A t \in Task :
           /\ references[t] # NoRow => references[t].snap \in ValidSnapshots
           /\ verdicts[t] # NoRow => verdicts[t].state \in VerdictClass
    /\ runRows \subseteq RunRow /\ bindings \subseteq Binding
    /\ projections \subseteq StateSnapshot /\ latest \in projections \cup {NoRow}

\* The display history is kept: a projection, a run row and an approval binding once
\* stored stay as they are, and the latest projection of a project never falls back to
\* a lower source revision, in whatever order snapshots arrive.
DisplayHistoryKept ==
    [][/\ projections \subseteq projections' /\ runRows \subseteq runRows'
       /\ bindings \subseteq bindings'
       /\ latest # NoRow => latest' \in projections'
       /\ latest # NoRow /\ latest' # latest =>
              SourceRevision(latest') >= SourceRevision(latest)
      ]_projectionVars

\* A verdict that may start a run, or is shown as eligible, was computed on the revision
\* of the PRD the current reference pins, whenever it was computed and however often
\* the reference moved since; a run row keeps the revision its label names.
StartsOnTheCurrentRevision ==
    /\ \A t \in Task :
           verdicts[t] # NoRow /\ (ServedState(t) = "eligible"
                                   \/ \E s \in StateSnapshot : StartAllowed(t, s)) =>
               verdicts[t].on.rev[PrdOf[t]] = references[t].rev
    /\ \A a, b \in runRows : a.run = b.run => a.label = b.label

\* The comment of capture_eligibility (delivery_projection.py:371-376): a verdict computed
\* against a superseded source is refused, "so a pre-capture source advance is caught too".
StartsOnTheCurrentSnapshot ==
    \A t \in Task, s \in StateSnapshot : StartAllowed(t, s) => verdicts[t].on = s
============================================================================
