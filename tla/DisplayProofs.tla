---------------------------- MODULE DisplayProofs ----------------------------
(***************************************************************************)
(* Proofs about the parts of Displays, for any catalogs, profiles,          *)
(* documents, snapshots and records: an effect keeps the pins of its run,   *)
(* the validators of one document agree, a verdict starts work only on the  *)
(* revision it was computed on, the display history is kept, a fresh seed   *)
(* is loadable only whole, and every part keeps its type.                   *)
(***************************************************************************)
EXTENDS Displays, ConversationProofs

-----------------------------------------------------------------------------
(* Pins                                                                     *)

\* The first context of a run is kept, and is what every command of it carries.
ContextsKept ==
    /\ context = [r \in PinnedRun |-> context[r]]
    /\ snapshot = [r \in PinnedRun |-> snapshot[r]]
    /\ dispatching \subseteq PinnedRun
    /\ \A r \in dispatching : context[r] # Nothing
    /\ \A c \in sent : c.run \in PinnedRun /\ c.pins # Nothing /\ context[c.run] = c.pins

\* What was checked, and so what was done, fits the pins it carries.
FitsItsPins(c) == c.op \in c.pins.profile.ops /\ Holds(c.pins.catalogs, c.op)

PinsInv ==
    /\ ContextsKept
    /\ \A c \in checked \cup effects : c \in sent /\ FitsItsPins(c)

LEMMA AcceptedFits ==
    ASSUME NEW c, NEW catalogs, NEW prof, BridgeAccepts(c.pins, c.op, c.valid, catalogs, prof)
    PROVE  FitsItsPins(c)
BY DEF BridgeAccepts, FitsItsPins, Holds

LEMMA PinsInductive == PinsInv /\ [PinsNext]_pinVars => PinsInv'
<1> SUFFICES ASSUME PinsInv, [PinsNext]_pinVars
             PROVE  PinsInv'
  OBVIOUS
<1>1. CASE UNCHANGED <<context, sent, checked, effects>> /\ UNCHANGED <<snapshot, dispatching>>
  BY <1>1 DEF PinsInv, ContextsKept
<1>2. CASE PinsRestart
  BY <1>2 DEF PinsRestart, authorityVars, bridgeVars, PinsInv, ContextsKept
<1>3. ASSUME NEW r \in PinnedRun, NEW w \in WorkflowDoc, Compile(r, w)
      PROVE  PinsInv'
  BY <1>3 DEF Compile, bridgeVars, PinsInv, ContextsKept
<1>4. ASSUME NEW r \in PinnedRun, CaptureContext(r)
      PROVE  PinsInv'
  <2>1. /\ context' = [context EXCEPT ![r] = snapshot[r]] /\ dispatching' = dispatching \cup {r}
        /\ snapshot[r] # Nothing /\ context[r] \in {Nothing, snapshot[r]}
        /\ UNCHANGED <<snapshot, sent, checked, effects>>
    BY <1>4 DEF CaptureContext, MayCapture, bridgeVars
  <2>2. \A q \in PinnedRun : context'[q] # context[q] => context[q] = Nothing
    BY <2>1 DEF PinsInv, ContextsKept
  <2>3. QED
    BY <2>1, <2>2 DEF PinsInv, ContextsKept
<1>5. ASSUME NEW r \in PinnedRun, DispatchRun(r)
      PROVE  PinsInv'
  <2>1. PICK c : sent' = sent \cup {c} /\ c.run = r /\ c.pins = context[r]
    <3>1. PICK d, valid, g :
             sent' = sent \cup {[run |-> r, op |-> d, pins |-> context[r], valid |-> valid,
                                 epoch |-> epoch, grant |-> g]}
      BY <1>5 DEF DispatchRun
    <3>2. PICK c : c = [run |-> r, op |-> d, pins |-> context[r], valid |-> valid,
                        epoch |-> epoch, grant |-> g]
      OBVIOUS
    <3>3. QED
      BY <3>1, <3>2
  <2>2. /\ r \in dispatching /\ dispatching' = dispatching \ {r}
        /\ UNCHANGED <<context, snapshot, checked, effects>>
    BY <1>5 DEF DispatchRun, bridgeVars
  <2>3. QED
    BY <2>1, <2>2 DEF PinsInv, ContextsKept
<1>6. ASSUME NEW c \in sent, BridgeChecks(c)
      PROVE  PinsInv'
  <2>1. /\ checked' = {c} /\ UNCHANGED <<context, snapshot, dispatching, sent, effects>>
        /\ BridgeAccepts(c.pins, c.op, c.valid, LocalCatalogs, profile)
    BY <1>6 DEF BridgeChecks, hubVars
  <2>2. PICK catalogs, prof : catalogs = LocalCatalogs /\ prof = profile
    OBVIOUS
  <2>3. FitsItsPins(c)
    BY <2>1, <2>2, AcceptedFits
  <2>4. QED
    BY <2>1, <2>3 DEF PinsInv, ContextsKept
<1>7. ASSUME NEW c \in sent, BridgeInvokes(c)
      PROVE  PinsInv'
  BY <1>7 DEF BridgeInvokes, hubVars, PinsInv, ContextsKept
<1>8. CASE BridgeStops
  BY <1>8 DEF BridgeStops, hubVars, PinsInv, ContextsKept
<1>9. CASE AuthorityMoves \/ RegistryLoads \/ ProfilePinned \/ UNCHANGED pinVars
  BY <1>1, <1>9
  DEF AuthorityMoves, SourceServes, SourcesReconfigured, ProfileWritten, SkillAcknowledged, LeaseMoves,
      RegistryLoads, ProfilePinned, hubVars, bridgeVars, pinVars
<1>10. QED
  BY <1>2, <1>3, <1>4, <1>5, <1>6, <1>7, <1>8, <1>9 DEF PinsNext

LEMMA PinsOfEffects == PinsInv => EffectsKeepTheirPins
BY DEF PinsInv, ContextsKept, EffectsKeepTheirPins, FitsItsPins

\* An effect ran under the context its run was first captured with, on an operation that
\* context allows and pins (dispatch_with_run_context, preflight_operation_command).
THEOREM PinsAreKept == PinsSpec => []EffectsKeepTheirPins
<1>1. PinsInit => PinsInv
  BY DEF PinsInit, PinsInv, ContextsKept
<1>2. QED
  BY <1>1, PinsOfEffects, PinsInductive, PTL DEF PinsSpec

\* A compiled snapshot pins what its workflow uses.
SnapshotsClosed ==
    /\ snapshot = [r \in PinnedRun |-> snapshot[r]]
    /\ \A r \in PinnedRun : snapshot[r] # Nothing =>
          \A d \in snapshot[r].workflow.ops :
              d \in snapshot[r].profile.ops /\ Holds(snapshot[r].catalogs, d)

LEMMA SnapshotsInductive == SnapshotsClosed /\ [PinsNext]_pinVars => SnapshotsClosed'
<1> SUFFICES ASSUME SnapshotsClosed, [PinsNext]_pinVars
             PROVE  SnapshotsClosed'
  OBVIOUS
<1>1. CASE UNCHANGED snapshot
  BY <1>1 DEF SnapshotsClosed
<1>2. CASE PinsRestart
  BY <1>2 DEF PinsRestart, SnapshotsClosed
<1>3. ASSUME NEW r \in PinnedRun, NEW w \in WorkflowDoc, Compile(r, w)
      PROVE  SnapshotsClosed'
  <2>1. PICK s : /\ snapshot' = [snapshot EXCEPT ![r] = s]
                 /\ s.workflow = w /\ s.catalogs = published /\ s.profile = pinned
    <3>1. PICK s : s = [workflow |-> w, catalogs |-> published, profile |-> pinned]
      OBVIOUS
    <3>2. snapshot' = [snapshot EXCEPT ![r] = s]
      BY <1>3, <3>1 DEF Compile
    <3>3. s.workflow = w /\ s.catalogs = published /\ s.profile = pinned
      BY <3>1
    <3>4. QED
      BY <3>2, <3>3
  <2>2. \A d \in s.workflow.ops : d \in s.profile.ops /\ Holds(s.catalogs, d)
    BY <1>3, <2>1 DEF Compile, MayCompile, OperationsSelected, Holds
  <2>3. QED
    BY <2>1, <2>2 DEF SnapshotsClosed
<1>4. QED
  BY <1>1, <1>2, <1>3
  DEF PinsNext, AuthorityMoves, SourceServes, SourcesReconfigured, ProfileWritten, SkillAcknowledged,
      LeaseMoves, RegistryLoads, ProfilePinned, CaptureContext, DispatchRun, BridgeChecks, BridgeInvokes,
      BridgeStops, hubVars, pinVars

LEMMA ClosedAgree == SnapshotsClosed => PinValidatorsAgree
<1>1. SUFFICES ASSUME SnapshotsClosed, published # Nothing, pinned # Nothing,
                      NEW r \in PinnedRun, snapshot[r] # Nothing,
                      NEW d \in Descriptor, NEW valid \in BOOLEAN
               PROVE  /\ PreflightPasses(snapshot[r], published, pinned)
                             /\ HubResolves(snapshot[r], d, valid)
                             => BridgeAccepts(snapshot[r], d, valid, published, pinned)
                      /\ BridgeAccepts(snapshot[r], d, valid, published, pinned)
                             = CommandSnapshotValid(snapshot[r], d, valid, published, pinned)
  BY DEF PinValidatorsAgree
<1>2. PICK s : s = snapshot[r]
  OBVIOUS
<1>3. BridgeAccepts(s, d, valid, published, pinned) = CommandSnapshotValid(s, d, valid, published, pinned)
  BY <1>1 DEF BridgeAccepts, CommandSnapshotValid, Holds
<1>4. ASSUME PreflightPasses(s, published, pinned), HubResolves(s, d, valid)
      PROVE  BridgeAccepts(s, d, valid, published, pinned)
  <2>1. pinned = s.profile
    BY <1>4 DEF PreflightPasses, ProfileDrift
  <2>2. Holds(published, d) /\ valid /\ d \in s.workflow.ops
    BY <1>4 DEF HubResolves
  <2>3. d \in s.profile.ops /\ Holds(s.catalogs, d)
    BY <1>1, <1>2, <2>2 DEF SnapshotsClosed
  <2>4. s.catalogs[ProviderOf[d]] = published[ProviderOf[d]]
    <3>1. ProviderOf[d] \in Provider
      BY PinsAssumption DEF Provider
    <3>2. QED
      BY <1>4, <2>3, <3>1 DEF PreflightPasses, CatalogDrift, Holds
  <2>5. QED
    BY <2>1, <2>2, <2>3, <2>4 DEF BridgeAccepts, Holds
<1>5. QED
  BY <1>2, <1>3, <1>4

\* The drift check, the hub's resolution, the bridge and the contract's reference
\* validator agree on every snapshot of every run.
THEOREM PinReadersAgree == PinsSpec => []PinValidatorsAgree
<1>1. PinsInit => SnapshotsClosed
  BY DEF PinsInit, SnapshotsClosed
<1>2. QED
  BY <1>1, ClosedAgree, SnapshotsInductive, PTL DEF PinsSpec

-----------------------------------------------------------------------------
(* The Advanced playground                                                  *)

\* What the run endpoint records of a selection it accepts, the contract accepts, and
\* the other way round where every origin is stated and every control named once.
LEMMA SelectionsAgree == SelectionsMakeBranches
<1>1. ASSUME NEW e, NEW s, SelectionAccepts(e, s)
      PROVE  BranchAccepts(e, SelectedControls(e, s))
  <2>1. ASSUME NEW c, NEW x, Admits(c, x), NEW y,
               y = [name |-> x.name, value |-> x.value, origin |-> OriginOf(c, x)]
        PROVE  y.name = x.name /\ BranchAdmits(c, y)
    BY <2>1 DEF Admits, BranchAdmits, OriginOf
  <2>2. QED
    BY <1>1, <2>1 DEF SelectionAccepts, SelectedControls, BranchAccepts
<1>2. ASSUME NEW c, NEW x, BranchAdmits(c, x)
      PROVE  Admits(c, x)
  BY <1>2 DEF Admits, BranchAdmits
<1>3. QED
  BY <1>1, <1>2 DEF SelectionsMakeBranches, SelectionAccepts, BranchAccepts

\* The pins of a preset's route, read off the drift of the preset, are the two
\* references its own digests make.
LEMMA OwnDrift ==
    ASSUME NEW p \in PresetDoc, NEW R
    PROVE  LET own == {ref \in PresetDrift(p, RegistryOf(R)) : ref \notin p.others}
               has(k) == \E e \in R : e.id = p.route.id /\ e[k] = p.route[k]
           IN  own = {} <=> has("digest") /\ has("profile")
<1> DEFINE own == {ref \in PresetDrift(p, RegistryOf(R)) : ref \notin p.others}
           has(k) == \E e \in R : e.id = p.route.id /\ e[k] = p.route[k]
           at == [kind |-> "route", id |-> p.route.id, digest |-> p.route.digest]
           under == [kind |-> "profile", id |-> p.route.id, digest |-> p.route.profile]
<1>1. own = {ref \in {at, under} : ~Knows(RegistryOf(R), ref)}
  <2>1. at \notin p.others /\ under \notin p.others
    BY PresetAssumption
  <2>2. QED
    BY <2>1 DEF PresetDrift, Refs
<1>2. Knows(RegistryOf(R), at) <=> has("digest")
  BY DEF Knows, RegistryOf
<1>3. Knows(RegistryOf(R), under) <=> has("profile")
  BY DEF Knows, RegistryOf
<1>4. QED
  BY <1>1, <1>2, <1>3

\* A discovered route is known by its id.
LEMMA RoutesNamed == \A e, f \in Routes : e.id = f.id => e = f
BY DEF Routes, DiscoveryAccepts

LEMMA PinsAgree == PinReadingsAgree
<1> SUFFICES ASSUME NEW p \in PresetDoc
             PROVE  LET own == {ref \in PresetDrift(p, RegistryOf(Routes)) : ref \notin p.others}
                    IN  /\ own = {} <=> RouteRepair(Routes, p.route) = {}
                        /\ own = {} <=> \E e \in Routes : e.id = p.route.id /\ ~RefusesDrift(e, p.route)
  BY DEF PinReadingsAgree
<1> DEFINE own == {ref \in PresetDrift(p, RegistryOf(Routes)) : ref \notin p.others}
           has(k) == \E e \in Routes : e.id = p.route.id /\ e[k] = p.route[k]
<1>1. own = {} <=> has("digest") /\ has("profile")
  BY OwnDrift
<1>2. RouteRepair(Routes, p.route) = {} <=> has("digest") /\ has("profile")
  BY DEF RouteRepair
<1>3. (\E e \in Routes : e.id = p.route.id /\ ~RefusesDrift(e, p.route))
         <=> has("digest") /\ has("profile")
  <2>1. \A e : ~RefusesDrift(e, p.route) <=> e.digest = p.route.digest /\ e.profile = p.route.profile
    BY PresetAssumption DEF RefusesDrift
  <2>2. QED
    BY <2>1, RoutesNamed
<1>4. QED
  BY <1>1, <1>2, <1>3

\* The code's repeated checks agree: on every compiled snapshot the readers of its pins,
\* and on every discovered route and preset, whatever the settings, the readers of a
\* selection, of a branch and of a route pin (preflight_operation_command, validate_advanced_selection,
\* validate_advanced_branch, route_capability_repair, _refuse_drift).
THEOREM ChecksAgree == PinsSpec => []ValidatorsAgree
<1>1. PinValidatorsAgree => ValidatorsAgree
  BY SelectionsAgree, PinsAgree DEF ValidatorsAgree
<1>2. QED
  BY <1>1, PinReadersAgree, PTL

-----------------------------------------------------------------------------
(* Display records                                                          *)

\* A reference names its snapshot's revision, a verdict was bound to a reference of the
\* revision it was computed on, and a run has one row.
ReferencesNamed ==
    /\ references = [t \in Task |-> references[t]]
    /\ verdicts = [t \in Task |-> verdicts[t]]
    /\ \A t \in Task :
          /\ references[t] # NoRow => references[t].rev = references[t].snap.rev[PrdOf[t]]
          /\ verdicts[t] # NoRow =>
                /\ references[t] # NoRow
                /\ verdicts[t].on.rev[PrdOf[t]] = verdicts[t].bound.rev[PrdOf[t]]
    /\ \A a, b \in runRows : a.run = b.run => a = b

LEMMA NamedReference ==
    ASSUME ReferencesNamed, NEW s \in ValidSnapshots, NEW t \in Task,
           CaptureReference(t, ReferenceTo(t, s))
    PROVE  ReferencesNamed'
<1>1. PICK x : x = ReferenceTo(t, s)
  OBVIOUS
<1>2. x # NoRow /\ x.rev = x.snap.rev[PrdOf[t]]
  BY <1>1, ReferenceAssumption DEF ReferenceTo, ValidSnapshots
<1>3. references' = [references EXCEPT ![t] = x] /\ UNCHANGED <<verdicts, runRows>>
  BY <1>1 DEF CaptureReference
<1>4. QED
  BY <1>2, <1>3 DEF ReferencesNamed

LEMMA ReferencesInductive ==
    ReferencesNamed /\ [ContextNext \/ DisplayNext]_projectionVars => ReferencesNamed'
<1> SUFFICES ASSUME ReferencesNamed, [ContextNext \/ DisplayNext]_projectionVars
             PROVE  ReferencesNamed'
  OBVIOUS
<1>1. CASE UNCHANGED displayVars
  BY <1>1 DEF displayVars, ReferencesNamed
<1>2. ASSUME NEW s \in ValidSnapshots, NEW t \in Task, CaptureReference(t, ReferenceTo(t, s))
      PROVE  ReferencesNamed'
  BY <1>2, NamedReference
<1>3. ASSUME NEW s \in ValidSnapshots, NEW t \in Task, CaptureEligibility(t, s)
      PROVE  ReferencesNamed'
  <2>1. PICK state, v : /\ v = [on |-> s, state |-> state, bound |-> references[t].snap]
                        /\ verdicts' = [verdicts EXCEPT ![t] = v]
    BY <1>3 DEF CaptureEligibility
  <2>2. v.on = s /\ v.bound = references[t].snap
    BY <2>1
  <2>3. references[t] # NoRow /\ s.rev[PrdOf[t]] = references[t].rev /\ UNCHANGED <<references, runRows>>
    BY <1>3 DEF CaptureEligibility, VerdictFits
  <2>4. QED
    BY <2>1, <2>2, <2>3 DEF ReferencesNamed
<1>4. ASSUME NEW row \in RunRow, CaptureRunRow(row)
      PROVE  ReferencesNamed'
  BY <1>4 DEF CaptureRunRow, ReferencesNamed
<1>5. ASSUME NEW b \in Binding, CaptureBinding(b)
      PROVE  ReferencesNamed'
  BY <1>5 DEF CaptureBinding, ReferencesNamed
<1>6. QED
  BY <1>1, <1>2, <1>3, <1>4, <1>5 DEF ContextNext, Publish, DisplayNext, projectionVars

LEMMA NamedIsCurrent == ReferencesNamed => StartsOnTheCurrentRevision
<1>1. ASSUME ReferencesNamed, NEW t \in Task, verdicts[t] # NoRow,
             ServedState(t) = "eligible" \/ \E s \in StateSnapshot : StartAllowed(t, s)
      PROVE  verdicts[t].on.rev[PrdOf[t]] = references[t].rev
  <2>1. references[t] # NoRow
    BY <1>1 DEF ReferencesNamed
  <2>2. references[t].snap = verdicts[t].bound
    BY <1>1, <2>1 DEF ServedState, StartAllowed
  <2>3. QED
    BY <1>1, <2>1, <2>2 DEF ReferencesNamed
<1>2. QED
  BY <1>1 DEF StartsOnTheCurrentRevision, ReferencesNamed

\* A verdict that may start a run was computed on the revision the current reference
\* pins, in whatever order snapshots and verdicts arrive (eligibility_for_start).
THEOREM VerdictsAreCurrent == ProjectionSpec => []StartsOnTheCurrentRevision
<1>1. ProjectionInit => ReferencesNamed
  BY DEF ProjectionInit, ReferencesNamed
<1>2. QED
  BY <1>1, NamedIsCurrent, ReferencesInductive, PTL DEF ProjectionSpec

\* What is the latest was published, and stays with all that is published or frozen.
LEMMA DisplayStep ==
    ASSUME latest \in projections \cup {NoRow}, [ContextNext \/ DisplayNext]_projectionVars
    PROVE  /\ projections \subseteq projections' /\ runRows \subseteq runRows'
           /\ bindings \subseteq bindings'
           /\ latest' \in projections' \cup {NoRow}
           /\ latest # NoRow =>
                  /\ latest' \in projections'
                  /\ latest' # latest => SourceRevision(latest') >= SourceRevision(latest)
<1>1. ASSUME NEW s \in StateSnapshot, Publish(s)
      PROVE  /\ projections \subseteq projections' /\ latest' = s /\ s \in projections'
             /\ latest # NoRow => SourceRevision(s) >= SourceRevision(latest)
             /\ UNCHANGED <<runRows, bindings>>
  BY <1>1 DEF Publish, Supersedes, displayVars
<1>2. CASE DisplayNext \/ UNCHANGED projectionVars
  <2>1. /\ UNCHANGED <<projections, latest>>
        /\ runRows \subseteq runRows' /\ bindings \subseteq bindings'
    BY <1>2 DEF DisplayNext, CaptureReference, CaptureEligibility, CaptureRunRow, CaptureBinding,
                contextVars, projectionVars, displayVars
  <2>2. QED
    BY <2>1
<1>3. CASE ContextNext
  <2>1. PICK s \in StateSnapshot : Publish(s)
    BY <1>3 DEF ContextNext
  <2>2. QED
    BY <1>1, <2>1
<1>4. QED
  BY <1>2, <1>3

\* The display history is kept: no projection, run row or binding is replaced or lost, and
\* the latest projection never falls back to a lower source revision, in whatever order
\* snapshots arrive (publish, capture_run_row, capture_approval_binding).
THEOREM HistoryIsKept == ProjectionSpec => DisplayHistoryKept
<1> DEFINE Latest == latest \in projections \cup {NoRow}
<1>1. ProjectionInit => Latest
  BY DEF ProjectionInit
<1>2. Latest /\ [ContextNext \/ DisplayNext]_projectionVars => Latest'
  BY DisplayStep
<1>3. Latest /\ [ContextNext \/ DisplayNext]_projectionVars =>
         [/\ projections \subseteq projections' /\ runRows \subseteq runRows'
          /\ bindings \subseteq bindings'
          /\ latest # NoRow => latest' \in projections'
          /\ latest # NoRow /\ latest' # latest =>
                 SourceRevision(latest') >= SourceRevision(latest)]_projectionVars
  BY DisplayStep
<1>4. QED
  BY <1>1, <1>2, <1>3, PTL DEF ProjectionSpec, DisplayHistoryKept

-----------------------------------------------------------------------------
(* The seed directory                                                       *)

Whole(s, F) == \A e \in F : files[e] = Record(e, s)

GeneratorShape ==
    generator = [stage |-> generator.stage, pins |-> generator.pins, snap |-> generator.snap,
                 fetched |-> generator.fetched, left |-> generator.left, written |-> generator.written]

\* What a generator has fetched is of its snapshot; while it writes into a fresh
\* directory there is no manifest, and what it no longer has to write is whole.
SeedInv ==
    /\ GeneratorShape
    /\ files = [f \in Path |-> files[f]]
    /\ workspace \in StateSnapshot
    /\ generator.stage \in {"idle", "pinned"} => generator.fetched = {}
    /\ generator.stage \in {"contents", "writing"} =>
          /\ generator.snap \in StateSnapshot
          /\ \A r \in generator.fetched : r = Record(r.path, generator.snap)
    /\ ~overwrote =>
          /\ manifest \notin {NoSeed, Damaged} => Whole(manifest, EntriesOf(manifest))
          /\ generator.stage = "writing" =>
                /\ manifest = NoSeed
                /\ Whole(generator.snap, EntriesOf(generator.snap) \ generator.left)

LEMMA PreparedRecords ==
    ASSUME SeedInv, generator.stage = "writing", NEW r \in Prepared
    PROVE  r = Record(r.path, generator.snap)
<1>1. CASE r \in generator.fetched
  BY <1>1 DEF SeedInv
<1>2. ASSUME NEW t \in generator.snap.tasks, r = Record(t, generator.snap)
      PROVE  r.path = t
  BY <1>2 DEF Record
<1>3. QED
  BY <1>1, <1>2 DEF Prepared

LEMMA EntriesArePaths == \A s \in StateSnapshot : EntriesOf(s) \subseteq Path
  BY SeedAssumption DEF EntriesOf, Present, Path

LEMMA SeedInductive == SeedInv /\ [SeedNext]_<<seedVars, projectionVars>> => SeedInv'
<1> SUFFICES ASSUME SeedInv, [SeedNext]_<<seedVars, projectionVars>>
             PROVE  SeedInv'
  OBVIOUS
<1>1. workspace' \in StateSnapshot
  BY DEF SeedInv, SeedNext, GeneratorNext, StateMoves, DescribeChanges, PinReads, ReadSnapshot,
         ReadRefused, BeginWrite, ReadContent, WriteFile, WriteManifest, GeneratorCrashes,
         WriteFails, LoadSeed, CaptureLoaded, seedVars
<1>2. CASE UNCHANGED <<generator, seedDirectory>>
  BY <1>1, <1>2 DEF seedDirectory, SeedInv, GeneratorShape, Whole
<1>3. GeneratorShape /\ files = [f \in Path |-> files[f]]
  BY DEF SeedInv
\* Before it writes, and when it ends without a manifest, the generator leaves no more
\* than what was there and a damaged file.
<1>4. ASSUME UNCHANGED seedDirectory, GeneratorShape', generator'.stage # "writing",
             generator'.stage \in {"idle", "pinned"} => generator'.fetched = {},
             generator'.stage = "contents" =>
                /\ generator'.snap \in StateSnapshot
                /\ \A r \in generator'.fetched : r = Record(r.path, generator'.snap)
      PROVE  SeedInv'
  BY <1>1, <1>4 DEF seedDirectory, SeedInv, Whole
<1>5. ASSUME generator' = IdleGenerator, files' = [f \in Path |-> files'[f]], overwrote' = overwrote,
             ~overwrote => manifest' \in {NoSeed, Damaged}
      PROVE  SeedInv'
  BY <1>1, <1>5 DEF SeedInv, IdleGenerator, GeneratorShape
<1>6. CASE PinReads
  <2>1. generator' = [IdleGenerator EXCEPT !.stage = "pinned", !.pins = described] /\ UNCHANGED seedDirectory
    BY <1>6 DEF PinReads
  <2>2. GeneratorShape' /\ generator'.stage = "pinned" /\ generator'.fetched = {}
    BY <2>1 DEF GeneratorShape, IdleGenerator
  <2>3. QED
    BY <1>4, <2>1, <2>2
<1>7. CASE ReadSnapshot
  <2>1. /\ generator' = [generator EXCEPT !.stage = "contents", !.snap = workspace]
        /\ generator.stage = "pinned" /\ UNCHANGED seedDirectory
    BY <1>7 DEF ReadSnapshot
  <2>2. /\ GeneratorShape' /\ generator'.stage = "contents"
        /\ generator'.fetched = generator.fetched /\ generator'.snap = workspace
    BY <1>3, <2>1 DEF GeneratorShape
  <2>3. generator'.fetched = {} /\ generator'.snap \in StateSnapshot
    BY <2>1, <2>2 DEF SeedInv
  <2>4. QED
    BY <1>4, <2>1, <2>2, <2>3
<1>8. CASE ReadRefused
  BY <1>4, <1>8 DEF ReadRefused, IdleGenerator, GeneratorShape
<1>9. ASSUME NEW p \in Prd, ReadContent(p)
      PROVE  SeedInv'
  <2>1. PICK new : new = [path |-> p, rev |-> workspace.rev[p], snap |-> NoRow]
    OBVIOUS
  <2>2. /\ generator' = [generator EXCEPT !.fetched = @ \cup {new}]
        /\ generator.stage = "contents" /\ UNCHANGED seedDirectory
    BY <1>9, <2>1 DEF ReadContent
  <2>3. /\ GeneratorShape' /\ generator'.stage = "contents" /\ generator'.snap = generator.snap
        /\ generator'.fetched = generator.fetched \cup {new}
    BY <1>3, <2>2 DEF GeneratorShape
  <2>4. new = Record(new.path, generator.snap)
    BY <1>9, <2>1 DEF ReadContent, ContentAccepted, Record
  <2>5. generator.snap \in StateSnapshot /\ \A r \in generator.fetched : r = Record(r.path, generator.snap)
    BY <2>2 DEF SeedInv
  <2>6. QED
    BY <1>4, <2>2, <2>3, <2>4, <2>5
<1>10. CASE BeginWrite
  <2>1. /\ generator' = [generator EXCEPT !.stage = "writing", !.left = EntriesOf(generator.snap)]
        /\ generator.stage = "contents" /\ UNCHANGED <<files, manifest>>
        /\ overwrote' = (overwrote \/ manifest # NoSeed)
    BY <1>10 DEF BeginWrite
  <2>2. /\ GeneratorShape' /\ generator'.stage = "writing" /\ generator'.snap = generator.snap
        /\ generator'.fetched = generator.fetched /\ generator'.left = EntriesOf(generator.snap)
    BY <1>3, <2>1 DEF GeneratorShape
  <2>3. EntriesOf(generator'.snap) \ generator'.left = {}
    BY <2>2
  <2>4. QED
    BY <1>1, <2>1, <2>2, <2>3 DEF SeedInv, Whole
<1>11. ASSUME NEW f \in Path, WriteFile(f)
       PROVE  SeedInv'
  <2>1. /\ generator' = [generator EXCEPT !.left = @ \ {f}, !.written = @ \cup {f}]
        /\ generator.stage = "writing" /\ UNCHANGED <<manifest, overwrote>>
    BY <1>11 DEF WriteFile
  <2>2. /\ GeneratorShape' /\ generator'.stage = "writing" /\ generator'.snap = generator.snap
        /\ generator'.fetched = generator.fetched /\ generator'.left = generator.left \ {f}
    BY <1>3, <2>1 DEF GeneratorShape
  <2>3. files' = [files EXCEPT ![f] = Record(f, generator.snap)]
    <3>1. PICK r \in Prepared : r.path = f /\ files' = [files EXCEPT ![f] = r]
      BY <1>11 DEF WriteFile
    <3>2. QED
      BY <2>1, <3>1, PreparedRecords
  <2>4. /\ files' = [x \in Path |-> files'[x]] /\ files'[f] = Record(f, generator.snap)
        /\ \A x \in Path \ {f} : files'[x] = files[x]
    BY <1>3, <2>3
  <2>5. ASSUME ~overwrote
        PROVE  Whole(generator.snap, EntriesOf(generator.snap) \ generator.left)'
    <3>1. Whole(generator.snap, EntriesOf(generator.snap) \ generator.left)
      BY <2>1, <2>5 DEF SeedInv
    <3>2. EntriesOf(generator.snap) \subseteq Path
      BY <2>1, EntriesArePaths DEF SeedInv
    <3>3. \A e \in EntriesOf(generator.snap) \ (generator.left \ {f}) :
             files'[e] = Record(e, generator.snap)
      BY <2>4, <3>1, <3>2 DEF Whole
    <3>4. QED
      BY <2>2, <3>3 DEF Whole
  <2>6. QED
    BY <1>1, <2>1, <2>2, <2>4, <2>5 DEF SeedInv
<1>12. CASE WriteManifest
  <2>1. /\ generator' = IdleGenerator /\ manifest' = generator.snap /\ generator.left = {}
        /\ generator.stage = "writing" /\ UNCHANGED <<files, overwrote>>
    BY <1>12 DEF WriteManifest, ReadyForManifest
  <2>2. ~overwrote => Whole(generator.snap, EntriesOf(generator.snap))
    BY <2>1 DEF SeedInv
  <2>3. QED
    BY <1>1, <2>1, <2>2 DEF SeedInv, IdleGenerator, GeneratorShape, Whole
<1>13. CASE GeneratorCrashes
  <2>1. PICK f \in NextTargets : Interrupted(f)
    BY <1>13 DEF GeneratorCrashes
  <2>2. files' = [x \in Path |-> files'[x]] /\ manifest' \in {manifest, Damaged}
    BY <1>3, <2>1 DEF Interrupted
  <2>3. QED
    BY <1>5, <1>13, <2>2 DEF GeneratorCrashes, SeedInv
<1>14. CASE WriteFails
  <2>1. files' = [x \in Path |-> files'[x]] /\ manifest' \in {manifest, Damaged}
    BY <1>14 DEF WriteFails
  <2>2. QED
    BY <1>5, <1>14, <2>1 DEF WriteFails, SeedInv
<1>15. QED
  BY <1>2, <1>6, <1>7, <1>8, <1>9, <1>10, <1>11, <1>12, <1>13, <1>14
     DEF SeedNext, GeneratorNext, StateMoves, DescribeChanges, LoadSeed, CaptureLoaded, seedVars

LEMMA FreshIsWhole == SeedInv => FreshSeedIsWhole
BY DEF SeedInv, FreshSeedIsWhole, SeedOfOneSnapshot, Loadable, Whole

\* A seed written into a fresh directory is loadable only when every record of it is the
\* one of the snapshot its manifest names, wherever the generators stopped or failed and
\* however State moved between their reads (_write_seed_tree).
THEOREM FreshSeedsAreWhole == SeedSpec => []FreshSeedIsWhole
<1>1. SeedInit => SeedInv
  BY DEF SeedInit, SeedInv, IdleGenerator, GeneratorShape, seedDirectory
<1>2. QED
  BY <1>1, FreshIsWhole, SeedInductive, PTL DEF SeedSpec

-----------------------------------------------------------------------------
(* Types                                                                    *)

\* A source in force serves a reviewed document, once its catalog is valid.
LEMMA ServedDocument ==
    ASSUME PinsTypeOK, NEW p \in Provider, \A s \in SourcesOf(p) : ValidCatalog(p, source[s])
    PROVE  LoadedCatalog(p) \in Document \cup {Absent}
<1>1. CASE SourcesOf(p) = {}
  BY <1>1 DEF LoadedCatalog
<1>2. CASE SourcesOf(p) # {}
  <2>1. PICK s \in SourcesOf(p) : LoadedCatalog(p) = source[s]
    BY <1>2 DEF LoadedCatalog
  <2>2. s \in Source /\ source[s] # Absent /\ source[s] # Broken
    BY <2>1 DEF SourcesOf, ValidCatalog
  <2>3. QED
    BY <2>1, <2>2 DEF PinsTypeOK
<1>3. QED
  BY <1>1, <1>2

\* A gated command is checked under a grant, which its invocation then spends.
ChecksGranted == \A c \in checked : c.op \in Gated => c.grant # NoGrant

LEMMA ChecksGrantedStep == ChecksGranted /\ [PinsNext]_pinVars => ChecksGranted'
BY DEF ChecksGranted, pinVars, PinsNext, AuthorityMoves, SourceServes, SourcesReconfigured,
       ProfileWritten, SkillAcknowledged, LeaseMoves, RegistryLoads, ProfilePinned, PinsRestart,
       BridgeStops, CaptureContext, DispatchRun, Compile, BridgeChecks, BridgeInvokes, bridgeVars

LEMMA PinsTypeStep == PinsInv /\ ChecksGranted /\ PinsTypeOK /\ [PinsNext]_pinVars => PinsTypeOK'
<1> SUFFICES ASSUME PinsInv, ChecksGranted, PinsTypeOK, [PinsNext]_pinVars
             PROVE  PinsTypeOK'
  OBVIOUS
<1>1. CASE UNCHANGED pinVars
  BY <1>1 DEF pinVars, PinsTypeOK, Catalogs, Provider, Snapshot, Command
<1>2. CASE RegistryLoads
  <2>1. \A p \in Provider : LoadedCatalog(p) \in Document \cup {Absent}
    BY <1>2, ServedDocument DEF RegistryLoads, SourcesAgree
  <2>2. published' \in Catalogs
    BY <1>2, <2>1 DEF RegistryLoads, Catalogs
  <2>3. QED
    BY <1>2, <2>2 DEF RegistryLoads, PinsTypeOK, authorityVars, bridgeVars
<1>3. CASE ProfilePinned
  BY <1>3 DEF ProfilePinned, PinsTypeOK, authorityVars, bridgeVars
<1>4. CASE PinsRestart
  BY <1>4 DEF PinsRestart, PinsTypeOK, authorityVars, bridgeVars
<1>5. ASSUME NEW r \in PinnedRun, NEW w \in WorkflowDoc, Compile(r, w)
      PROVE  PinsTypeOK'
  <2>1. [workflow |-> w, catalogs |-> published, profile |-> pinned] \in Snapshot
    BY <1>5 DEF Compile, PinsTypeOK, Snapshot
  <2>2. snapshot' \in [PinnedRun -> Snapshot \cup {Nothing}]
    BY <1>5, <2>1 DEF Compile, PinsTypeOK
  <2>3. QED
    BY <1>5, <2>2 DEF Compile, PinsTypeOK, authorityVars, bridgeVars
<1>6. ASSUME NEW r \in PinnedRun, CaptureContext(r)
      PROVE  PinsTypeOK'
  <2>1. context' \in [PinnedRun -> Snapshot \cup {Nothing}] /\ dispatching' \subseteq PinnedRun
    BY <1>6 DEF CaptureContext, PinsTypeOK
  <2>2. QED
    BY <1>6, <2>1 DEF CaptureContext, PinsTypeOK, authorityVars, bridgeVars
<1>7. ASSUME NEW r \in PinnedRun, DispatchRun(r)
      PROVE  PinsTypeOK'
  <2>1. context[r] \in Snapshot
    BY <1>7 DEF DispatchRun, PinsInv, ContextsKept, PinsTypeOK
  <2>2. PICK d \in Descriptor, valid \in BOOLEAN, g \in ApprovalGrant \cup {NoGrant} :
           sent' = sent \cup {[run |-> r, op |-> d, pins |-> context[r], valid |-> valid,
                               epoch |-> epoch, grant |-> g]}
    BY <1>7 DEF DispatchRun
  <2>3. sent' \subseteq Command /\ sent \subseteq sent'
    BY <2>1, <2>2 DEF Command, PinsTypeOK
  <2>4. QED
    BY <1>7, <2>3 DEF DispatchRun, PinsTypeOK, authorityVars, bridgeVars
<1>8. ASSUME NEW c \in sent, BridgeChecks(c) \/ BridgeInvokes(c)
      PROVE  PinsTypeOK'
  <2>1. c \in checked => (c.op \in Gated => c.grant \in ApprovalGrant)
    BY DEF PinsTypeOK, Command, ChecksGranted
  <2>2. CASE BridgeChecks(c)
    BY <2>2 DEF BridgeChecks, PinsTypeOK, authorityVars, hubVars
  <2>3. CASE BridgeInvokes(c)
    BY <2>1, <2>3 DEF BridgeInvokes, PinsTypeOK, authorityVars, hubVars
  <2>4. QED
    BY <1>8, <2>2, <2>3
<1>9. CASE BridgeStops
  BY <1>9 DEF BridgeStops, PinsTypeOK, authorityVars, hubVars
<1>10. CASE AuthorityMoves
  <2>1. source' \in [Source -> Document \cup {Broken, Absent}]
    BY <1>10 DEF AuthorityMoves, SourceServes, SourcesReconfigured, ProfileWritten, LeaseMoves,
                 SkillAcknowledged, PinsTypeOK
  <2>2. profile' \in ProfileDoc /\ adopted' \subseteq Skill
    BY <1>10 DEF AuthorityMoves, SourceServes, SourcesReconfigured, ProfileWritten, LeaseMoves,
                 SkillAcknowledged, PinsTypeOK
  <2>3. epoch' \in 0 .. MaxEpoch
    BY <1>10, PinsAssumption DEF AuthorityMoves, SourceServes, SourcesReconfigured, ProfileWritten,
                 LeaseMoves, SkillAcknowledged, PinsTypeOK
  <2>4. /\ published' \in {published, Nothing}
        /\ UNCHANGED <<pinned, snapshot, context, dispatching, sent, bridgeVars>>
    BY <1>10 DEF AuthorityMoves, SourceServes, SourcesReconfigured, ProfileWritten, LeaseMoves,
                 SkillAcknowledged, hubVars
  <2>5. QED
    BY <2>1, <2>2, <2>3, <2>4 DEF PinsTypeOK, bridgeVars
<1>11. QED
  BY <1>1, <1>2, <1>3, <1>4, <1>5, <1>6, <1>7, <1>8, <1>9, <1>10 DEF PinsNext

\* A store of the playground stays within its limit, with one record of an id.
LEMMA KeptFits ==
    ASSUME NEW Doc, NEW S \in SUBSET Doc, NEW doc \in Doc,
           IsFiniteSet(S), Cardinality(S) <= MaxItems, StoreAdmits(S, doc),
           \A a, b \in S : a.id = b.id => a = b
    PROVE  /\ Kept(S, doc) \subseteq Doc /\ IsFiniteSet(Kept(S, doc))
           /\ Cardinality(Kept(S, doc)) <= MaxItems
           /\ \A a, b \in Kept(S, doc) : a.id = b.id => a = b
<1>0. PICK Others : Others = {x \in S : x.id # doc.id}
  OBVIOUS
<1>1. Others \subseteq S /\ IsFiniteSet(Others) /\ Cardinality(Others) <= Cardinality(S)
  BY <1>0, FS_Subset
<1>2. Cardinality(S) \in Nat /\ Cardinality(Others) \in Nat
  BY <1>1, FS_CardinalityType
<1>3. Kept(S, doc) = Others \cup {doc} /\ doc \notin Others
  BY <1>0 DEF Kept
<1>4. IsFiniteSet(Kept(S, doc)) /\ Cardinality(Kept(S, doc)) = Cardinality(Others) + 1
  BY <1>1, <1>3, FS_AddElement
<1>5. Cardinality(Others) < MaxItems
  <2>1. CASE \E x \in S : x.id = doc.id
    <3>1. PICK x \in S : x.id = doc.id
      BY <2>1
    <3>2. IsFiniteSet(S \ {x}) /\ Cardinality(S \ {x}) = Cardinality(S) - 1
      BY <3>1, FS_RemoveElement
    <3>3. Others \subseteq S \ {x}
      BY <1>0, <3>1
    <3>4. Cardinality(Others) <= Cardinality(S \ {x})
      BY <3>2, <3>3, FS_Subset
    <3>5. QED
      BY <1>2, <3>2, <3>4, ItemsAssumption
  <2>2. CASE Cardinality(S) < MaxItems
    BY <1>1, <1>2, <2>2, ItemsAssumption
  <2>3. QED
    BY <2>1, <2>2 DEF StoreAdmits
<1>6. QED
  BY <1>0, <1>2, <1>3, <1>4, <1>5, ItemsAssumption

\* What the stores of the playground hold is finite, and a reader asks for one thing.
PlaygroundTyped ==
    /\ PlaygroundTypeOK
    /\ IsFiniteSet(presets) /\ IsFiniteSet(templates)
    /\ asked = [r \in Reader |-> asked[r]]

LEMMA PlaygroundTypeStep ==
    ASSUME PlaygroundTyped, [PlaygroundNext]_playVars
    PROVE  PlaygroundTyped'
<1> USE DEF PlaygroundTyped, PlaygroundTypeOK
<1>1. ASSUME asked' = [r \in Reader |-> asked'[r]],
             \A r \in Reader : asked'[r].of \in {"nothing", "preset", "template"},
             UNCHANGED <<settings, registry, presets, templates, ratings>>
      PROVE  PlaygroundTyped'
  BY <1>1
<1>2. ASSUME NEW p \in PresetDoc, NEW claim \in Registry, SavePreset(p, claim)
      PROVE  PlaygroundTyped'
  <2>1. presets' = Kept(presets, p) /\ UNCHANGED <<settings, registry, templates, ratings, asked>>
    BY <1>2 DEF SavePreset
  <2>2. /\ presets' \subseteq PresetDoc /\ IsFiniteSet(presets') /\ Cardinality(presets') <= MaxItems
        /\ \A x, y \in presets' : x.id = y.id => x = y
    BY <1>2, <2>1, KeptFits DEF SavePreset
  <2>3. QED
    BY <2>1, <2>2
<1>3. ASSUME NEW p \in PresetDoc, DeletePreset(p)
      PROVE  PlaygroundTyped'
  <2>1. presets' = presets \ {p} /\ UNCHANGED <<settings, registry, templates, ratings, asked>>
    BY <1>3 DEF DeletePreset
  <2>2. IsFiniteSet(presets') /\ Cardinality(presets') <= Cardinality(presets)
    BY <2>1, FS_Subset
  <2>3. Cardinality(presets') <= MaxItems
    BY <2>2, FS_CardinalityType, ItemsAssumption
  <2>4. presets' \subseteq presets
    BY <2>1
  <2>5. QED
    BY <2>1, <2>2, <2>3, <2>4
<1>4. ASSUME NEW d \in TemplateDoc, SaveTemplate(d)
      PROVE  PlaygroundTyped'
  <2>1. templates' = Kept(templates, d) /\ UNCHANGED <<settings, registry, presets, ratings, asked>>
    BY <1>4 DEF SaveTemplate
  <2>2. /\ templates' \subseteq TemplateDoc /\ IsFiniteSet(templates') /\ Cardinality(templates') <= MaxItems
        /\ \A x, y \in templates' : x.id = y.id => x = y
    BY <1>4, <2>1, KeptFits DEF SaveTemplate
  <2>3. QED
    BY <2>1, <2>2
<1>5. ASSUME NEW d \in TemplateDoc, DeleteTemplate(d)
      PROVE  PlaygroundTyped'
  <2>1. templates' = templates \ {d} /\ UNCHANGED <<settings, registry, presets, ratings, asked>>
    BY <1>5 DEF DeleteTemplate
  <2>2. IsFiniteSet(templates') /\ Cardinality(templates') <= Cardinality(templates)
    BY <2>1, FS_Subset
  <2>3. Cardinality(templates') <= MaxItems
    BY <2>2, FS_CardinalityType, ItemsAssumption
  <2>4. templates' \subseteq templates
    BY <2>1
  <2>5. QED
    BY <2>1, <2>2, <2>3, <2>4
<1>6. ASSUME NEW r \in Reader, ResolvePreset(r) \/ ReadTemplate(r)
      PROVE  PlaygroundTyped'
  BY <1>1, <1>6 DEF ResolvePreset, ReadTemplate, NothingAsked, Ask
<1>7. ASSUME NEW r \in Reader, NEW p \in presets, ReadPreset(r, p)
      PROVE  PlaygroundTyped'
  BY <1>1, <1>7 DEF ReadPreset, Ask
<1>8. ASSUME NEW r \in Reader, NEW d \in TemplateDoc, CompareDigests(r, d)
      PROVE  PlaygroundTyped'
  BY <1>1, <1>8 DEF CompareDigests, Ask
<1>9. CASE RecordRating
  BY <1>9, ItemsAssumption DEF RecordRating
<1>10. CASE RegistryMoves
  BY <1>10 DEF RegistryMoves
<1>11. CASE PlaygroundRestarts
  <2>1. /\ presets' = {} /\ templates' = {} /\ ratings' = 0 /\ registry' = registry
        /\ settings' \in RouteSettings
    BY <1>11 DEF PlaygroundRestarts
  <2>2. IsFiniteSet({}) /\ Cardinality({}) = 0 /\ 0 <= MaxItems
    BY FS_EmptySet, ItemsAssumption
  <2>3. asked' = [r \in Reader |-> asked'[r]] /\ \A r \in Reader : asked'[r].of = "nothing"
    BY <1>11 DEF PlaygroundRestarts, NothingAsked, Ask
  <2>4. QED
    BY <2>1, <2>2, <2>3, ItemsAssumption
<1>12. CASE UNCHANGED playVars
  BY <1>12 DEF playVars
<1>13. QED
  BY <1>2, <1>3, <1>4, <1>5, <1>6, <1>7, <1>8, <1>9, <1>10, <1>11, <1>12
     DEF PlaygroundNext, PresetStep, TemplateStep

\* What the display records need of a record that is loaded.
RecordFits(r) ==
    /\ r.path \in Prd => r.rev \in Nat
    /\ r.path \in Task => r.snap \in ValidSnapshots /\ r.rev = r.snap.rev[PrdOf[r.path]]

LEMMA RecordsFit == ASSUME NEW s \in ValidSnapshots, NEW path PROVE RecordFits(Record(path, s))
<1>1. s \in StateSnapshot /\ s.rev \in [Prd -> Nat]
  BY RevisionAssumption DEF ValidSnapshots
<1>2. CASE path \in Prd
  <2>1. Record(path, s).path = path /\ Record(path, s).rev = s.rev[path]
    BY <1>2 DEF Record
  <2>2. QED
    BY <1>1, <1>2, <2>1, SeedAssumption DEF RecordFits
<1>3. CASE path \notin Prd
  <2>1. Record(path, s).path = path /\ Record(path, s).snap = s /\ Record(path, s).rev = s.rev[PrdOf[path]]
    BY <1>3 DEF Record, ReferenceTo
  <2>2. QED
    BY <1>3, <2>1 DEF RecordFits
<1>4. QED
  BY <1>2, <1>3

\* The seed directory holds records that fit, whatever their generator and their snapshot.
SeedTyped ==
    /\ SeedTypeOK
    /\ generator.stage \in {"contents", "writing"} => generator.snap \in ValidSnapshots
    /\ \A f \in Path : files[f] \notin {Missing, Damaged} => RecordFits(files[f])
    /\ \A r \in loading : RecordFits(r)

LEMMA SeedTypeStep ==
    SeedInv /\ SeedTyped /\ [SeedNext]_<<seedVars, projectionVars>> => SeedTyped'
<1> SUFFICES ASSUME SeedInv, SeedTyped, [SeedNext]_<<seedVars, projectionVars>>
             PROVE  SeedTyped'
  OBVIOUS
<1>1. workspace' \in StateSnapshot /\ described' \in Manifest
  BY DEF SeedTyped, SeedTypeOK, SeedNext, GeneratorNext, StateMoves, DescribeChanges, PinReads,
         ReadSnapshot, ReadRefused, BeginWrite, ReadContent, WriteFile, WriteManifest,
         GeneratorCrashes, WriteFails, LoadSeed, CaptureLoaded, seedVars
<1>2. GeneratorShape /\ files = [f \in Path |-> files[f]]
  BY DEF SeedInv
\* A generator that reads has written nothing yet; one that ended has nothing left to do.
<1>3. ASSUME UNCHANGED <<files, manifest, loading>>,
             generator'.stage \in {"idle", "pinned", "contents", "writing"},
             generator'.left \cup generator'.written \subseteq Path,
             generator'.stage \in {"contents", "writing"} => generator'.snap \in ValidSnapshots
      PROVE  SeedTyped'
  BY <1>1, <1>3 DEF SeedTyped, SeedTypeOK
<1>4. ASSUME generator' = IdleGenerator, UNCHANGED loading,
             manifest' \in StateSnapshot \cup {NoSeed, Damaged},
             \A f \in Path : files'[f] \in {files[f], Missing, Damaged}
      PROVE  SeedTyped'
  BY <1>1, <1>4 DEF SeedTyped, SeedTypeOK, IdleGenerator
<1>5. CASE StateMoves \/ DescribeChanges \/ UNCHANGED <<seedVars, projectionVars>>
  BY <1>3, <1>5 DEF StateMoves, DescribeChanges, seedDirectory, seedVars, SeedTyped, SeedTypeOK
<1>6. CASE PinReads
  <2>1. generator' = [IdleGenerator EXCEPT !.stage = "pinned", !.pins = described] /\ UNCHANGED <<files, manifest, loading>>
    BY <1>6 DEF PinReads, seedDirectory
  <2>2. generator'.stage = "pinned" /\ generator'.left = {} /\ generator'.written = {}
    BY <2>1 DEF IdleGenerator
  <2>3. QED
    BY <1>3, <2>1, <2>2
<1>7. CASE ReadSnapshot
  <2>1. /\ generator' = [generator EXCEPT !.stage = "contents", !.snap = workspace]
        /\ workspace \in ValidSnapshots /\ UNCHANGED <<files, manifest, loading>>
    BY <1>7 DEF ReadSnapshot, SnapshotAccepted, ValidSnapshots, seedDirectory, SeedTyped, SeedTypeOK
  <2>2. /\ generator'.stage = "contents" /\ generator'.snap = workspace
        /\ generator'.left = generator.left /\ generator'.written = generator.written
    BY <1>2, <2>1 DEF GeneratorShape
  <2>3. QED
    BY <1>3, <2>1, <2>2 DEF SeedTyped, SeedTypeOK
<1>8. CASE ReadRefused
  BY <1>4, <1>8 DEF ReadRefused, seedDirectory, SeedTyped, SeedTypeOK
<1>9. ASSUME NEW p \in Prd, ReadContent(p)
      PROVE  SeedTyped'
  <2>1. /\ generator.stage = "contents" /\ UNCHANGED <<files, manifest, loading>>
        /\ generator' = [generator EXCEPT !.fetched = generator'.fetched]
    BY <1>2, <1>9 DEF ReadContent, seedDirectory, GeneratorShape
  <2>2. /\ generator'.stage = "contents" /\ generator'.snap = generator.snap
        /\ generator'.left = generator.left /\ generator'.written = generator.written
    BY <1>2, <2>1 DEF GeneratorShape
  <2>3. QED
    BY <1>3, <2>1, <2>2 DEF SeedTyped, SeedTypeOK
<1>10. CASE BeginWrite
  <2>1. /\ generator' = [generator EXCEPT !.stage = "writing", !.left = EntriesOf(generator.snap)]
        /\ generator.stage = "contents" /\ UNCHANGED <<files, manifest, loading>>
    BY <1>10 DEF BeginWrite
  <2>2. /\ generator'.stage = "writing" /\ generator'.snap = generator.snap
        /\ generator'.left = EntriesOf(generator.snap) /\ generator'.written = generator.written
    BY <1>2, <2>1 DEF GeneratorShape
  <2>3. EntriesOf(generator.snap) \subseteq Path
    BY <2>1, EntriesArePaths DEF SeedInv
  <2>4. QED
    BY <1>3, <2>1, <2>2, <2>3 DEF SeedTyped, SeedTypeOK
<1>11. ASSUME NEW f \in Path, WriteFile(f)
       PROVE  SeedTyped'
  <2>1. /\ generator' = [generator EXCEPT !.left = @ \ {f}, !.written = @ \cup {f}]
        /\ generator.stage = "writing" /\ UNCHANGED <<manifest, loading>>
    BY <1>11 DEF WriteFile
  <2>2. /\ generator'.stage = "writing" /\ generator'.snap = generator.snap
        /\ generator'.left = generator.left \ {f} /\ generator'.written = generator.written \cup {f}
    BY <1>2, <2>1 DEF GeneratorShape
  <2>3. PICK r : RecordFits(r) /\ files' = [files EXCEPT ![f] = r]
    <3>1. PICK r \in Prepared : files' = [files EXCEPT ![f] = r]
      BY <1>11 DEF WriteFile
    <3>2. r = Record(r.path, generator.snap)
      BY <2>1, PreparedRecords
    <3>3. RecordFits(Record(r.path, generator.snap))
      BY <2>1, RecordsFit DEF SeedTyped
    <3>4. QED
      BY <3>1, <3>2, <3>3
  <2>4. \A x \in Path : files'[x] \in {files[x], r}
    BY <1>2, <2>3
  <2>5. \A x \in Path : files'[x] \notin {Missing, Damaged} => RecordFits(files'[x])
    BY <2>3, <2>4 DEF SeedTyped
  <2>6. QED
    BY <1>1, <2>1, <2>2, <2>5 DEF SeedTyped, SeedTypeOK
<1>12. CASE WriteManifest
  <2>1. generator' = IdleGenerator /\ manifest' = generator.snap /\ UNCHANGED <<files, loading>>
    BY <1>12 DEF WriteManifest
  <2>2. generator.snap \in StateSnapshot
    BY <1>12 DEF WriteManifest, SeedInv
  <2>3. QED
    BY <1>4, <2>1, <2>2
<1>13. CASE GeneratorCrashes
  <2>1. PICK f \in NextTargets : Interrupted(f)
    BY <1>13 DEF GeneratorCrashes
  <2>2. /\ \A x \in Path : files'[x] \in {files[x], Damaged}
        /\ manifest' \in {manifest, Damaged}
    BY <1>2, <2>1 DEF Interrupted
  <2>3. QED
    BY <1>4, <1>13, <2>2 DEF GeneratorCrashes, SeedTyped, SeedTypeOK
<1>14. CASE WriteFails
  <2>1. /\ \A x \in Path : files'[x] \in {files[x], Missing, Damaged}
        /\ manifest' \in {manifest, Damaged}
    BY <1>14 DEF WriteFails
  <2>2. QED
    BY <1>4, <1>14, <2>1 DEF WriteFails, SeedTyped, SeedTypeOK
<1>15. CASE LoadSeed
  <2>1. /\ manifest \in StateSnapshot /\ \A e \in EntriesOf(manifest) : files[e] \notin {Missing, Damaged}
        /\ loading' = {files[e] : e \in EntriesOf(manifest)}
        /\ UNCHANGED <<generator, files, manifest>>
    BY <1>15 DEF LoadSeed, Loadable, SeedTyped, SeedTypeOK, seedDirectory
  <2>2. \A r \in loading' : RecordFits(r)
    BY <2>1, EntriesArePaths DEF SeedTyped
  <2>3. QED
    BY <1>1, <2>1, <2>2 DEF SeedTyped, SeedTypeOK
<1>16. ASSUME NEW r \in loading, CaptureLoaded(r)
       PROVE  SeedTyped'
  <2>1. loading' \subseteq loading /\ UNCHANGED <<generator, files, manifest>>
    BY <1>16 DEF CaptureLoaded, seedDirectory
  <2>2. QED
    BY <1>1, <2>1 DEF SeedTyped, SeedTypeOK
<1>17. QED
  BY <1>5, <1>6, <1>7, <1>8, <1>9, <1>10, <1>11, <1>12, <1>13, <1>14, <1>15, <1>16
     DEF SeedNext, GeneratorNext

\* A projection is one of a snapshot; a reference and a verdict are the ones of a task.
ProjectionTyped ==
    /\ ProjectionTypeOK
    /\ references = [t \in Task |-> references[t]]
    /\ verdicts = [t \in Task |-> verdicts[t]]

LEMMA ContentTyped ==
    ASSUME ProjectionTyped, NEW p \in Prd, NEW revision \in Nat, CaptureContent(p, revision)
    PROVE  ProjectionTyped'
<1>1. content' \in [Prd -> Nat \cup {NoRow}]
  BY DEF CaptureContent, ProjectionTyped, ProjectionTypeOK
<1>2. QED
  BY <1>1 DEF CaptureContent, contextVars, ProjectionTyped, ProjectionTypeOK

LEMMA ReferenceTyped ==
    ASSUME ProjectionTyped, NEW t \in Task, NEW reference, reference.snap \in ValidSnapshots,
           CaptureReference(t, reference)
    PROVE  ProjectionTyped'
<1>1. /\ references' = [u \in Task |-> references'[u]]
      /\ \A u \in Task : references'[u] \in {references[u], reference}
  BY DEF CaptureReference, ProjectionTyped
<1>2. \A u \in Task : references'[u] # NoRow => references'[u].snap \in ValidSnapshots
  BY <1>1 DEF ProjectionTyped, ProjectionTypeOK
<1>3. QED
  BY <1>1, <1>2 DEF CaptureReference, contextVars, ProjectionTyped, ProjectionTypeOK

LEMMA ProjectionTypeStep ==
    ProjectionTyped /\ [ContextNext \/ DisplayNext]_projectionVars => ProjectionTyped'
<1> SUFFICES ASSUME ProjectionTyped, [ContextNext \/ DisplayNext]_projectionVars
             PROVE  ProjectionTyped'
  OBVIOUS
<1>1. ASSUME NEW s \in StateSnapshot, Publish(s)
      PROVE  ProjectionTyped'
  BY <1>1 DEF Publish, displayVars, ProjectionTyped, ProjectionTypeOK
<1>2. ASSUME NEW s \in ValidSnapshots, NEW t \in Task, CaptureReference(t, ReferenceTo(t, s))
      PROVE  ProjectionTyped'
  BY <1>2, ReferenceTyped DEF ReferenceTo
<1>3. ASSUME NEW s \in ValidSnapshots, NEW t \in Task, CaptureEligibility(t, s)
      PROVE  ProjectionTyped'
  <2>1. PICK state \in VerdictClass :
           verdicts' = [verdicts EXCEPT ![t] =
                           [on |-> s, state |-> state, bound |-> references[t].snap]]
    BY <1>3 DEF CaptureEligibility
  <2>2. PICK v : v.state \in VerdictClass /\ verdicts' = [verdicts EXCEPT ![t] = v]
    BY <2>1
  <2>3. /\ verdicts' = [u \in Task |-> verdicts'[u]]
        /\ \A u \in Task : verdicts'[u] \in {verdicts[u], v}
    BY <2>2 DEF ProjectionTyped
  <2>4. \A u \in Task : verdicts'[u] # NoRow => verdicts'[u].state \in VerdictClass
    BY <2>2, <2>3 DEF ProjectionTyped, ProjectionTypeOK
  <2>5. QED
    BY <1>3, <2>3, <2>4 DEF CaptureEligibility, contextVars, ProjectionTyped, ProjectionTypeOK
<1>4. ASSUME NEW row \in RunRow, CaptureRunRow(row)
      PROVE  ProjectionTyped'
  BY <1>4 DEF CaptureRunRow, contextVars, ProjectionTyped, ProjectionTypeOK
<1>5. ASSUME NEW b \in Binding, CaptureBinding(b)
      PROVE  ProjectionTyped'
  BY <1>5 DEF CaptureBinding, contextVars, ProjectionTyped, ProjectionTypeOK
<1>6. CASE UNCHANGED projectionVars
  BY <1>6 DEF projectionVars, displayVars, contextVars, ProjectionTyped, ProjectionTypeOK
<1>7. QED
  BY <1>1, <1>2, <1>3, <1>4, <1>5, <1>6 DEF ContextNext, DisplayNext

\* What a loader captures from a seed is typed as what the hub captures itself.
LEMMA LoadingTyped ==
    SeedTyped /\ ProjectionTyped /\ [SeedNext]_<<seedVars, projectionVars>> => ProjectionTyped'
<1> SUFFICES ASSUME SeedTyped, ProjectionTyped, [SeedNext]_<<seedVars, projectionVars>>
             PROVE  ProjectionTyped'
  OBVIOUS
<1>1. CASE UNCHANGED projectionVars
  BY <1>1, ProjectionTypeStep
<1>2. ASSUME NEW r \in loading, CaptureLoaded(r)
      PROVE  ProjectionTyped'
  <2>1. RecordFits(r)
    BY DEF SeedTyped
  <2>2. CASE r.path \in Prd /\ CaptureContent(r.path, r.rev)
    BY <2>1, <2>2, ContentTyped DEF RecordFits
  <2>3. CASE r.path \in Task /\ CaptureReference(r.path, [rev |-> r.rev, snap |-> r.snap])
    BY <2>1, <2>3, ReferenceTyped DEF RecordFits
  <2>4. QED
    BY <1>2, <2>2, <2>3 DEF CaptureLoaded
<1>3. QED
  BY <1>1, <1>2 DEF SeedNext, GeneratorNext, StateMoves, DescribeChanges, PinReads, ReadSnapshot,
                    ReadRefused, BeginWrite, ReadContent, WriteFile, WriteManifest, GeneratorCrashes,
                    WriteFails, LoadSeed

-----------------------------------------------------------------------------
(* The parts together                                                       *)

\* A hub that loads a seed while it serves: State, generators, loaders and every call of
\* the display stores, in any order.
ServingNext ==
    \/ SeedNext
    \/ (ContextNext \/ DisplayNext) /\ UNCHANGED seedVars

ServingSpec == SeedInit /\ ProjectionInit /\ [][ServingNext]_<<seedVars, projectionVars>>

\* A loaded reference names the revision of its snapshot, as a captured one does.
LEMMA LoadsKeepReferences ==
    SeedTyped /\ ReferencesNamed /\ [SeedNext]_<<seedVars, projectionVars>> => ReferencesNamed'
<1> SUFFICES ASSUME SeedTyped, ReferencesNamed, [SeedNext]_<<seedVars, projectionVars>>
             PROVE  ReferencesNamed'
  OBVIOUS
<1>1. CASE UNCHANGED displayVars
  BY <1>1 DEF displayVars, ReferencesNamed
<1>2. ASSUME NEW r \in loading, CaptureLoaded(r)
      PROVE  ReferencesNamed'
  <2>1. CASE CaptureContent(r.path, r.rev)
    BY <2>1 DEF CaptureContent, ReferencesNamed
  <2>2. CASE r.path \in Task /\ CaptureReference(r.path, [rev |-> r.rev, snap |-> r.snap])
    <3>1. r.snap \in ValidSnapshots /\ r.rev = r.snap.rev[PrdOf[r.path]]
      BY <2>2 DEF SeedTyped, RecordFits
    <3>2. [rev |-> r.rev, snap |-> r.snap] = ReferenceTo(r.path, r.snap)
      BY <3>1 DEF ReferenceTo
    <3>3. CaptureReference(r.path, ReferenceTo(r.path, r.snap))
      BY <2>2, <3>2
    <3>4. QED
      BY <2>2, <3>1, <3>3, NamedReference
  <2>3. QED
    BY <1>2, <2>1, <2>2 DEF CaptureLoaded
<1>3. QED
  BY <1>1, <1>2 DEF SeedNext, GeneratorNext, StateMoves, DescribeChanges, PinReads, ReadSnapshot,
                    ReadRefused, BeginWrite, ReadContent, WriteFile, WriteManifest, GeneratorCrashes,
                    WriteFails, LoadSeed, projectionVars, displayVars

RecordsKept == SeedInv /\ SeedTyped /\ ProjectionTyped /\ ReferencesNamed

LEMMA RecordsStart == SeedInit /\ ProjectionInit => RecordsKept
<1>1. SeedInit => SeedInv
  BY DEF SeedInit, SeedInv, IdleGenerator, GeneratorShape
<1>2. SeedInit => SeedTyped
  BY DEF SeedInit, SeedTyped, SeedTypeOK, IdleGenerator
<1>3. ProjectionInit => ProjectionTyped /\ ReferencesNamed
  BY DEF ProjectionInit, ProjectionTyped, ProjectionTypeOK, ReferencesNamed
<1>4. QED
  BY <1>1, <1>2, <1>3 DEF RecordsKept

LEMMA RecordsKeptStep ==
    RecordsKept /\ [ServingNext]_<<seedVars, projectionVars>> => RecordsKept'
<1>1. ASSUME RecordsKept, [SeedNext]_<<seedVars, projectionVars>>
      PROVE  RecordsKept'
  BY <1>1, SeedInductive, SeedTypeStep, LoadingTyped, LoadsKeepReferences DEF RecordsKept
<1>2. ASSUME RecordsKept, ContextNext \/ DisplayNext, UNCHANGED seedVars
      PROVE  RecordsKept'
  <2>1. SeedInv' /\ SeedTyped'
    BY <1>2 DEF RecordsKept, SeedInv, SeedTyped, SeedTypeOK, GeneratorShape, Whole, seedVars, seedDirectory
  <2>2. QED
    BY <1>2, <2>1, ProjectionTypeStep, ReferencesInductive DEF RecordsKept
<1>3. QED
  BY <1>1, <1>2 DEF ServingNext

LEMMA HistoryStep ==
    RecordsKept /\ [ServingNext]_<<seedVars, projectionVars>> =>
        [/\ projections \subseteq projections' /\ runRows \subseteq runRows'
         /\ bindings \subseteq bindings'
         /\ latest # NoRow => latest' \in projections'
         /\ latest # NoRow /\ latest' # latest =>
                SourceRevision(latest') >= SourceRevision(latest)]_projectionVars
<1> SUFFICES ASSUME RecordsKept, [ServingNext]_<<seedVars, projectionVars>>
             PROVE  [/\ projections \subseteq projections' /\ runRows \subseteq runRows'
                     /\ bindings \subseteq bindings'
                     /\ latest # NoRow => latest' \in projections'
                     /\ latest # NoRow /\ latest' # latest =>
                            SourceRevision(latest') >= SourceRevision(latest)]_projectionVars
  OBVIOUS
<1>1. latest \in projections \cup {NoRow}
  BY DEF RecordsKept, ProjectionTyped, ProjectionTypeOK
<1>2. CASE [ContextNext \/ DisplayNext]_projectionVars
  BY <1>1, <1>2, DisplayStep
<1>3. CASE SeedNext
  <2>1. UNCHANGED <<projections, latest, runRows, bindings>>
    BY <1>3 DEF SeedNext, GeneratorNext, StateMoves, DescribeChanges, PinReads, ReadSnapshot,
                ReadRefused, BeginWrite, ReadContent, WriteFile, WriteManifest, GeneratorCrashes,
                WriteFails, LoadSeed, CaptureLoaded, CaptureContent, CaptureReference,
                contextVars, projectionVars, displayVars
  <2>2. QED
    BY <1>1, <2>1
<1>4. QED
  BY <1>2, <1>3 DEF ServingNext

\* Where the hub serves while it loads, a verdict that may start a run is on the current
\* revision although a loader may replace the reference between the verdict and the
\* start, fresh seeds are whole, and the display history is kept (load_seed_dir,
\* eligibility_for_start).
THEOREM ServingStaysCurrent ==
    ServingSpec => [](StartsOnTheCurrentRevision /\ FreshSeedIsWhole) /\ DisplayHistoryKept
<1>1. RecordsKept => StartsOnTheCurrentRevision /\ FreshSeedIsWhole
  BY NamedIsCurrent, FreshIsWhole DEF RecordsKept
<1>2. QED
  BY <1>1, RecordsStart, RecordsKeptStep, HistoryStep, PTL DEF ServingSpec, DisplayHistoryKept

\* What each scene keeps, on stage and off.
PinsKept == PinsInv /\ ChecksGranted /\ SnapshotsClosed /\ PinsTypeOK
TransfersKept == TransferInv /\ TransferTyped

LEMMA DisplayScenes ==
    ASSUME [DisplaysNext]_sceneVars
    PROVE  /\ [PinsNext]_pinVars /\ [PlaygroundNext]_playVars /\ [TransfersNext]_transferVars
           /\ [ServingNext]_<<seedVars, projectionVars>>
BY DEF DisplaysNext, ServingNext, sceneVars, recordVars

LEMMA DisplaysStart ==
    DisplaysInit => PinsKept /\ PlaygroundTyped /\ RecordsKept /\ TransfersKept
<1> SUFFICES ASSUME DisplaysInit
             PROVE  PinsKept /\ PlaygroundTyped /\ RecordsKept /\ TransfersKept
  OBVIOUS
<1>1. PinsInit /\ PlaygroundInit /\ ProjectionInit /\ SeedInit /\ TransfersInit
  BY DEF DisplaysInit
<1>2. PinsKept
  BY <1>1, PinsAssumption
     DEF PinsInit, PinsKept, PinsInv, ContextsKept, ChecksGranted, SnapshotsClosed, PinsTypeOK
<1>3. PlaygroundTyped
  <2>1. IsFiniteSet({}) /\ Cardinality({}) = 0
    BY FS_EmptySet
  <2>2. \A r \in Reader : asked[r].of = "nothing"
    BY <1>1 DEF PlaygroundInit, NothingAsked, Ask
  <2>3. QED
    BY <1>1, <2>1, <2>2, ItemsAssumption DEF PlaygroundInit, PlaygroundTyped, PlaygroundTypeOK
<1>4. RecordsKept
  BY <1>1, RecordsStart
<1>5. TransfersKept
  BY <1>1, TransferStart DEF TransfersInit, TransfersKept, TransferTyped
<1>6. QED
  BY <1>2, <1>3, <1>4, <1>5

LEMMA DisplaysKeep ==
    DisplaysSpec => [](PinsKept /\ PlaygroundTyped /\ RecordsKept /\ TransfersKept)
<1>1. PinsKept /\ [DisplaysNext]_sceneVars => PinsKept'
  BY DisplayScenes, PinsInductive, ChecksGrantedStep, SnapshotsInductive, PinsTypeStep DEF PinsKept
<1>2. PlaygroundTyped /\ [DisplaysNext]_sceneVars => PlaygroundTyped'
  BY DisplayScenes, PlaygroundTypeStep
<1>3. RecordsKept /\ [DisplaysNext]_sceneVars => RecordsKept'
  BY DisplayScenes, RecordsKeptStep
<1>4. TransfersKept /\ [DisplaysNext]_sceneVars => TransfersKept'
  BY DisplayScenes, TransferStep, TransferTypeStep DEF TransfersKept
<1>5. QED
  BY <1>1, <1>2, <1>3, <1>4, DisplaysStart, PTL DEF DisplaysSpec

\* Every variable of the pins, the playground, the display records, the seed directory
\* and the transfers stays in its range: commands carry whole contexts and grants that
\* exist, stores stay within their limit with one record of an id, and what a loader
\* captures is of a valid snapshot (run_context_store.py, advanced_playground.py,
\* delivery_projection.py, projection_seed.py, conversation_transfer.py).
THEOREM DisplaysTypeCorrect == DisplaysSpec => []DisplaysTypeOK
<1>1. PinsKept /\ PlaygroundTyped /\ RecordsKept /\ TransfersKept => DisplaysTypeOK
  BY TransfersTyped
     DEF PinsKept, PlaygroundTyped, RecordsKept, SeedTyped, ProjectionTyped, TransfersKept, DisplaysTypeOK
<1>2. QED
  BY <1>1, DisplaysKeep, PTL

\* What each part promises by itself holds in the composition, scene by scene.
THEOREM DisplaysKeepPromises ==
    DisplaysSpec => /\ [](EffectsKeepTheirPins /\ ValidatorsAgree)
                    /\ [](StartsOnTheCurrentRevision /\ FreshSeedIsWhole)
                    /\ []TransfersAreWhole /\ DisplayHistoryKept
<1>1. PinsKept => EffectsKeepTheirPins /\ ValidatorsAgree
  BY PinsOfEffects, ClosedAgree, SelectionsAgree, PinsAgree DEF PinsKept, ValidatorsAgree
<1>2. RecordsKept => StartsOnTheCurrentRevision /\ FreshSeedIsWhole
  BY NamedIsCurrent, FreshIsWhole DEF RecordsKept
<1>3. TransfersKept => TransfersAreWhole
  BY WholeTransfers DEF TransfersKept
<1>4. RecordsKept /\ [DisplaysNext]_sceneVars => [ServingNext]_<<seedVars, projectionVars>>
  BY DisplayScenes
<1>5. QED
  BY <1>1, <1>2, <1>3, <1>4, DisplaysKeep, HistoryStep, PTL DEF DisplaysSpec, DisplayHistoryKept
=============================================================================
