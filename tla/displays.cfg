\* The chain of pins, the playground, the display records with their seed, and transfers.
SPECIFICATION BoundedSpec
CONSTANTS
    Scenes = {"pins", "playground", "context", "display", "seed", "transfers"}
    k1 = k1  k2 = k2  m1 = m1
    d1 = d1  d2 = d2  d3 = d3
    f1 = f1  f2 = f2
    Descriptor <- MCDescriptor
    VersionOf <- MCVersionOf
    ProviderOf <- MCProviderOf
    Gated = {d3}
    Source = {f1, f2}
    SourceProvider <- MCSourceProvider
    Document <- MCDocument
    Broken = Broken
    Absent = Absent
    Review = {k1, k2, m1}
    NameOf <- MCNameOf
    Skill = {k1, k2}
    Configured = {k1, m1}
    ProfileDoc <- MCProfileDoc
    WorkflowDoc <- MCWorkflowDoc
    PinnedRun = {run1}
    ApprovalGrant = {grant1}
    NoGrant = NoGrant
    Nothing = Nothing
    MaxEpoch = 1
    RouteSettings <- MCRouteSettings
    Submission <- MCSubmission
    Unstated = Unstated
    PresetDoc <- MCPresetDoc
    TemplateDoc <- MCTemplateDoc
    Registry <- MCRegistry
    NoRegistry = NoRegistry
    Reader = {reader1}
    NoRecord = NoRecord
    MaxItems = 1
    prd1 = prd1  prd2 = prd2
    x1 = x1  y1 = y1
    Prd <- MCPrd
    Task <- MCTask
    PrdOf <- MCPrdOf
    FeatureOf <- MCFeatureOf
    Needs <- MCNeeds
    StateSnapshot <- MCStateSnapshot
    ActingProject = "ours"
    RunRow <- MCRunRow
    Binding <- MCBinding
    NoRow = NoRow
    ReadOperation = {"snapshot", "content"}
    SnapshotRead = "snapshot"
    Manifest <- MCManifest
    Compatible = {"1.0", "1.1"}
    Missing = Missing
    Damaged = Damaged
    NoSeed = NoSeed
    Conv = {conv1, conv2}
    Original = {conv1}
    Copies = {conv2}
    Client = Client
    Writer = {Client}
    MaxTurns = 6
    MaxPosts = 3
    Post <- MCPost
INVARIANTS
    DisplaysTypeOK
    EffectsKeepTheirPins
    ValidatorsAgree
    StartsOnTheCurrentRevision
    FreshSeedIsWhole
    TransfersAreWhole
PROPERTIES
    DisplayHistoryKept
CHECK_DEADLOCK FALSE
