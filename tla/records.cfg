\* The once-only stores: tool dispatch, the policy gate, the preference tabs, the
\* keyed stores, the directives and the workflow cursor, each in a scene of its own.
SPECIFICATION RecordsFairSpec
CONSTANTS
    Scenes = {"tools", "policy", "tabs", "once", "installs", "calls", "options", "directives", "cursor"}
    k1 = k1  k2 = k2
    r1 = r1  e1 = e1  e2 = e2
    g1 = g1  g2 = g2
    s1 = s1  s2 = s2
    p1 = p1  q1 = q1  q2 = q2
    v0 = 1  v1 = 2
    Candidate <- FourStepGraphs
    Key <- MCKey
    Subject <- MCSubject
    Grant <- MCGrant
    NoKey = NoKey
    Call = {c1, c2}
    Request <- MCRequest
    Effectful <- MCEffectful
    GrantOf <- MCGrantOf
    SubjectOf <- MCSubjectOf
    Ceiling = 2
    Cell <- MCCell
    Open <- MCOpen
    Value <- MCValue
    Default = 1
    NoValue = NoValue
    t1 = t1  t2 = t2
    Tab <- MCTab
    MaxEdits = 3
    Op <- MCOp
    Provider = {"hub", "serving"}
    Hub = "hub"
    Declared <- MCDeclared
    Refused <- MCRefused
    OnceKey = {k1, k2}
    Hash = {h1, h2}
    NoHash = NoHash
    Catalog <- MCCatalog
    Profile <- MCProfile
    CredentialRef = {"ref1", "ref2"}
    InstallRequest <- MCInstallRequest
    CallRequest <- MCCallRequest
    Setting = {"o1", "o2"}
    NoApproval = NoApproval
    NoSetting = NoSetting
    SettingsCatalog <- MCSettingsCatalog
    NoCell = NoCell
    Window = 2
    MaxEvents = 6
INVARIANTS
    RecordsTypeOK
    CallsAreCovered
    ReceiptsMeanCommits
    IncludedWasCarried
    PluginsActAsReviewed
    EffectiveValuesFit
    GraphIsFollowed
PROPERTIES
    EffectsOnce
    SavesSeeLatest
    StartedWorkEnds
CHECK_DEADLOCK FALSE
