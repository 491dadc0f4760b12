------------------------- MODULE AdvancedPlayground -------------------------
(***************************************************************************)
(* The Advanced playground of one actor: the reviewed routes a process     *)
(* discovers in its settings and the control selections they admit         *)
(* (advanced_routes.py), the contract's own validation of the branch that  *)
(* records a selection (contracts.py), and the stores of digest-pinned     *)
(* presets, instruction templates and ratings (advanced_playground.py)     *)
(* behind their endpoints (api.py).  The stores are in memory; each call   *)
(* of a store is atomic under its lock, a resolve makes two reads.         *)
(***************************************************************************)
EXTENDS FiniteSets, Naturals, Sequences
LOCAL INSTANCE Functions

CONSTANTS RouteSettings,  \* route configurations the operator may write: sequences of
                          \* [id, digest, profile, controls], controls a sequence of
                          \* [name, allowed, default, owned]
          Submission,     \* what a browser may submit: sequences of [name, value, origin]
          Unstated,       \* no origin, or no digest, is given
          PresetDoc,      \* presets: [id, route, others, repair, drifted, intact]
          TemplateDoc,    \* templates: [id, digest, names, intact]
          Registry,       \* what a digest registry may say: sets of [id, digest] by kind
          NoRegistry,
          Reader,         \* concurrent requests that resolve a preset or a template
          NoRecord,
          MaxItems        \* MAX_ITEMS_PER_ACTOR

\* The preset schema demands both digests of the route, and what else a preset refers
\* to is a tool or a response schema (_advanced_preset_drift).
ASSUME PresetAssumption ==
    \A p \in PresetDoc :
        /\ p.route.digest # Unstated /\ p.route.profile # Unstated
        /\ \A ref \in p.others : ref.kind \in {"tool", "response_schema"}

ASSUME ItemsAssumption == MaxItems \in Nat

VARIABLES settings,   \* the settings the process was started with
          registry,   \* what the server's own digest registry says now
          presets, templates, ratings,
          asked,      \* the request of each reader between its two reads
          answer      \* the last answer of each reader

playVars == <<settings, registry, presets, templates, ratings, asked, answer>>

Ask(of, item, pin) == [of |-> of, item |-> item, pin |-> pin]
NothingAsked == Ask("nothing", NoRecord, NoRecord)
Answered(request, how, item) ==
    [of |-> request.of, status |-> how, item |-> item, pin |-> request.pin]
NotAnswered == Answered(NothingAsked, "none", NoRecord)

----------------------------------------------------------------------------
\* No two entries have one name.
NamedOnce(s) == \A i, j \in DOMAIN s : s[i].name = s[j].name => i = j

\* A control descriptor: some allowed value, and a default among them.
ControlValid(c) == c.allowed # {} /\ c.default \in c.allowed

ControlsValid(controls) ==
    /\ controls # <<>>
    /\ \A i \in DOMAIN controls : ControlValid(controls[i])
    /\ NamedOnce(controls)

\* discover_advanced_routes: one bad entry refuses the whole discovery.
DiscoveryAccepts(s) ==
    /\ \A i \in DOMAIN s : ControlsValid(s[i].controls)
    /\ \A i, j \in DOMAIN s : s[i].id = s[j].id => i = j

Routes == IF DiscoveryAccepts(settings) THEN {settings[i] : i \in DOMAIN settings} ELSE {}

\* The declared control of a name; there is at most one.
Declares(e, name) == \E c \in Range(e.controls) : c.name = name
ControlOf(e, name) == CHOOSE c \in Range(e.controls) : c.name = name

\* check_value, and the read-only rule of a policy-owned control.
Admits(c, x) ==
    /\ x.value \in c.allowed
    /\ c.owned => x.origin \in {Unstated, "policy_override"} /\ x.value = c.default

SelectionAccepts(e, submitted) ==
    /\ NamedOnce(submitted)
    /\ \A x \in Range(submitted) : Declares(e, x.name) /\ Admits(ControlOf(e, x.name), x)

\* Mutant: a control owned by a policy is recorded with the origin of the others.
MutantOriginOf(c, x) == IF x.origin = Unstated THEN "declared" ELSE x.origin

\* The origin a selection records.
OriginOf(c, x) == IF c.owned THEN "policy_override"
                  ELSE IF x.origin = Unstated THEN "declared" ELSE x.origin

SelectedControls(e, submitted) ==
    {[name |-> x.name, value |-> x.value, origin |-> OriginOf(ControlOf(e, x.name), x)] :
        x \in Range(submitted)}

\* validate_advanced_branch, over the same capability: the contract's own wording.
BranchAdmits(c, x) ==
    /\ x.value \in c.allowed
    /\ c.owned => x.origin = "policy_override" /\ x.value = c.default

BranchAccepts(e, controls) ==
    \A x \in controls : Declares(e, x.name) /\ BranchAdmits(ControlOf(e, x.name), x)

\* _refuse_drift: a pin that is given must be the route's.
RefusesDrift(e, pin) ==
    \/ pin.digest # Unstated /\ pin.digest # e.digest
    \/ pin.profile # Unstated /\ pin.profile # e.profile

\* route_capability_repair: the pins a reader is told have drifted.
RouteRepair(routes, pin) ==
    {k \in {"digest", "profile"} : ~\E e \in routes : e.id = pin.id /\ e[k] = pin[k]}

----------------------------------------------------------------------------
\* The references of a preset, and the ones a registry contradicts or does not know.
Refs(p) ==
    {[kind |-> "route", id |-> p.route.id, digest |-> p.route.digest],
     [kind |-> "profile", id |-> p.route.id, digest |-> p.route.profile]} \cup p.others

Knows(r, ref) ==
    ref.kind \in DOMAIN r /\ [id |-> ref.id, digest |-> ref.digest] \in r[ref.kind]

PresetDrift(p, r) == {ref \in Refs(p) : ~Knows(r, ref)}

\* validate_advanced_preset: the declared repair block is the drift, no more, no less.
PresetValid(p, r) ==
    /\ p.intact
    /\ IF PresetDrift(p, r) = {} THEN p.repair = "ready"
       ELSE p.repair = "repair_required" /\ p.drifted = PresetDrift(p, r)

\* Mutant: the limit lets one more in.
MutantStoreAdmits(S, doc) == (\E x \in S : x.id = doc.id) \/ Cardinality(S) <= MaxItems

StoreAdmits(S, doc) == (\E x \in S : x.id = doc.id) \/ Cardinality(S) < MaxItems
Kept(S, doc) == {x \in S : x.id # doc.id} \cup {doc}

\* save: valid against the digests the browser sends, and ready.
SavePreset(p, claim) ==
    /\ PresetValid(p, claim) /\ p.repair = "ready"
    /\ StoreAdmits(presets, p)
    /\ presets' = Kept(presets, p)
    /\ UNCHANGED <<settings, registry, templates, ratings, asked, answer>>

DeletePreset(p) ==
    /\ p \in presets /\ presets' = presets \ {p}
    /\ UNCHANGED <<settings, registry, templates, ratings, asked, answer>>

\* resolve: the record first, the server's registry second.
ReadPreset(r, p) ==
    /\ asked[r] = NothingAsked /\ p \in presets
    /\ asked' = [asked EXCEPT ![r] = Ask("preset", p, NoRecord)]
    /\ UNCHANGED <<settings, registry, presets, templates, ratings, answer>>

\* What resolve says: drift of a kind the registry carries needs repair, drift of
\* another kind cannot be verified.
PresetStatus(p, r) ==
    IF r = NoRegistry THEN "unverifiable"
    ELSE IF \E ref \in PresetDrift(p, r) : ref.kind \in DOMAIN r THEN "repair_required"
    ELSE IF PresetDrift(p, r) # {} THEN "unverifiable" ELSE "ready"

ResolvePreset(r) ==
    LET p == asked[r].item
    IN  /\ asked[r].of = "preset"
        /\ answer' = [answer EXCEPT ![r] = Answered(asked[r], PresetStatus(p, registry), p)]
        /\ asked' = [asked EXCEPT ![r] = NothingAsked]
        /\ UNCHANGED <<settings, registry, presets, templates, ratings>>

PresetStep ==
    \/ \E p \in PresetDoc : DeletePreset(p) \/ \E claim \in Registry : SavePreset(p, claim)
    \/ \E r \in Reader : ResolvePreset(r) \/ \E p \in presets : ReadPreset(r, p)

----------------------------------------------------------------------------
TemplateValid(d) == d.intact /\ \A i, j \in DOMAIN d.names : d.names[i] = d.names[j] => i = j

SaveTemplate(d) ==
    /\ TemplateValid(d) /\ StoreAdmits(templates, d)
    /\ templates' = Kept(templates, d)
    /\ UNCHANGED <<settings, registry, presets, ratings, asked, answer>>

DeleteTemplate(d) ==
    /\ d \in templates /\ templates' = templates \ {d}
    /\ UNCHANGED <<settings, registry, presets, ratings, asked, answer>>

\* live_digests: what is stored under an id now.
CurrentDigests(id) == {d.digest : d \in {t \in templates : t.id = id}}

\* resolve: the stored digests under the lock, and a pin that is not among them ...
CompareDigests(r, d) ==
    /\ asked[r] = NothingAsked
    /\ IF d.digest \in CurrentDigests(d.id)
       THEN /\ asked' = [asked EXCEPT ![r] = Ask("template", d.id, d.digest)]
            /\ UNCHANGED answer
       ELSE /\ answer' = [answer EXCEPT ![r] =
                  Answered(Ask("template", d.id, d.digest), "repair_required", NoRecord)]
            /\ UNCHANGED asked
    /\ UNCHANGED <<settings, registry, presets, templates, ratings>>

\* ... and then the record of that id, under the lock again.
ReadTemplate(r) ==
    LET found == {d \in templates : d.id = asked[r].item}
    IN  /\ asked[r].of = "template"
        /\ answer' = [answer EXCEPT ![r] =
                         IF found = {} THEN Answered(asked[r], "not_found", NoRecord)
                         ELSE Answered(asked[r], "ready", CHOOSE d \in found : TRUE)]
        /\ asked' = [asked EXCEPT ![r] = NothingAsked]
        /\ UNCHANGED <<settings, registry, presets, templates, ratings>>

TemplateStep ==
    \/ \E d \in TemplateDoc : SaveTemplate(d) \/ DeleteTemplate(d)
    \/ \E r \in Reader : ReadTemplate(r) \/ \E d \in TemplateDoc : CompareDigests(r, d)

\* record: the criterion and the score are checked before, the bound under the lock.
RecordRating ==
    /\ ratings < MaxItems /\ ratings' = ratings + 1
    /\ UNCHANGED <<settings, registry, presets, templates, asked, answer>>

----------------------------------------------------------------------------
RegistryMoves ==
    /\ \E r \in Registry \cup {NoRegistry} : registry' = r
    /\ UNCHANGED <<settings, presets, templates, ratings, asked, answer>>

\* Another process, with other settings and empty stores.
PlaygroundRestarts ==
    /\ \E s \in RouteSettings : settings' = s
    /\ presets' = {} /\ templates' = {} /\ ratings' = 0
    /\ asked' = [r \in Reader |-> NothingAsked]
    /\ answer' = [r \in Reader |-> NotAnswered]
    /\ UNCHANGED registry

PlaygroundNext ==
    PresetStep \/ TemplateStep \/ RecordRating \/ RegistryMoves \/ PlaygroundRestarts

PlaygroundInit ==
    /\ settings = <<>> /\ registry = NoRegistry
    /\ presets = {} /\ templates = {} /\ ratings = 0
    /\ asked = [r \in Reader |-> NothingAsked]
    /\ answer = [r \in Reader |-> NotAnswered]

PlaygroundSpec == PlaygroundInit /\ [][PlaygroundNext]_playVars

----------------------------------------------------------------------------
PlaygroundTypeOK ==
    /\ settings \in RouteSettings \cup {<<>>} /\ registry \in Registry \cup {NoRegistry}
    /\ presets \subseteq PresetDoc /\ Cardinality(presets) <= MaxItems
    /\ templates \subseteq TemplateDoc /\ Cardinality(templates) <= MaxItems
    /\ \A a, b \in presets : a.id = b.id => a = b
    /\ \A a, b \in templates : a.id = b.id => a = b
    /\ ratings \in 0 .. MaxItems
    /\ \A r \in Reader : asked[r].of \in {"nothing", "preset", "template"}

\* The digests a registry that follows the discovered routes carries.
RegistryOf(routes) ==
    [k \in {"route", "profile"} |->
        {[id |-> e.id, digest |-> IF k = "route" THEN e.digest ELSE e.profile] : e \in routes}]

\* A selection the run endpoint accepts makes a branch the contract accepts, and a branch
\* that states the origin of every control, each once, is one the endpoint would accept.
SelectionsMakeBranches ==
    \A e \in Routes : \A s \in Submission :
        /\ SelectionAccepts(e, s) => BranchAccepts(e, SelectedControls(e, s))
        /\ NamedOnce(s) /\ BranchAccepts(e, Range(s)) => SelectionAccepts(e, s)

\* The three readings of a route pin agree: a preset's references are ready in a registry
\* that follows the discovered routes exactly when route_capability_repair has nothing to
\* repair, and exactly when the selection of that route is not refused for drift.
PinReadingsAgree ==
    \A p \in PresetDoc :
        LET own == {ref \in PresetDrift(p, RegistryOf(Routes)) : ref \notin p.others}
        IN  /\ own = {} <=> RouteRepair(Routes, p.route) = {}
            /\ own = {} <=> \E e \in Routes : e.id = p.route.id /\ ~RefusesDrift(e, p.route)

\* AdvancedTemplateStore.resolve (advanced_playground.py:440-458): "Never a silent
\* substitution": the template answered as ready is the one that was pinned.
ReadyTemplateIsThePinned ==
    \A r \in Reader :
        answer[r].of = "template" /\ answer[r].status = "ready" => answer[r].item.digest = answer[r].pin
============================================================================
