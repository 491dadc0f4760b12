------------------------------ MODULE Plugins ------------------------------
(***************************************************************************)
(* Reviewed plugins: the catalog and the enable-only profile the operator  *)
(* deploys, validated when they are loaded; the isolated install           *)
(* (src/workbench/plugin_host.py); the preview and the checks of a tool    *)
(* call against the documents its session pinned                           *)
(* (src/workbench/tool_dispatch.py, src/workbench/contracts.py); and the   *)
(* preference fields of the tools (src/workbench/plugin_preference_store.  *)
(* py).  A digest is compared, never computed: `intact` says that the one  *)
(* a document carries is the digest of its content, and a payload stands   *)
(* for its own hash.                                                       *)
(***************************************************************************)
EXTENDS Naturals, FiniteSets

CONSTANTS Catalog,        \* catalog documents the operator may deploy
          Profile,        \* capability profiles the operator may deploy
          CredentialRef,  \* credential references
          InstallRequest, \* requests that reach the install path
          CallRequest,    \* requests that reach a chat tool session
          Setting,        \* values of preference fields
          NoApproval,     \* a request without an approval
          NoSetting       \* no stored value

\* A digest stands for the content it was computed from; an option is a value.
ASSUME PluginsAssumption ==
    /\ NoSetting \notin Setting
    /\ \A c \in Catalog : \A e \in c.plugins : \A t \in e.tools : NoSetting \notin t.options
    /\ \A c, d \in Catalog : \A e \in c.plugins, f \in d.plugins :
          e.intact /\ f.intact /\ e.digest = f.digest => e = f

VARIABLES deployed,       \* the validated documents in force
          installs,       \* the stored receipt of each install request
          installing,     \* what the host runner that holds the store was given
          session,        \* the documents the chat session pinned (at most one pair)
          shown,          \* the payloads previews asked an approval for
          dispatched,     \* the call that last passed every check, with its tool
          stored          \* preference values by scope, plugin and tool

installVars == <<installs, installing>>
callVars == <<session, shown, dispatched>>
pluginVars == <<deployed, installVars, callVars, stored>>

----------------------------------------------------------------------------
\* Documents.  A tool takes some inputs, has an effect or is a read, declares its
\* gates, and one preference field: its options and its default.
ToolValid(tool) ==
    /\ tool.effectful => tool.preview /\ tool.approval
    /\ ~tool.effectful => ~tool.approval
    /\ tool.default \in tool.options

EntryValid(entry) ==
    /\ entry.intact
    /\ \A t, u \in entry.tools : t.id = u.id => t = u
    /\ \A t \in entry.tools : ToolValid(t)

CatalogValid(catalog) ==
    /\ catalog.intact
    /\ \A e, f \in catalog.plugins : e.id = f.id => e = f
    /\ \A e \in catalog.plugins : EntryValid(e)

\* A plugin appears once, and the tools enabled in all are within the limit.
ProfileValid(profile) ==
    /\ profile.intact
    /\ \A e, f \in profile.plugins : e.id = f.id => e = f
    /\ Cardinality(UNION {{p.id} \X p.tools : p \in profile.plugins}) <= profile.limit

\* What PluginDiscovery accepts.
Documents == {d \in [catalog : Catalog, profile : Profile] :
                 CatalogValid(d.catalog) /\ ProfileValid(d.profile)}

\* Mutant: the id finds the entry, whatever digest it carries now.
MutantAtDigest(entry, request) == entry.id = request.id

\* The exact reviewed entry: the id and the pinned digest.
AtDigest(entry, request) == entry.id = request.id /\ entry.digest = request.digest

\* resolve: the entry, if it is there at its digest and enabled at that digest.
Resolved(d, request) ==
    {e \in d.catalog.plugins :
        /\ AtDigest(e, request)
        /\ \E p \in d.profile.plugins : AtDigest(p, request)}

ToolsOf(entries) == UNION {e.tools : e \in entries}

ResolvedTool(d, request) ==
    {t \in ToolsOf(Resolved(d, request)) :
        /\ t.id = request.tool
        /\ \E p \in d.profile.plugins : AtDigest(p, request) /\ t.id \in p.tools}

\* The tools a catalog declares, by plugin id and tool id, and its tool at a key.
ToolKeysOf(catalog) == UNION {{e.id} \X {t.id : t \in e.tools} : e \in catalog.plugins}
ToolAt(catalog, key) == {t \in ToolsOf({e \in catalog.plugins : e.id = key[1]}) : t.id = key[2]}

\* published: of each enabled plugin the catalog carries at that digest, the enabled tools.
Published(d) ==
    {[id |-> p.id, digest |-> p.digest,
      tools |-> {t.id : t \in ToolsOf({e \in d.catalog.plugins : AtDigest(e, p)})} \cap p.tools] :
        p \in {q \in d.profile.plugins : \E e \in d.catalog.plugins : AtDigest(e, q)}}

----------------------------------------------------------------------------
\* Requests.
Lifecycle == {"install", "upgrade", "downgrade"}

\* The subject an approval binds: a tool call with its inputs, or the plugin at its
\* digest with the version a lifecycle request selects.
Payload(r) ==
    IF r.kind = "tool_call"
    THEN [id |-> r.id, digest |-> r.digest, tool |-> r.tool, inputs |-> r.inputs]
    ELSE [kind |-> r.kind, id |-> r.id, digest |-> r.digest, target |-> r.target]

\* A request is a record, and an approval is not the absence of one.
ASSUME RequestAssumption ==
    \A r \in InstallRequest \cup CallRequest :
        /\ r = [kind |-> r.kind, id |-> r.id, digest |-> r.digest, target |-> r.target,
               tool |-> r.tool, inputs |-> r.inputs, preview |-> r.preview,
               approval |-> r.approval, intact |-> r.intact]
        /\ [action |-> r.kind, payload |-> Payload(r)] # NoApproval

\* An attached approval names the action of the kind and binds this very payload.
ApprovalBinds(r) == r.approval.action = r.kind /\ r.approval.payload = Payload(r)

RequestValid(r) ==
    /\ r.intact
    /\ r.kind \in Lifecycle => r.approval # NoApproval /\ r.preview
    /\ r.approval # NoApproval => ApprovalBinds(r)

\* The checks of a tool call against the catalog: its inputs fit the tool, an effect
\* carries an approval (a preview need not), a read carries none.
CallFits(tool, r, demanded) ==
    /\ r.inputs \in tool.inputs
    /\ tool.effectful /\ demanded => r.approval # NoApproval
    /\ ~tool.effectful => r.approval = NoApproval

----------------------------------------------------------------------------
Scope == {"actor", "project"}
ToolKey == UNION {ToolKeysOf(c) : c \in Catalog}

PluginsTypeOK ==
    /\ deployed \in Documents
    /\ installs \in [InstallRequest -> {"none", "accepted", "reconcile"}]
    /\ \A i \in installing : i.req \in InstallRequest /\ i.by \in Documents
    /\ session \subseteq Documents
    /\ \A c \in dispatched : c.req \in CallRequest
    /\ stored \in [Scope -> [ToolKey -> Setting \cup {NoSetting}]]

PluginsInit ==
    /\ deployed \in Documents
    /\ installs = [r \in InstallRequest |-> "none"] /\ installing = {}
    /\ session = {} /\ shown = {} /\ dispatched = {}
    /\ stored = [s \in Scope |-> [k \in ToolKey |-> NoSetting]]

\* The service is built again over other files; a document that does not validate
\* stops it.  What is stored stays.
Redeploy ==
    /\ deployed' \in Documents
    /\ UNCHANGED <<installVars, callVars, stored>>

----------------------------------------------------------------------------
\* A prior receipt is answered: an accepted one as a duplicate, a reconcile as it is.
InstallIsNew(r) == installs[r] = "none"

\* The broker: every reference the entry declares is owned by its host, and only
\* those are handed over.
Handles(entry, owned) == {h \in owned : h \in entry.refs}

\* _install_locked: the entry and its own references are resolved before the host
\* runner is called.
InstallRuns(r) ==
    /\ installing = {} /\ RequestValid(r) /\ r.kind = "install" /\ InstallIsNew(r)
    /\ \E entry \in Resolved(deployed, r), owned \in SUBSET CredentialRef :
          /\ entry.refs \subseteq owned
          /\ installing' = {[req |-> r, entry |-> entry, handles |-> Handles(entry, owned),
                             by |-> deployed]}
    /\ UNCHANGED <<deployed, installs, callVars, stored>>

InstallEnds(i, receipt) ==
    /\ installing = {i} /\ installing' = {}
    /\ installs' = [installs EXCEPT ![i.req] = receipt]
    /\ UNCHANGED <<deployed, callVars, stored>>

\* The host fails, or raises: nothing is stored.
InstallFails(i) ==
    /\ installing = {i} /\ installing' = {}
    /\ UNCHANGED <<deployed, installs, callVars, stored>>

InstallNext ==
    \/ Redeploy
    \/ \E r \in InstallRequest : InstallRuns(r)
    \/ \E i \in installing :
          InstallFails(i) \/ \E receipt \in {"accepted", "reconcile"} : InstallEnds(i, receipt)

----------------------------------------------------------------------------
\* A chat session pins the documents it was opened with.
OpenSession ==
    /\ session' = {deployed}
    /\ dispatched' = {}
    /\ UNCHANGED <<deployed, installVars, shown, stored>>

\* _resolve_for: the tools of the session's pin a request may go to.
Admitted(r, demanded) ==
    IF RequestValid(r) /\ r.kind = "tool_call"
    THEN {t \in UNION {ResolvedTool(d, r) : d \in session} : CallFits(t, r, demanded)}
    ELSE {}

\* preview: an effect's payload is shown with the approval it would need.
PreviewCall(r) ==
    /\ \E t \in Admitted(r, FALSE) : t.effectful
    /\ shown' = shown \cup {Payload(r)}
    /\ UNCHANGED <<deployed, installVars, session, dispatched, stored>>

\* dispatch up to its approval: operators approve the payloads previews showed.
DispatchCall(r) ==
    /\ r.approval # NoApproval => r.approval.payload \in shown
    /\ \E t \in Admitted(r, TRUE) : dispatched' = {[req |-> r, tool |-> t]}
    /\ UNCHANGED <<deployed, installVars, session, shown, stored>>

CallNext ==
    \/ Redeploy \/ OpenSession
    \/ \E r \in CallRequest : PreviewCall(r) \/ DispatchCall(r)

----------------------------------------------------------------------------
\* set_value: the field is declared now and the value is one of its options.
SetOption(scope, key, v) ==
    /\ \E t \in ToolAt(deployed.catalog, key) : v \in t.options
    /\ stored' = [stored EXCEPT ![scope][key] = v]
    /\ UNCHANGED <<deployed, installVars, callVars>>

\* Mutant: a stored value is served although the field no longer declares it.
MutantUsable(tool, v) == v # NoSetting

\* A candidate counts where it is there and the field declares it now.
Usable(tool, v) == v # NoSetting /\ v \in tool.options

\* resolve_plugin_tool_preferences: this turn's value, the actor's, the project's, and
\* the default where none of them counts.
EffectiveOption(tool, turn, key) ==
    LET candidate == <<turn, stored["actor"][key], stored["project"][key]>>
        usable == {i \in 1..3 : Usable(tool, candidate[i])}
    IN IF usable = {} THEN tool.default
       ELSE candidate[CHOOSE i \in usable : \A j \in usable : i <= j]

OptionNext ==
    \/ Redeploy
    \/ \E scope \in Scope, key \in ToolKeysOf(deployed.catalog), v \in Setting :
          SetOption(scope, key, v)

PluginsNext == InstallNext \/ CallNext \/ OptionNext

PluginsSpec == PluginsInit /\ [][PluginsNext]_pluginVars

----------------------------------------------------------------------------
\* What the host runner is given is the reviewed entry the approved request named at
\* its digest, enabled when it was resolved, with that entry's own references and no
\* other, though catalogs change between approval, install and retry.
InstallsAsApproved ==
    \A i \in installing :
        /\ i.entry \in i.by.catalog.plugins
        /\ i.entry.id = i.req.id /\ i.entry.digest = i.req.digest
        /\ \E p \in i.by.profile.plugins : p.id = i.entry.id /\ p.digest = i.entry.digest
        /\ i.handles = i.entry.refs
        /\ i.req.preview /\ i.req.approval.payload = Payload(i.req)

\* An effect that passed every check has its tool, digest and inputs in a payload a
\* preview has shown, whatever was deployed or pinned since; and a payload a preview
\* shows is what makes the same call pass (tool_dispatch.py:334-343, 550-557).
CallsAsPreviewed ==
    /\ \A c \in dispatched :
          /\ c.req.inputs \in c.tool.inputs
          /\ c.tool.effectful =>
                [id |-> c.req.id, digest |-> c.req.digest, tool |-> c.tool.id,
                 inputs |-> c.req.inputs] \in shown
    /\ \A r \in CallRequest : \A t \in Admitted(r, FALSE) :
          t.effectful =>
            t \in Admitted([r EXCEPT !.approval = [action |-> r.kind, payload |-> Payload(r)]], TRUE)

\* The browser's list of plugins and tools is what resolves, and all that resolves.
ListedMeansResolvable ==
    \A e \in deployed.catalog.plugins, t \in ToolsOf(deployed.catalog.plugins) :
        (\E p \in Published(deployed) : p.id = e.id /\ t.id \in p.tools)
        <=> ResolvedTool(deployed, [id |-> e.id, digest |-> e.digest, tool |-> t.id]) # {}

\* Plugins act as they were reviewed.
PluginsActAsReviewed == InstallsAsApproved /\ CallsAsPreviewed /\ ListedMeansResolvable

\* What a turn is served for a preference field is an option the tool in force
\* declares, however old the stored values are, and no candidate of a higher scope that
\* the tool declares is passed over.
OptionsFit ==
    \A key \in ToolKeysOf(deployed.catalog), turn \in Setting \cup {NoSetting} :
        \A tool \in ToolAt(deployed.catalog, key) :
            LET served == EffectiveOption(tool, turn, key) IN
            /\ served \in tool.options
            /\ turn \in tool.options => served = turn
            /\ stored["actor"][key] \in tool.options => served \in {turn, stored["actor"][key]}
            /\ stored["project"][key] \in tool.options =>
                  served \in {turn, stored["actor"][key], stored["project"][key]}

\* The install store is a store of effects that happen once.
InstallEffects == INSTANCE OnceEffect WITH
    Effect <- InstallRequest, running <- {i.req : i \in installing},
    settled <- {r \in InstallRequest : installs[r] # "none"}
============================================================================
