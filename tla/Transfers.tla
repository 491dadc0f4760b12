------------------------------ MODULE Transfers ------------------------------
(***************************************************************************)
(* Export and import of a conversation (src/workbench/conversation_        *)
(* transfer.py) over the conversation store.  An export reads the history  *)
(* in lineage order and leaves out the content of purged and metadata-only *)
(* turns; an import plans the whole artifact, creates a conversation, and  *)
(* replays turn by turn through the append gate, one store call at a time, *)
(* while the browser goes on with every conversation it can list.          *)
(***************************************************************************)
EXTENDS Conversations, TLC

CONSTANTS Original,         \* the conversations that are exported
          Copies,         \* names for the conversations imports create
          Post,           \* what the browser posts: a status, and whether content is kept
          MaxPosts        \* bound on the turns the browser posts

ASSUME TransfersAssumption ==
    /\ Original \cup Copies \subseteq Conv /\ Original \cap Copies = {}
    /\ Post \subseteq [status : TurnStatus, bare : BOOLEAN]
    /\ MaxPosts \in Nat

VARIABLES bare,           \* the turns that never held content: metadata-only, or imported so
          artifact,       \* the last export, as its owner holds it (maybe edited)
          edited,         \* whether it was edited since
          importing,      \* the import in progress (at most one)
          imported,       \* the imports that were answered with success
          refused,        \* the conversations whose import was refused
          posts           \* the turns the browser posted

transferVars == <<convVars, bare, artifact, edited, importing, imported, refused, posts>>
importVars == <<importing, imported, refused>>

TransfersTypeOK ==
    /\ ConversationsTypeOK
    /\ bare \subseteq DOMAIN turns
    /\ edited \in BOOLEAN
    /\ Cardinality(importing) <= 1
    /\ \A i \in importing \cup imported : i.into \in Copies /\ i.next \in 1 .. Len(i.turns) + 1
    /\ refused \subseteq Copies

TransfersInit ==
    /\ ConversationsInit
    /\ bare = {} /\ artifact = << >> /\ edited = FALSE
    /\ importing = {} /\ imported = {} /\ refused = {} /\ posts = 0

HasContent(t) == ~turns[t].purged /\ t \notin bare

----------------------------------------------------------------------------
\* The parent of the k-th turn of an order is its m-th, or the null parent before them all.
ParentAt(order, k, m) ==
    LET p == turns[order[k]].parent IN
    IF m = 0 THEN p = Root ELSE p # Root /\ order[m] = p

\* _lineage_order: each turn of one tree once, behind its parent with nothing between
\* them but what descends from that parent, siblings by ascending index.  There is one
\* such order of a readable history, and none of another one: then the read fails.
LineageOrders(c) ==
    {order \in [1 .. Cardinality(OwnTurns(c)) -> OwnTurns(c)] :
        \A k \in DOMAIN order : \E m \in 0 .. k - 1 :
            /\ ParentAt(order, k, m)
            /\ \A j \in m + 1 .. k - 1 : \E l \in m .. j - 1 : ParentAt(order, j, l)
            /\ \A j \in 1 .. k - 1 :
                  /\ order[j] # order[k]
                  /\ ParentAt(order, j, m) => turns[order[j]].idx < turns[order[k]].idx}

\* _export_turn: the content of a purged or metadata-only turn is left out.
Exported(t) ==
    [id |-> t, parent |-> turns[t].parent, idx |-> turns[t].idx, role |-> turns[t].role,
     status |-> turns[t].status, omitted |-> ~HasContent(t), content |-> HasContent(t)]

Export(c) ==
    /\ conv[c] \notin {"absent", "erased"}
    /\ \E order \in LineageOrders(c) : artifact' = [k \in DOMAIN order |-> Exported(order[k])]
    /\ edited' = FALSE
    /\ UNCHANGED <<convVars, bare, importVars, posts>>

\* The artifact is a file in its owner's hands: content put where it was left out, a
\* turn cut out, two siblings put at one index.
EditArtifact ==
    /\ edited' = TRUE
    /\ \E k \in DOMAIN artifact :
          \/ artifact[k].omitted /\ artifact' = [artifact EXCEPT ![k].content = TRUE]
          \/ artifact' = SubSeq(artifact, 1, k - 1) \o SubSeq(artifact, k + 1, Len(artifact))
          \/ artifact[k].idx > 0 /\ artifact' = [artifact EXCEPT ![k].idx = @ - 1]
    /\ UNCHANGED <<convVars, bare, importVars, posts>>

----------------------------------------------------------------------------
\* Mutant: content is taken where the artifact says it was left out.
MutantPlanAccepts(specs) == TRUE

\* _plan_turn: a turn whose content was left out may carry none.
PlanAccepts(specs) == \A k \in DOMAIN specs : specs[k].omitted => ~specs[k].content

\* A turn that was streaming is imported as interrupted.
PlannedStatus(spec) == IF spec.status \in TerminalTurnStatus THEN spec.status ELSE "interrupted"

\* import_apply: plan the whole artifact, then create the conversation.
ImportBegins(c) ==
    /\ importing = {} /\ PlanAccepts(artifact) /\ Len(turns) + Len(artifact) + MaxPosts - posts <= MaxTurns
    /\ CreateConversation(c)
    /\ importing' = {[into |-> c, turns |-> artifact, next |-> 1, ids |-> << >>, clean |-> ~edited]}
    /\ UNCHANGED <<bare, artifact, edited, imported, refused, posts>>

\* The new id of the parent, if an earlier turn of the artifact has its old one.
Remapped(i, spec) ==
    IF spec.parent = Root THEN {Root}
    ELSE {i.ids[k] : k \in {m \in DOMAIN i.ids : i.turns[m].id = spec.parent}}

GateAccepts(i) ==
    LET spec == i.turns[i.next] IN
    \E p \in Remapped(i, spec) : AppendAllowed(i.into, p, spec.idx)

ImportAppends(i) ==
    /\ i \in importing /\ i.next <= Len(i.turns)
    /\ LET spec == i.turns[i.next] IN
       /\ \E p \in Remapped(i, spec) :
             AppendTurn(i.into, p, spec.idx, spec.role, PlannedStatus(spec), Client)
       /\ bare' = IF spec.content THEN bare ELSE bare \cup {Len(turns')}
    /\ importing' = {[i EXCEPT !.next = @ + 1, !.ids = Append(@, Len(turns'))]}
    /\ UNCHANGED <<artifact, edited, imported, refused, posts>>

\* The rollback: delete_conversation purges all records; a conversation the browser has
\* deleted meanwhile is past deleting.
RolledBack(c) ==
    IF Listable(c) THEN DeleteConversation(c, "erase") ELSE UNCHANGED convVars

ImportRefused(i) ==
    /\ i \in importing /\ i.next <= Len(i.turns) /\ ~GateAccepts(i)
    /\ RolledBack(i.into)
    /\ importing' = {} /\ refused' = refused \cup {i.into}
    /\ UNCHANGED <<bare, artifact, edited, imported, posts>>

ImportEnds(i) ==
    /\ i \in importing /\ i.next > Len(i.turns)
    /\ importing' = {} /\ imported' = imported \cup {i}
    /\ UNCHANGED <<convVars, bare, artifact, edited, refused, posts>>

----------------------------------------------------------------------------
\* The browser's own requests; it names the sibling index itself.
BrowserPosts(c) ==
    /\ posts < MaxPosts /\ posts' = posts + 1
    /\ \E p \in OwnTurns(c) \cup {Root}, post \in Post :
          /\ \E i \in 0 .. 1 : AppendTurn(c, p, i, "user", post.status, Client)
          /\ bare' = IF post.bare THEN bare \cup {Len(turns')} ELSE bare
    /\ UNCHANGED <<artifact, edited, importVars>>

BrowserMoves(c) ==
    /\ \/ ArchiveConversation(c)
       \/ \E mode \in {"tombstone", "erase"} : DeleteConversation(c, mode)
    /\ UNCHANGED <<bare, artifact, edited, importVars, posts>>

\* A source is created by its owner, and may expire; an import sets no expiry.
SourceMoves(c) ==
    /\ CreateConversation(c) \/ EnforceRetention({c})
    /\ UNCHANGED <<bare, artifact, edited, importVars, posts>>

\* The hub stops: an import in progress is forgotten, the rows are opened again.
TransferStops ==
    /\ RecoverConversations
    /\ importing' = {}
    /\ UNCHANGED <<bare, artifact, edited, imported, refused, posts>>

TransfersNext ==
    \/ \E c \in Original : Export(c) \/ SourceMoves(c)
    \/ EditArtifact
    \/ \E c \in Copies : ImportBegins(c)
    \/ \E i \in importing : ImportAppends(i) \/ ImportRefused(i) \/ ImportEnds(i)
    \/ \E c \in Original \cup Copies : BrowserPosts(c) \/ BrowserMoves(c)
    \/ TransferStops

TransfersSpec == TransfersInit /\ [][TransfersNext]_transferVars

----------------------------------------------------------------------------
\* An import answered with success has replayed every turn of its artifact under its
\* own parent and index, whatever else happened to the conversation meanwhile, and no
\* content the artifact had left out.
ImportedWhole ==
    \A i \in imported :
        /\ Len(i.ids) = Len(i.turns)
        /\ \A k \in DOMAIN i.turns :
              LET spec == i.turns[k]
                  t == turns[i.ids[k]]
              IN /\ t.conv = i.into /\ t.idx = spec.idx /\ t.role = spec.role
                 /\ t.status # "streaming"
                 /\ t.parent = Root <=> spec.parent = Root
                 /\ \A m \in DOMAIN i.turns :
                       i.turns[m].id = spec.parent => t.parent = i.ids[m]
                 /\ spec.omitted => ~HasContent(i.ids[k])

\* A refused import leaves no conversation behind, or only the tombstone of one the
\* browser deleted.
RefusedLeavesNothing == \A c \in refused : conv[c] \in {"deleted", "erased"}

\* An export that nobody edited is refused only if somebody got at the new conversation:
\* it was archived or deleted, or holds a turn that is not the import's.
ExportsImport ==
    \A i \in importing :
        /\ i.clean /\ i.next <= Len(i.turns)
        /\ conv[i.into] = "active" /\ OwnTurns(i.into) = {i.ids[k] : k \in DOMAIN i.ids}
        => GateAccepts(i)

\* Transfers are whole, and what was deleted does not come back through one
\* (conversation_transfer.py:26-34).
TransfersAreWhole == ImportedWhole /\ RefusedLeavesNothing /\ ExportsImport
=============================================================================
