--------------------------- MODULE Conversations ---------------------------
(***************************************************************************)
(* The conversation store (src/workbench/conversation_store.py) and its    *)
(* append gate (conversation_models.py): conversations of one actor and    *)
(* the append-only tree of turns under each.  Every public method of the   *)
(* store runs under one lock, so each operation here is one step.  Turns   *)
(* are numbered in the order they are appended, so a turn's parent always  *)
(* has a smaller number; text, titles, tags and hashes are left out.       *)
(***************************************************************************)
EXTENDS Naturals, Sequences, FiniteSets

CONSTANTS Conv,          \* conversations of the one actor modelled
          MaxTurns,      \* bound on the turns ever appended
          Writer         \* who may write turns: the chat streams and Client

CONSTANT Client          \* the writer of a turn posted by the browser itself

ASSUME ConversationAssumption == MaxTurns \in Nat /\ Client \in Writer

VARIABLES conv,          \* the conversation rows: their status
          turns          \* every turn row ever appended, oldest first

convVars == <<conv, turns>>

Root == 0                \* the null parent of a conversation's first turn

ConvStatus == {"absent", "active", "archived", "pendingTombstone", "pendingErase",
               "deleted", "erased"}
TerminalTurnStatus == {"complete", "interrupted", "cancelled", "failed"}
TurnStatus == {"streaming"} \cup TerminalTurnStatus
Role == {"user", "assistant"}

Turn == [conv : Conv, parent : 0 .. MaxTurns, idx : 0 .. MaxTurns, role : Role,
         status : TurnStatus, purged : BOOLEAN, by : Writer]

Listable(c) == conv[c] \in {"active", "archived"}

\* The rows of the conversation; purge_all_records pops them.
OwnTurns(c) == {t \in DOMAIN turns : turns[t].conv = c /\ conv[c] # "erased"}

Children(c, p) == {t \in OwnTurns(c) : turns[t].parent = p}

Taken(c, p) == {turns[t].idx : t \in Children(c, p)}

\* _next_sibling_index and _send_lineage: one above the highest index taken.
NextSibling(c, p) ==
    IF Taken(c, p) = {} THEN 0
    ELSE 1 + CHOOSE i \in Taken(c, p) : \A j \in Taken(c, p) : j <= i

LastChild(c, p) ==
    CHOOSE t \in Children(c, p) : \A u \in Children(c, p) : turns[u].idx <= turns[t].idx

\* The last turn of _lineage_order's pre-order: from the root, always into the
\* child of the highest sibling index.
Tip(c) ==
    LET last[p \in 0 .. MaxTurns] ==
            IF Children(c, p) = {} THEN p ELSE last[LastChild(c, p)]
    IN  last[Root]

----------------------------------------------------------------------------
(* The append gate and the appends.                                        *)

\* Mutant: a second root is not refused.
MutantAppendAllowed(c, p, i) ==
    /\ conv[c] = "active"
    /\ p = Root \/ p \in OwnTurns(c)
    /\ i \notin Taken(c, p)

\* Mutant: the conversation's status is not asked for.
LateAppendAllowed(c, p, i) ==
    /\ conv[c] # "absent"
    /\ IF p = Root THEN Children(c, Root) = {} ELSE p \in OwnTurns(c)
    /\ i \notin Taken(c, p)

AppendAllowed(c, p, i) ==
    /\ conv[c] = "active"
    /\ IF p = Root THEN Children(c, Root) = {} ELSE p \in OwnTurns(c)
    /\ i \notin Taken(c, p)

NewTurn(c, p, i, role, status, by) ==
    [conv |-> c, parent |-> p, idx |-> i, role |-> role, status |-> status,
     purged |-> FALSE, by |-> by]

HasRoom == Len(turns) < MaxTurns

AppendTurn(c, p, i, role, status, by) ==
    /\ HasRoom
    /\ AppendAllowed(c, p, i)
    /\ turns' = Append(turns, NewTurn(c, p, i, role, status, by))
    /\ UNCHANGED conv

BranchTurn(c, p, role, status, by) ==
    /\ p \in OwnTurns(c)
    /\ AppendTurn(c, p, NextSibling(c, p), role, status, by)

RetryTurn(c, t, role, status, by) ==
    /\ t \in OwnTurns(c) /\ turns[t].parent # Root
    /\ BranchTurn(c, turns[t].parent, role, status, by)

\* What advance_turn_status demands of the turn.
MayAdvance(t) ==
    /\ Listable(turns[t].conv)
    /\ ~turns[t].purged
    /\ turns[t].status = "streaming"

AdvanceTurn(t, status) ==
    /\ MayAdvance(t)
    /\ turns' = [turns EXCEPT ![t].status = status]
    /\ UNCHANGED conv

----------------------------------------------------------------------------
(* The conversation's own life: create, archive, delete, expire, recover.  *)

CreateConversation(c) ==
    /\ conv[c] = "absent"
    /\ conv' = [conv EXCEPT ![c] = "active"]
    /\ UNCHANGED turns

ArchiveConversation(c) ==
    /\ conv[c] = "active"
    /\ conv' = [conv EXCEPT ![c] = "archived"]
    /\ UNCHANGED turns

UnarchiveConversation(c) ==
    /\ conv[c] = "archived"
    /\ conv' = [conv EXCEPT ![c] = "active"]
    /\ UNCHANGED turns

\* A streaming turn is finalized as interrupted before its content is purged.
Purged(turn) ==
    [turn EXCEPT !.purged = TRUE,
                 !.status = IF @ = "streaming" THEN "interrupted" ELSE @]

PurgedTurns(S) == [t \in DOMAIN turns |-> IF t \in S THEN Purged(turns[t]) ELSE turns[t]]

Pending(mode) == IF mode = "tombstone" THEN "pendingTombstone" ELSE "pendingErase"

Completed(status) ==
    CASE status = "pendingTombstone" -> "deleted"
      [] status = "pendingErase" -> "erased"
      [] status \notin {"pendingTombstone", "pendingErase"} -> status

\* _complete_deletion for every conversation of D.
CompleteDeletion(D, status) ==
    /\ turns' = PurgedTurns({t \in DOMAIN turns : turns[t].conv \in D})
    /\ conv' = [c \in Conv |-> IF c \in D THEN Completed(status[c]) ELSE conv[c]]

DeleteConversation(c, mode) ==
    /\ Listable(c)
    /\ CompleteDeletion({c}, [conv EXCEPT ![c] = Pending(mode)])

\* The hub stops inside delete_conversation: the pending status is stored and
\* the oldest turns up to "last" are purged.
DeletionCutShort(c, mode, last) ==
    /\ Listable(c)
    /\ conv' = [conv EXCEPT ![c] = Pending(mode)]
    /\ turns' = PurgedTurns({t \in DOMAIN turns : turns[t].conv = c /\ t <= last})

\* enforce_retention at an instant at which the conversations E have expired.
EnforceRetention(E) ==
    /\ E # {} /\ \A c \in E : Listable(c)
    /\ CompleteDeletion(E, [c \in Conv |-> "pendingTombstone"])

\* Opening the store over the rows of a stopped hub: recover_streaming_turns,
\* then every pending deletion is completed.
RecoverConversations ==
    LET pending == {c \in Conv : conv[c] \in {"pendingTombstone", "pendingErase"}}
        recovered(turn) ==
            IF turn.status = "streaming" THEN [turn EXCEPT !.status = "interrupted"] ELSE turn
    IN  /\ turns' = [t \in DOMAIN turns |->
                        IF turns[t].conv \in pending THEN Purged(turns[t])
                                                     ELSE recovered(turns[t])]
        /\ conv' = [c \in Conv |-> Completed(conv[c])]

ConversationsInit ==
    /\ conv = [c \in Conv |-> "absent"]
    /\ turns = << >>

----------------------------------------------------------------------------

ConversationsTypeOK ==
    /\ conv \in [Conv -> ConvStatus]
    /\ turns \in Seq(Turn)
    /\ Len(turns) <= MaxTurns

\* A history can always be read back (_lineage_order): the turns of one
\* conversation form one tree, with one root, no dangling parent and no two
\* siblings of one index, whatever was appended from a stale read of it.
HistoryReadable ==
    \A t \in DOMAIN turns :
        /\ turns[t].parent < t
        /\ turns[t].parent # Root => turns[turns[t].parent].conv = turns[t].conv
        /\ \A u \in DOMAIN turns :
              /\ u # t
              /\ turns[u].conv = turns[t].conv
              /\ turns[u].parent = turns[t].parent
              => /\ turns[t].parent # Root
                 /\ turns[u].idx # turns[t].idx

\* A deleted or expired conversation keeps no content and no turn that could
\* still be advanced, even when the hub stopped inside the deletion and even
\* while streams that were writing to it are still running.
DeletedIsFinal ==
    \A t \in DOMAIN turns :
        conv[turns[t].conv] \in {"deleted", "erased"} =>
            turns[t].purged /\ turns[t].status # "streaming"
============================================================================
